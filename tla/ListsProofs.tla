---------------------------- MODULE ListsProofs ----------------------------
(***************************************************************************)
(* Proofs about two lists that are kept under one lock together with       *)
(* something that has to agree with them: g_exec_list of gromox-timer with *)
(* the lines of its file, and g_threads_data_list of the elastic pool of   *)
(* threads with its counter; for any number of clients, restarts and       *)
(* rewritings of the file, and any number of threads, contexts and limits. *)
(***************************************************************************)
EXTENDS Timer, ThreadsPool, SequenceTheorems, FiniteSetTheorems, FunctionTheorems,
        WellFoundedInduction, TLAPS

-----------------------------------------------------------------------------
(* Sequences without repetitions.                                          *)

Injective(q) == \A i, j \in 1..Len(q) : q[i] = q[j] => i = j

LEMMA RemoveAtFacts ==
    ASSUME NEW S, NEW q \in Seq(S), Injective(q), NEW i \in 1..Len(q)
    PROVE  /\ RemoveAt(q, i) \in Seq(S)
           /\ Injective(RemoveAt(q, i))
           /\ ToSet(RemoveAt(q, i)) = ToSet(q) \ {q[i]}
<1> DEFINE r == RemoveAt(q, i)
<1>1. /\ r \in Seq(S) /\ Len(r) = Len(q) - 1
      /\ \A j \in 1..Len(q)-1 : r[j] = IF j < i THEN q[j] ELSE q[j+1]
  <2> DEFINE a == SubSeq(q, 1, i - 1)
             b == SubSeq(q, i + 1, Len(q))
  <2>1. /\ a \in Seq(S) /\ Len(a) = i - 1
        /\ \A j \in 1..i-1 : a[j] = q[j]
    BY SubSeqProperties
  <2>2. /\ b \in Seq(S) /\ Len(b) = Len(q) - i
        /\ \A j \in 1..Len(q)-i : b[j] = q[i + j]
    OBVIOUS
  <2> HIDE DEF a, b
  <2>3. /\ a \o b \in Seq(S) /\ Len(a \o b) = Len(a) + Len(b)
        /\ \A j \in 1 .. Len(a) + Len(b) :
               (a \o b)[j] = IF j <= Len(a) THEN a[j] ELSE b[j - Len(a)]
    BY <2>1, <2>2, ConcatProperties
  <2>4. ASSUME NEW j \in 1..Len(q)-1
        PROVE  (a \o b)[j] = IF j < i THEN q[j] ELSE q[j+1]
    <3>1. CASE j < i
        BY <2>1, <2>2, <2>3, <3>1
    <3>2. CASE ~(j < i)
      <4>1. j - Len(a) \in 1..Len(q)-i /\ i + (j - Len(a)) = j + 1
        BY <2>1, <2>2, <3>2
      <4>2. (a \o b)[j] = b[j - Len(a)]
        BY <2>1, <2>2, <2>3, <3>2
      <4>3. b[j - Len(a)] = q[j+1]
        BY <2>2, <4>1
      <4> QED
        BY <3>2, <4>2, <4>3
    <3> QED
        BY <3>1, <3>2
  <2>5. r = a \o b
    BY DEF RemoveAt, a, b
  <2>6. Len(a \o b) = Len(q) - 1
    BY <2>1, <2>2, <2>3
  <2> HIDE DEF r
  <2> QED
    BY <2>3, <2>4, <2>5, <2>6
<1> HIDE DEF r
<1>2. Injective(r)
  <2> SUFFICES ASSUME NEW j \in 1..Len(r), NEW l \in 1..Len(r), r[j] = r[l]
               PROVE  j = l
    BY DEF Injective
  <2>1. PICK a \in 1..Len(q) : a = IF j < i THEN j ELSE j + 1
    BY <1>1
  <2>2. PICK b \in 1..Len(q) : b = IF l < i THEN l ELSE l + 1
    BY <1>1
  <2>3. r[j] = q[a] /\ r[l] = q[b]
    BY <1>1, <2>1, <2>2
  <2>4. a = b
    BY <2>3 DEF Injective
  <2> QED
    BY <2>1, <2>2, <2>4
<1>3. ASSUME NEW x \in ToSet(r) PROVE x \in ToSet(q) \ {q[i]}
  <2>1. PICK j \in 1..Len(r) : x = r[j]
    BY <1>3 DEF ToSet
  <2>2. PICK a \in 1..Len(q) : a = IF j < i THEN j ELSE j + 1
    BY <1>1
  <2>3. x = q[a] /\ a # i
    BY <1>1, <2>1, <2>2
  <2>4. q[a] # q[i]
    BY <2>3 DEF Injective
  <2> QED
    BY <2>3, <2>4 DEF ToSet
<1>4. ASSUME NEW x \in ToSet(q) \ {q[i]} PROVE x \in ToSet(r)
  <2>1. PICK j \in 1..Len(q) : q[j] = x /\ j # i
    BY DEF ToSet
  <2>2. CASE j < i
    BY <1>1, <2>1, <2>2 DEF ToSet
  <2>3. CASE j > i
    <3>1. PICK l \in 1..Len(r) : l = j - 1
        BY <1>1, <2>1, <2>3
    <3>2. r[l] = x
        BY <1>1, <2>1, <2>3, <3>1
    <3> QED BY <3>2 DEF ToSet
  <2> QED BY <2>1, <2>2, <2>3
<1> QED
    BY <1>1, <1>2, <1>3, <1>4 DEF r

LEMMA EraseFacts ==
    ASSUME NEW S, NEW q \in Seq(S), Injective(q), NEW k
    PROVE  /\ RemoveFirst(q, k) \in Seq(S)
           /\ Injective(RemoveFirst(q, k))
           /\ ToSet(RemoveFirst(q, k)) = ToSet(q) \ {k}
<1>1. CASE k \in ToSet(q)
  <2>1. PICK i \in 1..Len(q) : q[i] = k
    BY <1>1 DEF ToSet
  <2>2. {j \in 1..Len(q) : q[j] = k} = {i}
    BY <2>1 DEF Injective
  <2>3. Min({i}) = i
    BY DEF Min
  <2>4. RemoveFirst(q, k) = RemoveAt(q, Min({j \in 1..Len(q) : q[j] = k}))
    BY <2>1, <2>2 DEF RemoveFirst, SelectInSeq
  <2>5. RemoveFirst(q, k) = RemoveAt(q, i)
    BY <2>2, <2>3, <2>4
  <2>6. /\ RemoveAt(q, i) \in Seq(S) /\ Injective(RemoveAt(q, i))
        /\ ToSet(RemoveAt(q, i)) = ToSet(q) \ {q[i]}
    BY RemoveAtFacts
  <2> QED
    BY <2>1, <2>5, <2>6
<1>2. CASE k \notin ToSet(q)
  <2>1. ~\E i \in 1..Len(q) : q[i] = k
    BY <1>2 DEF ToSet
  <2>2. RemoveFirst(q, k) = q
    BY <2>1 DEF RemoveFirst
  <2> QED
    BY <1>2, <2>2
<1> QED
    BY <1>1, <1>2

LEMMA AppendFacts ==
    ASSUME NEW S, NEW q \in Seq(S), NEW x \in S
    PROVE  /\ Append(q, x) \in Seq(S) /\ Len(Append(q, x)) = Len(q) + 1
           /\ ToSet(Append(q, x)) = ToSet(q) \cup {x}
           /\ Injective(q) /\ x \notin ToSet(q) => Injective(Append(q, x))
<1> DEFINE r == Append(q, x)
<1>1. /\ r \in Seq(S) /\ Len(r) = Len(q) + 1
      /\ \A i \in 1..Len(q) : r[i] = q[i]
      /\ r[Len(q) + 1] = x
    OBVIOUS
<1> HIDE DEF r
<1>2. ToSet(r) = ToSet(q) \cup {x}
  <2>1. \A i \in 1..Len(r) : i \in 1..Len(q) \/ i = Len(q) + 1
    BY <1>1
  <2>2. Len(q) + 1 \in 1..Len(r) /\ \A i \in 1..Len(q) : i \in 1..Len(r)
    BY <1>1
  <2> QED
    BY <1>1, <2>1, <2>2 DEF ToSet
<1>3. Injective(q) /\ x \notin ToSet(q) => Injective(r)
    BY <1>1 DEF Injective, ToSet
<1> QED
    BY <1>1, <1>2, <1>3 DEF r

LEMMA CountElements ==
    ASSUME NEW S, NEW q \in Seq(S), Injective(q)
    PROVE  Cardinality(ToSet(q)) = Len(q)
<1> DEFINE D == 1..Len(q)
<1>1. q \in [D -> S] /\ Len(q) \in Nat /\ ToSet(q) = {q[i] : i \in D}
    BY DEF ToSet
<1>2. IsFiniteSet(D) /\ Cardinality(D) = Len(q)
  <2>1. /\ IsFiniteSet(1..Len(q))
        /\ Cardinality(1..Len(q)) = IF 1 > Len(q) THEN 0 ELSE Len(q) - 1 + 1
    BY <1>1, FS_Interval, SMTT(30)
  <2> QED
    BY <1>1, <2>1
<1>3. q \in Bijection(D, ToSet(q))
    BY <1>1 DEF Injective, Bijection, Injection, Surjection, IsInjective
<1>4. ExistsBijection(D, ToSet(q))
    BY <1>3 DEF ExistsBijection
<1> QED
    BY <1>2, <1>4, FS_Bijection

-----------------------------------------------------------------------------
(* Numbers.                                                                *)

\* The smallest of a set of numbers.
LEMMA Smallest ==
    ASSUME NEW I \in SUBSET Nat, I # {}
    PROVE  \E m \in I : \A y \in I : m <= y
<1>1. \E m \in I : \A j \in I : <<j, m>> \notin OpToRel(<, Nat)
    BY WFMin, NatLessThanWellFounded, Zenon
<1>2. \E m \in I : \A j \in I : ~(j < m)
    BY <1>1, Zenon DEF OpToRel
<1> QED
    BY <1>2

LEMMA MinFacts ==
    ASSUME NEW I \in SUBSET Nat, I # {}
    PROVE  Min(I) \in I /\ \A y \in I : Min(I) <= y
<1>1. \E m \in I : \A y \in I : m <= y
    BY Smallest
<1> QED
    BY <1>1 DEF Min

\* The largest, of a set with a bound.
LEMMA MaxFacts ==
    ASSUME NEW I \in SUBSET Nat, I # {}, NEW n \in Nat, \A y \in I : y <= n
    PROVE  Max(I) \in I /\ \A y \in I : y <= Max(I)
<1> DEFINE U == {b \in Nat : \A y \in I : y <= b}
<1>1. PICK b \in U : \A c \in U : b <= c
  <2>1. n \in U
    OBVIOUS
  <2> HIDE DEF U
  <2>2. U \in SUBSET Nat
    BY DEF U
  <2> QED
    BY <2>1, <2>2, Smallest
<1>2. b \in I
  <2> SUFFICES ASSUME b \notin I PROVE FALSE
    OBVIOUS
  <2>1. \A y \in I : y < b
    BY <1>1
  <2>2. PICK y \in I : TRUE
    OBVIOUS
  <2>3. b - 1 \in Nat /\ \A z \in I : z <= b - 1
    BY <1>1, <2>1, <2>2
  <2>4. b - 1 \in U
    BY <2>3
  <2>5. b <= b - 1 /\ b \in Nat
    BY <1>1, <2>4
  <2> QED
    BY <2>5
<1>3. \E m \in I : \A y \in I : m >= y
    BY <1>1, <1>2
<1>4. Max(I) \in I /\ \A y \in I : Max(I) >= y
    BY <1>3 DEF Max
<1> QED
    BY <1>4

\* Induction, for a set of numbers.
LEMMA SetInduction ==
    ASSUME NEW P, 0 \in P, \A k \in Nat : k \in P => k + 1 \in P
    PROVE  \A n \in Nat : n \in P
<1> DEFINE Bad == {n \in Nat : n \notin P}
<1> SUFFICES ASSUME Bad # {} PROVE FALSE
    OBVIOUS
<1>1. PICK n \in Bad : \A j \in Bad : n <= j
  <2>1. Bad \in SUBSET Nat
    OBVIOUS
  <2> HIDE DEF Bad
  <2> QED
    BY <2>1, Smallest
<1>2. PICK m \in Nat : n = m + 1
    BY <1>1
<1>3. m \in P
    BY <1>1, <1>2
<1> QED
    BY <1>1, <1>2, <1>3

-----------------------------------------------------------------------------
(* More about sequences without repetitions.                               *)

LEMMA InsertAtFacts ==
    ASSUME NEW S, NEW q \in Seq(S), NEW i \in 1..Len(q), NEW x \in S
    PROVE  /\ InsertAt(q, i, x) \in Seq(S)
           /\ Injective(q) /\ x \notin ToSet(q) => Injective(InsertAt(q, i, x))
           /\ ToSet(InsertAt(q, i, x)) = ToSet(q) \cup {x}
<1> DEFINE r == InsertAt(q, i, x)
<1>1. /\ r \in Seq(S) /\ Len(r) = Len(q) + 1
      /\ \A j \in 1..Len(q)+1 : r[j] = IF j < i THEN q[j] ELSE IF j = i THEN x ELSE q[j-1]
  <2> DEFINE a == SubSeq(q, 1, i - 1)
             e == <<x>>
             b == SubSeq(q, i, Len(q))
  <2>1. /\ a \in Seq(S) /\ Len(a) = i - 1
        /\ \A j \in 1..i-1 : a[j] = q[j]
    BY SubSeqProperties
  <2>2. /\ b \in Seq(S) /\ Len(b) = Len(q) - i + 1
        /\ \A j \in 1..Len(q)-i+1 : b[j] = q[i + j - 1]
    BY SubSeqProperties
  <2>3. e \in Seq(S) /\ Len(e) = 1 /\ e[1] = x
    OBVIOUS
  <2>4. r = (a \o e) \o b
    BY DEF InsertAt, a, b, e
  <2> HIDE DEF a, b, e, r
  <2> DEFINE c == a \o e
  <2>5. /\ c \in Seq(S) /\ Len(c) = i
        /\ \A j \in 1..i-1 : c[j] = q[j]
        /\ c[i] = x
    <3>1. /\ c \in Seq(S) /\ Len(c) = Len(a) + Len(e)
          /\ \A j \in 1 .. Len(a) + Len(e) : c[j] = IF j <= Len(a) THEN a[j] ELSE e[j - Len(a)]
        BY <2>1, <2>3, ConcatProperties
    <3>2. i - Len(a) = 1 /\ i \in 1 .. Len(a) + Len(e) /\ ~(i <= Len(a))
        BY <2>1, <2>3
    <3> HIDE DEF c
    <3> QED
        BY <2>1, <2>3, <3>1, <3>2
  <2>6. r = c \o b
    BY <2>4
  <2> HIDE DEF c
  <2>7. /\ r \in Seq(S) /\ Len(r) = Len(c) + Len(b)
        /\ \A j \in 1 .. Len(c) + Len(b) : r[j] = IF j <= Len(c) THEN c[j] ELSE b[j - Len(c)]
    BY <2>2, <2>5, <2>6, ConcatProperties
  <2>8. Len(r) = Len(q) + 1
    BY <2>2, <2>5, <2>7
  <2>9. ASSUME NEW j \in 1..Len(q)+1
        PROVE  r[j] = IF j < i THEN q[j] ELSE IF j = i THEN x ELSE q[j-1]
    <3>1. CASE j <= i
        BY <2>2, <2>5, <2>7, <3>1
    <3>2. CASE j > i
      <4>1. j - i \in 1..Len(q)-i+1 /\ i + (j - i) - 1 = j - 1
        BY <3>2
      <4>2. r[j] = b[j - i]
        BY <2>2, <2>5, <2>7, <3>2
      <4>3. b[j - i] = q[j - 1]
        BY <2>2, <4>1
      <4> QED
        BY <3>2, <4>2, <4>3
    <3> QED
        BY <3>1, <3>2
  <2> QED
    BY <2>7, <2>8, <2>9
<1> HIDE DEF r
<1>2. ASSUME Injective(q), x \notin ToSet(q) PROVE Injective(r)
  <2> SUFFICES ASSUME NEW j \in 1..Len(r), NEW l \in 1..Len(r), r[j] = r[l]
               PROVE  j = l
    BY DEF Injective
  <2>1. \A m \in 1..Len(q) : q[m] # x
    BY <1>2 DEF ToSet
  <2>2. ASSUME NEW m \in 1..Len(r), m # i
        PROVE  \E a \in 1..Len(q) : a = (IF m < i THEN m ELSE m - 1) /\ r[m] = q[a]
    BY <1>1, <2>2
  <2>3. r[i] = x /\ i \in 1..Len(r)
    BY <1>1
  <2>4. CASE j = i \/ l = i
    BY <2>1, <2>2, <2>3, <2>4
  <2>5. CASE j # i /\ l # i
    <3>1. PICK a \in 1..Len(q) : a = (IF j < i THEN j ELSE j - 1) /\ r[j] = q[a]
        BY <2>2, <2>5
    <3>2. PICK b \in 1..Len(q) : b = (IF l < i THEN l ELSE l - 1) /\ r[l] = q[b]
        BY <2>2, <2>5
    <3>3. a = b
        BY <1>2, <3>1, <3>2 DEF Injective
    <3> QED
        BY <2>5, <3>1, <3>2, <3>3
  <2> QED
    BY <2>4, <2>5
<1>3. ASSUME NEW y \in ToSet(r) PROVE y \in ToSet(q) \cup {x}
  <2>1. PICK j \in 1..Len(r) : y = r[j]
    BY <1>3 DEF ToSet
  <2>2. CASE j = i
    BY <1>1, <2>1, <2>2
  <2>3. CASE j < i
    <3>1. j \in 1..Len(q) /\ y = q[j]
        BY <1>1, <2>1, <2>3
    <3> QED BY <3>1 DEF ToSet
  <2>4. CASE j > i
    <3>1. j - 1 \in 1..Len(q) /\ y = q[j - 1]
        BY <1>1, <2>1, <2>4
    <3> QED BY <3>1 DEF ToSet
  <2> QED BY <2>2, <2>3, <2>4
<1>4. ASSUME NEW y \in ToSet(q) \cup {x} PROVE y \in ToSet(r)
  <2>1. CASE y = x
    <3>1. DOMAIN r = 1..Len(r) /\ i \in 1..Len(r) /\ r[i] = y
        BY <1>1, <2>1
    <3>2. \E j \in DOMAIN r : r[j] = y
        BY <3>1
    <3> QED BY <3>2 DEF ToSet
  <2>2. CASE y \in ToSet(q)
    <3>1. PICK j \in 1..Len(q) : q[j] = y
        BY <2>2 DEF ToSet
    <3>2. PICK a \in 1..Len(r) : a = (IF j < i THEN j ELSE j + 1)
        BY <1>1
    <3>3. r[a] = y
        BY <1>1, <3>1, <3>2
    <3> QED BY <1>1, <3>3 DEF ToSet
  <2> QED BY <2>1, <2>2
<1> QED
    BY <1>1, <1>2, <1>3, <1>4 DEF r

LEMMA TailFacts ==
    ASSUME NEW S, NEW q \in Seq(S), q # <<>>, Injective(q)
    PROVE  /\ Tail(q) \in Seq(S) /\ Head(q) \in S
           /\ Injective(Tail(q))
           /\ ToSet(Tail(q)) = ToSet(q) \ {Head(q)}
           /\ Head(q) \in ToSet(q)
<1>1. Len(q) \in Nat /\ Len(q) # 0
    BY EmptySeq
<1>2. PICK r : r = Tail(q)
    OBVIOUS
<1>3. r \in Seq(S) /\ Len(r) = Len(q) - 1 /\ \A j \in 1..Len(r) : r[j] = q[j + 1]
    BY <1>2, HeadTailProperties
<1>4. Head(q) = q[1] /\ q[1] \in S /\ 1 \in 1..Len(q)
    BY <1>1
<1>5. ASSUME NEW j \in 1..Len(r) PROVE j + 1 \in 1..Len(q) /\ r[j] = q[j + 1] /\ j + 1 # 1
    BY <1>1, <1>3
<1>6. Injective(r)
  <2> SUFFICES ASSUME NEW j \in 1..Len(r), NEW l \in 1..Len(r), r[j] = r[l]
               PROVE  j = l
    BY DEF Injective
  <2>1. j + 1 = l + 1
    BY <1>5 DEF Injective
  <2> QED
    BY <2>1
<1>7. ASSUME NEW y \in ToSet(r) PROVE y \in ToSet(q) \ {Head(q)}
  <2>1. PICK j \in 1..Len(r) : y = r[j]
    BY <1>3, <1>7 DEF ToSet
  <2>2. y = q[j + 1] /\ j + 1 \in 1..Len(q) /\ j + 1 # 1
    BY <1>5, <2>1
  <2>3. q[j + 1] # q[1]
    BY <1>4, <2>2 DEF Injective
  <2> QED
    BY <1>4, <2>2, <2>3 DEF ToSet
<1>8. ASSUME NEW y \in ToSet(q) \ {Head(q)} PROVE y \in ToSet(r)
  <2>1. PICK j \in 1..Len(q) : q[j] = y
    BY <1>8 DEF ToSet
  <2>2. j # 1
    BY <1>4, <1>8, <2>1
  <2>3. PICK a \in 1..Len(r) : a = j - 1
    BY <1>1, <1>3, <2>2
  <2>4. r[a] = y
    BY <1>3, <2>1, <2>3
  <2> QED
    BY <1>3, <2>4 DEF ToSet
<1>9. Head(q) \in ToSet(q)
    BY <1>4 DEF ToSet
<1> QED
    BY <1>2, <1>3, <1>4, <1>6, <1>7, <1>8, <1>9

-----------------------------------------------------------------------------
(***************************************************************************)
(* The timer daemon                                                        *)
(***************************************************************************)

\* Every client asks for one timer, so no more IDs are ever given out than clients
\* have asked, although g_last_tid falls when the file was rewritten before a start.
Asked == {c \in Clients : client[c] # "idle"}
Given(n) == [tid : 0..n, time : 0..MaxTime, of : Clients]

TypedFor(n) ==
    /\ now \in Nat \ {0} /\ (now = 1 \/ now <= MaxTime)
    /\ due \in Nat /\ (due <= 1 \/ due <= MaxTime)
    /\ lastTid \in 0..n
    /\ execList \in Seq(Given(n)) /\ file \in Seq(Given(n)) /\ tmp \in Seq(Given(n))
    /\ fd \in BOOLEAN
    /\ main \in {"sleep", "loop", "record", "remove", "rename"}
    /\ IF main = "record" THEN running \in Given(n) ELSE running = NoTimer
    /\ client \in [Clients -> {"idle", "add", "reply", "told", "done"}]
    /\ ptimer \in [Clients -> Given(n) \cup {NoTimer}]
    /\ \A c \in Clients : IF client[c] = "idle" THEN ptimer[c] = NoTimer ELSE ptimer[c] \in Given(n)
    /\ told \in [Clients -> 0..n]
    /\ cancelled \subseteq Clients
    /\ executed \in [Clients -> Nat] /\ interrupted \in [Clients -> Nat]
    /\ \A c \in Clients : interrupted[c] <= restarts
    /\ unrun \subseteq Clients /\ unlogged \subseteq Clients
    /\ damage \subseteq {"cut", "misput"}
    /\ restarts \in 0..MaxRestarts /\ saves \in 0..MaxSaves /\ faults \in 0..MaxFaults

Typed == TypedFor(Cardinality(Asked))

\* A file as the daemon writes it: an ID has at most one line that is pending and at most
\* one that says it is over, and the latter is not the first of the two.
OneAlive(ls) == \A i, j \in 1..Len(ls) :
    ls[i].time # 0 /\ ls[j].time # 0 /\ ls[i].tid = ls[j].tid => i = j
OneOver(ls) == \A i, j \in 1..Len(ls) :
    ls[i].time = 0 /\ ls[j].time = 0 /\ ls[i].tid = ls[j].tid => i = j
OverLater(ls) == \A i, j \in 1..Len(ls) :
    ls[i].time = 0 /\ ls[j].time # 0 /\ ls[j].tid = ls[i].tid => j < i
Sound(ls) == OneAlive(ls) /\ OneOver(ls) /\ OverLater(ls)

\* The lines without a line that says they are over.
IsOver(ls, tid) == \E k \in 1..Len(ls) : ls[k].time = 0 /\ ls[k].tid = tid
Open(ls) == {ls[i] : i \in {j \in 1..Len(ls) : ls[j].time # 0 /\ ~IsOver(ls, ls[j].tid)}}

\* What the file is or is about to become, and the timers that are not over yet.
Journal == IF main = "rename" THEN tmp ELSE file
Live == ToSet(execList) \cup (IF main = "record" THEN {running} ELSE {})

\* Each line, and each timer, belongs to a client that asked for it.
Waiting == {"idle", "add"}
OwnedLine(t) ==
    /\ client[t.of] \notin Waiting
    /\ t.tid = ptimer[t.of].tid /\ t.tid <= lastTid
Owned(ls) == \A i \in 1..Len(ls) : OwnedLine(ls[i])
Alive ==
    /\ \A t \in Live : OwnedLine(t) /\ t.time # 0
    /\ \A t, u \in Live : t.tid = u.tid => t = u

\* The journal describes the timers, but for those that have a line that was not written.
Agrees(ls) == \A t \in (Open(ls) \ Live) \cup (Live \ Open(ls)) : t.of \in unlogged
Describes(ls) ==
    /\ Sound(ls) /\ Owned(ls)
    /\ \A t \in Live : ~IsOver(ls, t.tid)
    /\ \A t \in Open(ls), u \in Live : t.tid = u.tid => t = u
    /\ Agrees(ls)

Recorded ==
    /\ Alive
    /\ Describes(Journal)
    /\ main = "remove" => Describes(tmp)
    /\ main = "rename" => file = <<>>
    /\ Injective(execList)
    /\ main = "record" => running \notin ToSet(execList)

\* Clients that are about to add their timer have an ID nobody else has, and a client is
\* told its own.
Unused(ls, tid) == \A i \in 1..Len(ls) : ls[i].tid # tid
NewId(tid) ==
    /\ Unused(Journal, tid)
    /\ main = "remove" => Unused(tmp, tid)
    /\ \A t \in Live : t.tid # tid
FreshFor(c) ==
    /\ ptimer[c].of = c /\ ptimer[c].time # 0 /\ ptimer[c].tid <= lastTid
    /\ NewId(ptimer[c].tid)
Fresh ==
    /\ \A c \in Clients : client[c] = "add" => FreshFor(c)
    /\ \A c, d \in Clients :
           client[c] = "add" /\ client[d] = "add" /\ ptimer[c].tid = ptimer[d].tid => c = d
    /\ \A c \in Clients : told[c] = 0 \/ (client[c] \notin Waiting /\ told[c] = ptimer[c].tid)

\* How often a command has been run, while its timer is in the list and after that.
Counted ==
    \A c \in Clients \ unlogged :
        /\ executed[c] <= 1 + interrupted[c]
        /\ client[c] \in Waiting \/ (\E t \in ToSet(execList) : t.of = c) => executed[c] <= interrupted[c]

\* A timer that was cancelled is gone.
Final == \A c \in cancelled \ unlogged : client[c] \notin Waiting /\ \A t \in Live : t.of # c

Orderly == "misput" \notin damage => Recorded /\ Fresh /\ Counted /\ Final
IndInv == Typed /\ Orderly

-----------------------------------------------------------------------------
(* Recursive functions: a step that stays in a set can be iterated.        *)

StepsIn(g, S, n) == \A y \in S : \A k \in 1..n : g[<<y, k>>] \in S
RunOf(h, g, x, S, n) ==
    h \in [0..n -> S] /\ h[0] = x /\ \A k \in 1..n : h[k] = g[<<h[k - 1], k>>]

LEMMA Iteration ==
    ASSUME NEW S, NEW x \in S, NEW g, NEW N \in Nat, StepsIn(g, S, N)
    PROVE  \E h : RunOf(h, g, x, S, N)
<1>s. \A y \in S : \A k \in 1..N : g[<<y, k>>] \in S
    BY DEF StepsIn
<1> DEFINE Q(h, n) == h[0] = x /\ \A k \in 1..n : h[k] = g[<<h[k - 1], k>>]
           P == {n \in Nat : n <= N => \E h \in [0..n -> S] : Q(h, n)}
<1>1. 0 \in P
  <2>1. PICK h : h = [k \in 0..0 |-> x]
    OBVIOUS
  <2>2. h \in [0..0 -> S] /\ h[0] = x /\ 1..0 = {}
    BY <2>1
  <2> QED BY <2>2
<1>2. ASSUME NEW m \in Nat, m \in P PROVE m + 1 \in P
  <2> SUFFICES ASSUME m + 1 <= N PROVE \E h \in [0..m+1 -> S] : Q(h, m + 1)
    OBVIOUS
  <2>1. PICK h \in [0..m -> S] : Q(h, m)
    <3>1. m <= N
        OBVIOUS
    <3> QED BY <1>2, <3>1
  <2>2. PICK n : n = m + 1
    OBVIOUS
  <2>3. PICK y : y = g[<<h[m], n>>]
    OBVIOUS
  <2>4. h[m] \in S /\ n \in 1..N
    BY <2>2
  <2>5. y \in S
    BY <1>s, <2>3, <2>4
  <2>6. PICK H : H = [k \in 0..n |-> IF k = n THEN y ELSE h[k]]
    OBVIOUS
  <2>7. H \in [0..n -> S]
    BY <2>2, <2>5, <2>6
  <2>8. H[n] = y /\ \A k \in 0..m : H[k] = h[k]
    BY <2>2, <2>6
  <2>9. ASSUME NEW k \in 1..n PROVE H[k] = g[<<H[k - 1], k>>]
    <3>1. CASE k = n
      <4>1. k - 1 = m
        BY <2>2, <3>1
      <4>2. H[k - 1] = h[m] /\ H[k] = y
        BY <2>8, <3>1, <4>1
      <4> QED BY <2>3, <3>1, <4>2
    <3>2. CASE k # n
      <4>1. k \in 1..m /\ k - 1 \in 0..m /\ k \in 0..m
        BY <2>2, <3>2
      <4>2. H[k - 1] = h[k - 1] /\ H[k] = h[k]
        BY <2>8, <4>1
      <4> QED BY <2>1, <4>1, <4>2
    <3> QED BY <3>1, <3>2
  <2>10. H[0] = x
    BY <2>1, <2>8
  <2> QED BY <2>2, <2>7, <2>9, <2>10
<1>3. \A n \in Nat : n \in P
  <2> HIDE DEF P
  <2> QED BY <1>1, <1>2, SetInduction
<1> QED BY <1>3 DEF RunOf

-----------------------------------------------------------------------------
(* The list and the file.                                                  *)

LEMMA PutTimerFacts ==
    ASSUME NEW S, NEW q \in Seq(S), NEW t \in S
    PROVE  /\ PutTimer(q, t) \in Seq(S)
           /\ ToSet(PutTimer(q, t)) = ToSet(q) \cup {t}
           /\ Injective(q) /\ t \notin ToSet(q) => Injective(PutTimer(q, t))
           /\ PutTimerResult(q, t) \in S
<1>1. PICK i : i = LaterThan(q, t)
    OBVIOUS
<1>2. i = 0 \/ i \in 1..Len(q)
  <2> DEFINE I == {j \in 1..Len(q) : q[j].time > t.time}
  <2>1. i = IF I # {} THEN Min(I) ELSE 0
    BY <1>1 DEF LaterThan, SelectInSeq
  <2>2. I \in SUBSET Nat /\ I \subseteq 1..Len(q)
    OBVIOUS
  <2> HIDE DEF I
  <2>3. I # {} => Min(I) \in I
    BY <2>2, MinFacts
  <2> QED
    BY <2>1, <2>2, <2>3
<1>3. CASE i = 0
  <2>1. PutTimer(q, t) = Append(q, t) /\ PutTimerResult(q, t) = t
    BY <1>1, <1>3 DEF PutTimer, PutTimerResult
  <2> QED
    BY <2>1, AppendFacts
<1>4. CASE i # 0 /\ i \in 1..Len(q)
  <2>1. PutTimer(q, t) = InsertAt(q, i, t) /\ PutTimerResult(q, t) = q[i]
    BY <1>1, <1>4 DEF PutTimer, PutTimerResult
  <2>2. q[i] \in S
    BY <1>4
  <2> QED
    BY <1>4, <2>1, <2>2, InsertAtFacts
<1> QED
    BY <1>2, <1>3, <1>4

LEMMA OverFacts ==
    ASSUME NEW n \in Nat, NEW t \in Given(n)
    PROVE  /\ Over(t) \in Given(n) /\ Over(t).time = 0 /\ Over(t).tid = t.tid /\ Over(t).of = t.of
           /\ t.time = 0 => Over(t) = t
BY TimerAssumption DEF Given, Over

LEMMA CancelPairType ==
    ASSUME NEW n \in Nat, NEW ls \in Seq(Given(n)), NEW i
    PROVE  CancelPair(ls, i) \in Seq(Given(n)) /\ Len(CancelPair(ls, i)) = Len(ls)
<1> DEFINE same == {j \in DOMAIN ls : j # i /\ ls[j].tid = ls[i].tid}
<1>1. PICK m : m = Min(same)
    OBVIOUS
<1>2. PICK r : r = [ls EXCEPT ![m].time = 0]
    OBVIOUS
<1>3. CancelPair(ls, i) = ls \/ CancelPair(ls, i) = r
    BY <1>1, <1>2 DEF CancelPair
<1>4. r \in Seq(Given(n)) /\ Len(r) = Len(ls)
  <2>1. \A j \in 1..Len(ls) : ls[j] \in Given(n) /\ [ls[j] EXCEPT !.time = 0] \in Given(n)
    BY OverFacts DEF Over
  <2>2. DOMAIN ls = 1..Len(ls)
    OBVIOUS
  <2>3. r = [j \in DOMAIN ls |-> IF j = m THEN [ls[m] EXCEPT !.time = 0] ELSE ls[j]]
    BY <1>2, Zenon
  <2>4. r = [j \in 1..Len(ls) |-> IF j = m THEN [ls[m] EXCEPT !.time = 0] ELSE ls[j]]
    BY <2>2, <2>3
  <2> QED
    BY <2>1, <2>4
<1> QED
    BY <1>3, <1>4

\* CancelPairs goes through the lines: what it has made of each after the first k.
Done(lines, k, i) ==
    lines[i].time # 0 /\ \E m \in 1..k : lines[m].time = 0 /\ lines[m].tid = lines[i].tid
After(lines, k, ls) ==
    /\ Len(ls) = Len(lines)
    /\ \A i \in 1..Len(lines) : ls[i] = IF Done(lines, k, i) THEN Over(lines[i]) ELSE lines[i]

LEMMA CancelPairAfter ==
    ASSUME NEW n \in Nat, NEW lines \in Seq(Given(n)), Sound(lines), NEW k \in 1..Len(lines),
           NEW ls \in Seq(Given(n)), After(lines, k - 1, ls)
    PROVE  After(lines, k, CancelPair(ls, k))
<1>1. /\ Len(ls) = Len(lines) /\ DOMAIN ls = 1..Len(lines)
      /\ \A i \in 1..Len(lines) :
             ls[i] = IF Done(lines, k - 1, i) THEN Over(lines[i]) ELSE lines[i]
    BY DEF After
<1>2. \A i \in 1..Len(lines) : lines[i] \in Given(n) /\ ls[i] \in Given(n)
    BY <1>1
<1>3. \A i \in 1..Len(lines) : ls[i].tid = lines[i].tid
    BY <1>1, <1>2, OverFacts
<1>4. 1..k = (1..(k-1)) \cup {k}
    OBVIOUS
<1>5. CASE lines[k].time # 0
  <2>1. ~Done(lines, k - 1, k)
    <3> SUFFICES ASSUME NEW m \in 1..(k-1), lines[m].time = 0, lines[m].tid = lines[k].tid
                 PROVE  FALSE
        BY DEF Done
    <3>0. m \in 1..Len(lines) /\ m < k /\ ~(k < m)
        OBVIOUS
    <3> QED
        BY <1>5, <3>0 DEF Sound, OverLater
  <2>2. ls[k].time # 0
    BY <1>1, <1>5, <2>1
  <2>3. CancelPair(ls, k) = ls
    BY <2>2 DEF CancelPair
  <2>4. \A i \in 1..Len(lines) : Done(lines, k, i) <=> Done(lines, k - 1, i)
    BY <1>4, <1>5 DEF Done
  <2> QED
    BY <1>1, <2>3, <2>4 DEF After
<1>6. CASE lines[k].time = 0
  <2>1. ls[k] = lines[k]
    BY <1>1, <1>6 DEF Done
  <2> DEFINE same == {l \in DOMAIN ls : l # k /\ ls[l].tid = ls[k].tid}
  <2>2. CancelPair(ls, k) = IF ls[k].time # 0 \/ same = {} THEN ls ELSE [ls EXCEPT ![Min(same)].time = 0]
    BY DEF CancelPair
  <2>3. \A l : l \in same <=> l \in 1..Len(lines) /\ l # k /\ lines[l].tid = lines[k].tid
    BY <1>1, <1>3
  <2>4. \A l \in 1..Len(lines) : l # k /\ lines[l].tid = lines[k].tid => lines[l].time # 0
    BY <1>6 DEF Sound, OneOver
  <2> HIDE DEF same
  <2>5. CASE same = {}
    <3>1. \A i \in 1..Len(lines) : Done(lines, k, i) <=> Done(lines, k - 1, i)
        BY <1>4, <1>6, <2>3, <2>5 DEF Done
    <3> QED
        BY <1>1, <2>2, <2>5, <3>1 DEF After
  <2>6. CASE same # {}
    <3>1. PICK j \in 1..Len(lines) : j # k /\ lines[j].tid = lines[k].tid /\ lines[j].time # 0
        BY <2>3, <2>4, <2>6
    <3>2. same = {j}
        BY <2>3, <2>4, <3>1 DEF Sound, OneAlive
    <3>3. Min(same) = j
        BY <3>2 DEF Min
    <3>4. PICK r : r = [ls EXCEPT ![j].time = 0]
        OBVIOUS
    <3>5. CancelPair(ls, k) = r
        BY <1>6, <2>1, <2>2, <2>6, <3>3, <3>4
    <3>6. r = [l \in DOMAIN ls |-> IF l = j THEN Over(ls[j]) ELSE ls[l]]
        BY <3>4, Zenon DEF Over
    <3>7. Over(ls[j]) = Over(lines[j])
      <4>1. ls[j] = lines[j] \/ ls[j] = Over(lines[j])
        BY <1>1
      <4>2. Over(Over(lines[j])) = Over(lines[j])
        BY <1>2, OverFacts
      <4> QED
        BY <4>1, <4>2
    <3>8. Len(r) = Len(lines)
        BY <1>1, <3>5, CancelPairType
    <3>9. ASSUME NEW i \in 1..Len(lines)
          PROVE  r[i] = IF Done(lines, k, i) THEN Over(lines[i]) ELSE lines[i]
      <4>1. CASE i = j
        <5>1. Done(lines, k, j)
            BY <1>6, <3>1 DEF Done
        <5> QED
            BY <1>1, <3>6, <3>7, <4>1, <5>1
      <4>2. CASE i # j
        <5>1. lines[i].time # 0 => lines[i].tid # lines[k].tid
            BY <3>1, <4>2 DEF Sound, OneAlive
        <5>2. Done(lines, k, i) <=> Done(lines, k - 1, i)
            BY <1>4, <5>1 DEF Done
        <5>3. r[i] = ls[i]
            BY <1>1, <3>6, <4>2
        <5> QED
            BY <1>1, <5>2, <5>3
      <4> QED
        BY <4>1, <4>2
    <3> QED
        BY <3>5, <3>8, <3>9 DEF After
  <2> QED
    BY <2>5, <2>6
<1> QED
    BY <1>5, <1>6

\* The function that CancelPairs defines by recursion.
CancelSteps(f, lines) ==
    /\ DOMAIN f = 0..Len(lines) /\ f[0] = lines
    /\ \A k \in 1..Len(lines) : f[k] = CancelPair(f[k - 1], k)
    /\ CancelPairs(lines) = f[Len(lines)]

LEMMA CancelRun ==
    ASSUME NEW n \in Nat, NEW lines \in Seq(Given(n))
    PROVE  \E f : CancelSteps(f, lines)
<1>0. PICK S : S = Seq(Given(n))
    OBVIOUS
<1>1. PICK N \in Nat : N = Len(lines)
    OBVIOUS
<1> DEFINE E(f) == f = [i \in 0..N |-> IF i = 0 THEN lines ELSE CancelPair(f[i - 1], i)]
<1>2. PICK g : g = [p \in S \X (1..N) |-> CancelPair(p[1], p[2])]
    OBVIOUS
<1>3. \A y \in S : \A k \in 1..N : g[<<y, k>>] = CancelPair(y, k)
    BY <1>2
<1>4. StepsIn(g, S, N)
  <2>1. ASSUME NEW y \in S, NEW k \in 1..N PROVE CancelPair(y, k) \in S
    BY <1>0, CancelPairType
  <2> QED
    BY <1>3, <2>1 DEF StepsIn
<1>5. PICK h : RunOf(h, g, lines, S, N)
    BY <1>0, <1>4, Iteration
<1>6. /\ h \in [0..N -> S] /\ h[0] = lines
      /\ \A k \in 1..N : h[k] = CancelPair(h[k - 1], k)
  <2>1. /\ h \in [0..N -> S] /\ h[0] = lines
        /\ \A k \in 1..N : h[k] = g[<<h[k - 1], k>>]
    BY <1>5 DEF RunOf
  <2>2. \A k \in 1..N : h[k - 1] \in S
    BY <2>1
  <2> QED
    BY <1>3, <2>1, <2>2
<1>7. E(h)
    BY <1>6
<1>8. E(CHOOSE f : E(f))
  <2> HIDE DEF E
  <2> QED BY <1>7, Zenon
<1>9. PICK f : f = CHOOSE e : E(e)
    OBVIOUS
<1>10. E(f)
    BY <1>8, <1>9
<1>11. CancelPairs(lines) = f[N]
    BY <1>1, <1>9 DEF CancelPairs
<1>12. \A i \in 0..N : f[i] = IF i = 0 THEN lines ELSE CancelPair(f[i - 1], i)
    BY <1>10, Zenon
<1>13. DOMAIN f = 0..N
    BY <1>10, Zenon
<1>14. 0 \in 0..N /\ \A k \in 1..N : k \in 0..N /\ k # 0
    OBVIOUS
<1> HIDE DEF E
<1>15. f[0] = lines /\ \A k \in 1..N : f[k] = CancelPair(f[k - 1], k)
    BY <1>12, <1>14
<1> QED
    BY <1>1, <1>11, <1>13, <1>15 DEF CancelSteps

LEMMA CancelPairsFacts ==
    ASSUME NEW n \in Nat, NEW lines \in Seq(Given(n))
    PROVE  /\ CancelPairs(lines) \in Seq(Given(n)) /\ Len(CancelPairs(lines)) = Len(lines)
           /\ Sound(lines) => After(lines, Len(lines), CancelPairs(lines))
<1>1. PICK N \in Nat : N = Len(lines)
    OBVIOUS
<1>2. PICK f : CancelSteps(f, lines)
    BY CancelRun
<1>3. /\ f[0] = lines /\ \A k \in 1..N : f[k] = CancelPair(f[k - 1], k)
      /\ CancelPairs(lines) = f[N]
    BY <1>1, <1>2 DEF CancelSteps
<1> DEFINE P == {k \in Nat : k <= N => f[k] \in Seq(Given(n)) /\ Len(f[k]) = N}
<1>4. 0 \in P
    BY <1>1, <1>3
<1>5. ASSUME NEW k \in Nat, k \in P PROVE k + 1 \in P
  <2> SUFFICES ASSUME k + 1 <= N PROVE f[k+1] \in Seq(Given(n)) /\ Len(f[k+1]) = N
    OBVIOUS
  <2>1. k + 1 \in 1..N /\ (k + 1) - 1 = k /\ k <= N
    OBVIOUS
  <2>2. f[k] \in Seq(Given(n)) /\ Len(f[k]) = N
    BY <1>5, <2>1
  <2>3. f[k+1] = CancelPair(f[k], k + 1)
    BY <1>3, <2>1
  <2> QED
    BY <2>2, <2>3, CancelPairType
<1>6. \A k \in Nat : k \in P
  <2> HIDE DEF P
  <2> QED BY <1>4, <1>5, SetInduction
<1>7. \A k \in 0..N : f[k] \in Seq(Given(n)) /\ Len(f[k]) = N
    BY <1>6
<1>8. ASSUME Sound(lines) PROVE After(lines, N, f[N])
  <2> DEFINE A == {k \in Nat : k <= N => After(lines, k, f[k])}
  <2>1. 0 \in A
    <3>1. \A i \in 1..N : ~Done(lines, 0, i)
        BY DEF Done
    <3> QED
        BY <1>1, <1>3, <3>1 DEF After
  <2>2. ASSUME NEW k \in Nat, k \in A PROVE k + 1 \in A
    <3> SUFFICES ASSUME k + 1 <= N PROVE After(lines, k + 1, f[k+1])
        OBVIOUS
    <3>1. PICK m \in 1..N : m = k + 1
        OBVIOUS
    <3>2. m - 1 = k /\ k \in 0..N
        BY <3>1
    <3>3. After(lines, m - 1, f[k])
        BY <2>2, <3>2
    <3>4. f[k] \in Seq(Given(n)) /\ f[m] = CancelPair(f[k], m)
        BY <1>3, <1>7, <3>2
    <3>5. After(lines, m, CancelPair(f[k], m))
        BY <1>1, <1>8, <3>3, <3>4, CancelPairAfter
    <3> QED
        BY <3>1, <3>4, <3>5
  <2>3. \A k \in Nat : k \in A
    <3> HIDE DEF A
    <3> QED BY <2>1, <2>2, SetInduction
  <2> QED
    BY <2>3
<1> QED
    BY <1>1, <1>3, <1>7, <1>8

\* What PendingBut has kept of the first k lines.
KeepLine(ls, lost, q, i) == IF ls[i].time = 0 \/ ls[i] \in lost THEN q ELSE Append(q, ls[i])
Left(ls, lost, i) == ls[i].time # 0 /\ ls[i] \notin lost
Kept(ls, lost, k, q) ==
    /\ \A j \in 1..Len(q) : \E i \in 1..k : q[j] = ls[i] /\ Left(ls, lost, i)
    /\ \A i \in 1..k : Left(ls, lost, i) => \E j \in 1..Len(q) : q[j] = ls[i]
Distinct(q) == \A j, l \in 1..Len(q) : q[j].tid = q[l].tid => j = l

KeepSteps(f, lines, lost) ==
    /\ f[0] = <<>>
    /\ \A k \in 1..Len(lines) : f[k] = KeepLine(CancelPairs(lines), lost, f[k - 1], k)
    /\ PendingBut(lines, lost) = f[Len(lines)]

LEMMA KeepRun ==
    ASSUME NEW n \in Nat, NEW lines \in Seq(Given(n)), NEW lost
    PROVE  \E f : KeepSteps(f, lines, lost)
<1>0. PICK S : S = Seq(Given(n))
    OBVIOUS
<1>1. PICK N \in Nat : N = Len(lines)
    OBVIOUS
<1>l. PICK ls \in S : ls = CancelPairs(lines)
    BY <1>0, CancelPairsFacts
<1>m. Len(ls) = N
    BY <1>1, <1>l, CancelPairsFacts
<1> DEFINE E(f) == f = [i \in 0..N |->
                IF i = 0 THEN <<>> ELSE IF ls[i].time = 0 \/ ls[i] \in lost THEN f[i - 1] ELSE Append(f[i - 1], ls[i])]
<1>2. PICK g : g = [p \in S \X (1..N) |-> KeepLine(ls, lost, p[1], p[2])]
    OBVIOUS
<1>3. \A y \in S : \A k \in 1..N : g[<<y, k>>] = KeepLine(ls, lost, y, k)
    BY <1>2
<1>4. StepsIn(g, S, N)
  <2>1. ASSUME NEW y \in S, NEW k \in 1..N PROVE KeepLine(ls, lost, y, k) \in S
    <3>1. ls[k] \in Given(n) /\ y \in Seq(Given(n))
        BY <1>0, <1>m
    <3>2. Append(y, ls[k]) \in Seq(Given(n))
        BY <3>1, AppendFacts
    <3> QED
        BY <1>0, <3>2 DEF KeepLine
  <2> QED
    BY <1>3, <2>1 DEF StepsIn
<1>e. <<>> \in S
    BY <1>0
<1>5. PICK h : RunOf(h, g, <<>>, S, N)
    BY <1>e, <1>4, Iteration
<1>6. /\ h \in [0..N -> S] /\ h[0] = <<>>
      /\ \A k \in 1..N : h[k] = KeepLine(ls, lost, h[k - 1], k)
  <2>1. /\ h \in [0..N -> S] /\ h[0] = <<>>
        /\ \A k \in 1..N : h[k] = g[<<h[k - 1], k>>]
    BY <1>5 DEF RunOf
  <2>2. \A k \in 1..N : h[k - 1] \in S
    BY <2>1
  <2> QED
    BY <1>3, <2>1, <2>2
<1>7. E(h)
  <2>1. h = [i \in 0..N |-> h[i]]
    BY <1>6
  <2>2. \A i \in 0..N : h[i] = IF i = 0 THEN <<>>
                               ELSE IF ls[i].time = 0 \/ ls[i] \in lost THEN h[i - 1] ELSE Append(h[i - 1], ls[i])
    <3>1. \A i \in 0..N : i # 0 => i \in 1..N
        OBVIOUS
    <3> QED
        BY <1>6, <3>1 DEF KeepLine
  <2> QED
    BY <2>1, <2>2
<1>8. E(CHOOSE f : E(f))
  <2> HIDE DEF E
  <2> QED BY <1>7, Zenon
<1>9. PICK f : f = CHOOSE e : E(e)
    OBVIOUS
<1>10. E(f)
    BY <1>8, <1>9
<1>11. PendingBut(lines, lost) = f[N]
    BY <1>1, <1>9, <1>l DEF PendingBut
<1>12. \A i \in 0..N : f[i] = IF i = 0 THEN <<>>
                              ELSE IF ls[i].time = 0 \/ ls[i] \in lost THEN f[i - 1] ELSE Append(f[i - 1], ls[i])
    BY <1>10, Zenon
<1>14. 0 \in 0..N /\ \A k \in 1..N : k \in 0..N /\ k # 0
    OBVIOUS
<1> HIDE DEF E
<1>15. f[0] = <<>> /\ \A k \in 1..N : f[k] = KeepLine(ls, lost, f[k - 1], k)
    BY <1>12, <1>14 DEF KeepLine
<1> QED
    BY <1>1, <1>11, <1>15, <1>l DEF KeepSteps

LEMMA KeepLineFacts ==
    ASSUME NEW n \in Nat, NEW ls \in Seq(Given(n)), NEW q \in Seq(Given(n)), NEW k \in 1..Len(ls),
           NEW lost, Kept(ls, lost, k - 1, q)
    PROVE  /\ KeepLine(ls, lost, q, k) \in Seq(Given(n)) /\ Kept(ls, lost, k, KeepLine(ls, lost, q, k))
           /\ OneAlive(ls) /\ Distinct(q) => Distinct(KeepLine(ls, lost, q, k))
<1>1. PICK r : r = KeepLine(ls, lost, q, k)
    OBVIOUS
<1>2. \A i \in 1..k : i \in 1..(k-1) \/ i = k
    OBVIOUS
<1>3. \A i \in 1..(k-1) : i \in 1..k /\ i # k /\ i \in 1..Len(ls)
    OBVIOUS
<1>4. CASE ~Left(ls, lost, k)
  <2>1. r = q
    BY <1>1, <1>4 DEF KeepLine, Left
  <2> QED
    BY <1>1, <1>2, <1>3, <1>4, <2>1 DEF Kept
<1>5. CASE Left(ls, lost, k)
  <2>1. r = Append(q, ls[k])
    BY <1>1, <1>5 DEF KeepLine, Left
  <2>2. /\ r \in Seq(Given(n)) /\ Len(r) = Len(q) + 1
        /\ \A j \in 1..Len(q) : r[j] = q[j]
        /\ r[Len(q) + 1] = ls[k]
    BY <2>1
  <2>3. /\ \A j \in 1..Len(r) : j \in 1..Len(q) \/ j = Len(q) + 1
        /\ \A j \in 1..Len(q) : j \in 1..Len(r)
        /\ Len(q) + 1 \in 1..Len(r)
    BY <2>2
  <2>4. Kept(ls, lost, k, r)
    <3>1. ASSUME NEW j \in 1..Len(r) PROVE \E i \in 1..k : r[j] = ls[i] /\ Left(ls, lost, i)
      <4>1. CASE j \in 1..Len(q)
        <5>1. PICK i \in 1..(k-1) : q[j] = ls[i] /\ Left(ls, lost, i)
            BY <4>1 DEF Kept
        <5> QED
            BY <1>3, <2>2, <4>1, <5>1
      <4>2. CASE j = Len(q) + 1
        <5>1. k \in 1..k
            OBVIOUS
        <5> QED
            BY <1>5, <2>2, <4>2, <5>1
      <4> QED
        BY <2>3, <4>1, <4>2
    <3>2. ASSUME NEW i \in 1..k, Left(ls, lost, i) PROVE \E j \in 1..Len(r) : r[j] = ls[i]
      <4>1. CASE i \in 1..(k-1)
        <5>1. PICK j \in 1..Len(q) : q[j] = ls[i]
            BY <3>2, <4>1 DEF Kept
        <5> QED
            BY <2>2, <2>3, <5>1
      <4>2. CASE i = k
        BY <2>2, <2>3, <4>2
      <4> QED
        BY <1>2, <4>1, <4>2
    <3> QED
        BY <3>1, <3>2 DEF Kept
  <2>5. ASSUME OneAlive(ls), Distinct(q) PROVE Distinct(r)
    <3>1. ASSUME NEW j \in 1..Len(q) PROVE q[j].tid # ls[k].tid
      <4>1. PICK i \in 1..(k-1) : q[j] = ls[i] /\ Left(ls, lost, i)
        BY DEF Kept
      <4>2. i # k /\ i \in 1..Len(ls)
        BY <1>3
      <4> QED
        BY <1>5, <2>5, <4>1, <4>2 DEF OneAlive, Left
    <3> QED
        BY <2>2, <2>3, <2>5, <3>1 DEF Distinct
  <2> QED
    BY <1>1, <2>2, <2>4, <2>5
<1> QED
    BY <1>4, <1>5

LEMMA PendingKept ==
    ASSUME NEW n \in Nat, NEW lines \in Seq(Given(n)), NEW lost
    PROVE  /\ PendingBut(lines, lost) \in Seq(Given(n))
           /\ Kept(CancelPairs(lines), lost, Len(lines), PendingBut(lines, lost))
           /\ OneAlive(CancelPairs(lines)) => Distinct(PendingBut(lines, lost))
<1>1. PICK N \in Nat : N = Len(lines)
    OBVIOUS
<1>2. PICK f : KeepSteps(f, lines, lost)
    BY KeepRun
<1>3. PICK ls : ls = CancelPairs(lines)
    OBVIOUS
<1>4. ls \in Seq(Given(n)) /\ Len(ls) = N
    BY <1>1, <1>3, CancelPairsFacts
<1>5. /\ f[0] = <<>> /\ \A k \in 1..N : f[k] = KeepLine(ls, lost, f[k - 1], k)
      /\ PendingBut(lines, lost) = f[N]
    BY <1>1, <1>2, <1>3 DEF KeepSteps
<1> DEFINE P == {k \in Nat : k <= N => /\ f[k] \in Seq(Given(n)) /\ Kept(ls, lost, k, f[k])
                                       /\ OneAlive(ls) => Distinct(f[k])}
<1>6. 0 \in P
  <2>1. <<>> \in Seq(Given(n)) /\ Len(<<>>) = 0 /\ 1..0 = {}
    OBVIOUS
  <2>2. Kept(ls, lost, 0, <<>>) /\ Distinct(<<>>)
    BY <2>1 DEF Kept, Distinct
  <2> QED
    BY <1>5, <2>1, <2>2
<1>7. ASSUME NEW k \in Nat, k \in P PROVE k + 1 \in P
  <2> SUFFICES ASSUME k + 1 <= N
               PROVE  /\ f[k+1] \in Seq(Given(n)) /\ Kept(ls, lost, k + 1, f[k+1])
                      /\ OneAlive(ls) => Distinct(f[k+1])
    OBVIOUS
  <2>1. PICK m \in 1..Len(ls) : m = k + 1 /\ m - 1 = k
    BY <1>4
  <2>2. k <= N
    BY <1>4
  <2>3. f[k] \in Seq(Given(n)) /\ Kept(ls, lost, m - 1, f[k]) /\ (OneAlive(ls) => Distinct(f[k]))
    BY <1>7, <2>1, <2>2
  <2>4. f[m] = KeepLine(ls, lost, f[k], m)
    BY <1>4, <1>5, <2>1
  <2>5. PICK q : q = f[k]
    OBVIOUS
  <2>6. /\ KeepLine(ls, lost, q, m) \in Seq(Given(n)) /\ Kept(ls, lost, m, KeepLine(ls, lost, q, m))
        /\ OneAlive(ls) /\ Distinct(q) => Distinct(KeepLine(ls, lost, q, m))
    BY <1>4, <2>3, <2>5, KeepLineFacts
  <2> QED
    BY <2>1, <2>3, <2>4, <2>5, <2>6
<1>8. \A k \in Nat : k \in P
  <2> HIDE DEF P
  <2> QED BY <1>6, <1>7, SetInduction
<1>9. /\ f[N] \in Seq(Given(n)) /\ Kept(ls, lost, N, f[N])
      /\ OneAlive(ls) => Distinct(f[N])
    BY <1>8
<1> QED
    BY <1>1, <1>3, <1>5, <1>9

\* Of a file as the daemon writes it the timers remain that are not over, nor lost, one line
\* each.
LEMMA PendingFacts ==
    ASSUME NEW n \in Nat, NEW lines \in Seq(Given(n)), NEW lost, Sound(lines)
    PROVE  /\ ToSet(PendingBut(lines, lost)) = Open(lines) \ lost
           /\ Open(PendingBut(lines, lost)) = Open(lines) \ lost
           /\ Sound(PendingBut(lines, lost)) /\ Injective(PendingBut(lines, lost))
<1>1. PICK ls : ls = CancelPairs(lines)
    OBVIOUS
<1>2. PICK q : q = PendingBut(lines, lost)
    OBVIOUS
<1>3. After(lines, Len(lines), ls) /\ ls \in Seq(Given(n)) /\ Len(ls) = Len(lines)
    BY <1>1, CancelPairsFacts
<1>4. q \in Seq(Given(n)) /\ Kept(ls, lost, Len(lines), q) /\ (OneAlive(ls) => Distinct(q))
    BY <1>1, <1>2, PendingKept
<1>5. ASSUME NEW i \in 1..Len(lines)
      PROVE  /\ ls[i].tid = lines[i].tid
             /\ ls[i].time # 0 <=> lines[i].time # 0 /\ ~IsOver(lines, lines[i].tid)
             /\ ls[i].time # 0 => ls[i] = lines[i]
  <2>1. ls[i] = IF Done(lines, Len(lines), i) THEN Over(lines[i]) ELSE lines[i]
    BY <1>3 DEF After
  <2>2. Over(lines[i]).time = 0 /\ Over(lines[i]).tid = lines[i].tid
    BY OverFacts
  <2>3. Done(lines, Len(lines), i) <=> lines[i].time # 0 /\ IsOver(lines, lines[i].tid)
    BY DEF Done, IsOver
  <2> QED
    BY <2>1, <2>2, <2>3
<1>6. OneAlive(ls)
    BY <1>3, <1>5 DEF Sound, OneAlive
<1>7. ASSUME NEW t PROVE t \in ToSet(q) <=> t \in Open(lines) \ lost
  <2>1. ASSUME t \in ToSet(q) PROVE t \in Open(lines) \ lost
    <3>1. PICK j \in 1..Len(q) : t = q[j]
        BY <1>4, <2>1 DEF ToSet
    <3>2. PICK i \in 1..Len(lines) : q[j] = ls[i] /\ ls[i].time # 0 /\ ls[i] \notin lost
        BY <1>4 DEF Kept, Left
    <3>3. i \in {m \in 1..Len(lines) : lines[m].time # 0 /\ ~IsOver(lines, lines[m].tid)}
        BY <1>5, <3>2
    <3>4. t = lines[i]
        BY <1>5, <3>1, <3>2
    <3> QED
        BY <3>1, <3>2, <3>3, <3>4 DEF Open
  <2>2. ASSUME t \in Open(lines) \ lost PROVE t \in ToSet(q)
    <3>1. PICK i \in 1..Len(lines) : t = lines[i] /\ lines[i].time # 0 /\ ~IsOver(lines, lines[i].tid)
        BY <2>2 DEF Open
    <3>2. ls[i].time # 0 /\ ls[i] = t
        BY <1>5, <3>1
    <3>3. PICK j \in 1..Len(q) : q[j] = ls[i]
        BY <1>3, <1>4, <2>2, <3>2 DEF Kept, Left
    <3>4. j \in DOMAIN q
        BY <1>4
    <3> QED
        BY <3>2, <3>3, <3>4 DEF ToSet
  <2> QED
    BY <2>1, <2>2
<1>8. \A j \in 1..Len(q) : q[j].time # 0
    BY <1>4 DEF Kept, Left
<1>9. Distinct(q)
    BY <1>4, <1>6
<1>10. Sound(q)
    BY <1>8, <1>9 DEF Sound, OneAlive, OneOver, OverLater, Distinct
<1>11. Injective(q)
    BY <1>9 DEF Injective, Distinct
<1>12. ASSUME NEW t PROVE t \in ToSet(q) <=> t \in Open(q)
  <2>1. \A tid : ~IsOver(q, tid)
    BY <1>8 DEF IsOver
  <2>2. \A j : j \in {m \in 1..Len(q) : q[m].time # 0 /\ ~IsOver(q, q[m].tid)} <=> j \in 1..Len(q)
    BY <1>8, <2>1
  <2>3. DOMAIN q = 1..Len(q)
    BY <1>4
  <2> QED
    BY <2>2, <2>3 DEF ToSet, Open
<1>13. ToSet(q) = Open(lines) \ lost
    BY <1>7
<1>14. ToSet(q) = Open(q)
    BY <1>12
<1> QED
    BY <1>2, <1>10, <1>11, <1>13, <1>14

FirstOf(ts, k) == {ts[i] : i \in 1..k}
LoadSteps(f, lines) ==
    /\ f[0] = <<>>
    /\ \A k \in 1..Len(Pending(lines)) : f[k] = PutTimer(f[k - 1], Pending(lines)[k])
    /\ Load(lines) = f[Len(Pending(lines))]

LEMMA LoadRun ==
    ASSUME NEW n \in Nat, NEW lines \in Seq(Given(n))
    PROVE  \E f : LoadSteps(f, lines)
<1>0. PICK S : S = Seq(Given(n))
    OBVIOUS
<1>t. PICK ts \in S : ts = Pending(lines)
    BY <1>0, PendingKept DEF Pending
<1>1. PICK N \in Nat : N = Len(ts)
    BY <1>0
<1> DEFINE E(f) == f = [i \in 0..N |-> IF i = 0 THEN <<>> ELSE PutTimer(f[i - 1], ts[i])]
<1>2. PICK g : g = [p \in S \X (1..N) |-> PutTimer(p[1], ts[p[2]])]
    OBVIOUS
<1>3. \A y \in S : \A k \in 1..N : g[<<y, k>>] = PutTimer(y, ts[k])
    BY <1>2
<1>4. StepsIn(g, S, N)
  <2>1. ASSUME NEW y \in S, NEW k \in 1..N PROVE PutTimer(y, ts[k]) \in S
    <3>1. ts[k] \in Given(n) /\ y \in Seq(Given(n))
        BY <1>0, <1>1
    <3> QED
        BY <1>0, <3>1, PutTimerFacts
  <2> QED
    BY <1>3, <2>1 DEF StepsIn
<1>e. <<>> \in S
    BY <1>0
<1>5. PICK h : RunOf(h, g, <<>>, S, N)
    BY <1>e, <1>4, Iteration
<1>6. /\ h \in [0..N -> S] /\ h[0] = <<>>
      /\ \A k \in 1..N : h[k] = PutTimer(h[k - 1], ts[k])
  <2>1. /\ h \in [0..N -> S] /\ h[0] = <<>>
        /\ \A k \in 1..N : h[k] = g[<<h[k - 1], k>>]
    BY <1>5 DEF RunOf
  <2>2. \A k \in 1..N : h[k - 1] \in S
    BY <2>1
  <2> QED
    BY <1>3, <2>1, <2>2
<1>7. E(h)
    BY <1>6
<1>8. E(CHOOSE f : E(f))
  <2> HIDE DEF E
  <2> QED BY <1>7, Zenon
<1>9. PICK f : f = CHOOSE e : E(e)
    OBVIOUS
<1>10. E(f)
    BY <1>8, <1>9
<1>11. Load(lines) = f[N]
    BY <1>1, <1>9, <1>t DEF Load
<1>12. \A i \in 0..N : f[i] = IF i = 0 THEN <<>> ELSE PutTimer(f[i - 1], ts[i])
    BY <1>10, Zenon
<1>14. 0 \in 0..N /\ \A k \in 1..N : k \in 0..N /\ k # 0
    OBVIOUS
<1> HIDE DEF E
<1>15. f[0] = <<>> /\ \A k \in 1..N : f[k] = PutTimer(f[k - 1], ts[k])
    BY <1>12, <1>14
<1> QED
    BY <1>1, <1>11, <1>15, <1>t DEF LoadSteps

\* The list that is built at start holds the timers of the file that are not over.
LEMMA LoadFacts ==
    ASSUME NEW n \in Nat, NEW lines \in Seq(Given(n))
    PROVE  /\ Load(lines) \in Seq(Given(n))
           /\ Sound(lines) => ToSet(Load(lines)) = Open(lines) /\ Injective(Load(lines))
<1>1. PICK ts : ts = Pending(lines)
    OBVIOUS
<1>2. ts \in Seq(Given(n)) /\ (Sound(lines) => ToSet(ts) = Open(lines) /\ Injective(ts))
  <2>1. PICK lost : lost = {}
    OBVIOUS
  <2>2. ts = PendingBut(lines, lost)
    BY <1>1, <2>1 DEF Pending
  <2>3. ts \in Seq(Given(n))
    BY <2>2, PendingKept
  <2>4. Sound(lines) => ToSet(ts) = Open(lines) \ lost /\ Injective(ts)
    BY <2>2, PendingFacts
  <2> QED
    BY <2>1, <2>3, <2>4
<1>3. PICK N \in Nat : N = Len(ts)
    BY <1>2
<1>4. PICK f : LoadSteps(f, lines)
    BY LoadRun
<1>5. /\ f[0] = <<>> /\ \A k \in 1..N : f[k] = PutTimer(f[k - 1], ts[k])
      /\ Load(lines) = f[N]
    BY <1>1, <1>3, <1>4 DEF LoadSteps
<1> DEFINE P == {k \in Nat : k <= N => /\ f[k] \in Seq(Given(n)) /\ ToSet(f[k]) = FirstOf(ts, k)
                                       /\ Injective(ts) => Injective(f[k])}
<1>6. 0 \in P
  <2>1. <<>> \in Seq(Given(n)) /\ Len(<<>>) = 0 /\ 1..0 = {} /\ DOMAIN <<>> = {}
    OBVIOUS
  <2>2. ToSet(<<>>) = FirstOf(ts, 0) /\ Injective(<<>>)
    BY <2>1 DEF ToSet, FirstOf, Injective
  <2> QED
    BY <1>5, <2>1, <2>2
<1>7. ASSUME NEW k \in Nat, k \in P PROVE k + 1 \in P
  <2> SUFFICES ASSUME k + 1 <= N
               PROVE  /\ f[k+1] \in Seq(Given(n)) /\ ToSet(f[k+1]) = FirstOf(ts, k + 1)
                      /\ Injective(ts) => Injective(f[k+1])
    OBVIOUS
  <2>1. PICK m \in 1..N : m = k + 1 /\ m - 1 = k
    OBVIOUS
  <2>2. k <= N
    OBVIOUS
  <2>3. PICK q : q = f[k]
    OBVIOUS
  <2>4. q \in Seq(Given(n)) /\ ToSet(q) = FirstOf(ts, k) /\ (Injective(ts) => Injective(q))
    BY <1>7, <2>2, <2>3
  <2>5. f[m] = PutTimer(q, ts[m])
    BY <1>5, <2>1, <2>3
  <2>6. ts[m] \in Given(n)
    BY <1>2, <1>3
  <2>7. /\ PutTimer(q, ts[m]) \in Seq(Given(n))
        /\ ToSet(PutTimer(q, ts[m])) = ToSet(q) \cup {ts[m]}
        /\ Injective(q) /\ ts[m] \notin ToSet(q) => Injective(PutTimer(q, ts[m]))
    BY <2>4, <2>6, PutTimerFacts
  <2>8. FirstOf(ts, m) = FirstOf(ts, k) \cup {ts[m]}
    <3>1. 1..m = (1..k) \cup {m}
        BY <2>1
    <3> QED
        BY <3>1 DEF FirstOf
  <2>9. Injective(ts) => ts[m] \notin FirstOf(ts, k)
    <3>1. \A i \in 1..k : i \in 1..N /\ i # m
        BY <2>1
    <3> QED
        BY <1>3, <3>1 DEF FirstOf, Injective
  <2> QED
    BY <2>1, <2>4, <2>5, <2>7, <2>8, <2>9
<1>8. \A k \in Nat : k \in P
  <2> HIDE DEF P
  <2> QED BY <1>6, <1>7, SetInduction
<1>9. /\ f[N] \in Seq(Given(n)) /\ ToSet(f[N]) = FirstOf(ts, N)
      /\ Injective(ts) => Injective(f[N])
    BY <1>8
<1>10. FirstOf(ts, N) = ToSet(ts)
    BY <1>2, <1>3 DEF FirstOf, ToSet
<1> QED
    BY <1>2, <1>5, <1>9, <1>10

LEMMA LastTidFacts ==
    ASSUME NEW n \in Nat, NEW lines \in Seq(Given(n))
    PROVE  LastTid(lines) \in 0..n /\ \A i \in 1..Len(lines) : lines[i].tid <= LastTid(lines)
<1>1. PICK I : I = {0} \cup {lines[i].tid : i \in DOMAIN lines}
    OBVIOUS
<1>2. DOMAIN lines = 1..Len(lines) /\ \A i \in 1..Len(lines) : lines[i].tid \in 0..n
  <2>1. \A i \in 1..Len(lines) : lines[i] \in Given(n)
    OBVIOUS
  <2>2. \A t \in Given(n) : t.tid \in 0..n
    BY DEF Given
  <2> QED
    BY <2>1, <2>2
<1>3. I \subseteq 0..n /\ 0 \in I /\ \A i \in 1..Len(lines) : lines[i].tid \in I
    BY <1>1, <1>2
<1>4. I \in SUBSET Nat /\ I # {} /\ \A y \in I : y <= n
    BY <1>3
<1>5. Max(I) \in I /\ \A y \in I : y <= Max(I)
    BY <1>4, MaxFacts
<1>6. LastTid(lines) = Max(I)
    BY <1>1 DEF LastTid
<1> QED
    BY <1>3, <1>5, <1>6

\* The lines that make up Open.
Opens(ls, i) == ls[i].time # 0 /\ ~IsOver(ls, ls[i].tid)

LEMMA OpenFacts ==
    ASSUME NEW ls, NEW t
    PROVE  t \in Open(ls) <=> \E i \in 1..Len(ls) : t = ls[i] /\ Opens(ls, i)
BY DEF Open, Opens

\* A new timer is written to the file.
LEMMA AppendAlive ==
    ASSUME NEW n \in Nat, NEW ls \in Seq(Given(n)), NEW t \in Given(n), t.time # 0,
           \A i \in 1..Len(ls) : ls[i].tid # t.tid, Sound(ls)
    PROVE  /\ Sound(Append(ls, t)) /\ Open(Append(ls, t)) = Open(ls) \cup {t}
           /\ \A tid : IsOver(Append(ls, t), tid) <=> IsOver(ls, tid)
<1>1. PICK r : r = Append(ls, t)
    OBVIOUS
<1>2. PICK m \in Nat : m = Len(ls)
    OBVIOUS
<1>3. /\ r \in Seq(Given(n)) /\ Len(r) = m + 1 /\ r[m + 1] = t
      /\ \A i \in 1..m : r[i] = ls[i] /\ i \in 1..Len(r) /\ i # m + 1
      /\ \A i \in 1..Len(r) : i \in 1..m \/ i = m + 1
      /\ m + 1 \in 1..Len(r)
    BY <1>1, <1>2
<1>4. OneAlive(r)
    BY <1>2, <1>3 DEF Sound, OneAlive
<1>5. OneOver(r)
    BY <1>2, <1>3 DEF Sound, OneOver
<1>6. OverLater(r)
    BY <1>2, <1>3 DEF Sound, OverLater
<1>7. \A tid : IsOver(r, tid) <=> IsOver(ls, tid)
    BY <1>2, <1>3 DEF IsOver
<1>8. ~IsOver(ls, t.tid)
    BY <1>2 DEF IsOver
<1>9. ASSUME NEW u PROVE u \in Open(r) <=> u \in Open(ls) \cup {t}
  <2>1. \A i \in 1..m : Opens(r, i) <=> Opens(ls, i)
    BY <1>3, <1>7 DEF Opens
  <2>2. Opens(r, m + 1)
    BY <1>3, <1>7, <1>8 DEF Opens
  <2>3. u \in Open(r) <=> \E i \in 1..Len(r) : u = r[i] /\ Opens(r, i)
    BY OpenFacts
  <2>4. u \in Open(ls) <=> \E i \in 1..m : u = ls[i] /\ Opens(ls, i)
    BY <1>2, OpenFacts
  <2> QED
    BY <1>3, <2>1, <2>2, <2>3, <2>4
<1>10. Sound(r)
    BY <1>4, <1>5, <1>6 DEF Sound
<1>11. Open(r) = Open(ls) \cup {t}
    BY <1>9
<1> QED
    BY <1>1, <1>7, <1>10, <1>11

\* A timer is over, and that is written to the file.
LEMMA AppendOver ==
    ASSUME NEW n \in Nat, NEW ls \in Seq(Given(n)), NEW t \in Given(n), Sound(ls),
           ~IsOver(ls, t.tid)
    PROVE  /\ Sound(Append(ls, Over(t)))
           /\ Open(Append(ls, Over(t))) = {u \in Open(ls) : u.tid # t.tid}
           /\ \A tid : IsOver(Append(ls, Over(t)), tid) <=> IsOver(ls, tid) \/ tid = t.tid
<1>1. PICK o : o = Over(t)
    OBVIOUS
<1>2. PICK m \in Nat : m = Len(ls)
    OBVIOUS
<1>3. o \in Given(n) /\ o.time = 0 /\ o.tid = t.tid
    BY <1>1, OverFacts
<1>4. PICK r : r = Append(ls, o)
    OBVIOUS
<1>5. /\ r \in Seq(Given(n)) /\ Len(r) = m + 1 /\ r[m + 1] = o
      /\ \A i \in 1..m : r[i] = ls[i] /\ i \in 1..Len(r) /\ i < m + 1
      /\ \A i \in 1..Len(r) : i \in 1..m \/ i = m + 1
      /\ m + 1 \in 1..Len(r)
    BY <1>2, <1>3, <1>4
<1>6. OneAlive(r)
    BY <1>2, <1>3, <1>5 DEF Sound, OneAlive
<1>7. OneOver(r)
  <2>1. \A i \in 1..m : ls[i].time = 0 => ls[i].tid # t.tid
    BY <1>2 DEF IsOver
  <2> QED
    BY <1>2, <1>3, <1>5, <2>1 DEF Sound, OneOver
<1>8. OverLater(r)
    BY <1>2, <1>3, <1>5 DEF Sound, OverLater
<1>9. \A tid : IsOver(r, tid) <=> IsOver(ls, tid) \/ tid = t.tid
    BY <1>2, <1>3, <1>5 DEF IsOver
<1>10. ASSUME NEW u PROVE u \in Open(r) <=> u \in Open(ls) /\ u.tid # t.tid
  <2>1. \A i \in 1..m : Opens(r, i) <=> Opens(ls, i) /\ ls[i].tid # t.tid
    BY <1>5, <1>9 DEF Opens
  <2>2. ~Opens(r, m + 1)
    BY <1>3, <1>5 DEF Opens
  <2>3. u \in Open(r) <=> \E i \in 1..Len(r) : u = r[i] /\ Opens(r, i)
    BY OpenFacts
  <2>4. u \in Open(ls) <=> \E i \in 1..m : u = ls[i] /\ Opens(ls, i)
    BY <1>2, OpenFacts
  <2>5. u \in Open(r) <=> \E i \in 1..m : u = ls[i] /\ Opens(ls, i) /\ ls[i].tid # t.tid
    BY <1>5, <2>1, <2>2, <2>3
  <2> QED
    BY <2>4, <2>5
<1>11. Sound(r)
    BY <1>6, <1>7, <1>8 DEF Sound
<1>12. Open(r) = {u \in Open(ls) : u.tid # t.tid}
    BY <1>10
<1> QED
    BY <1>1, <1>4, <1>9, <1>11, <1>12

-----------------------------------------------------------------------------
(* Types.                                                                  *)

LEMMA AskedFacts ==
    IsFiniteSet(Asked) /\ Cardinality(Asked) \in Nat /\ Cardinality(Asked) <= Cardinality(Clients)
<1>1. Asked \in SUBSET Clients /\ IsFiniteSet(Clients)
    BY TimerAssumption DEF Asked
<1> QED
    BY <1>1, FS_Subset, FS_CardinalityType

LEMMA AskedSame ==
    ASSUME \A c \in Clients : client'[c] = "idle" <=> client[c] = "idle"
    PROVE  Cardinality(Asked)' = Cardinality(Asked)
<1>1. Asked' = Asked
    BY DEF Asked
<1> QED
    BY <1>1

LEMMA GivenGrows ==
    ASSUME NEW n \in Nat, NEW m \in Nat, n <= m
    PROVE  Given(n) \subseteq Given(m) /\ Seq(Given(n)) \subseteq Seq(Given(m))
<1>1. Given(n) \subseteq Given(m)
  <2>1. 0..n \subseteq 0..m
    OBVIOUS
  <2> QED
    BY <2>1 DEF Given
<1> QED
    BY <1>1

LEMMA GivenFields ==
    ASSUME NEW n \in Nat, NEW t \in Given(n)
    PROVE  t.tid \in 0..n /\ t.time \in 0..MaxTime /\ t.of \in Clients
BY DEF Given

\* A line that is written, or is not.
LEMMA WriteTyped ==
    ASSUME NEW n \in Nat, TypedFor(n), NEW t \in Given(n), Write(t)
    PROVE  file' \in Seq(Given(n)) /\ unlogged' \subseteq Clients /\ faults' \in 0..MaxFaults
<1>1. file \in Seq(Given(n)) /\ unlogged \subseteq Clients /\ faults \in 0..MaxFaults
    BY DEF TypedFor
<1>2. Append(file, t) \in Seq(Given(n)) /\ t.of \in Clients
    BY <1>1, AppendFacts, GivenFields
<1> QED
    BY <1>1, <1>2, TimerAssumption DEF Write, Fails

\* The clock, and what the main loop does with the lists.
LEMMA QuietTyped ==
    ASSUME NEW n \in Nat, TypedFor(n), Tick \/ Wake \/ Sleep \/ SaveFails
    PROVE  TypedFor(n)'
<1>1. UNCHANGED <<lastTid, execList, file, tmp, running, client, ptimer, told, cancelled, executed,
                  interrupted, unrun, unlogged, damage, restarts>>
    BY DEF Tick, Wake, Sleep, SaveFails, NoRun, MainOnly, clients, history
<1>2. /\ now' \in Nat \ {0} /\ (now' = 1 \/ now' <= MaxTime)
      /\ due' \in Nat /\ (due' <= 1 \/ due' <= MaxTime)
    BY TimerAssumption DEF TypedFor, Tick, Wake, Sleep, SaveFails, MainOnly
<1>3. main' \in {"sleep", "loop", "record", "remove", "rename"} /\ (main' = "record" <=> main = "record")
    BY DEF TypedFor, Tick, Wake, Sleep, SaveFails, SaveStarts
<1>4. fd' \in BOOLEAN /\ saves' \in 0..MaxSaves /\ faults' \in 0..MaxFaults
    BY TimerAssumption DEF TypedFor, Tick, Wake, Sleep, SaveFails, SaveStarts, Fails
<1> QED
    BY <1>1, <1>2, <1>3, <1>4 DEF TypedFor

LEMMA ExecuteTyped ==
    ASSUME NEW n \in Nat, TypedFor(n), Execute
    PROVE  TypedFor(n)'
<1>1. /\ execList \in Seq(Given(n)) /\ execList # <<>>
    BY DEF TypedFor, Execute, IsDue
<1>2. Head(execList) \in Given(n) /\ Tail(execList) \in Seq(Given(n))
    BY <1>1, HeadTailProperties
<1>3. Head(execList).of \in Clients
    BY <1>2, GivenFields
<1>4. executed' \in [Clients -> Nat] /\ unrun' \subseteq Clients /\ faults' \in 0..MaxFaults
  <2>1. PICK c \in Clients : c = Head(execList).of
    BY <1>3
  <2>2. \/ executed' = [executed EXCEPT ![c] = @ + 1] /\ UNCHANGED <<unrun, faults>>
        \/ Fails /\ unrun' = unrun \cup {c} /\ UNCHANGED executed
    BY <2>1 DEF Execute
  <2>3. /\ executed \in [Clients -> Nat] /\ unrun \subseteq Clients
        /\ faults \in Nat /\ faults <= MaxFaults
    BY TimerAssumption DEF TypedFor
  <2>4. executed' \in [Clients -> Nat] /\ unrun' \subseteq Clients
    BY <2>2, <2>3
  <2>5. faults' \in 0..MaxFaults
    BY <2>2, <2>3, TimerAssumption DEF Fails
  <2> QED
    BY <2>4, <2>5
<1>5. main' = "record" /\ running' \in Given(n) /\ execList' \in Seq(Given(n))
    BY <1>2 DEF Execute
<1>6. UNCHANGED <<now, due, lastTid, file, tmp, fd, client, ptimer, told, cancelled, interrupted,
                  unlogged, damage, restarts, saves>>
    BY DEF Execute, MainOnly, clients
<1> QED
    BY <1>4, <1>5, <1>6 DEF TypedFor

LEMMA RecordTyped ==
    ASSUME NEW n \in Nat, TypedFor(n), Record
    PROVE  TypedFor(n)'
<1>1. running \in Given(n)
    BY DEF TypedFor, Record
<1>2. Over(running) \in Given(n)
    BY <1>1, OverFacts
<1>3. file' \in Seq(Given(n)) /\ unlogged' \subseteq Clients /\ faults' \in 0..MaxFaults
    BY <1>2, WriteTyped DEF Record
<1>4. main' = "loop" /\ running' = NoTimer
    BY DEF Record
<1>5. UNCHANGED <<now, due, lastTid, execList, tmp, fd, client, ptimer, told, cancelled, executed,
                  interrupted, unrun, damage, restarts, saves>>
    BY DEF Record, NoRun, MainOnly, clients
<1> QED
    BY <1>3, <1>4, <1>5 DEF TypedFor

LEMMA SaveTyped ==
    ASSUME NEW n \in Nat, TypedFor(n), Save \/ SaveRemove \/ SaveRename \/ SaveRenameFails
    PROVE  TypedFor(n)'
<1>1. file \in Seq(Given(n)) /\ tmp \in Seq(Given(n)) /\ <<>> \in Seq(Given(n))
    BY DEF TypedFor
<1>2. ASSUME Save PROVE tmp' \in Seq(Given(n)) /\ unlogged' \subseteq Clients /\ faults' \in 0..MaxFaults
  <2>1. PICK lost \in SUBSET ToSet(Pending(file)) :
            /\ IF lost = {} THEN UNCHANGED faults ELSE Fails
            /\ tmp' = PendingBut(file, lost)
            /\ unlogged' = unlogged \cup {t.of : t \in lost}
    BY <1>2 DEF Save
  <2>2. tmp' \in Seq(Given(n))
    BY <1>1, <2>1, PendingKept
  <2>3. Pending(file) \in Seq(Given(n))
    BY <1>1, PendingKept DEF Pending
  <2>4. \A t \in lost : t.of \in Clients
    BY <2>1, <2>3, GivenFields DEF ToSet
  <2>5. unlogged' \subseteq Clients
    BY <2>1, <2>4 DEF TypedFor
  <2>6. faults' \in 0..MaxFaults
    BY <2>1, TimerAssumption DEF TypedFor, Fails
  <2> QED
    BY <2>2, <2>5, <2>6
<1>3. ASSUME SaveRenameFails PROVE unlogged' \subseteq Clients
  <2>1. \A i \in DOMAIN tmp : tmp[i] \in Given(n)
    BY <1>1
  <2>2. \A i \in DOMAIN tmp : tmp[i].of \in Clients
    BY <2>1, GivenFields
  <2> QED
    BY <1>3, <2>2 DEF SaveRenameFails, TypedFor
<1>4. file' \in Seq(Given(n)) /\ tmp' \in Seq(Given(n))
    BY <1>1, <1>2 DEF Save, SaveRemove, SaveRename, SaveRenameFails
<1>5. main' \in {"remove", "rename", "sleep"} /\ main # "record" /\ running' = running
    BY DEF Save, SaveStarts, SaveRemove, SaveRename, SaveRenameFails
<1>6. saves' \in 0..MaxSaves /\ fd' \in BOOLEAN
  <2>1. saves' \in 0..MaxSaves
    BY TimerAssumption DEF TypedFor, Save, SaveStarts, SaveRemove, SaveRename, SaveRenameFails
  <2>2. fd' = fd \/ fd' = TRUE \/ fd' = FALSE
    BY DEF Save, SaveRemove, SaveRename, SaveRenameFails
  <2>3. fd \in BOOLEAN
    BY DEF TypedFor
  <2> QED
    BY <2>1, <2>2, <2>3, Zenon
<1>7. unlogged' \subseteq Clients
    BY <1>2, <1>3 DEF TypedFor, SaveRemove, SaveRename
<1>8. faults' \in 0..MaxFaults
  <2>1. faults \in Nat /\ faults <= MaxFaults
    BY TimerAssumption DEF TypedFor
  <2>2. faults' = faults \/ Fails \/ Save
    BY DEF SaveRemove, SaveRename, SaveRenameFails
  <2> QED
    BY <1>2, <2>1, <2>2, TimerAssumption DEF Fails
<1>9. UNCHANGED <<now, due, lastTid, execList, client, ptimer, told, cancelled, executed,
                  interrupted, unrun, damage, restarts>>
    BY DEF Save, SaveRemove, SaveRename, SaveRenameFails, NoRun, MainOnly, clients
<1> QED
    BY <1>4, <1>5, <1>6, <1>7, <1>8, <1>9 DEF TypedFor

LEMMA AddTyped ==
    ASSUME NEW n \in Nat, TypedFor(n), NEW c \in Clients, Add(c)
    PROVE  TypedFor(n)'
<1>1. PICK p : p = PutTimerResult(execList, ptimer[c])
    OBVIOUS
<1>2. /\ execList' = PutTimer(execList, ptimer[c]) /\ Write(p)
      /\ ptimer' = [ptimer EXCEPT ![c] = p] /\ client' = [client EXCEPT ![c] = "reply"]
      /\ damage' = (IF p = ptimer[c] THEN damage ELSE damage \cup {"misput"})
      /\ client[c] = "add"
    BY <1>1 DEF Add
<1>3. execList \in Seq(Given(n)) /\ ptimer[c] \in Given(n)
    BY <1>2 DEF TypedFor
<1>4. execList' \in Seq(Given(n)) /\ p \in Given(n)
    BY <1>1, <1>2, <1>3, PutTimerFacts
<1>5. file' \in Seq(Given(n)) /\ unlogged' \subseteq Clients /\ faults' \in 0..MaxFaults
    BY <1>2, <1>4, WriteTyped
<1>6. /\ client' \in [Clients -> {"idle", "add", "reply", "told", "done"}]
      /\ \A d \in Clients : client'[d] = IF d = c THEN "reply" ELSE client[d]
    BY <1>2 DEF TypedFor
<1>7. /\ ptimer' \in [Clients -> Given(n) \cup {NoTimer}]
      /\ \A d \in Clients : ptimer'[d] = IF d = c THEN p ELSE ptimer[d]
    BY <1>2, <1>4 DEF TypedFor
<1>8. \A d \in Clients : IF client'[d] = "idle" THEN ptimer'[d] = NoTimer ELSE ptimer'[d] \in Given(n)
    BY <1>4, <1>6, <1>7 DEF TypedFor
<1>9. damage' \subseteq {"cut", "misput"}
    BY <1>2 DEF TypedFor
<1>10. UNCHANGED <<now, due, lastTid, tmp, fd, main, running, told, cancelled, executed, interrupted,
                   unrun, restarts, saves>>
    BY DEF Add, ClientOnly
<1> QED
    BY <1>4, <1>5, <1>6, <1>7, <1>8, <1>9, <1>10 DEF TypedFor

LEMMA ReplyTyped ==
    ASSUME NEW n \in Nat, TypedFor(n), NEW c \in Clients, Reply(c)
    PROVE  TypedFor(n)'
<1>1. PICK id \in AddTimerResults(ptimer[c].tid) : told' = [told EXCEPT ![c] = id]
    BY DEF Reply
<1>2. client[c] = "reply" /\ client' = [client EXCEPT ![c] = "told"]
    BY DEF Reply
<1>3. ptimer[c] \in Given(n)
    BY <1>2 DEF TypedFor
<1>4. id \in 0..n
    BY <1>1, <1>3, GivenFields DEF AddTimerResults
<1>5. told' \in [Clients -> 0..n]
    BY <1>1, <1>4 DEF TypedFor
<1>6. /\ client' \in [Clients -> {"idle", "add", "reply", "told", "done"}]
      /\ \A d \in Clients : client'[d] = IF d = c THEN "told" ELSE client[d]
    BY <1>2 DEF TypedFor
<1>7. UNCHANGED <<now, due, lastTid, execList, file, tmp, fd, main, running, ptimer, cancelled, executed,
                  interrupted, unrun, unlogged, damage, restarts, saves, faults>>
    BY DEF Reply, ClientOnly
<1>8. \A d \in Clients : IF client'[d] = "idle" THEN ptimer'[d] = NoTimer ELSE ptimer'[d] \in Given(n)
    BY <1>2, <1>6, <1>7 DEF TypedFor
<1> QED
    BY <1>5, <1>6, <1>7, <1>8 DEF TypedFor

\* CANCEL: the place of the timer with the ID that the client was told.
PlaceOf(q, tid) == SelectInSeq(q, LAMBDA t : t.tid = tid)

LEMMA Found ==
    ASSUME NEW S, NEW q \in Seq(S), NEW tid, NEW i, i = PlaceOf(q, tid), i # 0
    PROVE  i \in 1..Len(q) /\ q[i].tid = tid
<1> DEFINE I == {j \in 1..Len(q) : q[j].tid = tid}
<1>1. i = IF I # {} THEN Min(I) ELSE 0
    BY DEF PlaceOf, SelectInSeq
<1>2. I \in SUBSET Nat
    OBVIOUS
<1>3. \A j \in I : j \in 1..Len(q) /\ q[j].tid = tid
    OBVIOUS
<1> HIDE DEF I
<1>4. I # {} => Min(I) \in I
    BY <1>2, MinFacts
<1> QED
    BY <1>1, <1>3, <1>4

LEMMA RemoveAtType ==
    ASSUME NEW S, NEW q \in Seq(S), NEW i \in 1..Len(q)
    PROVE  RemoveAt(q, i) \in Seq(S)
<1>1. SubSeq(q, 1, i - 1) \in Seq(S) /\ SubSeq(q, i + 1, Len(q)) \in Seq(S)
    OBVIOUS
<1> QED
    BY <1>1, ConcatProperties DEF RemoveAt

LEMMA CancelTyped ==
    ASSUME NEW n \in Nat, TypedFor(n), NEW c \in Clients, Cancel(c)
    PROVE  TypedFor(n)'
<1>1. PICK i : i = PlaceOf(execList, told[c])
    OBVIOUS
<1>2. /\ client[c] = "told"
      /\ IF i = 0 THEN UNCHANGED <<execList, file, cancelled, unlogged, faults>>
         ELSE /\ Write(Over(execList[i])) /\ execList' = RemoveAt(execList, i)
              /\ cancelled' = cancelled \cup {c}
    BY <1>1 DEF Cancel, PlaceOf
<1>3. PICK next \in CancelTimerLeaves : client' = [client EXCEPT ![c] = next]
    BY DEF Cancel
<1>4. execList \in Seq(Given(n)) /\ cancelled \subseteq Clients
    BY DEF TypedFor
<1>5. /\ execList' \in Seq(Given(n)) /\ file' \in Seq(Given(n)) /\ cancelled' \subseteq Clients
      /\ unlogged' \subseteq Clients /\ faults' \in 0..MaxFaults
  <2>1. CASE i = 0
    BY <1>2, <1>4, <2>1 DEF TypedFor
  <2>2. CASE i # 0
    <3>1. i \in 1..Len(execList)
        BY <1>1, <1>4, <2>2, Found
    <3>2. execList[i] \in Given(n)
        BY <1>4, <3>1
    <3>3. Over(execList[i]) \in Given(n)
        BY <3>2, OverFacts
    <3>4. RemoveAt(execList, i) \in Seq(Given(n))
        BY <1>4, <3>1, RemoveAtType
    <3>5. file' \in Seq(Given(n)) /\ unlogged' \subseteq Clients /\ faults' \in 0..MaxFaults
        BY <1>2, <2>2, <3>3, WriteTyped
    <3> QED
        BY <1>2, <1>4, <2>2, <3>4, <3>5
  <2> QED
    BY <2>1, <2>2
<1>6. /\ client' \in [Clients -> {"idle", "add", "reply", "told", "done"}]
      /\ \A d \in Clients : client'[d] = "idle" <=> client[d] = "idle"
    BY <1>2, <1>3 DEF TypedFor, CancelTimerLeaves
<1>7. UNCHANGED <<now, due, lastTid, tmp, fd, main, running, ptimer, told, executed,
                  interrupted, unrun, damage, restarts, saves>>
    BY DEF Cancel, ClientOnly
<1>8. \A d \in Clients : IF client'[d] = "idle" THEN ptimer'[d] = NoTimer ELSE ptimer'[d] \in Given(n)
    BY <1>6, <1>7 DEF TypedFor
<1> QED
    BY <1>5, <1>6, <1>7, <1>8 DEF TypedFor

LEMMA PrepareTyped ==
    ASSUME NEW n \in Nat, TypedFor(n), NEW c \in Clients, Prepare(c)
    PROVE  TypedFor(n + 1)'
<1>1. PICK i \in Intervals :
          /\ now + i <= MaxTime
          /\ ptimer' = [ptimer EXCEPT ![c] = [tid |-> lastTid + 1, time |-> now + i, of |-> c]]
    BY DEF Prepare
<1>2. PICK p : p = [tid |-> lastTid + 1, time |-> now + i, of |-> c]
    OBVIOUS
<1>3. lastTid + 1 \in 0..(n+1) /\ now + i \in 0..MaxTime
    BY <1>1, TimerAssumption DEF TypedFor
<1>4. p \in Given(n + 1)
    BY <1>2, <1>3 DEF Given
<1>5. Given(n) \subseteq Given(n + 1) /\ Seq(Given(n)) \subseteq Seq(Given(n + 1)) /\ 0..n \subseteq 0..(n+1)
    BY GivenGrows
<1>6. /\ lastTid' = lastTid + 1 /\ client' = [client EXCEPT ![c] = "add"]
      /\ UNCHANGED <<now, due, execList, file, tmp, fd, main, running, told, cancelled, executed,
                     interrupted, unrun, unlogged, damage, restarts, saves, faults>>
    BY DEF Prepare, ClientOnly
<1>7. /\ client' \in [Clients -> {"idle", "add", "reply", "told", "done"}]
      /\ \A d \in Clients : client'[d] = IF d = c THEN "add" ELSE client[d]
    BY <1>6 DEF TypedFor
<1>8. /\ ptimer' \in [Clients -> Given(n + 1) \cup {NoTimer}]
      /\ \A d \in Clients : ptimer'[d] = IF d = c THEN p ELSE ptimer[d]
    BY <1>1, <1>2, <1>4, <1>5 DEF TypedFor
<1>9. \A d \in Clients : IF client'[d] = "idle" THEN ptimer'[d] = NoTimer
                         ELSE ptimer'[d] \in Given(n + 1)
    BY <1>4, <1>5, <1>7, <1>8 DEF TypedFor
<1>10. execList' \in Seq(Given(n+1)) /\ file' \in Seq(Given(n+1)) /\ tmp' \in Seq(Given(n+1))
    BY <1>5, <1>6 DEF TypedFor
<1>11. IF main' = "record" THEN running' \in Given(n+1) ELSE running' = NoTimer
    BY <1>5, <1>6 DEF TypedFor
<1>12. told' \in [Clients -> 0..(n+1)]
    BY <1>5, <1>6 DEF TypedFor
<1>13. lastTid' \in 0..(n+1)
    BY <1>3, <1>6
<1>14. /\ now' \in Nat \ {0} /\ (now' = 1 \/ now' <= MaxTime)
       /\ due' \in Nat /\ (due' <= 1 \/ due' <= MaxTime)
       /\ main' \in {"sleep", "loop", "record", "remove", "rename"}
       /\ cancelled' \subseteq Clients
       /\ executed' \in [Clients -> Nat] /\ interrupted' \in [Clients -> Nat]
       /\ \A d \in Clients : interrupted'[d] <= restarts'
       /\ fd' \in BOOLEAN /\ unrun' \subseteq Clients /\ unlogged' \subseteq Clients
       /\ damage' \subseteq {"cut", "misput"}
       /\ restarts' \in 0..MaxRestarts /\ saves' \in 0..MaxSaves /\ faults' \in 0..MaxFaults
    BY <1>6 DEF TypedFor
<1> QED
    BY <1>7, <1>8, <1>9, <1>10, <1>11, <1>12, <1>13, <1>14 DEF TypedFor

LEMMA RestartTyped ==
    ASSUME NEW n \in Nat, TypedFor(n), Restart
    PROVE  TypedFor(n)'
<1>1. file \in Seq(Given(n))
    BY DEF TypedFor
<1>2. Load(file) \in Seq(Given(n)) /\ LastTid(file) \in 0..n
    BY <1>1, LoadFacts, LastTidFacts
<1>3. execList' \in Seq(Given(n)) /\ lastTid' \in 0..n /\ main' = "sleep" /\ running' = NoTimer
    BY <1>2 DEF Restart
<1>4. /\ restarts \in Nat /\ restarts' = restarts + 1 /\ restarts' \in 0..MaxRestarts
    BY TimerAssumption DEF Restart, TypedFor
<1>5. interrupted' \in [Clients -> Nat] /\ \A c \in Clients : interrupted'[c] <= restarts'
  <2>1. CASE main = "record"
    <3>1. running.of \in Clients
        BY <2>1, GivenFields DEF TypedFor
    <3>2. interrupted' = [interrupted EXCEPT ![running.of] = @ + 1]
        BY <2>1 DEF Restart
    <3>3. /\ interrupted' \in [Clients -> Nat]
          /\ \A c \in Clients : interrupted'[c] = interrupted[c] \/ interrupted'[c] = interrupted[c] + 1
        BY <3>1, <3>2 DEF TypedFor
    <3>4. \A c \in Clients : interrupted[c] \in Nat /\ interrupted[c] <= restarts
        BY DEF TypedFor
    <3> QED
        BY <1>4, <3>3, <3>4
  <2>2. CASE main # "record"
    <3>1. interrupted' = interrupted
        BY <2>2 DEF Restart
    <3>2. \A c \in Clients : interrupted[c] \in Nat /\ interrupted[c] <= restarts
        BY DEF TypedFor
    <3>3. interrupted' \in [Clients -> Nat]
        BY <3>1 DEF TypedFor
    <3> QED
        BY <1>4, <3>1, <3>2, <3>3
  <2> QED
    BY <2>1, <2>2
<1>6. /\ client' \in [Clients -> {"idle", "add", "reply", "told", "done"}]
      /\ \A c \in Clients : client'[c] = "idle" <=> client[c] = "idle"
    BY DEF Restart, TypedFor
<1>7. UNCHANGED <<now, due, file, tmp, ptimer, told, cancelled, executed, unrun, unlogged, saves,
                  faults>>
    BY DEF Restart
<1>8. damage' \subseteq {"cut", "misput"} /\ fd' \in BOOLEAN
    BY DEF Restart, TypedFor
<1>9. \A d \in Clients : IF client'[d] = "idle" THEN ptimer'[d] = NoTimer ELSE ptimer'[d] \in Given(n)
    BY <1>6, <1>7 DEF TypedFor
<1> QED
    BY <1>3, <1>4, <1>5, <1>6, <1>7, <1>8, <1>9 DEF TypedFor

-----------------------------------------------------------------------------
(* The file and the list, as long as every ADD wrote its own line.         *)

InOrder == Recorded /\ Fresh /\ Counted /\ Final

LEMMA LiveFacts ==
    ASSUME NEW n \in Nat, TypedFor(n), Recorded
    PROVE  /\ Journal \in Seq(Given(n))
           /\ \A t \in Live : t \in Given(n) /\ t.of \in Clients /\ OwnedLine(t) /\ t.time # 0
           /\ \A t, u \in Live : t.tid = u.tid => t = u
<1>1. Journal \in Seq(Given(n))
    BY DEF TypedFor, Journal
<1>2. ASSUME NEW t \in Live PROVE t \in Given(n)
  <2>1. CASE t \in ToSet(execList)
    BY <2>1 DEF TypedFor, ToSet
  <2>2. CASE t \notin ToSet(execList)
    BY <1>2, <2>2 DEF TypedFor, Live
  <2> QED
    BY <2>1, <2>2
<1>3. \A t \in Live : t \in Given(n) /\ t.of \in Clients
    BY <1>2, GivenFields
<1> QED
    BY <1>1, <1>3 DEF Recorded, Alive

\* The lines are still those of the timers.
LEMMA DescribesSame ==
    ASSUME NEW ls, Describes(ls), UNCHANGED <<client, ptimer, lastTid>>, Live' = Live,
           unlogged \subseteq unlogged'
    PROVE  Describes(ls)'
BY DEF Describes, Agrees, Owned, OwnedLine

\* Clients that have asked still have, and their timers and IDs are the same.
KeepsOwners ==
    /\ \A c \in Clients : client[c] \notin Waiting => client'[c] \notin Waiting
    /\ UNCHANGED <<ptimer, lastTid>>

LEMMA OwnedStays ==
    ASSUME NEW n \in Nat, NEW t \in Given(n), OwnedLine(t), KeepsOwners
    PROVE  OwnedLine(t)'
<1>1. t.of \in Clients
    BY GivenFields
<1> QED
    BY <1>1 DEF OwnedLine, KeepsOwners

LEMMA OwnedSeqStays ==
    ASSUME NEW n \in Nat, NEW ls \in Seq(Given(n)), Owned(ls), KeepsOwners
    PROVE  Owned(ls)'
<1>1. ASSUME NEW i \in 1..Len(ls) PROVE OwnedLine(ls[i])'
  <2>1. ls[i] \in Given(n) /\ OwnedLine(ls[i])
    BY DEF Owned
  <2> QED
    BY <2>1, OwnedStays
<1> QED
    BY <1>1 DEF Owned

LEMMA AliveStays ==
    ASSUME NEW n \in Nat, TypedFor(n), Recorded, KeepsOwners, Live' \subseteq Live
    PROVE  Alive'
<1>1. ASSUME NEW t \in Live' PROVE OwnedLine(t)' /\ t.time # 0
  <2>1. t \in Given(n) /\ OwnedLine(t) /\ t.time # 0
    BY <1>1, LiveFacts
  <2> QED
    BY <2>1, OwnedStays
<1>2. \A t, u \in Live' : t.tid = u.tid => t = u
    BY LiveFacts
<1> QED
    BY <1>1, <1>2 DEF Alive

\* Fewer timers, those that are gone having no line that is open.
LEMMA DescribesFewer ==
    ASSUME NEW n \in Nat, NEW ls \in Seq(Given(n)), Describes(ls), KeepsOwners,
           Live' \subseteq Live, unlogged \subseteq unlogged',
           \A t \in Live \ Live' : t \notin Open(ls) \/ t.of \in unlogged'
    PROVE  Describes(ls)'
<1>1. Owned(ls)'
    BY OwnedSeqStays DEF Describes
<1> QED
    BY <1>1 DEF Describes, Agrees

\* IDs that nobody has are those that nobody had.
LEMMA FreshKept ==
    ASSUME Fresh, UNCHANGED <<ptimer, lastTid, told>>,
           \A c \in Clients : client'[c] = "add" => client[c] = "add",
           \A c \in Clients : client[c] \notin Waiting => client'[c] \notin Waiting,
           \A c \in Clients : client'[c] = "add" =>
               \A tid : tid = ptimer[c].tid /\ NewId(tid) => NewId(tid)'
    PROVE  Fresh'
<1>1. ASSUME NEW c \in Clients, client'[c] = "add" PROVE FreshFor(c)'
  <2>1. FreshFor(c)
    BY <1>1 DEF Fresh
  <2>2. PICK tid : tid = ptimer[c].tid
    OBVIOUS
  <2>3. NewId(tid)'
    BY <1>1, <2>1, <2>2 DEF FreshFor
  <2>4. NewId(ptimer[c].tid)'
    BY <2>2, <2>3 DEF NewId, Unused
  <2> QED
    BY <2>1, <2>4 DEF FreshFor, NewId, Unused
<1>2. \A c, d \in Clients :
          client'[c] = "add" /\ client'[d] = "add" /\ ptimer'[c].tid = ptimer'[d].tid => c = d
    BY DEF Fresh
<1>3. \A c \in Clients : told'[c] = 0 \/ (client'[c] \notin Waiting /\ told'[c] = ptimer'[c].tid)
    BY DEF Fresh
<1> QED
    BY <1>1, <1>2, <1>3 DEF Fresh

\* A step that changes neither the timers nor the lines that describe them.
LEMMA SameOrder ==
    ASSUME NEW n \in Nat, TypedFor(n), InOrder,
           UNCHANGED <<lastTid, execList, client, ptimer, told, cancelled, executed, interrupted>>,
           unlogged \subseteq unlogged', Live' = Live,
           Describes(Journal)', main' = "remove" => Describes(tmp)',
           main' = "rename" => file' = <<>>, main' = "record" => main = "record" /\ running' = running,
           \A tid : NewId(tid) => NewId(tid)'
    PROVE  InOrder'
<1>1. Alive'
    BY AliveStays DEF InOrder, KeepsOwners
<1>2. Recorded'
    BY <1>1 DEF InOrder, Recorded
<1>3. Fresh'
    BY FreshKept DEF InOrder
<1>4. Counted' /\ Final'
    BY DEF InOrder, Counted, Final
<1> QED
    BY <1>2, <1>3, <1>4 DEF InOrder

LEMMA QuietOrder ==
    ASSUME NEW n \in Nat, TypedFor(n), InOrder, Tick \/ Wake \/ Sleep \/ SaveFails
    PROVE  InOrder'
<1>1. UNCHANGED <<lastTid, execList, file, tmp, running, client, ptimer, told, cancelled, executed,
                  interrupted, unlogged>>
    BY DEF Tick, Wake, Sleep, SaveFails, NoRun, MainOnly, clients, history
<1>2. main' = main \/ (main \in {"sleep", "loop"} /\ main' \in {"sleep", "loop"})
    BY DEF Tick, Wake, Sleep, SaveFails, SaveStarts
<1>3. Journal' = Journal /\ Live' = Live
    BY <1>1, <1>2 DEF Journal, Live
<1>4. PICK ls : ls = Journal
    OBVIOUS
<1>5. PICK lt : lt = tmp
    OBVIOUS
<1>6. Describes(ls) /\ (main = "remove" => Describes(lt))
    BY <1>4, <1>5 DEF InOrder, Recorded
<1>7. Describes(ls)' /\ (main = "remove" => Describes(lt)')
    BY <1>1, <1>3, <1>6, DescribesSame
<1>8. Describes(Journal)' /\ (main' = "remove" => Describes(tmp)')
    BY <1>1, <1>2, <1>3, <1>4, <1>5, <1>7 DEF Describes, Owned, Agrees
<1>9. main' = "rename" => file' = <<>>
    BY <1>1, <1>2 DEF InOrder, Recorded
<1>10. \A tid : NewId(tid) => NewId(tid)'
    BY <1>1, <1>2, <1>3 DEF NewId, Unused
<1> QED
    BY <1>1, <1>2, <1>3, <1>8, <1>9, <1>10, SameOrder

LEMMA ExecuteOrder ==
    ASSUME NEW n \in Nat, TypedFor(n), InOrder, Execute
    PROVE  InOrder'
<1>1. PICK h : h = Head(execList)
    OBVIOUS
<1>2. /\ main = "loop" /\ main' = "record" /\ execList # <<>> /\ running' = h /\ execList' = Tail(execList)
      /\ executed' = [executed EXCEPT ![h.of] = @ + 1] \/ executed' = executed
      /\ UNCHANGED <<file, tmp, lastTid, client, ptimer, told, cancelled, interrupted, unlogged>>
    BY <1>1 DEF Execute, IsDue, MainOnly, clients
<1>3. execList \in Seq(Given(n)) /\ Injective(execList)
    BY DEF TypedFor, InOrder, Recorded
<1>4. /\ Injective(execList') /\ ToSet(execList') = ToSet(execList) \ {h} /\ h \in ToSet(execList)
    BY <1>1, <1>2, <1>3, TailFacts
<1>5. Journal' = Journal /\ Journal = file
    BY <1>2 DEF Journal
<1>6. Live = ToSet(execList) /\ Live' = Live
    BY <1>2, <1>4 DEF Live
<1>7. PICK ls : ls = Journal
    OBVIOUS
<1>8. Describes(ls)'
    BY <1>2, <1>6, <1>7, DescribesSame DEF InOrder, Recorded
<1>9. Describes(Journal)'
    BY <1>5, <1>7, <1>8 DEF Describes, Owned, Agrees
<1>10. Recorded'
  <2>1. Alive'
    BY <1>2, <1>6, AliveStays DEF InOrder, KeepsOwners
  <2> QED
    BY <1>2, <1>4, <1>9, <2>1 DEF Recorded
<1>11. Fresh'
  <2>1. \A tid : NewId(tid) => NewId(tid)'
    BY <1>2, <1>5, <1>6 DEF NewId, Unused
  <2> QED
    BY <1>2, <2>1, FreshKept DEF InOrder
<1>12. Final'
    BY <1>2, <1>6 DEF InOrder, Final
<1>13. h \in Live /\ h.of \in Clients /\ client[h.of] \notin Waiting
    BY <1>4, <1>6, LiveFacts DEF InOrder, OwnedLine
<1>14. \A t \in Live : t.of = h.of => t = h
    BY <1>13, LiveFacts DEF InOrder, OwnedLine
<1>15. Counted'
  <2> SUFFICES ASSUME NEW c \in Clients \ unlogged
               PROVE  /\ executed'[c] <= 1 + interrupted'[c]
                      /\ client'[c] \in Waiting \/ (\E t \in ToSet(execList') : t.of = c)
                            => executed'[c] <= interrupted'[c]
    BY <1>2 DEF Counted
  <2>1. /\ executed[c] \in Nat /\ interrupted[c] \in Nat
        /\ executed'[c] = executed[c] \/ (c = h.of /\ executed'[c] = executed[c] + 1)
    BY <1>2, <1>13 DEF TypedFor
  <2>2. /\ executed[c] <= 1 + interrupted[c]
        /\ client[c] \in Waiting \/ (\E t \in ToSet(execList) : t.of = c) => executed[c] <= interrupted[c]
    BY DEF InOrder, Counted
  <2>3. CASE c = h.of
    <3>1. executed[c] <= interrupted[c]
        BY <1>4, <2>2, <2>3
    <3>2. client'[c] \notin Waiting /\ ~\E t \in ToSet(execList') : t.of = c
        BY <1>2, <1>4, <1>6, <1>13, <1>14, <2>3
    <3> QED
        BY <1>2, <2>1, <2>3, <3>1, <3>2
  <2>4. CASE c # h.of
    BY <1>2, <1>4, <2>1, <2>2, <2>4
  <2> QED
    BY <2>3, <2>4
<1> QED
    BY <1>10, <1>11, <1>12, <1>15 DEF InOrder

\* A timer is over, and its line is written, or not.
LEMMA OverWritten ==
    ASSUME NEW n \in Nat, TypedFor(n), Recorded, NEW t \in Live, Write(Over(t)), KeepsOwners,
           Live' = Live \ {t}, main \notin {"remove", "rename"}, main' \notin {"remove", "rename"}
    PROVE  /\ Alive' /\ Describes(Journal)'
           /\ \A tid : NewId(tid) => NewId(tid)'
           /\ unlogged \subseteq unlogged'
<1>1. PICK ls : ls = file
    OBVIOUS
<1>2. ls \in Seq(Given(n)) /\ Describes(ls) /\ Journal = ls /\ Journal' = file'
    BY <1>1 DEF TypedFor, Recorded, Journal
<1>3. /\ t \in Given(n) /\ t.of \in Clients /\ t.time # 0 /\ ~IsOver(ls, t.tid)
      /\ \A u \in Live : u.tid = t.tid => u = t
    BY <1>2, LiveFacts DEF Describes
<1>4. Over(t) \in Given(n) /\ Over(t).tid = t.tid /\ Over(t).of = t.of
    BY <1>3, OverFacts
<1>5. Alive'
    BY AliveStays
<1>6. CASE file' = Append(ls, Over(t)) /\ unlogged' = unlogged
  <2>1. PICK r : r = Append(ls, Over(t))
    OBVIOUS
  <2>2. /\ Sound(r) /\ Open(r) = {u \in Open(ls) : u.tid # t.tid}
        /\ \A tid : IsOver(r, tid) <=> IsOver(ls, tid) \/ tid = t.tid
    BY <1>2, <1>3, <2>1, AppendOver DEF Describes
  <2>3. /\ Len(r) = Len(ls) + 1 /\ r[Len(ls) + 1] = Over(t)
        /\ \A i \in 1..Len(ls) : r[i] = ls[i]
        /\ \A i \in 1..Len(r) : i \in 1..Len(ls) \/ i = Len(ls) + 1
    BY <1>2, <1>4, <2>1
  <2>4. Owned(r)'
    <3>1. Owned(ls)'
        BY <1>2, OwnedSeqStays DEF Describes
    <3>2. OwnedLine(t)'
        BY <1>3, OwnedStays DEF Recorded, Alive
    <3>3. OwnedLine(Over(t))'
        BY <1>4, <3>2 DEF OwnedLine
    <3>4. \A i \in 1..Len(r) : OwnedLine(r[i])'
        BY <2>3, <3>1, <3>3 DEF Owned
    <3> QED
        BY <3>4 DEF Owned
  <2>5. Agrees(r)'
    BY <1>2, <1>3, <1>6, <2>2 DEF Describes, Agrees
  <2>6. \A u \in Live' : ~IsOver(r, u.tid)
    BY <1>2, <1>3, <2>2 DEF Describes
  <2>7. \A u \in Open(r), v \in Live' : u.tid = v.tid => u = v
    BY <1>2, <2>2 DEF Describes
  <2>8. Describes(r)'
    BY <2>2, <2>4, <2>5, <2>6, <2>7 DEF Describes
  <2>9. Describes(Journal)'
    BY <1>2, <1>6, <2>1, <2>8 DEF Describes, Owned, Agrees
  <2>10. ASSUME NEW tid, NewId(tid) PROVE NewId(tid)'
    <3>1. Unused(r, tid)
        BY <1>2, <1>4, <2>3, <2>10 DEF NewId, Unused
    <3> QED
        BY <1>2, <1>6, <2>1, <2>10, <3>1 DEF NewId
  <2> QED
    BY <1>5, <1>6, <2>9, <2>10
<1>7. CASE file' = ls /\ unlogged' = unlogged \cup {t.of}
  <2>1. Describes(ls)'
    BY <1>2, <1>7, DescribesFewer
  <2>2. Describes(Journal)'
    BY <1>2, <1>7, <2>1 DEF Describes, Owned, Agrees
  <2>3. \A tid : NewId(tid) => NewId(tid)'
    BY <1>2, <1>7 DEF NewId
  <2> QED
    BY <1>5, <1>7, <2>2, <2>3
<1> QED
    BY <1>1, <1>4, <1>6, <1>7 DEF Write

LEMMA RecordOrder ==
    ASSUME NEW n \in Nat, TypedFor(n), InOrder, Record
    PROVE  InOrder'
<1>1. PICK t : t = running
    OBVIOUS
<1>2. /\ main = "record" /\ main' = "loop" /\ Write(Over(t)) /\ running' = NoTimer
      /\ UNCHANGED <<execList, tmp, lastTid, client, ptimer, told, cancelled, executed, interrupted>>
    BY <1>1 DEF Record, NoRun, MainOnly, clients
<1>3. Injective(execList) /\ t \notin ToSet(execList) /\ t \in Live
    BY <1>1, <1>2 DEF InOrder, Recorded, Live
<1>4. Live' = Live \ {t}
    BY <1>1, <1>2, <1>3 DEF Live
<1>5. /\ Alive' /\ Describes(Journal)'
      /\ \A tid : NewId(tid) => NewId(tid)'
      /\ unlogged \subseteq unlogged'
    BY <1>2, <1>3, <1>4, OverWritten DEF InOrder, KeepsOwners
<1>6. Recorded'
    BY <1>2, <1>3, <1>5 DEF Recorded
<1>7. Fresh'
    BY <1>2, <1>5, FreshKept DEF InOrder
<1>8. Counted' /\ Final'
    BY <1>2, <1>4, <1>5 DEF InOrder, Counted, Final
<1> QED
    BY <1>6, <1>7, <1>8 DEF InOrder

\* What save_timers writes describes the timers as the file does, but for what is lost.
LEMMA PendingDescribes ==
    ASSUME NEW n \in Nat, NEW ls \in Seq(Given(n)), NEW lost, Describes(ls),
           UNCHANGED <<client, ptimer, lastTid>>, Live' = Live,
           unlogged' = unlogged \cup {t.of : t \in lost}
    PROVE  /\ Describes(PendingBut(ls, lost))'
           /\ \A tid : Unused(ls, tid) => Unused(PendingBut(ls, lost), tid)
<1>1. Sound(ls) /\ Owned(ls)
    BY DEF Describes
<1>2. PICK q : q = PendingBut(ls, lost)
    OBVIOUS
<1>3. q \in Seq(Given(n)) /\ ToSet(q) = Open(ls) \ lost /\ Open(q) = Open(ls) \ lost /\ Sound(q)
    BY <1>1, <1>2, PendingKept, PendingFacts
<1>4. ASSUME NEW j \in 1..Len(q) PROVE \E i \in 1..Len(ls) : q[j] = ls[i] /\ Opens(ls, i)
  <2>1. q[j] \in Open(ls)
    BY <1>3 DEF ToSet
  <2> QED
    BY <2>1, OpenFacts
<1>5. Owned(q)'
    BY <1>1, <1>4 DEF Owned, OwnedLine
<1>6. \A tid : Unused(ls, tid) => Unused(q, tid)
    BY <1>4 DEF Unused
<1>7. \A tid : ~IsOver(q, tid)
    BY <1>4 DEF IsOver, Opens
<1>8. Agrees(q)'
  <2>1. ASSUME NEW t \in Live, t \notin Open(q) PROVE t.of \in unlogged'
    <3>1. t \in lost \/ t \notin Open(ls)
        BY <1>3, <2>1
    <3> QED
        BY <2>1, <3>1 DEF Describes, Agrees
  <2>2. ASSUME NEW t \in Open(q), t \notin Live PROVE t.of \in unlogged'
    BY <1>3, <2>2 DEF Describes, Agrees
  <2> QED
    BY <2>1, <2>2 DEF Agrees
<1>9. \A t \in Open(q), u \in Live' : t.tid = u.tid => t = u
    BY <1>3 DEF Describes
<1>10. Describes(q)'
    BY <1>3, <1>5, <1>7, <1>8, <1>9 DEF Describes
<1>11. Describes(PendingBut(ls, lost))'
    BY <1>2, <1>10
<1> QED
    BY <1>2, <1>6, <1>11

LEMMA SaveOrder ==
    ASSUME NEW n \in Nat, TypedFor(n), InOrder, Save
    PROVE  InOrder'
<1>1. PICK ls : ls = file
    OBVIOUS
<1>2. PICK lost : tmp' = PendingBut(ls, lost) /\ unlogged' = unlogged \cup {t.of : t \in lost}
    BY <1>1 DEF Save
<1>3. PICK q : q = PendingBut(ls, lost)
    OBVIOUS
<1>4. /\ main = "loop" /\ main' = "remove"
      /\ UNCHANGED <<execList, file, running, lastTid, client, ptimer, told, cancelled, executed,
                     interrupted>>
    BY DEF Save, SaveStarts, NoRun, MainOnly, clients
<1>5. Journal = ls /\ Journal' = ls /\ Live' = Live
    BY <1>1, <1>4 DEF Journal, Live
<1>6. Describes(ls) /\ ls \in Seq(Given(n))
    BY <1>1, <1>5 DEF InOrder, Recorded, TypedFor
<1>7. Describes(PendingBut(ls, lost))' /\ \A tid : Unused(ls, tid) => Unused(PendingBut(ls, lost), tid)
    BY <1>2, <1>4, <1>5, <1>6, PendingDescribes
<1>8. Describes(q)' /\ Describes(ls)' /\ \A tid : Unused(ls, tid) => Unused(q, tid)
  <2>1. Describes(ls)'
    BY <1>2, <1>4, <1>5, <1>6, DescribesSame
  <2> QED
    BY <1>3, <1>7, <2>1
<1>9. Describes(Journal)' /\ Describes(tmp)'
    BY <1>2, <1>3, <1>5, <1>8 DEF Describes, Owned, Agrees
<1>10. \A tid : NewId(tid) => NewId(tid)'
    BY <1>2, <1>3, <1>4, <1>5, <1>8 DEF NewId
<1> QED
    BY <1>2, <1>4, <1>5, <1>9, <1>10, SameOrder

\* The file is removed: the .tmp file has taken its place.
LEMMA SaveRemoveOrder ==
    ASSUME NEW n \in Nat, TypedFor(n), InOrder, SaveRemove
    PROVE  InOrder'
<1>1. PICK ls : ls = tmp
    OBVIOUS
<1>2. /\ main = "remove" /\ main' = "rename" /\ file' = <<>>
      /\ UNCHANGED <<execList, tmp, running, lastTid, client, ptimer, told, cancelled, executed,
                     interrupted, unlogged>>
    BY DEF SaveRemove, NoRun, MainOnly, clients
<1>3. Journal' = ls /\ Live' = Live
    BY <1>1, <1>2 DEF Journal, Live
<1>4. Describes(ls)'
    BY <1>1, <1>2, <1>3, DescribesSame DEF InOrder, Recorded
<1>5. Describes(Journal)'
    BY <1>3, <1>4 DEF Describes, Owned, Agrees
<1>6. \A tid : NewId(tid) => NewId(tid)'
    BY <1>1, <1>2, <1>3 DEF NewId
<1> QED
    BY <1>2, <1>3, <1>5, <1>6, SameOrder

LEMMA SaveRenameOrder ==
    ASSUME NEW n \in Nat, TypedFor(n), InOrder, SaveRename
    PROVE  InOrder'
<1>1. PICK ls : ls = Journal
    OBVIOUS
<1>2. /\ main = "rename" /\ main' = "sleep" /\ file' = tmp
      /\ UNCHANGED <<execList, running, lastTid, client, ptimer, told, cancelled, executed,
                     interrupted, unlogged>>
    BY DEF SaveRename, NoRun, MainOnly, clients
<1>3. Journal' = ls /\ Live' = Live
    BY <1>1, <1>2 DEF Journal, Live
<1>4. Describes(ls)'
    BY <1>1, <1>2, <1>3, DescribesSame DEF InOrder, Recorded
<1>5. Describes(Journal)'
    BY <1>3, <1>4 DEF Describes, Owned, Agrees
<1>6. \A tid : NewId(tid) => NewId(tid)'
    BY <1>1, <1>2, <1>3 DEF NewId
<1> QED
    BY <1>2, <1>3, <1>5, <1>6, SameOrder

\* There is no file any more: every timer has a line that was not written.
LEMMA SaveRenameFailsOrder ==
    ASSUME NEW n \in Nat, TypedFor(n), InOrder, SaveRenameFails
    PROVE  InOrder'
<1>1. PICK ls : ls = tmp
    OBVIOUS
<1>2. /\ main = "rename" /\ main' = "sleep" /\ file' = file
      /\ unlogged' = unlogged \cup {ls[i].of : i \in DOMAIN ls}
      /\ UNCHANGED <<execList, running, lastTid, client, ptimer, told, cancelled, executed,
                     interrupted>>
    BY <1>1 DEF SaveRenameFails, NoRun, MainOnly, clients
<1>3. file = <<>> /\ Journal = ls /\ Journal' = file' /\ Live' = Live
    BY <1>1, <1>2 DEF InOrder, Recorded, Journal, Live
<1>4. ls \in Seq(Given(n)) /\ Describes(ls)
    BY <1>1, <1>3 DEF TypedFor, InOrder, Recorded
<1>5. ASSUME NEW t \in Live' PROVE t.of \in unlogged'
  <2>1. t \in Live
    BY <1>3
  <2>2. CASE t \in Open(ls)
    <3>1. PICK i \in 1..Len(ls) : t = ls[i]
        BY <2>2, OpenFacts
    <3> QED
        BY <1>2, <1>4, <3>1
  <2>3. CASE t \notin Open(ls)
    BY <1>2, <1>4, <2>1, <2>3 DEF Describes, Agrees
  <2> QED
    BY <2>2, <2>3
<1>6. Len(Journal') = 0
    BY <1>2, <1>3
<1>7. Describes(Journal)'
  <2>1. Sound(Journal)' /\ Open(Journal)' = {} /\ Owned(Journal)' /\ \A tid : ~IsOver(Journal', tid)
    <3>1. 1..0 = {}
        OBVIOUS
    <3> QED
        BY <1>6, <3>1 DEF Sound, OneAlive, OneOver, OverLater, Open, Owned, IsOver
  <2> QED
    BY <1>5, <2>1 DEF Describes, Agrees
<1>8. \A tid : NewId(tid) => NewId(tid)'
  <2>1. \A tid : Unused(Journal', tid)
    BY <1>6 DEF Unused
  <2> QED
    BY <1>2, <1>3, <2>1 DEF NewId
<1> QED
    BY <1>2, <1>3, <1>7, <1>8, SameOrder

\* ADD before the lock: the ID is larger than all that are in the file.
LEMMA PrepareOrder ==
    ASSUME NEW n \in Nat, TypedFor(n), InOrder, NEW c \in Clients, Prepare(c)
    PROVE  InOrder'
<1>1. PICK p : /\ p.tid = lastTid + 1 /\ p.time # 0 /\ p.of = c
               /\ ptimer' = [ptimer EXCEPT ![c] = p]
  <2>1. PICK i \in Intervals :
            ptimer' = [ptimer EXCEPT ![c] = [tid |-> lastTid + 1, time |-> now + i, of |-> c]]
    BY DEF Prepare
  <2>2. now + i # 0
    BY TimerAssumption DEF TypedFor
  <2>3. PICK q : q = [tid |-> lastTid + 1, time |-> now + i, of |-> c]
    OBVIOUS
  <2>4. q.tid = lastTid + 1 /\ q.time # 0 /\ q.of = c
    BY <2>2, <2>3
  <2>5. ptimer' = [ptimer EXCEPT ![c] = q]
    BY <2>1, <2>3
  <2> QED
    BY <2>4, <2>5
<1>2. /\ client[c] = "idle" /\ client' = [client EXCEPT ![c] = "add"] /\ lastTid' = lastTid + 1
      /\ UNCHANGED <<execList, file, tmp, main, running, told, cancelled, executed, interrupted, unlogged>>
    BY DEF Prepare, ClientOnly
<1>3. /\ \A d \in Clients : client'[d] = IF d = c THEN "add" ELSE client[d]
      /\ \A d \in Clients : ptimer'[d] = IF d = c THEN p ELSE ptimer[d]
    BY <1>1, <1>2 DEF TypedFor
<1>4. lastTid \in Nat
    BY DEF TypedFor
<1>5. Journal' = Journal /\ Live' = Live
    BY <1>2 DEF Journal, Live
<1>6. ASSUME NEW u \in Given(n), OwnedLine(u)
      PROVE  OwnedLine(u)' /\ u.tid # lastTid + 1
  <2>1. u.of \in Clients /\ u.tid \in Nat
    BY GivenFields
  <2>2. u.of # c
    BY <1>2, <1>6 DEF OwnedLine, Waiting
  <2> QED
    BY <1>2, <1>3, <1>4, <1>6, <2>1, <2>2 DEF OwnedLine
<1>a. Alive' /\ \A u \in Live : u.tid # lastTid + 1
  <2>1. \A u \in Live : OwnedLine(u)' /\ u.tid # lastTid + 1
    BY <1>6, LiveFacts DEF InOrder
  <2> QED
    BY <1>5, <2>1 DEF InOrder, Recorded, Alive
<1>b. ASSUME NEW ls \in Seq(Given(n)), Describes(ls)
      PROVE  Describes(ls)' /\ Unused(ls, lastTid + 1)
  <2>1. \A i \in 1..Len(ls) : OwnedLine(ls[i])' /\ ls[i].tid # lastTid + 1
    BY <1>6, <1>b DEF Describes, Owned
  <2>2. Owned(ls)' /\ Unused(ls, lastTid + 1)
    BY <2>1 DEF Owned, Unused
  <2> QED
    BY <1>2, <1>5, <1>b, <2>2 DEF Describes, Agrees
<1>7. PICK ls \in Seq(Given(n)) : ls = Journal
    BY DEF TypedFor, Journal
<1>8. PICK lt \in Seq(Given(n)) : lt = tmp
    BY DEF TypedFor
<1>9. Describes(ls) /\ (main = "remove" => Describes(lt))
    BY <1>7, <1>8 DEF InOrder, Recorded
<1>10. Describes(ls)' /\ (main = "remove" => Describes(lt)')
    BY <1>9, <1>b
<1>11. Unused(ls, lastTid + 1) /\ (main = "remove" => Unused(lt, lastTid + 1))
    BY <1>9, <1>b
<1>12. Describes(Journal)' /\ (main' = "remove" => Describes(tmp)')
    BY <1>2, <1>5, <1>7, <1>8, <1>10 DEF Describes, Owned, Agrees
<1>13. Recorded'
    BY <1>2, <1>12, <1>a DEF InOrder, Recorded
<1>14. ASSUME NEW d \in Clients, d # c, client[d] = "add"
       PROVE  FreshFor(d)' /\ ptimer'[d].tid # lastTid + 1
  <2>1. FreshFor(d)
    BY <1>14 DEF InOrder, Fresh
  <2>2. ptimer'[d] = ptimer[d] /\ ptimer[d].tid \in Nat
    <3>1. ptimer[d] \in Given(n)
        BY <1>14 DEF TypedFor
    <3> QED
        BY <1>3, <1>14, <3>1, GivenFields
  <2>3. NewId(ptimer[d].tid)' /\ ptimer[d].tid # lastTid + 1
    <3>1. PICK tid : tid = ptimer[d].tid
        OBVIOUS
    <3>2. NewId(tid)'
        BY <1>2, <1>5, <2>1, <3>1 DEF FreshFor, NewId, Unused
    <3>3. NewId(ptimer[d].tid)'
        BY <2>2, <3>1, <3>2 DEF NewId, Unused
    <3> QED
        BY <1>4, <2>1, <2>2, <3>3 DEF FreshFor
  <2> QED
    BY <1>2, <1>4, <1>5, <2>1, <2>2, <2>3 DEF FreshFor
<1>15. FreshFor(c)'
  <2>1. Unused(Journal', lastTid + 1) /\ (main' = "remove" => Unused(tmp', lastTid + 1))
    BY <1>2, <1>5, <1>7, <1>8, <1>11
  <2>2. ptimer'[c] = p
    BY <1>3
  <2>3. \A u \in Live' : u.tid # lastTid + 1
    BY <1>5, <1>a
  <2>4. PICK tid \in Nat : tid = lastTid + 1
    BY <1>4
  <2>5. NewId(tid)'
    BY <2>1, <2>3, <2>4 DEF NewId, Unused
  <2>6. ptimer'[c].tid = tid
    BY <1>1, <2>2, <2>4
  <2>7. NewId(ptimer[c].tid)'
    BY <2>5, <2>6 DEF NewId, Unused
  <2> QED
    BY <1>1, <1>2, <2>2, <2>4, <2>6, <2>7 DEF FreshFor
<1>16. Fresh'
  <2>1. \A d \in Clients : client'[d] = "add" => FreshFor(d)'
    BY <1>3, <1>14, <1>15
  <2>2. \A d, e \in Clients :
            client'[d] = "add" /\ client'[e] = "add" /\ ptimer'[d].tid = ptimer'[e].tid => d = e
    <3> SUFFICES ASSUME NEW d \in Clients, NEW e \in Clients, client'[d] = "add", client'[e] = "add",
                        ptimer'[d].tid = ptimer'[e].tid
                 PROVE  d = e
        OBVIOUS
    <3>1. ptimer'[c].tid = lastTid + 1
        BY <1>1, <1>3
    <3>2. CASE d = c \/ e = c
        BY <1>3, <1>14, <3>1, <3>2
    <3>3. CASE d # c /\ e # c
        BY <1>3, <3>3 DEF InOrder, Fresh
    <3> QED
        BY <3>2, <3>3
  <2>3. \A d \in Clients : told'[d] = 0 \/ (client'[d] \notin Waiting /\ told'[d] = ptimer'[d].tid)
    <3>1. told[c] = 0
        BY <1>2 DEF InOrder, Fresh, Waiting
    <3> QED
        BY <1>2, <1>3, <3>1 DEF InOrder, Fresh
  <2> QED
    BY <2>1, <2>2, <2>3 DEF Fresh
<1>17. \A d \in Clients : client'[d] \in Waiting <=> client[d] \in Waiting
    BY <1>2, <1>3 DEF Waiting
<1>18. Counted'
    BY <1>2, <1>17 DEF InOrder, Counted
<1>19. Final'
  <2>1. cancelled \subseteq Clients
    BY DEF TypedFor
  <2> QED
    BY <1>2, <1>5, <1>17, <2>1 DEF InOrder, Final
<1> QED
    BY <1>13, <1>16, <1>18, <1>19 DEF InOrder

\* ADD under the lock: the timer enters the list, its line the file.
LEMMA AddOrder ==
    ASSUME NEW n \in Nat, TypedFor(n), InOrder, NEW c \in Clients, Add(c),
           PutTimerResult(execList, ptimer[c]) = ptimer[c]
    PROVE  InOrder'
<1>1. PICK t : t = ptimer[c]
    OBVIOUS
<1>2. PICK ls : ls = file
    OBVIOUS
<1>3. PICK q : q = execList
    OBVIOUS
<1>4. /\ client[c] = "add" /\ main = "sleep" /\ client' = [client EXCEPT ![c] = "reply"]
      /\ execList' = PutTimer(q, t) /\ Write(t) /\ ptimer' = [ptimer EXCEPT ![c] = t]
      /\ UNCHANGED <<lastTid, told, cancelled, tmp, main, running, executed, interrupted>>
    BY <1>1, <1>3 DEF Add, ClientOnly
<1>5. /\ \A d \in Clients : client'[d] = IF d = c THEN "reply" ELSE client[d]
      /\ ptimer' = ptimer
  <2>1. client \in [Clients -> {"idle", "add", "reply", "told", "done"}]
    BY DEF TypedFor
  <2>2. ptimer \in [Clients -> Given(n) \cup {NoTimer}]
    BY DEF TypedFor
  <2>3. ptimer' = ptimer
    BY <1>1, <1>4, <2>2
  <2> QED
    BY <1>4, <2>1, <2>3
<1>6. FreshFor(c) /\ KeepsOwners
    BY <1>4, <1>5 DEF InOrder, Fresh, KeepsOwners, Waiting
<1>7. Journal = ls /\ Journal' = file' /\ Live = ToSet(q)
    BY <1>2, <1>3, <1>4 DEF Journal, Live
<1>8. /\ t \in Given(n) /\ t.time # 0 /\ t.of = c /\ t.tid <= lastTid
      /\ \A i \in 1..Len(ls) : ls[i].tid # t.tid
      /\ \A u \in Live : u.tid # t.tid
    BY <1>1, <1>4, <1>6, <1>7 DEF TypedFor, FreshFor, NewId, Unused
<1>9. ls \in Seq(Given(n)) /\ q \in Seq(Given(n)) /\ Injective(q) /\ Describes(ls)
    BY <1>2, <1>3, <1>7 DEF TypedFor, InOrder, Recorded
<1>10. t \notin ToSet(q)
    BY <1>7, <1>8
<1>11. ToSet(execList') = ToSet(q) \cup {t} /\ Injective(execList')
    BY <1>4, <1>8, <1>9, <1>10, PutTimerFacts
<1>12. Live' = Live \cup {t}
    BY <1>4, <1>7, <1>11 DEF Live
<1>13. OwnedLine(t)'
  <2>1. client'[c] \notin Waiting
    BY <1>5 DEF Waiting
  <2> QED
    BY <1>1, <1>4, <1>5, <1>8, <2>1 DEF OwnedLine
<1>14. Owned(ls)'
    BY <1>6, <1>9, OwnedSeqStays DEF Describes
<1>15. Alive'
  <2>1. \A u \in Live : OwnedLine(u)' /\ u.time # 0
    BY <1>6, LiveFacts, OwnedStays DEF InOrder
  <2>2. \A u, v \in Live' : u.tid = v.tid => u = v
    BY <1>8, <1>12, LiveFacts DEF InOrder
  <2> QED
    BY <1>8, <1>12, <1>13, <2>1, <2>2 DEF Alive
<1>16. ~IsOver(ls, t.tid) /\ \A u \in Open(ls) : u.tid # t.tid
    BY <1>8, OpenFacts DEF IsOver
<1>17. /\ Describes(Journal)' /\ unlogged \subseteq unlogged'
       /\ \A tid : tid # t.tid /\ NewId(tid) => NewId(tid)'
  <2>1. CASE file' = Append(ls, t) /\ unlogged' = unlogged
    <3>1. PICK r : r = Append(ls, t)
        OBVIOUS
    <3>2. Sound(r) /\ Open(r) = Open(ls) \cup {t} /\ \A tid : IsOver(r, tid) <=> IsOver(ls, tid)
        BY <1>8, <1>9, <3>1, AppendAlive DEF Describes
    <3>3. /\ Len(r) = Len(ls) + 1 /\ r[Len(ls) + 1] = t
          /\ \A i \in 1..Len(ls) : r[i] = ls[i]
          /\ \A i \in 1..Len(r) : i \in 1..Len(ls) \/ i = Len(ls) + 1
        BY <1>8, <1>9, <3>1
    <3>4. Owned(r)'
        BY <1>13, <1>14, <3>3 DEF Owned
    <3>5. Agrees(r)'
        BY <1>9, <1>12, <2>1, <3>2 DEF Describes, Agrees
    <3>6. \A u \in Live' : ~IsOver(r, u.tid)
        BY <1>9, <1>12, <1>16, <3>2 DEF Describes
    <3>7. \A u \in Open(r), v \in Live' : u.tid = v.tid => u = v
        BY <1>8, <1>9, <1>12, <1>16, <3>2 DEF Describes
    <3>8. Describes(r)'
        BY <3>2, <3>4, <3>5, <3>6, <3>7 DEF Describes
    <3>9. Describes(Journal)'
        BY <1>7, <2>1, <3>1, <3>8 DEF Describes, Owned, Agrees
    <3>10. ASSUME NEW tid, tid # t.tid, NewId(tid) PROVE NewId(tid)'
      <4>1. Unused(r, tid)
        BY <1>7, <3>3, <3>10 DEF NewId, Unused
      <4> QED
        BY <1>4, <1>7, <1>12, <2>1, <3>1, <3>10, <4>1 DEF NewId
    <3> QED
        BY <2>1, <3>9, <3>10
  <2>2. CASE file' = ls /\ unlogged' = unlogged \cup {c}
    <3>1. Agrees(ls)'
        BY <1>8, <1>9, <1>12, <2>2 DEF Describes, Agrees
    <3>2. \A u \in Live' : ~IsOver(ls, u.tid)
        BY <1>9, <1>12, <1>16 DEF Describes
    <3>3. \A u \in Open(ls), v \in Live' : u.tid = v.tid => u = v
        BY <1>9, <1>12, <1>16 DEF Describes
    <3>4. Describes(ls)'
        BY <1>9, <1>14, <3>1, <3>2, <3>3 DEF Describes
    <3>5. Describes(Journal)'
        BY <1>7, <2>2, <3>4 DEF Describes, Owned, Agrees
    <3>6. \A tid : tid # t.tid /\ NewId(tid) => NewId(tid)'
        BY <1>4, <1>7, <1>12, <2>2 DEF NewId
    <3> QED
        BY <2>2, <3>5, <3>6
  <2> QED
    BY <1>2, <1>4, <1>8, <2>1, <2>2 DEF Write
<1>18. Recorded'
    BY <1>4, <1>11, <1>15, <1>17 DEF Recorded
<1>19. Fresh'
  <2>1. \A d \in Clients : client'[d] = "add" => client[d] = "add" /\ ptimer[d].tid # t.tid
    BY <1>1, <1>4, <1>5 DEF InOrder, Fresh
  <2> QED
    BY <1>4, <1>5, <1>6, <1>17, <2>1, FreshKept DEF InOrder, KeepsOwners
<1>20. Counted'
  <2> SUFFICES ASSUME NEW d \in Clients \ unlogged
               PROVE  /\ executed'[d] <= 1 + interrupted'[d]
                      /\ client'[d] \in Waiting \/ (\E u \in ToSet(execList') : u.of = d)
                            => executed'[d] <= interrupted'[d]
    BY <1>17 DEF Counted
  <2>1. /\ executed[d] <= 1 + interrupted[d]
        /\ client[d] \in Waiting \/ (\E u \in ToSet(q) : u.of = d) => executed[d] <= interrupted[d]
    BY <1>3 DEF InOrder, Counted
  <2>2. CASE d = c
    BY <1>4, <2>1, <2>2 DEF Waiting
  <2>3. CASE d # c
    BY <1>4, <1>5, <1>8, <1>11, <2>1, <2>3
  <2> QED
    BY <2>2, <2>3
<1>21. Final'
  <2>1. ASSUME NEW d \in cancelled \ unlogged' PROVE d # c /\ d \in Clients
    BY <1>4, <1>17, <2>1 DEF InOrder, Final, Waiting, TypedFor
  <2> QED
    BY <1>4, <1>6, <1>8, <1>12, <1>17, <2>1 DEF InOrder, Final, KeepsOwners
<1> QED
    BY <1>18, <1>19, <1>20, <1>21 DEF InOrder

LEMMA KeptRecorded ==
    ASSUME NEW n \in Nat, TypedFor(n), Recorded, KeepsOwners, Live' = Live,
           UNCHANGED <<file, tmp, main, execList, running, unlogged>>
    PROVE  Recorded'
<1>1. PICK ls \in Seq(Given(n)) : ls = Journal /\ Describes(ls)
    BY LiveFacts DEF Recorded
<1>2. PICK lt \in Seq(Given(n)) : lt = tmp
    BY DEF TypedFor
<1>3. Describes(ls)' /\ (main = "remove" => Describes(lt)')
    BY <1>1, <1>2, DescribesFewer DEF Recorded
<1>4. Describes(Journal)' /\ (main' = "remove" => Describes(tmp)')
    BY <1>1, <1>2, <1>3 DEF Journal, Describes, Owned, Agrees
<1>5. Alive'
    BY AliveStays
<1> QED
    BY <1>4, <1>5 DEF Recorded

\* The client is told its ID, or never hears of it.
LEMMA ReplyOrder ==
    ASSUME NEW n \in Nat, TypedFor(n), InOrder, NEW c \in Clients, Reply(c)
    PROVE  InOrder'
<1>1. PICK id \in {ptimer[c].tid, 0} : told' = [told EXCEPT ![c] = id]
    BY DEF Reply, AddTimerResults
<1>2. /\ client[c] = "reply" /\ client' = [client EXCEPT ![c] = "told"]
      /\ UNCHANGED <<lastTid, execList, file, tmp, main, running, ptimer, cancelled, executed, interrupted,
                     unlogged>>
    BY DEF Reply, ClientOnly
<1>3. /\ \A d \in Clients : client'[d] = IF d = c THEN "told" ELSE client[d]
      /\ \A d \in Clients : told'[d] = IF d = c THEN id ELSE told[d]
    BY <1>1, <1>2 DEF TypedFor
<1>4. \A d \in Clients : client'[d] \in Waiting <=> client[d] \in Waiting
    BY <1>2, <1>3 DEF Waiting
<1>5. Journal' = Journal /\ Live' = Live /\ KeepsOwners
    BY <1>2, <1>4 DEF Journal, Live, KeepsOwners
<1>6. Recorded'
    BY <1>2, <1>5, KeptRecorded DEF InOrder
<1>7. Fresh'
  <2>1. ASSUME NEW d \in Clients, client'[d] = "add" PROVE FreshFor(d)'
    <3>1. client[d] = "add"
        BY <1>3, <2>1
    <3>2. FreshFor(d)
        BY <3>1 DEF InOrder, Fresh
    <3> QED
        BY <1>2, <1>5, <3>2 DEF FreshFor, NewId, Unused
  <2>2. \A d, e \in Clients :
            client'[d] = "add" /\ client'[e] = "add" /\ ptimer'[d].tid = ptimer'[e].tid => d = e
    BY <1>2, <1>3 DEF InOrder, Fresh
  <2>3. \A d \in Clients : told'[d] = 0 \/ (client'[d] \notin Waiting /\ told'[d] = ptimer'[d].tid)
    BY <1>1, <1>2, <1>3 DEF InOrder, Fresh, Waiting
  <2> QED
    BY <2>1, <2>2, <2>3 DEF Fresh
<1>8. Counted'
    BY <1>2, <1>4 DEF InOrder, Counted
<1>9. Final'
  <2>1. cancelled \subseteq Clients
    BY DEF TypedFor
  <2> QED
    BY <1>2, <1>4, <1>5, <2>1 DEF InOrder, Final
<1> QED
    BY <1>6, <1>7, <1>8, <1>9 DEF InOrder

\* CANCEL takes the timer with the ID that the client was told, if there is one: its own or,
\* after its own is over, one that was given the same ID after a restart.
LEMMA CancelOrder ==
    ASSUME NEW n \in Nat, TypedFor(n), InOrder, NEW c \in Clients, Cancel(c)
    PROVE  InOrder'
<1>1. PICK i : i = PlaceOf(execList, told[c])
    OBVIOUS
<1>2. PICK q : q = execList
    OBVIOUS
<1>3. PICK next \in {"done", "told"} : client' = [client EXCEPT ![c] = next]
    BY DEF Cancel, CancelTimerLeaves
<1>4. /\ client[c] = "told" /\ told[c] # 0 /\ main = "sleep"
      /\ UNCHANGED <<lastTid, tmp, main, running, ptimer, told, executed, interrupted>>
    BY DEF Cancel, ClientOnly
<1>5. IF i = 0 THEN UNCHANGED <<execList, file, cancelled, unlogged>>
      ELSE /\ Write(Over(q[i])) /\ execList' = RemoveAt(q, i)
           /\ cancelled' = cancelled \cup {c}
    BY <1>1, <1>2 DEF Cancel, PlaceOf
<1>6. \A d \in Clients : client'[d] = IF d = c THEN next ELSE client[d]
    BY <1>3 DEF TypedFor
<1>7. (\A d \in Clients : client'[d] \in Waiting <=> client[d] \in Waiting) /\ KeepsOwners
    BY <1>4, <1>6 DEF Waiting, KeepsOwners
<1>8. q \in Seq(Given(n)) /\ Injective(q) /\ Live = ToSet(q) /\ cancelled \subseteq Clients
    BY <1>2, <1>4 DEF TypedFor, InOrder, Recorded, Live
<1>9. \A d \in Clients : client'[d] = "add" => client[d] = "add"
    BY <1>3, <1>6
<1>10. ASSUME i = 0 PROVE InOrder'
  <2>1. Journal' = Journal /\ Live' = Live /\ UNCHANGED <<execList, file, cancelled, unlogged>>
    BY <1>4, <1>5, <1>10 DEF Journal, Live
  <2>2. Recorded'
    BY <1>4, <1>7, <2>1, KeptRecorded DEF InOrder
  <2>3. \A tid : NewId(tid) => NewId(tid)'
    BY <1>4, <2>1 DEF NewId, Unused
  <2>4. Fresh'
    BY <1>4, <1>7, <1>9, <2>3, FreshKept DEF InOrder
  <2>5. Counted' /\ Final'
    BY <1>4, <1>7, <1>8, <2>1 DEF InOrder, Counted, Final
  <2> QED
    BY <2>2, <2>4, <2>5 DEF InOrder
<1>11. ASSUME i # 0 PROVE InOrder'
  <2>1. i \in 1..Len(q) /\ q[i].tid = told[c]
    BY <1>1, <1>2, <1>8, <1>11, Found
  <2>2. PICK t : t = q[i]
    OBVIOUS
  <2>3. t \in Live /\ t.tid = told[c]
    BY <1>8, <2>1, <2>2 DEF ToSet
  <2>4. Write(Over(t)) /\ execList' = RemoveAt(q, i) /\ cancelled' = cancelled \cup {c}
    BY <1>5, <1>11, <2>2
  <2>5. /\ Injective(RemoveAt(q, i)) /\ ToSet(RemoveAt(q, i)) = ToSet(q) \ {q[i]}
    BY <1>8, <2>1, RemoveAtFacts
  <2>6. Injective(execList') /\ ToSet(execList') = Live \ {t}
    BY <1>8, <2>2, <2>4, <2>5
  <2>7. Live' = Live \ {t}
    BY <1>4, <2>6 DEF Live
  <2>8. /\ Alive' /\ Describes(Journal)'
        /\ \A tid : NewId(tid) => NewId(tid)'
        /\ unlogged \subseteq unlogged'
    BY <1>4, <1>7, <2>3, <2>4, <2>7, OverWritten DEF InOrder
  <2>9. Recorded'
    BY <1>4, <2>6, <2>8 DEF Recorded
  <2>10. Fresh'
    BY <1>4, <1>7, <1>9, <2>8, FreshKept DEF InOrder
  <2>11. Counted'
    BY <1>2, <1>4, <1>7, <1>8, <2>6, <2>8 DEF InOrder, Counted
  <2>12. Final'
    <3>1. client[c] \notin Waiting
        BY <1>4 DEF Waiting
    <3>2. ASSUME NEW d \in cancelled' \ unlogged' PROVE client'[d] \notin Waiting
        BY <1>7, <1>8, <2>4, <2>8, <3>1, <3>2 DEF InOrder, Final
    <3>3. ASSUME NEW u \in Live' PROVE u.of # c
      <4>1. u \in Live /\ u # t
        BY <2>7
      <4>2. u.tid = ptimer[u.of].tid
        BY <4>1, LiveFacts DEF InOrder, OwnedLine
      <4>3. told[c] = ptimer[c].tid
        BY <1>4 DEF InOrder, Fresh
      <4>4. u.of = c => u.tid = t.tid
        BY <2>3, <4>2, <4>3
      <4>5. u.tid # t.tid
        BY <2>3, <4>1, LiveFacts DEF InOrder
      <4> QED
        BY <4>4, <4>5
    <3>4. \A d \in cancelled \ unlogged' : \A u \in Live' : u.of # d
        BY <2>7, <2>8 DEF InOrder, Final
    <3> QED
        BY <2>4, <3>2, <3>3, <3>4 DEF Final
  <2> QED
    BY <2>9, <2>10, <2>11, <2>12 DEF InOrder
<1> QED
    BY <1>10, <1>11

\* A new process builds the list from the file.
LEMMA RestartOrder ==
    ASSUME NEW n \in Nat, TypedFor(n), InOrder, Restart
    PROVE  InOrder'
<1>1. PICK ls : ls = file
    OBVIOUS
<1>2. /\ execList' = Load(ls) /\ lastTid' = LastTid(ls) /\ main' = "sleep" /\ running' = NoTimer
      /\ client' = [c \in Clients |-> IF client[c] \in {"add", "reply"} THEN "done" ELSE client[c]]
      /\ interrupted' = (IF main = "record" THEN [interrupted EXCEPT ![running.of] = @ + 1] ELSE interrupted)
      /\ UNCHANGED <<file, tmp, ptimer, told, cancelled, executed, unlogged>>
    BY <1>1 DEF Restart
<1>3. ls \in Seq(Given(n))
    BY <1>1 DEF TypedFor
<1>4. /\ Sound(ls) /\ Owned(ls)
      /\ \A t \in Open(ls) : t \in Live \/ t.of \in unlogged
  <2>1. CASE main = "rename"
    <3>1. ls = <<>>
        BY <1>1, <2>1 DEF InOrder, Recorded
    <3>2. Len(ls) = 0 /\ 1..0 = {}
        BY <3>1
    <3>3. Sound(ls) /\ Owned(ls)
        BY <3>2 DEF Sound, OneAlive, OneOver, OverLater, Owned
    <3>4. Open(ls) = {}
        BY <3>2 DEF Open
    <3> QED
        BY <3>3, <3>4
  <2>2. CASE main # "rename"
    BY <1>1, <2>2 DEF InOrder, Recorded, Describes, Agrees, Journal
  <2> QED
    BY <2>1, <2>2
<1>5. ToSet(execList') = Open(ls) /\ Injective(execList')
    BY <1>2, <1>3, <1>4, LoadFacts
<1>6. Journal' = ls /\ Live' = Open(ls)
    BY <1>1, <1>2, <1>5 DEF Journal, Live
<1>7. \A c \in Clients : /\ client'[c] \in Waiting => client[c] = "idle" /\ client'[c] = "idle"
                         /\ client[c] \notin Waiting => client'[c] \notin Waiting
                         /\ client'[c] # "add"
    BY <1>2 DEF TypedFor, Waiting
<1>8. Owned(ls)'
  <2> SUFFICES ASSUME NEW i \in 1..Len(ls) PROVE OwnedLine(ls[i])'
    BY DEF Owned
  <2>1. OwnedLine(ls[i]) /\ ls[i] \in Given(n)
    BY <1>3, <1>4 DEF Owned
  <2>2. ls[i].of \in Clients /\ ls[i].tid <= LastTid(ls)
    BY <1>3, <2>1, GivenFields, LastTidFacts
  <2> QED
    BY <1>2, <1>7, <2>1, <2>2 DEF OwnedLine
<1>9. Alive' /\ Describes(Journal)'
  <2>1. ASSUME NEW t \in Open(ls), NEW u \in Open(ls), t.tid = u.tid PROVE t = u
    BY <1>4, <2>1, OpenFacts DEF Sound, OneAlive, Opens
  <2>2. ASSUME NEW t \in Open(ls) PROVE OwnedLine(t)' /\ t.time # 0 /\ ~IsOver(ls, t.tid)
    BY <1>8, OpenFacts DEF Owned, Opens
  <2>3. Alive'
    BY <1>6, <2>1, <2>2 DEF Alive
  <2>4. Describes(ls)'
    BY <1>4, <1>6, <1>8, <2>1, <2>2 DEF Describes, Agrees
  <2> QED
    BY <1>6, <2>3, <2>4 DEF Describes, Owned, Agrees
<1>10. Recorded'
    BY <1>2, <1>5, <1>9 DEF Recorded
<1>11. Fresh'
  <2>1. \A c \in Clients : told'[c] = 0 \/ (client'[c] \notin Waiting /\ told'[c] = ptimer'[c].tid)
    BY <1>2, <1>7 DEF InOrder, Fresh
  <2> QED
    BY <1>7, <2>1 DEF Fresh
<1>12. Final'
  <2>1. cancelled \subseteq Clients
    BY DEF TypedFor
  <2> QED
    BY <1>2, <1>4, <1>6, <1>7, <2>1 DEF InOrder, Final
<1>13. Counted'
  <2> SUFFICES ASSUME NEW c \in Clients \ unlogged
               PROVE  /\ executed'[c] <= 1 + interrupted'[c]
                      /\ client'[c] \in Waiting \/ (\E t \in ToSet(execList') : t.of = c)
                            => executed'[c] <= interrupted'[c]
    BY <1>2 DEF Counted
  <2>1. /\ executed[c] <= 1 + interrupted[c]
        /\ client[c] \in Waiting \/ (\E t \in ToSet(execList) : t.of = c) => executed[c] <= interrupted[c]
    BY DEF InOrder, Counted
  <2>2. executed[c] \in Nat /\ interrupted[c] \in Nat
    BY DEF TypedFor
  <2>3. CASE main = "record" /\ running.of = c
    <3>1. interrupted'[c] = interrupted[c] + 1
        BY <1>2, <2>3 DEF TypedFor
    <3> QED
        BY <1>2, <2>1, <2>2, <3>1
  <2>4. CASE ~(main = "record" /\ running.of = c)
    <3>1. interrupted'[c] = interrupted[c]
        BY <1>2, <2>4 DEF TypedFor
    <3>2. ASSUME NEW t \in ToSet(execList'), t.of = c PROVE t \in ToSet(execList)
      <4>1. t \in Live
        BY <1>4, <1>5, <3>2
      <4> QED
        BY <2>4, <3>2, <4>1 DEF Live
    <3>3. client'[c] \in Waiting => client[c] \in Waiting
        BY <1>7 DEF Waiting
    <3> QED
        BY <1>2, <2>1, <3>1, <3>2, <3>3
  <2> QED
    BY <2>3, <2>4
<1> QED
    BY <1>10, <1>11, <1>12, <1>13 DEF InOrder

-----------------------------------------------------------------------------
(* The inductive invariant and what follows from it.                       *)

LEMMA InitIndInv ==
    ASSUME Init
    PROVE  IndInv
<1>1. /\ now = 1 /\ lastTid = 0 /\ execList = <<>> /\ file = <<>> /\ tmp = <<>> /\ main = "sleep"
      /\ due = 0 /\ running = NoTimer /\ client = [c \in Clients |-> "idle"]
      /\ ptimer = [c \in Clients |-> NoTimer] /\ told = [c \in Clients |-> 0] /\ cancelled = {}
      /\ executed = [c \in Clients |-> 0] /\ interrupted = [c \in Clients |-> 0] /\ damage = {}
      /\ restarts = 0 /\ saves = 0 /\ faults = 0 /\ fd = TRUE /\ unrun = {} /\ unlogged = {}
    BY DEF Init
<1>2. PICK n \in Nat : n = Cardinality(Asked)
    BY AskedFacts
<1>3. <<>> \in Seq(Given(n)) /\ Len(<<>>) = 0 /\ 1..0 = {} /\ DOMAIN <<>> = {}
    OBVIOUS
<1>4. TypedFor(n)
    BY <1>1, <1>3, TimerAssumption DEF TypedFor
<1>5. Typed
    BY <1>2, <1>4 DEF Typed
<1>6. ToSet(execList) = {} /\ Live = {}
    BY <1>1, <1>3 DEF ToSet, Live
<1>7. Sound(file) /\ Owned(file) /\ Open(file) = {} /\ Injective(execList)
    BY <1>1, <1>3 DEF Sound, OneAlive, OneOver, OverLater, Owned, Open, Injective
<1>8. Recorded
    BY <1>1, <1>6, <1>7 DEF Recorded, Alive, Describes, Agrees, Journal
<1>9. Fresh /\ Counted /\ Final
    BY <1>1, <1>6 DEF Fresh, Counted, Final
<1> QED
    BY <1>5, <1>8, <1>9 DEF IndInv, Orderly

\* Steps other than the first of ADD: no more clients have asked.
LEMMA OtherStep ==
    ASSUME IndInv, Next, ~\E c \in Clients : Prepare(c)
    PROVE  IndInv'
<1>1. PICK n \in Nat : n = Cardinality(Asked)
    BY AskedFacts
<1>2. TypedFor(n)
    BY <1>1 DEF IndInv, Typed
<1>3. "misput" \notin damage' => "misput" \notin damage
    BY DEF Next, Client, Main, Tick, Prepare, Add, Reply, Cancel, Wake, Execute, Record, Sleep, Save,
           SaveFails, SaveRemove, SaveRename, SaveRenameFails, Restart, MainOnly, ClientOnly, history
<1>4. "misput" \notin damage => InOrder
    BY DEF IndInv, Orderly, InOrder
<1>5. TypedFor(n)' /\ ("misput" \notin damage' => InOrder')
  <2>1. CASE Tick \/ Wake \/ Sleep \/ SaveFails
    BY <1>2, <1>3, <1>4, <2>1, QuietTyped, QuietOrder
  <2>2. CASE Execute
    BY <1>2, <1>3, <1>4, <2>2, ExecuteTyped, ExecuteOrder
  <2>3. CASE Record
    BY <1>2, <1>3, <1>4, <2>3, RecordTyped, RecordOrder
  <2>4. CASE Save
    BY <1>2, <1>3, <1>4, <2>4, SaveTyped, SaveOrder
  <2>5. CASE SaveRemove
    BY <1>2, <1>3, <1>4, <2>5, SaveTyped, SaveRemoveOrder
  <2>6. CASE SaveRename
    BY <1>2, <1>3, <1>4, <2>6, SaveTyped, SaveRenameOrder
  <2>11. CASE SaveRenameFails
    BY <1>2, <1>3, <1>4, <2>11, SaveTyped, SaveRenameFailsOrder
  <2>7. CASE Restart
    BY <1>2, <1>3, <1>4, <2>7, RestartTyped, RestartOrder
  <2>8. ASSUME NEW c \in Clients, Add(c) PROVE TypedFor(n)' /\ ("misput" \notin damage' => InOrder')
    <3>1. "misput" \notin damage' => PutTimerResult(execList, ptimer[c]) = ptimer[c]
        BY <2>8 DEF Add
    <3>2. TypedFor(n)'
        BY <1>2, <2>8, AddTyped
    <3>3. "misput" \notin damage' => InOrder'
        BY <1>2, <1>3, <1>4, <2>8, <3>1, AddOrder
    <3> QED
        BY <3>2, <3>3
  <2>9. ASSUME NEW c \in Clients, Reply(c) PROVE TypedFor(n)' /\ ("misput" \notin damage' => InOrder')
    BY <1>2, <1>3, <1>4, <2>9, ReplyTyped, ReplyOrder
  <2>10. ASSUME NEW c \in Clients, Cancel(c) PROVE TypedFor(n)' /\ ("misput" \notin damage' => InOrder')
    BY <1>2, <1>3, <1>4, <2>10, CancelTyped, CancelOrder
  <2> QED
    BY <2>1, <2>2, <2>3, <2>4, <2>5, <2>6, <2>7, <2>8, <2>9, <2>10, <2>11
    DEF Next, Client, Main
<1>6. \A c \in Clients : client'[c] = "idle" <=> client[c] = "idle"
  <2>1. CASE UNCHANGED client
    BY <2>1
  <2>2. CASE Restart
    BY <1>2, <2>2 DEF Restart, TypedFor
  <2>3. ASSUME NEW c \in Clients, Add(c) \/ Reply(c) \/ Cancel(c)
        PROVE  \A d \in Clients : client'[d] = "idle" <=> client[d] = "idle"
    BY <1>2, <2>3 DEF Add, Reply, Cancel, CancelTimerLeaves, TypedFor
  <2>4. Tick \/ Main => UNCHANGED client
    BY DEF Main, Tick, Wake, Execute, Record, Sleep, Save, SaveFails, SaveRemove, SaveRename,
           SaveRenameFails, MainOnly, clients
  <2> QED
    BY <2>1, <2>2, <2>3, <2>4 DEF Next, Client
<1>7. Cardinality(Asked)' = n
    BY <1>1, <1>6, AskedSame
<1>8. Typed'
    BY <1>5, <1>7 DEF Typed
<1>9. Orderly'
    BY <1>5 DEF Orderly, InOrder
<1> QED
    BY <1>8, <1>9 DEF IndInv

LEMMA PrepareStep ==
    ASSUME IndInv, NEW c \in Clients, Prepare(c)
    PROVE  IndInv'
<1>1. PICK n \in Nat : n = Cardinality(Asked)
    BY AskedFacts
<1>2. TypedFor(n)
    BY <1>1 DEF IndInv, Typed
<1>3. Asked' = Asked \cup {c} /\ c \notin Asked
  <2>1. client[c] = "idle" /\ client' = [client EXCEPT ![c] = "add"]
    BY DEF Prepare
  <2>2. \A d \in Clients : client'[d] = IF d = c THEN "add" ELSE client[d]
    BY <1>2, <2>1 DEF TypedFor
  <2> QED
    BY <2>1, <2>2 DEF Asked
<1>4. Cardinality(Asked') = n + 1
    BY <1>1, <1>3, AskedFacts, FS_AddElement
<1>5. TypedFor(n + 1)'
    BY <1>2, PrepareTyped
<1>6. Typed'
    BY <1>4, <1>5 DEF Typed
<1>7. damage' = damage
    BY DEF Prepare
<1>8. "misput" \notin damage => InOrder
    BY DEF IndInv, Orderly, InOrder
<1>9. Orderly'
  <2>1. "misput" \notin damage' => InOrder'
    BY <1>2, <1>7, <1>8, PrepareOrder
  <2> QED
    BY <2>1 DEF Orderly, InOrder
<1> QED
    BY <1>6, <1>9 DEF IndInv

LEMMA TimerStutter ==
    ASSUME IndInv, UNCHANGED vars
    PROVE  IndInv'
<1>1. UNCHANGED <<now, lastTid, execList, file, tmp, fd, main, due, running, client, ptimer, told, cancelled,
                  executed, interrupted, unrun, unlogged, damage, restarts, saves, faults>>
    BY DEF vars, clients, history
<1>2. Asked' = Asked /\ Journal' = Journal /\ Live' = Live
    BY <1>1 DEF Asked, Journal, Live
<1>3. Typed'
    BY <1>1, <1>2 DEF IndInv, Typed, TypedFor
<1>4. Recorded' <=> Recorded
    BY <1>1, <1>2 DEF Recorded, Alive, Describes, Agrees, Owned, OwnedLine
<1>5. Fresh' <=> Fresh
    BY <1>1, <1>2 DEF Fresh, FreshFor, NewId, Unused
<1>6. (Counted' <=> Counted) /\ (Final' <=> Final)
    BY <1>1, <1>2 DEF Counted, Final
<1> QED
    BY <1>1, <1>3, <1>4, <1>5, <1>6 DEF IndInv, Orderly

LEMMA TimerInductive == Spec => []IndInv
<1>1. IndInv /\ [Next]_vars => IndInv'
  <2> SUFFICES ASSUME IndInv, [Next]_vars PROVE IndInv'
    OBVIOUS
  <2>1. CASE \E c \in Clients : Prepare(c)
    BY <2>1, PrepareStep
  <2>2. CASE Next /\ ~\E c \in Clients : Prepare(c)
    BY <2>2, OtherStep
  <2>3. CASE UNCHANGED vars
    BY <2>3, TimerStutter
  <2> QED
    BY <2>1, <2>2, <2>3
<1>2. Init => IndInv
    BY InitIndInv
<1> QED
    BY <1>1, <1>2, PTL DEF Spec

\* At every moment at which the list may be changed, what a restart would load from the file
\* are the timers of the list, after any history of additions, executions, cancellations,
\* rewritings, crashes, restarts and calls that fail in which put_timer returned its own
\* timer, but for the timers that have a line that could not be written.
THEOREM ListRestorableCorrect == Spec => []ListRestorable
<1>1. IndInv => ListRestorable
  <2> SUFFICES ASSUME IndInv PROVE ListRestorable
    OBVIOUS
  <2>1. PICK n \in Nat : n = Cardinality(Asked)
    BY AskedFacts
  <2>2. TypedFor(n)
    BY <2>1 DEF IndInv, Typed
  <2>3. Given(n) \subseteq Timers /\ Seq(Given(n)) \subseteq Seq(Timers) /\ 0..n \subseteq Tids
    <3>1. PICK k \in Nat : k = Cardinality(Clients)
        BY TimerAssumption, FS_CardinalityType
    <3>2. n <= k
        BY <2>1, <3>1, AskedFacts
    <3>3. MaxRestarts \in Nat
        BY TimerAssumption
    <3>4. PICK m \in Nat : m = k * (MaxRestarts + 1) /\ k <= m
      <4>1. k * (MaxRestarts + 1) = k * MaxRestarts + k
        BY <3>3
      <4>2. k * MaxRestarts \in Nat
        BY <3>3
      <4> QED
        BY <4>1, <4>2
    <3>5. Tids = 0..m
        BY <3>1, <3>4 DEF Tids
    <3>6. 0..n \subseteq 0..m
        BY <3>2, <3>4
    <3>7. Given(n) \subseteq Timers
        BY <3>5, <3>6 DEF Given, Timers
    <3> QED
        BY <3>5, <3>6, <3>7
  <2>4. TypeOK
    <3>1. now \in 1..MaxTime \cup {1} /\ due \in 0..MaxTime \cup {1}
        BY <2>2, TimerAssumption DEF TypedFor
    <3>2. lastTid \in Tids /\ execList \in Seq(Timers) /\ file \in Seq(Timers) /\ tmp \in Seq(Timers)
          /\ running \in Timers \cup {NoTimer}
        BY <2>2, <2>3 DEF TypedFor
    <3>3. ptimer \in [Clients -> Timers \cup {NoTimer}] /\ told \in [Clients -> Tids]
        BY <2>2, <2>3 DEF TypedFor
    <3>4. interrupted \in [Clients -> 0..MaxRestarts]
        BY <2>2, TimerAssumption DEF TypedFor
    <3> QED
        BY <2>2, <3>1, <3>2, <3>3, <3>4 DEF TypedFor, TypeOK
  <2>5. FileMatchesList
    <3> SUFFICES ASSUME main = "sleep", "misput" \notin damage
                 PROVE  Logged(Load(file)) = Logged(execList)
        BY DEF FileMatchesList
    <3>1. Describes(file) /\ Live = ToSet(execList)
        BY DEF IndInv, Orderly, Recorded, Journal, Live
    <3>2. file \in Seq(Given(n))
        BY <2>2 DEF TypedFor
    <3>3. ToSet(Load(file)) = Open(file)
        BY <3>1, <3>2, LoadFacts DEF Describes
    <3> QED
        BY <3>1, <3>3 DEF Describes, Agrees, Logged
  <2> QED
    BY <2>4, <2>5 DEF ListRestorable
<1> QED
    BY <1>1, TimerInductive, PTL

\* execute_timer runs a command again only after a crash between the run and its record, or
\* when a line of its timer could not be written.
THEOREM ExecutedOnceCorrect == Spec => []ExecutedOnce
<1>1. IndInv => ExecutedOnce
    BY DEF IndInv, Orderly, Counted, ExecutedOnce
<1> QED
    BY <1>1, TimerInductive, PTL

\* What CANCEL has taken from the list is not executed, by this process or a later one, as
\* long as no line of the timer, that of the CANCEL among them, failed to be written.
THEOREM CancelIsFinalCorrect == Spec => CancelIsFinal
<1>1. IndInv /\ [Next]_vars => 
          [\A c \in cancelled \ unlogged : "misput" \in damage \/ executed'[c] = executed[c]]_vars
  <2> SUFFICES ASSUME IndInv, Next, NEW c \in cancelled \ unlogged, "misput" \notin damage
               PROVE  executed'[c] = executed[c]
    OBVIOUS
  <2>1. PICK n \in Nat : n = Cardinality(Asked)
    BY AskedFacts
  <2>2. TypedFor(n) /\ Recorded /\ Final
    BY <2>1 DEF IndInv, Typed, Orderly
  <2>3. CASE Execute
    <3>1. PICK h : h = Head(execList)
        OBVIOUS
    <3>2. (executed' = [executed EXCEPT ![h.of] = @ + 1] \/ executed' = executed) /\ execList # <<>>
        BY <2>3, <3>1 DEF Execute, IsDue
    <3>3. h \in Live
      <4>1. execList \in Seq(Given(n)) /\ Injective(execList)
        BY <2>2 DEF TypedFor, Recorded
      <4>2. h \in ToSet(execList)
        BY <3>1, <3>2, <4>1, TailFacts
      <4> QED
        BY <4>2 DEF Live
    <3>4. h.of # c
        BY <2>2, <3>3 DEF Final
    <3>5. executed \in [Clients -> Nat] /\ c \in Clients
        BY <2>2 DEF TypedFor
    <3> QED
        BY <3>2, <3>4, <3>5
  <2>4. CASE ~Execute
    <3>1. UNCHANGED executed
        BY <2>4 DEF Next, Client, Main, Tick, Prepare, Add, Reply, Cancel, Wake, Record, Sleep, Save,
                    SaveFails, SaveRemove, SaveRename, SaveRenameFails, Restart, ClientOnly, NoRun,
                    history
    <3> QED
        BY <3>1
  <2> QED
    BY <2>3, <2>4
<1> QED
    BY <1>1, TimerInductive, PTL DEF Spec, CancelIsFinal

-----------------------------------------------------------------------------
(***************************************************************************)
(* The pool of threads                                                     *)
(***************************************************************************)

\* The list holds the threads that exist, each once, and the counter counts them.
ThreadsListed ==
    /\ Injective(list)
    /\ ToSet(list) = {t \in Threads : thr[t] # "none"}
    /\ cur = Len(list)

\* threads_pool_stop tells nobody to stop before the scan thread is gone, and nobody
\* starts after that; the last thread it found is the last there is.
ThreadsStopping ==
    /\ stop \in {"no", "scan"} => \A t \in Threads : ~notified[t]
    /\ stop \in {"no", "scan", "head"} => ~pthr.last
    /\ stop \notin {"no", "scan"} => scan = "ended"
    /\ pthr.last => ToSet(list) \subseteq {pthr.thread}
    /\ stop = "done" => ToSet(list) = {}

\* The contexts pool has ContextNum contexts.
ContextsInUse == ValidContexts <= ContextNum

PoolInv == PoolTypeOK /\ ThreadsListed /\ WithinLimits /\ ThreadsStopping /\ ContextsInUse

-----------------------------------------------------------------------------
(* The limits.                                                             *)

LEMMA PoolLimits ==
    /\ MaxNum \in Nat /\ MinNum \in Nat /\ MinNum <= MaxNum
    /\ MaxTimesNotServed \in Nat /\ MaxNotEmptyTimes \in Nat /\ ContextNum \in Nat
<1>1. MaxNum \in Nat
    BY PoolAssumption DEF MaxNum
<1> QED
    BY <1>1, PoolAssumption DEF MinNum

LEMMA PoolSumFacts ==
    ASSUME NEW a \in Nat, NEW b \in Nat, NEW c \in Nat, NEW d \in Nat, NEW n \in Nat,
           NEW m \in Nat, a + b + n <= m
    PROVE  /\ c + d <= a + b + 1 => c + d + (n - 1) <= m
           /\ c + d <= a + b => c + d + n <= m
           /\ c + d <= a + b + 1 /\ a + b + n < m => c + d + n <= m
OBVIOUS

\* Threads that serve a context: the only ones that count as contexts in use.
LEMMA ServingCount ==
    ASSUME PoolTypeOK
    PROVE  IsFiniteSet(Serving) /\ Cardinality(Serving) \in Nat
<1>1. Serving \in SUBSET Threads
    BY DEF Serving
<1> QED
    BY <1>1, PoolAssumption, FS_Subset, FS_CardinalityType

LEMMA ServingSame ==
    ASSUME PoolTypeOK, NEW t \in Threads, NEW v, thr' = [thr EXCEPT ![t] = v],
           thr[t] # "serve", v # "serve"
    PROVE  Serving' = Serving
BY DEF PoolTypeOK, Serving

-----------------------------------------------------------------------------
(* Steps that neither start nor end a thread.                              *)

\* A thread goes on to its next step.
LEMMA MoveKept ==
    ASSUME PoolInv, NEW t \in Threads, thr[t] # "none",
           NEW v \in {"top", "serve", "spare", "wait"}, thr' = [thr EXCEPT ![t] = v],
           missed' \in [Threads -> 0..MaxTimesNotServed],
           waiting' \in Nat, queued' \in Nat, ValidContexts' <= ContextNum,
           UNCHANGED <<list, cur, notified, notEmpty, scan, stop, pthr>>
    PROVE  PoolInv'
<1>1. thr' \in [Threads -> {"none", "top", "serve", "spare", "wait"}]
    BY DEF PoolInv, PoolTypeOK
<1>2. \A u \in Threads : thr'[u] # "none" <=> thr[u] # "none"
    BY DEF PoolInv, PoolTypeOK
<1>3. ThreadsListed'
    BY <1>2 DEF PoolInv, ThreadsListed
<1>4. WithinLimits' /\ ThreadsStopping' /\ ContextsInUse'
    BY DEF PoolInv, WithinLimits, ThreadsStopping, ContextsInUse
<1>5. Serving' \in SUBSET Threads
    BY DEF Serving
<1>6. Cardinality(Serving') \in Nat
    BY <1>5, PoolAssumption, FS_Subset, FS_CardinalityType
<1>7. waiting' \in 0..ContextNum /\ queued' \in 0..ContextNum
    BY <1>6, PoolLimits DEF ValidContexts
<1> QED
    BY <1>1, <1>3, <1>4, <1>7 DEF PoolInv, PoolTypeOK

LEMMA ServeKept ==
    ASSUME PoolInv, NEW t \in Threads, Serve(t)
    PROVE  PoolInv'
<1>1. /\ thr[t] = "top" /\ queued > 0 /\ queued' = queued - 1 /\ UNCHANGED waiting
      /\ thr' = [thr EXCEPT ![t] = "serve"] /\ missed' = [missed EXCEPT ![t] = 0]
      /\ UNCHANGED <<list, cur, notified, notEmpty, scan, stop, pthr>>
    BY DEF Serve, stopper
<1>2. PoolTypeOK /\ ValidContexts <= ContextNum
    BY DEF PoolInv, ContextsInUse
<1>3. Serving' = Serving \cup {t} /\ t \notin Serving
    BY <1>1, <1>2 DEF PoolTypeOK, Serving
<1>4. IsFiniteSet(Serving) /\ Cardinality(Serving) \in Nat
    BY <1>2, ServingCount
<1>5. Cardinality(Serving') = Cardinality(Serving) + 1
    BY <1>3, <1>4, FS_AddElement
<1>6. waiting \in Nat /\ queued \in Nat /\ queued' \in Nat
    BY <1>1, <1>2, PoolLimits DEF PoolTypeOK
<1>7. ValidContexts' <= ContextNum
    BY <1>1, <1>2, <1>4, <1>5, <1>6 DEF ValidContexts
<1>8. missed' \in [Threads -> 0..MaxTimesNotServed]
    BY <1>1, <1>2, PoolLimits DEF PoolTypeOK
<1> QED
    BY <1>1, <1>6, <1>7, <1>8, MoveKept

LEMMA PutContextKept ==
    ASSUME PoolInv, NEW t \in Threads, PutContext(t)
    PROVE  PoolInv'
<1>1. /\ thr[t] = "serve" /\ thr' = [thr EXCEPT ![t] = "top"]
      /\ UNCHANGED <<list, cur, missed, notified, notEmpty, scan, stop, pthr>>
    BY DEF PutContext, stopper, worker
<1>2. PoolTypeOK /\ ValidContexts <= ContextNum
    BY DEF PoolInv, ContextsInUse
<1>3. Serving' = Serving \ {t} /\ t \in Serving
    BY <1>1, <1>2 DEF PoolTypeOK, Serving
<1>4. IsFiniteSet(Serving) /\ Cardinality(Serving) \in Nat
    BY <1>2, ServingCount
<1>5. Cardinality(Serving') = Cardinality(Serving) - 1
    BY <1>3, <1>4, FS_RemoveElement
<1>6. waiting \in Nat /\ queued \in Nat
    BY <1>2, PoolLimits DEF PoolTypeOK
<1>7. \/ queued' = queued + 1 /\ waiting' = waiting
      \/ waiting' = waiting + 1 /\ queued' = queued
      \/ waiting' = waiting /\ queued' = queued
    BY DEF PutContext, contexts
<1>8. waiting' \in Nat /\ queued' \in Nat /\ waiting' + queued' <= waiting + queued + 1
    BY <1>6, <1>7
<1>9. ValidContexts' <= ContextNum
  <2>1. /\ ValidContexts = waiting + queued + Cardinality(Serving)
        /\ ValidContexts' = waiting' + queued' + Cardinality(Serving')
    BY DEF ValidContexts
  <2>2. ContextNum \in Nat
    BY PoolLimits
  <2>3. waiting + queued + Cardinality(Serving) <= ContextNum
    BY <1>2, <2>1
  <2>4. PICK n \in Nat : n = Cardinality(Serving)
    BY <1>4
  <2>5. waiting' + queued' + (n - 1) <= ContextNum
    BY <1>6, <1>8, <2>2, <2>3, <2>4, PoolSumFacts
  <2> QED
    BY <1>5, <2>1, <2>4, <2>5
<1>10. missed' \in [Threads -> 0..MaxTimesNotServed]
    BY <1>1, <1>2 DEF PoolTypeOK
<1> QED
    BY <1>1, <1>8, <1>9, <1>10, MoveKept

LEMMA IdleMoveKept ==
    ASSUME PoolInv, NEW t \in Threads, Miss(t) \/ Stay(t) \/ WaitEnds(t)
    PROVE  PoolInv'
<1>1. PICK v \in {"top", "spare", "wait"} : thr' = [thr EXCEPT ![t] = v]
    BY DEF Miss, Stay, WaitEnds
<1>2. /\ thr[t] # "none" /\ thr[t] # "serve"
      /\ UNCHANGED <<list, cur, notified, notEmpty, scan, stop, pthr, waiting, queued>>
    BY DEF Miss, Stay, WaitEnds, contexts, stopper, worker
<1>3. PoolTypeOK /\ ValidContexts <= ContextNum
    BY DEF PoolInv, ContextsInUse
<1>4. Serving' = Serving
    BY <1>1, <1>2, <1>3, ServingSame
<1>5. waiting' \in Nat /\ queued' \in Nat
    BY <1>2, <1>3, PoolLimits DEF PoolTypeOK
<1>6. ValidContexts' <= ContextNum
    BY <1>2, <1>3, <1>4 DEF ValidContexts
<1>7. missed' \in [Threads -> 0..MaxTimesNotServed]
  <2>1. CASE Miss(t)
    <3>1. CASE missed[t] = MaxTimesNotServed
        BY <1>3, <2>1, <3>1 DEF Miss, PoolTypeOK
    <3>2. CASE missed[t] # MaxTimesNotServed
      <4>1. missed' = [missed EXCEPT ![t] = @ + 1]
        BY <2>1, <3>2 DEF Miss
      <4>2. missed[t] + 1 \in 0..MaxTimesNotServed
        BY <1>3, <3>2, PoolLimits DEF PoolTypeOK
      <4> QED
        BY <1>3, <4>1, <4>2 DEF PoolTypeOK
    <3> QED
        BY <3>1, <3>2
  <2>2. CASE Stay(t) \/ WaitEnds(t)
    BY <1>3, <2>2 DEF Stay, WaitEnds, worker, PoolTypeOK
  <2> QED
    BY <2>1, <2>2
<1> QED
    BY <1>1, <1>2, <1>5, <1>6, <1>7, MoveKept

-----------------------------------------------------------------------------
(* Threads end and start.                                                  *)

\* A worker that drops itself leaves more than the minimum behind; one that was told to
\* stop is told so only by threads_pool_stop.
LEMMA LeaveListKept ==
    ASSUME PoolInv, NEW t \in Threads, thr[t] \in {"spare", "top"}, LeaveList(t),
           stop \in {"no", "scan"} => cur > MinNum
    PROVE  PoolInv'
<1>1. /\ list' = RemoveFirst(list, t) /\ cur' = cur - 1 /\ thr' = [thr EXCEPT ![t] = "none"]
      /\ UNCHANGED <<missed, notified, waiting, queued, notEmpty, scan, stop, pthr>>
    BY DEF LeaveList, worker, contexts, stopper
<1>2. PoolTypeOK /\ ThreadsListed /\ WithinLimits /\ ThreadsStopping /\ ContextsInUse
    BY DEF PoolInv
<1>3. /\ list' \in Seq(Threads) /\ Injective(list') /\ ToSet(list') = ToSet(list) \ {t}
    BY <1>1, <1>2, EraseFacts DEF PoolTypeOK, ThreadsListed
<1>4. /\ thr' \in [Threads -> {"none", "top", "serve", "spare", "wait"}]
      /\ \A u \in Threads : thr'[u] = IF u = t THEN "none" ELSE thr[u]
    BY <1>1, <1>2 DEF PoolTypeOK
<1>5. ToSet(list') = {u \in Threads : thr'[u] # "none"}
    BY <1>2, <1>3, <1>4 DEF ThreadsListed
<1>6. cur' = Len(list') /\ cur > 0
  <2>1. t \in ToSet(list)
    BY <1>2 DEF ThreadsListed
  <2>2. Cardinality(ToSet(list)) = Len(list) /\ Cardinality(ToSet(list')) = Len(list')
    BY <1>2, <1>3, CountElements DEF PoolTypeOK, ThreadsListed
  <2>3. IsFiniteSet(ToSet(list))
    <3>1. ToSet(list) \in SUBSET Threads
        BY <1>2 DEF ThreadsListed
    <3> QED
        BY <3>1, PoolAssumption, FS_Subset
  <2>4. Cardinality(ToSet(list) \ {t}) = Cardinality(ToSet(list)) - 1
    BY <2>1, <2>3, FS_RemoveElement
  <2>5. Cardinality(ToSet(list) \ {t}) \in Nat
    BY <2>3, FS_RemoveElement, FS_CardinalityType
  <2>6. cur = Len(list) /\ cur \in Nat
    BY <1>2, PoolLimits DEF ThreadsListed, PoolTypeOK
  <2> QED
    BY <1>1, <1>3, <2>2, <2>4, <2>5, <2>6
<1>7. cur' \in 0..MaxNum /\ WithinLimits'
  <2>1. cur \in Nat /\ cur <= MaxNum
    BY <1>2, PoolLimits DEF PoolTypeOK
  <2> QED
    BY <1>1, <1>2, <1>6, <2>1, PoolLimits DEF WithinLimits
<1>8. Serving' = Serving
    BY <1>1, <1>2, ServingSame
<1>9. ContextsInUse'
    BY <1>1, <1>2, <1>8 DEF ContextsInUse, ValidContexts
<1>10. ThreadsStopping'
    BY <1>1, <1>2, <1>3 DEF ThreadsStopping
<1>11. PoolTypeOK'
    BY <1>1, <1>2, <1>3, <1>4, <1>7 DEF PoolTypeOK
<1> QED
    BY <1>3, <1>5, <1>6, <1>7, <1>9, <1>10, <1>11 DEF PoolInv, ThreadsListed

LEMMA DropKept ==
    ASSUME PoolInv, NEW t \in Threads, Drop(t)
    PROVE  PoolInv'
<1>1. thr[t] = "spare" /\ LeaveList(t) /\ cur > MinNum
    BY DEF Drop, TooManyThreads
<1> QED
    BY <1>1, LeaveListKept

LEMMA LeaveKept ==
    ASSUME PoolInv, NEW t \in Threads, Leave(t)
    PROVE  PoolInv'
<1>1. thr[t] = "top" /\ LeaveList(t) /\ notified[t]
    BY DEF Leave
<1>2. stop \notin {"no", "scan"}
    BY <1>1 DEF PoolInv, ThreadsStopping
<1> QED
    BY <1>1, <1>2, LeaveListKept

\* The scan thread starts one below the maximum only, and not once it has ended.
LEMMA SpawnKept ==
    ASSUME PoolInv, NEW t \in Threads, Spawn(t), cur < MaxNum, scan = "run",
           scan' = (IF stop = "no" THEN "run" ELSE "ended"),
           UNCHANGED <<waiting, queued, stop, pthr>>
    PROVE  PoolInv'
<1>1. /\ thr[t] = "none" /\ thr' = [thr EXCEPT ![t] = "top"]
      /\ list' = Append(list, t) /\ cur' = cur + 1
      /\ missed' = [missed EXCEPT ![t] = 0] /\ notified' = [notified EXCEPT ![t] = FALSE]
      /\ notEmpty' = 0
    BY DEF Spawn
<1>2. PoolTypeOK /\ ThreadsListed /\ WithinLimits /\ ThreadsStopping /\ ContextsInUse
    BY DEF PoolInv
<1>3. t \notin ToSet(list)
    BY <1>1, <1>2 DEF ThreadsListed
<1>4. /\ list' \in Seq(Threads) /\ Len(list') = Len(list) + 1 /\ Injective(list')
      /\ ToSet(list') = ToSet(list) \cup {t}
    BY <1>1, <1>2, <1>3, AppendFacts DEF PoolTypeOK, ThreadsListed
<1>5. /\ thr' \in [Threads -> {"none", "top", "serve", "spare", "wait"}]
      /\ \A u \in Threads : thr'[u] = IF u = t THEN "top" ELSE thr[u]
    BY <1>1, <1>2 DEF PoolTypeOK
<1>6. ThreadsListed'
  <2>1. ToSet(list') = {u \in Threads : thr'[u] # "none"}
    BY <1>2, <1>4, <1>5 DEF ThreadsListed
  <2>2. cur' = Len(list')
    BY <1>1, <1>2, <1>4 DEF ThreadsListed
  <2> QED
    BY <1>4, <2>1, <2>2 DEF ThreadsListed
<1>7. cur' \in 0..MaxNum /\ WithinLimits'
  <2>1. cur \in Nat
    BY <1>2, PoolLimits DEF PoolTypeOK
  <2> QED
    BY <1>1, <1>2, <2>1, PoolLimits DEF WithinLimits
<1>8. Serving' = Serving
    BY <1>1, <1>2, ServingSame
<1>9. ContextsInUse'
    BY <1>2, <1>8 DEF ContextsInUse, ValidContexts
<1>10. stop \in {"no", "scan"}
    BY <1>2 DEF ThreadsStopping
<1>11. ThreadsStopping'
  <2>1. \A u \in Threads : ~notified'[u]
    BY <1>1, <1>2, <1>10 DEF ThreadsStopping, PoolTypeOK
  <2>2. ~pthr'.last
    BY <1>2, <1>10 DEF ThreadsStopping
  <2> QED
    BY <1>10, <2>1, <2>2 DEF ThreadsStopping
<1>12. /\ missed' \in [Threads -> 0..MaxTimesNotServed]
       /\ notified' \in [Threads -> BOOLEAN] /\ notEmpty' \in 0..MaxNotEmptyTimes
    BY <1>1, <1>2, PoolLimits DEF PoolTypeOK
<1>13. PoolTypeOK'
    BY <1>2, <1>4, <1>5, <1>7, <1>12 DEF PoolTypeOK
<1> QED
    BY <1>6, <1>7, <1>9, <1>11, <1>13 DEF PoolInv

-----------------------------------------------------------------------------
(* The other steps.                                                        *)

\* The threads and their list stay as they are.
LEMMA QuietKept ==
    ASSUME PoolInv, UNCHANGED <<thr, list, cur, missed>>,
           notified' \in [Threads -> BOOLEAN], notEmpty' \in 0..MaxNotEmptyTimes,
           waiting' \in Nat, queued' \in Nat,
           \/ waiting' + queued' <= waiting + queued
           \/ /\ ValidContexts < ContextNum
              /\ waiting' + queued' <= waiting + queued + 1,
           scan' \in {"run", "ended"},
           stop' \in {"no", "scan", "head", "notify", "join", "done"},
           stop' \in {"no", "scan"} => stop \in {"no", "scan"},
           pthr' \in [thread : Threads \cup {NoThread}, last : BOOLEAN],
           ThreadsStopping'
    PROVE  PoolInv'
<1>1. PoolTypeOK /\ ThreadsListed /\ WithinLimits /\ ContextsInUse
    BY DEF PoolInv
<1>2. Serving' = Serving
    BY DEF Serving
<1>3. Cardinality(Serving) \in Nat
    BY <1>1, ServingCount
<1>4. waiting \in Nat /\ queued \in Nat /\ ContextNum \in Nat
    BY <1>1, PoolLimits DEF PoolTypeOK
<1>5. waiting' + queued' + Cardinality(Serving) <= ContextNum
  <2>1. PICK n \in Nat : n = Cardinality(Serving)
    BY <1>3
  <2>2. ValidContexts = waiting + queued + n /\ waiting + queued + n <= ContextNum
    BY <1>1, <2>1 DEF ContextsInUse, ValidContexts
  <2>3. waiting' + queued' + n <= ContextNum
    BY <1>4, <2>1, <2>2, PoolSumFacts
  <2> QED
    BY <2>1, <2>3
<1>6. ContextsInUse'
    BY <1>2, <1>5 DEF ContextsInUse, ValidContexts
<1>7. waiting' \in 0..ContextNum /\ queued' \in 0..ContextNum
    BY <1>3, <1>4, <1>5
<1>8. PoolTypeOK'
    BY <1>1, <1>7 DEF PoolTypeOK
<1>9. ThreadsListed' /\ WithinLimits'
    BY <1>1 DEF ThreadsListed, WithinLimits
<1> QED
    BY <1>6, <1>8, <1>9 DEF PoolInv

LEMMA ScanRoundKept ==
    ASSUME PoolInv, ScanRound
    PROVE  PoolInv'
<1>1. /\ scan = "run" /\ scan' = (IF stop = "no" THEN "run" ELSE "ended")
      /\ UNCHANGED <<waiting, queued, stop, pthr>>
    BY DEF ScanRound, contexts
<1>2. CASE \E t \in Threads : MayGrow /\ Spawn(t)
    BY <1>1, <1>2, SpawnKept DEF MayGrow
<1>3. CASE UNCHANGED <<thr, list, cur, worker>> /\ notEmpty' \in 0..MaxNotEmptyTimes
  <2>1. PoolTypeOK /\ ThreadsStopping
    BY DEF PoolInv
  <2>2. ThreadsStopping'
    BY <1>1, <1>3, <2>1 DEF ThreadsStopping, worker
  <2>3. waiting \in Nat /\ queued \in Nat
    BY <2>1, PoolLimits DEF PoolTypeOK
  <2>4. waiting' + queued' <= waiting + queued
    BY <1>1, <2>3
  <2>5. /\ UNCHANGED <<thr, list, cur, missed>> /\ notified' \in [Threads -> BOOLEAN]
        /\ scan' \in {"run", "ended"}
        /\ stop' \in {"no", "scan", "head", "notify", "join", "done"}
        /\ pthr' \in [thread : Threads \cup {NoThread}, last : BOOLEAN]
    BY <1>1, <1>3, <2>1 DEF PoolTypeOK, worker
  <2> QED
    BY <1>1, <1>3, <2>2, <2>3, <2>4, <2>5, QuietKept
<1>4. notEmpty \in Nat /\ notEmpty <= MaxNotEmptyTimes /\ MaxNotEmptyTimes \in Nat
      /\ queued \in Nat
    BY PoolLimits DEF PoolInv, PoolTypeOK
<1>5. \/ \E t \in Threads : MayGrow /\ Spawn(t)
      \/ UNCHANGED <<thr, list, cur, worker>>
         /\ \/ notEmpty' = 0 \/ notEmpty' = MaxNotEmptyTimes
            \/ queued > 1 /\ ~LongEnough /\ notEmpty' = notEmpty + 1
    BY Zenon DEF ScanRound
<1>6. queued > 1 /\ ~LongEnough => notEmpty + 1 <= MaxNotEmptyTimes
    BY <1>4 DEF LongEnough
<1>7. \/ \E t \in Threads : MayGrow /\ Spawn(t)
      \/ UNCHANGED <<thr, list, cur, worker>> /\ notEmpty' \in 0..MaxNotEmptyTimes
    BY <1>4, <1>5, <1>6
<1> QED
    BY <1>2, <1>3, <1>7

LEMMA ContextsKept ==
    ASSUME PoolInv, ContextArrives \/ ContextReady
    PROVE  PoolInv'
<1>1. PoolTypeOK /\ ThreadsStopping
    BY DEF PoolInv
<1>2. UNCHANGED <<thr, list, cur, missed, notified, notEmpty, scan, stop, pthr>>
    BY DEF ContextArrives, ContextReady, worker, stopper
<1>3. waiting \in Nat /\ queued \in Nat
    BY <1>1, PoolLimits DEF PoolTypeOK
<1>4. /\ waiting' \in Nat /\ queued' \in Nat
      /\ \/ waiting' + queued' <= waiting + queued
         \/ /\ ValidContexts < ContextNum
            /\ waiting' + queued' <= waiting + queued + 1
    BY <1>3 DEF ContextArrives, ContextReady
<1>5. ThreadsStopping'
    BY <1>1, <1>2 DEF ThreadsStopping
<1>6. /\ notified' \in [Threads -> BOOLEAN] /\ notEmpty' \in 0..MaxNotEmptyTimes
      /\ scan' \in {"run", "ended"}
      /\ stop' \in {"no", "scan", "head", "notify", "join", "done"}
      /\ pthr' \in [thread : Threads \cup {NoThread}, last : BOOLEAN]
    BY <1>1, <1>2 DEF PoolTypeOK
<1> QED
    BY <1>2, <1>4, <1>5, <1>6, QuietKept

LEMMA StopKept ==
    ASSUME PoolInv, Stop
    PROVE  PoolInv'
<1>1. PoolTypeOK /\ ThreadsStopping /\ ThreadsListed
    BY DEF PoolInv
<1>2. UNCHANGED <<thr, list, cur, missed, waiting, queued, notEmpty, scan>>
    BY DEF Stop, StopBegin, StopJoinScan, StopHead, StopNotify, StopJoin, worker, contexts
<1>3. waiting' \in Nat /\ queued' \in Nat /\ waiting' + queued' <= waiting + queued
    BY <1>1, <1>2, PoolLimits DEF PoolTypeOK
<1>4. /\ notified' \in [Threads -> BOOLEAN] /\ notEmpty' \in 0..MaxNotEmptyTimes
      /\ scan' \in {"run", "ended"}
    BY <1>1, <1>2 DEF PoolTypeOK, Stop, StopBegin, StopJoinScan, StopHead, StopNotify, StopJoin,
                      worker
<1>5. stop' \in {"no", "scan"} => stop \in {"no", "scan"}
    BY DEF Stop, StopBegin, StopJoinScan, StopHead, StopNotify, StopJoin
<1>6. CASE StopBegin \/ StopJoinScan
  <2>1. /\ UNCHANGED <<notified, pthr>> /\ stop \in {"no", "scan"} /\ stop' \in {"scan", "head"}
        /\ stop' = "head" => scan = "ended"
    BY <1>6 DEF StopBegin, StopJoinScan, worker
  <2>2. ThreadsStopping'
    BY <1>1, <1>2, <2>1 DEF ThreadsStopping
  <2>3. /\ pthr' \in [thread : Threads \cup {NoThread}, last : BOOLEAN]
        /\ stop' \in {"no", "scan", "head", "notify", "join", "done"}
    BY <1>1, <2>1 DEF PoolTypeOK
  <2> QED
    BY <1>2, <1>3, <1>4, <1>5, <2>2, <2>3, QuietKept
<1>7. CASE StopHead
  <2>1. /\ UNCHANGED notified /\ stop = "head" /\ stop' = "notify"
        /\ pthr' = [thread |-> IF list = <<>> THEN NoThread ELSE Head(list),
                    last   |-> pthr.last \/ Len(list) = 1]
    BY <1>7 DEF StopHead, worker
  <2>2. ~pthr.last
    BY <1>1, <2>1 DEF ThreadsStopping
  <2>3. pthr' \in [thread : Threads \cup {NoThread}, last : BOOLEAN]
    <3>1. list # <<>> => Head(list) \in Threads
        BY <1>1, HeadTailProperties DEF PoolTypeOK
    <3>2. (pthr.last \/ Len(list) = 1) \in BOOLEAN
        OBVIOUS
    <3> QED
        BY <2>1, <3>1, <3>2
  <2>4. pthr'.last => ToSet(list') \subseteq {pthr'.thread}
    <3>1. pthr'.last => Len(list) = 1
        BY <2>1, <2>2
    <3>2. Len(list) = 1 => list # <<>> /\ ToSet(list) \subseteq {Head(list)}
      <4> SUFFICES ASSUME Len(list) = 1
                   PROVE  list # <<>> /\ ToSet(list) \subseteq {Head(list)}
        OBVIOUS
      <4>0. list \in Seq(Threads)
        BY <1>1 DEF PoolTypeOK
      <4>1. list # <<>>
        BY EmptySeq
      <4>2. DOMAIN list = 1..1
        BY <4>0
      <4>3. Head(list) = list[1]
        BY <4>1
      <4> QED
        BY <4>2, <4>3 DEF ToSet
    <3>3. list # <<>> => pthr'.thread = Head(list)
        BY <2>1
    <3> QED
        BY <1>2, <3>1, <3>2, <3>3
  <2>5. ThreadsStopping'
    BY <1>1, <1>2, <2>1, <2>4 DEF ThreadsStopping
  <2>6. stop' \in {"no", "scan", "head", "notify", "join", "done"}
    BY <2>1
  <2> QED
    BY <1>2, <1>3, <1>4, <1>5, <2>3, <2>5, <2>6, QuietKept
<1>8. CASE StopNotify \/ StopJoin
  <2>1. /\ UNCHANGED pthr /\ stop \in {"notify", "join"} /\ stop' \in {"join", "done", "head"}
        /\ stop' = "done" => pthr.last /\ thr[pthr.thread] = "none"
        /\ stop' = "head" => ~pthr.last
    BY <1>8 DEF StopNotify, StopJoin
  <2>2. stop' = "done" => ToSet(list') = {}
    BY <1>1, <1>2, <2>1 DEF ThreadsStopping, ThreadsListed
  <2>3. ThreadsStopping'
    BY <1>1, <1>2, <2>1, <2>2 DEF ThreadsStopping
  <2>4. /\ pthr' \in [thread : Threads \cup {NoThread}, last : BOOLEAN]
        /\ stop' \in {"no", "scan", "head", "notify", "join", "done"}
    BY <1>1, <2>1 DEF PoolTypeOK
  <2> QED
    BY <1>2, <1>3, <1>4, <1>5, <2>3, <2>4, QuietKept
<1> QED
    BY <1>6, <1>7, <1>8 DEF Stop

-----------------------------------------------------------------------------
(* The inductive invariant and what follows from it.                       *)

LEMMA PoolInitHolds == PoolInit => PoolInv
<1> SUFFICES ASSUME PoolInit PROVE PoolInv
    OBVIOUS
<1>1. PICK s \in [1..MinNum -> Threads] :
          /\ \A i, j \in 1..MinNum : s[i] = s[j] => i = j
          /\ list = s
          /\ thr = [t \in Threads |-> IF t \in {s[i] : i \in 1..MinNum} THEN "top" ELSE "none"]
    BY DEF PoolInit
<1>2. /\ cur = MinNum /\ missed = [t \in Threads |-> 0] /\ notified = [t \in Threads |-> FALSE]
      /\ waiting = 0 /\ queued = 0 /\ notEmpty = 0 /\ scan = "run" /\ stop = "no"
      /\ pthr = [thread |-> NoThread, last |-> FALSE]
    BY DEF PoolInit
<1>3. MinNum \in Nat /\ MinNum <= MaxNum
    BY PoolLimits
<1>4. s \in Seq(Threads) /\ Len(s) = MinNum
    BY <1>3
<1>5. ToSet(s) = {s[i] : i \in 1..MinNum} /\ Injective(s)
    BY <1>1, <1>4 DEF ToSet, Injective
<1>6. ThreadsListed
    BY <1>1, <1>2, <1>4, <1>5 DEF ThreadsListed
<1>7. PoolTypeOK
    BY <1>1, <1>2, <1>3, <1>4, PoolLimits DEF PoolTypeOK
<1>8. WithinLimits /\ ThreadsStopping
    BY <1>2, <1>3 DEF WithinLimits, ThreadsStopping
<1>9. Serving = {}
    BY <1>1 DEF Serving
<1>10. ContextsInUse
    BY <1>2, <1>9, FS_EmptySet, PoolLimits DEF ContextsInUse, ValidContexts
<1> QED
    BY <1>6, <1>7, <1>8, <1>10 DEF PoolInv

LEMMA PoolStutterKept ==
    ASSUME PoolInv, UNCHANGED poolVars
    PROVE  PoolInv'
BY DEF PoolInv, PoolTypeOK, ThreadsListed, WithinLimits, ThreadsStopping, ContextsInUse, ValidContexts, Serving, poolVars

LEMMA PoolInductive == PoolSpec => []PoolInv
<1>1. PoolInv /\ [PoolNext]_poolVars => PoolInv'
    BY ServeKept, PutContextKept, IdleMoveKept, DropKept, LeaveKept, ScanRoundKept, StopKept,
       ContextsKept, PoolStutterKept DEF PoolNext, Worker
<1> QED
    BY PoolInitHolds, <1>1, PTL DEF PoolSpec

\* The accounts of the pool of threads are right: the counter, the list, the limits, and
\* no thread left when threads_pool_stop returns.
THEOREM AccountsCorrect == PoolSpec => []Accounts
<1>1. PoolInv => Accounts
  <2> SUFFICES ASSUME PoolInv PROVE Accounts
    OBVIOUS
  <2>1. Len(list) = Cardinality(ToSet(list))
    BY CountElements DEF PoolInv, PoolTypeOK, ThreadsListed
  <2>2. StoppedMeansGone
    BY DEF PoolInv, ThreadsStopping, ThreadsListed, StoppedMeansGone
  <2> QED
    BY <2>1, <2>2 DEF PoolInv, ThreadsListed, Accounts, CounterCountsThreads
<1> QED
    BY <1>1, PoolInductive, PTL

=============================================================================
