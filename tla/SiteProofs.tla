----------------------------- MODULE SiteProofs -----------------------------
(***************************************************************************)
(* Proofs about SiteLoad, for every set of well-formed feeds, and about    *)
(* SiteRegistry, for every number of workers, subdomains, versions and     *)
(* messages.                                                               *)
(*                                                                         *)
(* The nodes of a feed are numbered in document order, so a list of        *)
(* children is a set of numbers: it begins at the least and next leads to  *)
(* the least of the later ones.  LoadIInv says which set every list is at  *)
(* every moment of the loading.                                            *)
(***************************************************************************)
EXTENDS SiteLoad, SiteRegistry, FiniteSetTheorems, WellFoundedInduction, TLAPS

\* A set of naturals has a least member.
LEMMA LeastNat ==
    ASSUME NEW T, T \subseteq Nat, T # {}
    PROVE  \E n \in T : \A m \in T : n <= m
<1> DEFINE R == OpToRel(<, Nat)
<1>1. IsWellFoundedOn(R, Nat)
  BY NatLessThanWellFounded
<1>2. \A x, y \in Nat : <<x, y>> \in R <=> x < y
  BY DEF OpToRel
<1> HIDE DEF R
<1>3. PICK n \in T : \A m \in T : ~(<<m, n>> \in R)
  BY <1>1, WFMin
<1>4. ASSUME NEW m \in T PROVE n <= m
  <2>1. m \in Nat /\ n \in Nat
    OBVIOUS
  <2>2. ~(m < n)
    BY <1>2, <1>3, <2>1
  <2> QED
    BY <2>1, <2>2
<1> QED
  BY <1>4

\* A bounded set of naturals has a greatest member.
LEMMA GreatestNat ==
    ASSUME NEW N \in Nat, NEW T, T \subseteq 0..N, T # {}
    PROVE  \E n \in T : \A m \in T : m <= n
<1> DEFINE U == {N - n : n \in T}
<1>0. \A n \in T : n \in 0..N /\ N - n \in Nat
  OBVIOUS
<1>1. U \subseteq Nat /\ U # {}
  BY <1>0
<1>2. PICK u \in U : \A v \in U : u <= v
  BY <1>1, LeastNat
<1>3. PICK n \in T : u = N - n
  OBVIOUS
<1>4. \A m \in T : N - m \in U
  OBVIOUS
<1>5. \A m \in T : u <= N - m
  BY <1>2, <1>4
<1>6. \A m \in T : m <= n
  BY <1>3, <1>5
<1> QED
  BY <1>6

\* Induction over the naturals up to N, from all smaller ones.
LEMMA Descent ==
    ASSUME NEW N \in Nat, NEW P,
           \A n \in 0..N : (\A m \in 0..n - 1 : m \in P) => n \in P
    PROVE  \A n \in 0..N : n \in P
<1> DEFINE T == {n \in 0..N : n \notin P}
<1> SUFFICES ASSUME T # {} PROVE FALSE
  OBVIOUS
<1>0. T \subseteq Nat
  OBVIOUS
<1>1. PICK n \in T : \A m \in T : n <= m
  BY <1>0, LeastNat
<1>2. n \in 0..N /\ n \notin P
  OBVIOUS
<1>3. \A m \in 0..n - 1 : m \in P
  BY <1>1, <1>2
<1> QED
  BY <1>2, <1>3

\* The numbers of the nodes.
LEMMA Sizes ==
    /\ MaxSize \in Nat /\ 3 * MaxSize \in Nat
    /\ Node \subseteq Nat /\ Null \notin Node /\ 0 \in Node /\ Null = -1
    /\ \A x : x \in Node <=> x \in Int /\ 0 <= x /\ x <= 3 * MaxSize
    /\ IsFiniteSet(Node) /\ Cardinality(Node) = 3 * MaxSize + 1
<1>1. MaxSize \in Nat
  BY SiteLoadAssumption DEF SiteLoadAssumption
<1>2. 3 * MaxSize \in Nat
  BY <1>1
<1>3. IsFiniteSet(0..3 * MaxSize) /\ Cardinality(0..3 * MaxSize) = 3 * MaxSize + 1
  <2>1. 0 \in Int /\ 3 * MaxSize \in Int /\ ~(0 > 3 * MaxSize)
    BY <1>2
  <2>2. IsFiniteSet(0..3 * MaxSize) /\ Cardinality(0..3 * MaxSize) = IF 0 > 3 * MaxSize THEN 0 ELSE 3 * MaxSize - 0 + 1
    BY <2>1, FS_Interval
  <2> QED
    BY <2>1, <2>2, <1>2
<1> QED
  BY <1>1, <1>2, <1>3 DEF Node, Null

\* Least of a set of nodes.
LEMMA LeastIs ==
    /\ Least({}) = Null
    /\ \A L \in SUBSET Node : L # {} => Least(L) \in L /\ \A y \in L : Least(L) <= y
    /\ \A L \in SUBSET Node : \A m \in L : (\A y \in L : m <= y) => Least(L) = m
<1>1. Least({}) = Null
  BY DEF Least
<1>2. ASSUME NEW L \in SUBSET Node, L # {} PROVE Least(L) \in L /\ \A y \in L : Least(L) <= y
  <2>1. L \subseteq Nat
    BY Sizes
  <2>2. \E x \in L : \A y \in L : x <= y
    BY <1>2, <2>1, LeastNat
  <2> QED
    BY <1>2, <2>2 DEF Least, Min
<1>3. ASSUME NEW L \in SUBSET Node, NEW m \in L, \A y \in L : m <= y PROVE Least(L) = m
  <2>1. Least(L) \in L /\ Least(L) <= m /\ m <= Least(L)
    BY <1>2, <1>3
  <2>2. Least(L) \in Int /\ m \in Int
    BY <2>1, Sizes
  <2> QED
    BY <2>1, <2>2
<1> QED
  BY <1>1, <1>2, <1>3

Greatest(S) == IF S = {} THEN Null ELSE Max(S)

\* Greatest gives the last of a list, and Null for an empty one.
LEMMA GreatestIs ==
    /\ Greatest({}) = Null
    /\ \A L \in SUBSET Node : L # {} => Greatest(L) \in L /\ \A y \in L : Greatest(L) >= y
    /\ \A L \in SUBSET Node : \A m \in L : (\A y \in L : m >= y) => Greatest(L) = m
<1>1. Greatest({}) = Null
  BY DEF Greatest
<1>2. ASSUME NEW L \in SUBSET Node, L # {} PROVE Greatest(L) \in L /\ \A y \in L : Greatest(L) >= y
  <2>1. L \subseteq 0..3 * MaxSize /\ 3 * MaxSize \in Nat
    BY Sizes DEF Node
  <2>2. \E x \in L : \A y \in L : y <= x
    BY <1>2, <2>1, GreatestNat
  <2>3. \E x \in L : \A y \in L : x >= y
    BY <2>1, <2>2
  <2> QED
    BY <1>2, <2>3 DEF Greatest, Max
<1>3. ASSUME NEW L \in SUBSET Node, NEW m \in L, \A y \in L : m >= y PROVE Greatest(L) = m
  <2>1. Greatest(L) \in L /\ Greatest(L) >= m /\ m >= Greatest(L)
    BY <1>2, <1>3
  <2>2. Greatest(L) \in Int /\ m \in Int
    BY <2>1, Sizes
  <2> QED
    BY <2>1, <2>2
<1> QED
  BY <1>1, <1>2, <1>3

-----------------------------------------------------------------------------
Step(R, fs) == R \cup ((UNION {{f[x] : x \in R} : f \in fs}) \ {Null})

\* What one more round of Reach adds.
LEMMA StepIs ==
    ASSUME NEW R, NEW fs
    PROVE  \A z : z \in Step(R, fs) <=> z \in R \/ (z # Null /\ \E f \in fs : \E x \in R : z = f[x])
<1> SUFFICES ASSUME NEW z PROVE z \in Step(R, fs) <=> z \in R \/ (z # Null /\ \E f \in fs : \E x \in R : z = f[x])
  OBVIOUS
<1> DEFINE F == {{f[x] : x \in R} : f \in fs}
           U == UNION F
<1>1. ASSUME z \in U PROVE \E f \in fs : \E x \in R : z = f[x]
  <2>1. PICK I \in {{f[x] : x \in R} : f \in fs} : z \in I
    BY <1>1
  <2> QED
    BY <2>1
<1>2. ASSUME NEW f \in fs, NEW x \in R, z = f[x] PROVE z \in U
  <2> DEFINE I == {f[y] : y \in R}
  <2>1. I \in F
    OBVIOUS
  <2>2. z \in I
    BY <1>2
  <2> HIDE DEF I, F
  <2> QED
    BY <2>1, <2>2
<1>3. z \in Step(R, fs) <=> z \in R \/ (z \in U /\ z # Null)
  BY DEF Step
<1> QED
  BY <1>1, <1>2, <1>3

ReachUpTo(S, fs, n, r) == r = [k \in 0..n |-> IF k = 0 THEN S \ {Null} ELSE Step(r[k - 1], fs)]

\* Induction up to N: a set with 0 and the successor of each of its members.
LEMMA Induct ==
    ASSUME NEW N \in Nat, NEW P, 0 \in P, \A n \in 0..(N - 1) : n \in P => n + 1 \in P
    PROVE  \A n \in 0..N : n \in P
<1>1. ASSUME NEW n \in 0..N, \A m \in 0..n - 1 : m \in P PROVE n \in P
  <2>1. CASE n = 0
    BY <2>1
  <2>2. CASE n # 0
    <3>1. n - 1 \in 0..(N - 1) /\ n - 1 \in 0..n - 1 /\ (n - 1) + 1 = n
      BY <2>2
    <3> QED
      BY <1>1, <3>1
  <2> QED
    BY <2>1, <2>2
<1> QED
  BY <1>1, Descent

\* The rounds of Reach are there, up to every number.
LEMMA ReachExists ==
    ASSUME NEW S, NEW fs, NEW N \in Nat
    PROVE  \E r : ReachUpTo(S, fs, N, r)
<1> DEFINE P == {n \in Nat : \E r : ReachUpTo(S, fs, n, r)}
<1>1. 0 \in P
  <2> DEFINE r == [i \in {0} |-> S \ {Null}]
  <2>1. 0..0 = {0}
    OBVIOUS
  <2>2. ReachUpTo(S, fs, 0, r)
    BY <2>1 DEF ReachUpTo
  <2> QED
    BY <2>2
<1>2. ASSUME NEW n \in 0..(N - 1), n \in P PROVE n + 1 \in P
  <2>1. PICK r : ReachUpTo(S, fs, n, r)
    BY <1>2
  <2> DEFINE g == [k \in 0..(n + 1) |-> IF k <= n THEN r[k] ELSE Step(r[n], fs)]
  <2>2. \A k \in 0..n : g[k] = r[k] /\ k \in 0..(n + 1)
    OBVIOUS
  <2>3. \A k \in 0..n : r[k] = IF k = 0 THEN S \ {Null} ELSE Step(r[k - 1], fs)
    BY <2>1 DEF ReachUpTo
  <2>4. g[n + 1] = Step(r[n], fs)
    <3>1. n + 1 \in 0..(n + 1) /\ ~(n + 1 <= n)
      OBVIOUS
    <3> QED
      BY <3>1
  <2>5. g = [k \in 0..(n + 1) |-> g[k]]
    OBVIOUS
  <2> HIDE DEF g
  <2>6. ASSUME NEW k \in 0..(n + 1)
        PROVE  g[k] = IF k = 0 THEN S \ {Null} ELSE Step(g[k - 1], fs)
    <3>1. CASE k = 0
      BY <2>2, <2>3, <3>1
    <3>2. CASE k \in 1..n
      <4>1. k - 1 \in 0..n /\ k \in 0..n /\ k # 0
        BY <3>2
      <4>2. g[k] = r[k] /\ g[k - 1] = r[k - 1]
        BY <2>2, <4>1
      <4> QED
        BY <2>3, <4>1, <4>2
    <3>3. CASE k = n + 1
      <4>1. g[n] = r[n] /\ k - 1 = n /\ k # 0
        BY <2>2, <3>3
      <4> QED
        BY <2>4, <3>3, <4>1
    <3> QED
      BY <3>1, <3>2, <3>3
  <2>7. ReachUpTo(S, fs, n + 1, g)
    BY <2>5, <2>6 DEF ReachUpTo
  <2> QED
    BY <2>7
<1>3. \A n \in 0..N : n \in P
  <2> HIDE DEF P
  <2> QED
    BY <1>1, <1>2, Induct
<1> QED
  BY <1>3

\* Reach, unfolded: one step after the other.
LEMMA ReachSteps ==
    ASSUME NEW S, NEW fs
    PROVE  \E r : /\ Reach(S, fs) = r[3 * MaxSize + 1] /\ r[0] = S \ {Null}
                  /\ \A k \in 0..3 * MaxSize : r[k + 1] = Step(r[k], fs)
<1>0. 3 * MaxSize + 1 \in Nat
  BY Sizes
<1> DEFINE r == CHOOSE r : ReachUpTo(S, fs, 3 * MaxSize + 1, r)
<1>1. ReachUpTo(S, fs, 3 * MaxSize + 1, r)
  BY <1>0, ReachExists
<1>2. Reach(S, fs) = r[3 * MaxSize + 1]
  BY DEF Reach, ReachUpTo, Step
<1> HIDE DEF r
<1>3. \A k \in 0..3 * MaxSize + 1 : r[k] = IF k = 0 THEN S \ {Null} ELSE Step(r[k - 1], fs)
  BY <1>1 DEF ReachUpTo
<1>4. r[0] = S \ {Null}
  BY <1>0, <1>3
<1>5. \A k \in 0..3 * MaxSize : r[k + 1] = Step(r[k], fs)
  <2> SUFFICES ASSUME NEW k \in 0..3 * MaxSize PROVE r[k + 1] = Step(r[k], fs)
    OBVIOUS
  <2>1. k + 1 \in 0..3 * MaxSize + 1 /\ k + 1 # 0 /\ (k + 1) - 1 = k
    BY Sizes
  <2> QED
    BY <1>3, <2>1
<1> QED
  BY <1>2, <1>4, <1>5

Closed(Z, fs) == \A f \in fs : \A x \in Z : f[x] # Null => f[x] \in Z
Pointers(fs) == \A f \in fs : f \in [Node -> NodeOrNull]

\* Reach is the least set of nodes with S that is closed under the pointers.
LEMMA ReachLeast ==
    ASSUME NEW S, NEW fs, NEW Z, S \ {Null} \subseteq Z, Closed(Z, fs)
    PROVE  Reach(S, fs) \subseteq Z
<1>1. PICK r : /\ Reach(S, fs) = r[3 * MaxSize + 1] /\ r[0] = S \ {Null}
               /\ \A k \in 0..3 * MaxSize : r[k + 1] = Step(r[k], fs)
  BY ReachSteps
<1> DEFINE N == 3 * MaxSize + 1
<1> DEFINE P == {k \in Nat : r[k] \subseteq Z}
<1>2. N \in Nat /\ N \in 0..N /\ N - 1 = 3 * MaxSize
  BY Sizes
<1>3. 0 \in P
  BY <1>1
<1>4. ASSUME NEW k \in 0..(N - 1), k \in P PROVE k + 1 \in P
  <2>1. r[k + 1] = Step(r[k], fs) /\ k + 1 \in Nat
    BY <1>1, <1>2
  <2>2. r[k] \subseteq Z
    BY <1>4
  <2>3. Step(r[k], fs) \subseteq Z
    BY <2>2, StepIs DEF Closed
  <2> QED
    BY <2>1, <2>3
<1>5. \A k \in 0..N : k \in P
  <2> HIDE DEF P, N
  <2> QED
    BY <1>2, <1>3, <1>4, Induct
<1> QED
  BY <1>1, <1>2, <1>5

\* Reach has the nodes it starts from and is closed under the pointers: the rounds
\* that Reach makes are enough, because each but the last adds a node.
LEMMA ReachClosed ==
    ASSUME NEW S, NEW fs, S \subseteq NodeOrNull, Pointers(fs)
    PROVE  /\ Reach(S, fs) \subseteq Node
           /\ S \ {Null} \subseteq Reach(S, fs)
           /\ Closed(Reach(S, fs), fs)
<1>1. PICK r : /\ Reach(S, fs) = r[3 * MaxSize + 1] /\ r[0] = S \ {Null}
               /\ \A k \in 0..3 * MaxSize : r[k + 1] = Step(r[k], fs)
  BY ReachSteps
<1> DEFINE N == 3 * MaxSize + 1
<1>2. N \in Nat /\ N \in 0..N /\ N - 1 = 3 * MaxSize /\ Cardinality(Node) = N /\ IsFiniteSet(Node)
  BY Sizes
<1>3. \A R \in SUBSET Node : Step(R, fs) \in SUBSET Node /\ R \subseteq Step(R, fs)
  <2> SUFFICES ASSUME NEW R \in SUBSET Node PROVE Step(R, fs) \in SUBSET Node /\ R \subseteq Step(R, fs)
    OBVIOUS
  <2>1. \A f \in fs : \A x \in R : f[x] \in Node \cup {Null}
    BY DEF Pointers, NodeOrNull
  <2> QED
    BY <2>1, StepIs
<1>4. \A R : Step(R, fs) = R => Closed(R, fs)
  BY StepIs DEF Closed
<1> DEFINE Good(k) == /\ r[k] \in SUBSET Node /\ S \ {Null} \subseteq r[k]
                      /\ (Step(r[k], fs) = r[k] \/ Cardinality(r[k]) >= k)
<1> DEFINE P == {k \in Nat : Good(k)}
<1>5. 0 \in P
  <2>1. r[0] \in SUBSET Node
    BY <1>1 DEF NodeOrNull
  <2>2. Cardinality(r[0]) \in Nat
    BY <2>1, <1>2, FS_Subset, FS_CardinalityType
  <2> QED
    BY <1>1, <2>1, <2>2
<1>6. ASSUME NEW k \in 0..(N - 1), k \in P PROVE k + 1 \in P
  <2>1. r[k + 1] = Step(r[k], fs) /\ k + 1 \in Nat /\ k \in Nat
    BY <1>1, <1>2
  <2>2. Good(k)
    BY <1>6
  <2>3. r[k + 1] \in SUBSET Node /\ r[k] \in SUBSET r[k + 1]
    BY <1>3, <2>1, <2>2
  <2>4. IsFiniteSet(r[k + 1]) /\ Cardinality(r[k + 1]) \in Nat /\ Cardinality(r[k]) \in Nat
    BY <1>2, <2>3, <2>2, FS_Subset, FS_CardinalityType
  <2>5. CASE Step(r[k], fs) = r[k]
    BY <2>1, <2>2, <2>5
  <2>6. CASE Step(r[k], fs) # r[k]
    <3>1. Cardinality(r[k]) <= Cardinality(r[k + 1]) /\ Cardinality(r[k + 1]) # Cardinality(r[k])
      BY <2>1, <2>3, <2>4, <2>6, FS_Subset
    <3>2. Cardinality(r[k]) >= k
      BY <2>2, <2>6
    <3>3. Cardinality(r[k + 1]) >= k + 1
      BY <3>1, <3>2, <2>4, <2>1
    <3> QED
      BY <2>1, <2>2, <2>3, <3>3
  <2> QED
    BY <2>5, <2>6
<1>7. \A k \in 0..N : k \in P
  <2> HIDE DEF P, N
  <2> QED
    BY <1>2, <1>5, <1>6, Induct
<1>8. Good(N)
  BY <1>2, <1>7
<1>9. Step(r[N], fs) = r[N]
  <2>1. CASE Cardinality(r[N]) >= N
    <3>1. r[N] \in SUBSET Node /\ Cardinality(r[N]) <= Cardinality(Node) /\ Cardinality(r[N]) \in Nat
      BY <1>2, <1>8, FS_Subset, FS_CardinalityType
    <3>2. Cardinality(Node) = Cardinality(r[N])
      BY <2>1, <3>1, <1>2
    <3>3. r[N] = Node
      BY <3>1, <3>2, <1>2, FS_Subset
    <3> QED
      BY <1>3, <3>3
  <2> QED
    BY <1>8, <2>1
<1> QED
  BY <1>1, <1>4, <1>8, <1>9

\* The nodes of the feed, and what is assumed of them.
D == DOMAIN doc.kind
NodeFacts(n) ==
    /\ doc.parent[n] \in 0..MaxSize /\ doc.parent[n] < n
    /\ doc.parent[n] # 0 => doc.parent[n] \in D /\ doc.kind[doc.parent[n]] # "text"
    /\ \A m \in doc.parent[n] + 1..n - 1 : m \in D /\ doc.parent[m] >= doc.parent[n]
LinkFacts(a) ==
    /\ a \in D /\ doc.kind[a] = "association"
    /\ doc.parent[a] \in D /\ doc.kind[doc.parent[a]] = "item"
    /\ doc.link[a] \in D => doc.kind[doc.link[a]] = "item"
FeedFacts ==
    /\ D \subseteq 1..MaxSize /\ doc.staging \subseteq D
    /\ \A n \in D : NodeFacts(n)
    /\ \A a \in Associations(doc) : LinkFacts(a)

\* What is assumed of a feed.
LEMMA FeedIs == doc \in Feeds => FeedFacts
<1> SUFFICES ASSUME doc \in Feeds PROVE FeedFacts
  OBVIOUS
<1>1. PICK n \in 0..MaxSize : doc \in Feed(n)
  BY SiteLoadAssumption DEF SiteLoadAssumption
<1>2. WellFormed(doc)
  BY SiteLoadAssumption DEF SiteLoadAssumption
<1>3. /\ doc.kind \in [1..n -> Kind] /\ doc.parent \in [1..n -> 0..n - 1] /\ doc.link \in [1..n -> 0..n + 1]
      /\ doc.staging \in SUBSET (1..n)
  BY <1>1 DEF Feed
<1>4. D = 1..n /\ n \in Nat /\ MaxSize \in Nat /\ n <= MaxSize
  BY <1>3, Sizes DEF D
<1>5. Associations(doc) = {a \in D : doc.kind[a] = "association"}
  BY DEF Associations, D
<1>6. ASSUME NEW m \in D
      PROVE  /\ doc.parent[m] \in 0..n - 1 /\ doc.parent[m] < m
             /\ doc.parent[m] = 0 \/ doc.kind[doc.parent[m]] # "text"
             /\ \A k \in doc.parent[m] + 1..m - 1 : doc.parent[k] >= doc.parent[m]
  BY <1>2, <1>3, <1>4 DEF WellFormed, D
<1>7. ASSUME NEW m \in D
      PROVE  /\ doc.parent[m] \in 0..MaxSize
             /\ doc.parent[m] # 0 => doc.parent[m] \in D
             /\ \A k \in doc.parent[m] + 1..m - 1 : k \in D
  BY <1>6, <1>4
<1>8. ASSUME NEW a \in Associations(doc)
      PROVE  /\ doc.parent[a] # 0 /\ doc.kind[doc.parent[a]] = "item"
             /\ doc.link[a] \in D => doc.kind[doc.link[a]] = "item"
  BY <1>2 DEF WellFormed, D
<1>9. ASSUME NEW m \in D PROVE NodeFacts(m)
  BY <1>6, <1>7 DEF NodeFacts
<1>10. ASSUME NEW a \in Associations(doc) PROVE LinkFacts(a)
  BY <1>5, <1>7, <1>8 DEF LinkFacts
<1>11. D \subseteq 1..MaxSize /\ doc.staging \subseteq D
  BY <1>3, <1>4
<1> QED
  BY <1>9, <1>10, <1>11 DEF FeedFacts

AncestorsUpTo(n, f) == f = [i \in 0..n |-> IF i \notin DOMAIN doc.kind THEN {} ELSE {doc.parent[i]} \cup f[doc.parent[i]]]

\* The recursion of Ancestors defines a function.
LEMMA AncestorsExist == ASSUME doc \in Feeds PROVE \E f : AncestorsUpTo(MaxSize, f)
<1> DEFINE V(i, f) == IF i \notin D THEN {} ELSE {doc.parent[i]} \cup f[doc.parent[i]]
<1> DEFINE P == {n \in Nat : \E f : AncestorsUpTo(n, f)}
<1>0. FeedFacts /\ MaxSize \in Nat
  BY FeedIs, Sizes
<1>1. 0 \in P
  <2> DEFINE f == [i \in {0} |-> {}]
  <2>1. 0..0 = {0} /\ 0 \notin D
    BY <1>0 DEF FeedFacts, NodeFacts
  <2>2. AncestorsUpTo(0, f)
    BY <2>1 DEF AncestorsUpTo, D
  <2> QED
    BY <2>2
<1>2. ASSUME NEW n \in 0..(MaxSize - 1), n \in P PROVE n + 1 \in P
  <2>1. PICK f : AncestorsUpTo(n, f)
    BY <1>2
  <2> DEFINE g == [i \in 0..(n + 1) |-> IF i <= n THEN f[i] ELSE V(i, f)]
  <2>2. \A i \in 0..n : g[i] = f[i] /\ i \in 0..(n + 1)
    OBVIOUS
  <2>3. \A i \in 0..n : f[i] = V(i, f)
    BY <2>1 DEF AncestorsUpTo, D
  <2>4. g[n + 1] = V(n + 1, f)
    <3>1. n + 1 \in 0..(n + 1) /\ ~(n + 1 <= n)
      OBVIOUS
    <3> QED
      BY <3>1
  <2>5. g = [i \in 0..(n + 1) |-> g[i]]
    OBVIOUS
  <2>6. ASSUME NEW i \in 0..(n + 1), i \in D PROVE doc.parent[i] \in 0..n
    BY <1>0, <2>6 DEF FeedFacts, NodeFacts
  <2> HIDE DEF g
  <2>7. ASSUME NEW i \in 0..(n + 1)
        PROVE  g[i] = V(i, g)
    <3>1. V(i, g) = V(i, f)
      BY <2>2, <2>6
    <3>2. CASE i \in 0..n
      BY <2>2, <2>3, <3>1, <3>2
    <3>3. CASE i = n + 1
      BY <2>4, <3>1, <3>3
    <3> QED
      BY <3>2, <3>3
  <2>8. AncestorsUpTo(n + 1, g)
    BY <2>5, <2>7 DEF AncestorsUpTo, D
  <2> QED
    BY <2>8
<1>3. \A n \in 0..MaxSize : n \in P
  <2> HIDE DEF P
  <2> QED
    BY <1>0, <1>1, <1>2, Induct
<1> QED
  BY <1>0, <1>3

\* The ancestors of a node are its parent and the ancestors of that.
LEMMA AncestorsAre ==
    doc \in Feeds => /\ Ancestors[0] = {}
                     /\ \A n \in D : Ancestors[n] = {doc.parent[n]} \cup Ancestors[doc.parent[n]]
<1> SUFFICES ASSUME doc \in Feeds PROVE /\ Ancestors[0] = {}
                     /\ \A n \in D : Ancestors[n] = {doc.parent[n]} \cup Ancestors[doc.parent[n]]
  OBVIOUS
<1> DEFINE f == CHOOSE f : AncestorsUpTo(MaxSize, f)
<1>1. AncestorsUpTo(MaxSize, f)
  BY AncestorsExist
<1>2. Ancestors = f
  BY DEF Ancestors, AncestorsUpTo
<1> HIDE DEF f
<1>3. FeedFacts /\ MaxSize \in Nat
  BY FeedIs, Sizes
<1>4. \A i \in 0..MaxSize : f[i] = IF i \notin D THEN {} ELSE {doc.parent[i]} \cup f[doc.parent[i]]
  BY <1>1 DEF AncestorsUpTo, D
<1>5. 0 \in 0..MaxSize /\ 0 \notin D /\ D \subseteq 0..MaxSize
  BY <1>3 DEF FeedFacts, NodeFacts
<1> QED
  BY <1>2, <1>4, <1>5

\* The ancestors of a node come before it, and theirs are among them.
LEMMA AncestorsBefore ==
    doc \in Feeds => \A n \in D : /\ Ancestors[n] \subseteq {0} \cup D
                                  /\ \A m \in Ancestors[n] : m < n /\ Ancestors[m] \subseteq Ancestors[n]
<1> SUFFICES ASSUME doc \in Feeds
             PROVE  \A n \in D : /\ Ancestors[n] \subseteq {0} \cup D
                                 /\ \A m \in Ancestors[n] : m < n /\ Ancestors[m] \subseteq Ancestors[n]
  OBVIOUS
<1> DEFINE P == {n \in Nat : n \in D => /\ Ancestors[n] \subseteq {0} \cup D
                                        /\ \A m \in Ancestors[n] : m < n /\ Ancestors[m] \subseteq Ancestors[n]}
<1>1. FeedFacts /\ MaxSize \in Nat
  BY FeedIs, Sizes
<1>2. ASSUME NEW n \in 0..MaxSize, \A m \in 0..n - 1 : m \in P PROVE n \in P
  <2> SUFFICES ASSUME n \in D
               PROVE  /\ Ancestors[n] \subseteq {0} \cup D
                      /\ \A m \in Ancestors[n] : m < n /\ Ancestors[m] \subseteq Ancestors[n]
    OBVIOUS
  <2> DEFINE p == doc.parent[n]
  <2>1. p \in 0..n - 1 /\ p \in {0} \cup D
    BY <1>1 DEF FeedFacts, NodeFacts
  <2>2. Ancestors[n] = {p} \cup Ancestors[p] /\ Ancestors[0] = {}
    BY AncestorsAre
  <2>3. p \in P
    BY <1>2, <2>1
  <2>4. p = 0 \/ (/\ Ancestors[p] \subseteq {0} \cup D
                  /\ \A m \in Ancestors[p] : m < p /\ Ancestors[m] \subseteq Ancestors[p])
    BY <2>1, <2>3
  <2>5. D \subseteq Nat /\ {0} \cup D \subseteq Nat
    BY <1>1 DEF FeedFacts
  <2> HIDE DEF p
  <2>6. Ancestors[n] \subseteq {0} \cup D
    BY <2>1, <2>2, <2>4
  <2>7. ASSUME NEW m \in Ancestors[n] PROVE m < n /\ Ancestors[m] \subseteq Ancestors[n]
    <3>1. m \in Nat /\ n \in Nat /\ p \in Nat /\ p < n
      <4>1. m \in Nat
        BY <2>5, <2>6
      <4> QED
        BY <1>1, <2>1, <4>1
    <3>2. m = p \/ (m < p /\ Ancestors[m] \subseteq Ancestors[p])
      BY <2>2, <2>4
    <3> QED
      BY <2>2, <3>1, <3>2
  <2> QED
    BY <2>6, <2>7
<1>3. \A n \in 0..MaxSize : n \in P
  <2> HIDE DEF P
  <2> QED
    BY <1>1, <1>2, Descent
<1> QED
  BY <1>1, <1>3 DEF FeedFacts, NodeFacts

\* An element's descendants follow it without a gap.
LEMMA Between ==
    doc \in Feeds => \A n \in D : \A m \in Ancestors[n] : \A k \in m + 1..n : k \in D /\ m \in Ancestors[k]
<1> SUFFICES ASSUME doc \in Feeds
             PROVE  \A n \in D : \A m \in Ancestors[n] : \A k \in m + 1..n : k \in D /\ m \in Ancestors[k]
  OBVIOUS
<1>1. FeedFacts /\ MaxSize \in Nat /\ D \subseteq 0..MaxSize /\ D \subseteq Nat /\ {0} \cup D \subseteq Nat
  BY FeedIs, Sizes DEF FeedFacts, NodeFacts
<1> DEFINE P == {n \in Nat : n \in D => \A m \in Ancestors[n] : \A k \in m + 1..n : k \in D /\ m \in Ancestors[k]}
<1>2. ASSUME NEW n \in D PROVE \A k \in doc.parent[n] + 1..n : k \in D /\ doc.parent[n] \in Ancestors[k]
  <2> DEFINE p == doc.parent[n]
  <2>1. p \in 0..n - 1 /\ p \in Nat /\ n \in Nat
    BY <1>1 DEF FeedFacts, NodeFacts
  <2> DEFINE Q == {k \in Nat : k \in p + 1..n => k \in D /\ p \in Ancestors[k]}
  <2>2. ASSUME NEW k \in 0..n, \A m \in 0..k - 1 : m \in Q PROVE k \in Q
    <3> SUFFICES ASSUME k \in p + 1..n PROVE k \in D /\ p \in Ancestors[k]
      OBVIOUS
    <3>0. k = n \/ k \in p + 1..n - 1
      BY <2>1
    <3>1. k \in D /\ doc.parent[k] >= p /\ doc.parent[k] \in 0..k - 1 /\ doc.parent[k] \in Nat
      <4>1. k \in D /\ (k = n \/ doc.parent[k] >= p)
        BY <1>1, <3>0 DEF FeedFacts, NodeFacts
      <4>2. doc.parent[k] \in 0..MaxSize /\ doc.parent[k] < k
        BY <1>1, <4>1 DEF FeedFacts, NodeFacts
      <4> QED
        BY <1>1, <2>1, <4>1, <4>2
    <3>2. Ancestors[k] = {doc.parent[k]} \cup Ancestors[doc.parent[k]]
      BY <3>1, AncestorsAre
    <3>3. doc.parent[k] # p => doc.parent[k] \in p + 1..n
      BY <2>1, <3>1
    <3>4. doc.parent[k] \in Q
      BY <2>2, <3>1
    <3> QED
      BY <3>1, <3>2, <3>3, <3>4
  <2>3. \A k \in 0..n : k \in Q
    <3> HIDE DEF Q, p
    <3> QED
      BY <2>1, <2>2, Descent
  <2>4. \A k \in p + 1..n : k \in 0..n
    BY <2>1
  <2> QED
    BY <2>3, <2>4
<1>3. ASSUME NEW n \in 0..MaxSize, \A m \in 0..n - 1 : m \in P PROVE n \in P
  <2> SUFFICES ASSUME n \in D, NEW m \in Ancestors[n], NEW k \in m + 1..n PROVE k \in D /\ m \in Ancestors[k]
    OBVIOUS
  <2> DEFINE p == doc.parent[n]
  <2>1. p \in 0..n - 1 /\ p \in {0} \cup D /\ p \in Nat
    BY <1>1 DEF FeedFacts, NodeFacts
  <2>2. Ancestors[n] = {p} \cup Ancestors[p] /\ Ancestors[0] = {}
    BY AncestorsAre
  <2>3. CASE m = p
    BY <1>2, <2>3
  <2>4. CASE m \in Ancestors[p]
    <3>1. p \in D /\ m \in {0} \cup D /\ m \in Nat /\ m < p
      <4>1. p \in D
        BY <2>1, <2>2, <2>4
      <4>2. Ancestors[p] \subseteq {0} \cup D /\ m < p
        BY <2>4, <4>1, AncestorsBefore
      <4>3. m \in {0} \cup D
        BY <2>4, <4>2
      <4> QED
        BY <1>1, <4>1, <4>2, <4>3
    <3>2. p \in P
      BY <1>3, <2>1
    <3>3. CASE k <= p
      <4>1. k \in m + 1..p
        BY <1>1, <2>1, <3>1, <3>3
      <4> QED
        BY <2>4, <3>1, <3>2, <4>1
    <3>4. CASE k > p
      <4>1. k \in p + 1..n
        BY <1>1, <2>1, <3>1, <3>4
      <4>2. k \in D /\ p \in Ancestors[k]
        BY <1>2, <4>1
      <4> QED
        BY <2>4, <4>2, AncestorsBefore
    <3> QED
      BY <2>1, <3>1, <3>3, <3>4
  <2> QED
    BY <2>2, <2>3, <2>4
<1>4. \A n \in 0..MaxSize : n \in P
  <2> HIDE DEF P
  <2> QED
    BY <1>1, <1>3, Descent
<1> QED
  BY <1>1, <1>4

\* What is computed from the feed stays as long as the feed does.
LEMMA SameDoc ==
    ASSUME doc' = doc
    PROVE  /\ D' = D /\ Ancestors' = Ancestors /\ Killed' = Killed /\ Built' = Built /\ Left' = Left
           /\ Elements' = Elements /\ Associations(doc)' = Associations(doc)
           /\ \A x : Kids(x)' = Kids(x)
           /\ \A i : Registered(i)' = Registered(i)
<1>1. D' = D /\ Associations(doc)' = Associations(doc)
  BY DEF D, Associations
<1>2. Ancestors' = Ancestors
  BY DEF Ancestors
<1>3. Killed' = Killed
  BY <1>1, <1>2 DEF Killed
<1>4. Built' = Built /\ Left' = Left
  BY <1>1, <1>2, <1>3 DEF Built, Left
<1>5. Elements' = Elements /\ \A x : Kids(x)' = Kids(x)
  BY <1>4 DEF Elements, Kids
<1>6. \A i : Registered(i)' = Registered(i)
  BY <1>2, <1>4 DEF Registered, Id, After
<1> QED
  BY <1>1, <1>2, <1>3, <1>4, <1>5, <1>6

\* The nodes that are left, and those with a context.
LEMMA LeftIs ==
    doc \in Feeds =>
      /\ Left \subseteq D /\ Built \subseteq Elements /\ Elements \subseteq Left
      /\ \A n \in Left : doc.parent[n] # 0 => doc.parent[n] \in Elements
      /\ \A n \in Built : doc.parent[n] # 0 => doc.parent[n] \in Built
      /\ \A n \in Built : Ancestors[n] \cap Associations(doc) = {}
      /\ \A a \in Built \cap Associations(doc) : doc.parent[a] \in Built /\ doc.kind[doc.parent[a]] = "item"
<1> SUFFICES ASSUME doc \in Feeds PROVE
      /\ Left \subseteq D /\ Built \subseteq Elements /\ Elements \subseteq Left
      /\ \A n \in Left : doc.parent[n] # 0 => doc.parent[n] \in Elements
      /\ \A n \in Built : doc.parent[n] # 0 => doc.parent[n] \in Built
      /\ \A n \in Built : Ancestors[n] \cap Associations(doc) = {}
      /\ \A a \in Built \cap Associations(doc) : doc.parent[a] \in Built /\ doc.kind[doc.parent[a]] = "item"
  OBVIOUS
<1>1. FeedFacts /\ 0 \notin D
  BY FeedIs DEF FeedFacts
<1>2. Left \subseteq D /\ Built \subseteq D /\ Built \subseteq Left /\ Elements \subseteq Left
  BY DEF Left, Built, D, Elements
<1>3. Built \subseteq Elements
  BY <1>2 DEF Elements, Built
<1>4. ASSUME NEW n \in D, doc.parent[n] # 0
      PROVE  /\ doc.parent[n] \in D /\ doc.kind[doc.parent[n]] # "text"
             /\ doc.parent[n] \in Ancestors[n] /\ Ancestors[doc.parent[n]] \subseteq Ancestors[n]
  BY <1>1, <1>4, AncestorsAre DEF FeedFacts, NodeFacts
<1>5. ASSUME NEW n \in Left, doc.parent[n] # 0 PROVE doc.parent[n] \in Elements
  <2>1. Ancestors[n] \cap Killed = {}
    BY DEF Left
  <2>2. doc.parent[n] \in D /\ doc.parent[n] \notin Killed /\ Ancestors[doc.parent[n]] \cap Killed = {}
    BY <1>2, <1>4, <1>5, <2>1
  <2> QED
    BY <1>2, <1>4, <1>5, <2>2 DEF Left, Elements, D
<1>6. ASSUME NEW n \in Built, doc.parent[n] # 0 PROVE doc.parent[n] \in Built
  <2>1. Ancestors[n] \cap (Associations(doc) \cup Killed) = {}
    BY DEF Built
  <2>2. /\ doc.parent[n] \in D /\ doc.parent[n] \notin Killed /\ doc.kind[doc.parent[n]] # "text"
        /\ Ancestors[doc.parent[n]] \cap (Associations(doc) \cup Killed) = {}
    BY <1>2, <1>4, <1>6, <2>1
  <2> QED
    BY <2>2 DEF Built, D
<1>7. \A n \in Built : Ancestors[n] \cap Associations(doc) = {}
  BY DEF Built
<1>8. ASSUME NEW a \in Built \cap Associations(doc) PROVE doc.parent[a] \in Built /\ doc.kind[doc.parent[a]] = "item"
  <2>1. doc.parent[a] \in D /\ doc.kind[doc.parent[a]] = "item"
    BY <1>1 DEF FeedFacts, LinkFacts
  <2> QED
    BY <1>1, <1>6, <2>1
<1> QED
  BY <1>2, <1>3, <1>5, <1>6, <1>7, <1>8

\* The constructors that are done last among some that have a context.
LEMMA LastOfSome ==
    ASSUME doc \in Feeds, NEW S, S \subseteq D, S # {}
    PROVE  \E m \in S : \A n \in S \ {m} : After(m, n)
<1>1. FeedFacts /\ D \subseteq 0..MaxSize /\ D \subseteq Nat /\ MaxSize \in Nat /\ S \subseteq 0..MaxSize
  BY FeedIs, Sizes DEF FeedFacts
<1>2. PICK r \in S : \A n \in S : n <= r
  BY <1>1, GreatestNat
<1> DEFINE T == {x \in S : x = r \/ x \in Ancestors[r]}
<1>3. T \subseteq Nat /\ T # {}
  BY <1>1
<1>4. PICK m \in T : \A x \in T : m <= x
  BY <1>3, LeastNat
<1>5. m \in S /\ m \in D /\ m \in Nat /\ r \in Nat /\ r \in D
  BY <1>1
<1>6. ASSUME NEW n \in S \ {m} PROVE After(m, n)
  <2>1. n \in D /\ n \in Nat /\ n <= r
    BY <1>1, <1>2
  <2>2. CASE n < m
    <3>1. n \notin T
      BY <1>4, <1>5, <2>1, <2>2
    <3>2. n \notin Ancestors[m]
      <4>1. m = r \/ Ancestors[m] \subseteq Ancestors[r]
        BY <1>5, AncestorsBefore
      <4> QED
        BY <3>1, <4>1
    <3> QED
      BY <2>2, <3>2 DEF After
  <2>3. CASE n > m
    <3>1. m # r /\ m \in Ancestors[r]
      BY <1>5, <2>1, <2>3
    <3>2. n \in m + 1..r
      BY <1>5, <2>1, <2>3
    <3> QED
      BY <1>5, <3>1, <3>2, Between DEF After
  <2> QED
    BY <1>5, <2>1, <2>2, <2>3
<1> QED
  BY <1>5, <1>6

\* What Query::find can lead to.
LEMMA RegisteredIs ==
    doc \in Feeds => \A i \in 0..MaxSize :
      /\ Registered(i) \in Built \cup {Null}
      /\ i # 0 /\ Registered(i) # Null => Registered(i) = i /\ i \in Built
<1> SUFFICES ASSUME doc \in Feeds, NEW i \in 0..MaxSize
             PROVE /\ Registered(i) \in Built \cup {Null}
                   /\ i # 0 /\ Registered(i) # Null => Registered(i) = i /\ i \in Built
  OBVIOUS
<1> DEFINE S == {n \in Built : Id(n) = i}
<1>1. S \subseteq D
  BY LeftIs
<1>2. CASE S = {}
  <2>1. Registered(i) = Null
    BY <1>2 DEF Registered
  <2> QED
    BY <2>1
<1>3. CASE S # {}
  <2>1. \E m \in S : \A n \in S \ {m} : After(m, n)
    BY <1>1, <1>3, LastOfSome
  <2>2. Registered(i) \in S
    BY <1>3, <2>1 DEF Registered
  <2> QED
    BY <2>2 DEF Id
<1> QED
  BY <1>2, <1>3

\* The text and the pointer nodes have numbers of their own.
LEMMA Numbers ==
    doc \in Feeds =>
      /\ D \subseteq 1..MaxSize /\ D \subseteq Node /\ 0 \notin D
      /\ \A a \in D : /\ Text(a) \in Node /\ Text(a) \notin D /\ Text(a) # 0 /\ Text(a) > MaxSize /\ Text(a) <= 2 * MaxSize
                      /\ Pointer(a) \in Node /\ Pointer(a) \notin D /\ Pointer(a) # 0 /\ Pointer(a) > 2 * MaxSize
      /\ \A a, b \in D : /\ Text(a) # Pointer(b) /\ Pointer(b) > a
                         /\ Text(a) = Text(b) => a = b
                         /\ Pointer(a) = Pointer(b) => a = b
                         /\ a < b => Pointer(a) < Pointer(b)
<1> SUFFICES ASSUME doc \in Feeds PROVE
      /\ D \subseteq 1..MaxSize /\ D \subseteq Node /\ 0 \notin D
      /\ \A a \in D : /\ Text(a) \in Node /\ Text(a) \notin D /\ Text(a) # 0 /\ Text(a) > MaxSize /\ Text(a) <= 2 * MaxSize
                      /\ Pointer(a) \in Node /\ Pointer(a) \notin D /\ Pointer(a) # 0 /\ Pointer(a) > 2 * MaxSize
      /\ \A a, b \in D : /\ Text(a) # Pointer(b) /\ Pointer(b) > a
                         /\ Text(a) = Text(b) => a = b
                         /\ Pointer(a) = Pointer(b) => a = b
                         /\ a < b => Pointer(a) < Pointer(b)
  OBVIOUS
<1>1. D \subseteq 1..MaxSize /\ MaxSize \in Nat
  BY FeedIs, Sizes DEF FeedFacts
<1>2. \A a \in D : a \in 1..MaxSize
  BY <1>1
<1>3. D \subseteq Node /\ 0 \notin D
  BY <1>1 DEF Node
<1>4. ASSUME NEW a \in D
      PROVE  /\ Text(a) \in Node /\ Text(a) \notin D /\ Text(a) # 0 /\ Text(a) > MaxSize /\ Text(a) <= 2 * MaxSize
             /\ Pointer(a) \in Node /\ Pointer(a) \notin D /\ Pointer(a) # 0 /\ Pointer(a) > 2 * MaxSize
  BY <1>1, <1>2 DEF Node, Text, Pointer
<1>5. ASSUME NEW a \in D, NEW b \in D
      PROVE  /\ Text(a) # Pointer(b) /\ Pointer(b) > a
             /\ Text(a) = Text(b) => a = b
             /\ Pointer(a) = Pointer(b) => a = b
             /\ a < b => Pointer(a) < Pointer(b)
  <2>1. a \in 1..MaxSize /\ b \in 1..MaxSize
    BY <1>2
  <2> QED
    BY <1>1, <2>1 DEF Text, Pointer
<1> QED
  BY <1>1, <1>3, <1>4, <1>5
-----------------------------------------------------------------------------
\* What is left of the feed, once associations are removed and the contents of
\* the resolved ones are freed.
Here == {n \in Left : n \notin removed /\ Ancestors[n] \cap (removed \cup nodesToClean2) = {}}
Inside == Here \cap Associations(doc)

\* The children of an element, in the order of their numbers: those of the feed,
\* then the pointer nodes of the associations that name it.
ListOf(x) ==
    {n \in Here : doc.parent[n] = x} \cup {Pointer(b) : b \in {b \in nodesToClean2 : doc.link[b] = x}}
Later(S, y) == {z \in S : z > y}

Linked == phase \in {"linking", "loaded", "failed"}

Progress ==
    /\ nodesToClean = {Pointer(b) : b \in nodesToClean2}
    /\ associationsToInitialize \cup nodesToClean2 \cup removed = Built \cap Associations(doc)
    /\ removed \cap nodesToClean2 = {}
    /\ \A q \in associationsToInitialize : \A b \in nodesToClean2 \cup removed : b < q
    /\ \A b \in nodesToClean2 : doc.link[b] \in Built /\ doc.kind[doc.link[b]] = "item"
    /\ nodes = [i \in 0..MaxSize |-> Registered(i)]
    /\ pointerNodes = [x \in Node |-> {Pointer(b) : b \in {b \in nodesToClean2 : doc.parent[b] = x}}]
    /\ \A b \in nodesToClean2 : Found(b) = doc.link[b]

Allocated ==
    /\ alloc.nodes = {0} \cup Here \cup {Text(n) : n \in Inside} \cup {Pointer(b) : b \in nodesToClean2}
    /\ alloc.contexts = Built \ (removed \cup nodesToClean2)
    /\ alloc.lists = (Here \cap Elements) \ nodesToClean2

ListAt(x) ==
    /\ children[x] = IF x \in Inside THEN Text(x) ELSE Least(ListOf(x))
    /\ \A y \in ListOf(x) : next[y] = Least(Later(ListOf(x), y)) /\ parent[y] = x
TextAt(x) ==
    /\ children[Text(x)] = Null /\ parent[Text(x)] = x /\ last[Text(x)] = Null
    /\ _private[Text(x)] = Null /\ properties[Text(x)] = Null
    /\ x \notin nodesToClean2 => next[Text(x)] = Least(ListOf(x))
EndAt(x) ==
    IF x \in Inside THEN x \notin nodesToClean2 => last[x] \in {Text(x)} \cup ListOf(x)
    ELSE last[x] = Greatest(ListOf(x))
OwnAt(x) ==
    /\ _private[x] = IF x \in Built THEN x ELSE Null
    /\ properties[x] = IF x \in Elements THEN x ELSE Null
SharedAt(b) ==
    /\ _private[b] = doc.link[b] /\ properties[b] = doc.link[b]
    /\ _private[Pointer(b)] = doc.parent[b] /\ properties[Pointer(b)] = doc.parent[b]

Lists ==
    /\ \A x \in {0} \cup Here : ListAt(x) /\ EndAt(x)
    /\ \A x \in Inside : TextAt(x)
    /\ next[0] = Null
    /\ \A a \in associationsToInitialize : next[Pointer(a)] = Null

Own ==
    /\ _private[0] = Null /\ properties[0] = Null
    /\ \A x \in Here \ nodesToClean2 : OwnAt(x)
    /\ \A b \in nodesToClean2 : SharedAt(b)

\* b's text node leads to the children of b's node, unless that had none when b was
\* linked; b's pointer node has the list of b's parent.
SameLists(b) ==
    LET P == doc.parent[b]
        T == doc.link[b]
    IN  /\ children[Pointer(b)] = children[P] /\ last[Pointer(b)] = last[P]
        /\ next[Text(b)] = IF Blind(b) THEN Null ELSE children[T]
        /\ last[b] \in ListOf(T) \cup {Null}
Sharing == ~exposed => \A b \in nodesToClean2 : SameLists(b)

Fresh ==
    /\ nodes = [i \in 0..MaxSize |-> Null] /\ pointerNodes = [x \in Node |-> {}]
    /\ nodesToClean2 = {} /\ nodesToClean = {} /\ removed = {}
Cleared ==
    /\ nodes = [i \in 0..MaxSize |-> Null]
    /\ alloc.nodes = {} /\ alloc.contexts = {} /\ alloc.lists = {}

LinkedInv == Progress /\ Allocated /\ Lists /\ Own /\ Sharing
LoadIInv ==
    /\ LoadTypeOK /\ ~twice
    /\ phase = "new" => Fresh
    /\ Linked => LinkedInv
    /\ phase = "closed" => Cleared
-----------------------------------------------------------------------------
\* Where the nodes are, in a state between LoadContexts and CloseSite.
HereFacts ==
    /\ Here \subseteq Left /\ Here \subseteq D /\ Inside \subseteq Here /\ Inside \subseteq D /\ nodesToClean2 \subseteq Inside
    /\ \A x \in Here : doc.parent[x] # 0 => doc.parent[x] \in Here /\ doc.parent[x] \notin nodesToClean2
    /\ Built \ removed \subseteq Here
    /\ \A b \in nodesToClean2 : /\ doc.parent[b] \in Built /\ doc.parent[b] \in Here \ Inside
                                /\ doc.link[b] \in Built /\ doc.link[b] \in Here \ Inside
ListFacts ==
    /\ \A x : ListOf(x) \in SUBSET Node
    /\ \A x : \A y \in ListOf(x) : \/ y \in Here /\ doc.parent[y] = x
                                   \/ \E b \in nodesToClean2 : y = Pointer(b) /\ doc.link[b] = x
    /\ \A x \in nodesToClean2 : ListOf(x) = {}
    /\ \A x \in Here : x \in ListOf(doc.parent[x])
    /\ \A b \in nodesToClean2 : Pointer(b) \in ListOf(doc.link[b])
    /\ \A x, z : \A y \in ListOf(x) : y \in ListOf(z) => x = z

\* What Progress says of the nodes that are left.
LEMMA HereIs == doc \in Feeds /\ Progress => HereFacts
<1> SUFFICES ASSUME doc \in Feeds, Progress PROVE HereFacts
  OBVIOUS
<1> DEFINE A == Associations(doc)
<1>1. Here \subseteq Left /\ Here \subseteq D /\ Inside \subseteq Here /\ Inside \subseteq D
  BY LeftIs DEF Here, Inside
<1>2. removed \subseteq Built \cap A /\ nodesToClean2 \subseteq Built \cap A /\ removed \cap nodesToClean2 = {}
  BY DEF Progress
<1>3. Built \ removed \subseteq Here
  <2>1. Built \subseteq Left /\ \A n \in Built : Ancestors[n] \cap A = {}
    BY LeftIs
  <2> HIDE DEF A
  <2> QED
    BY <2>1, <1>2 DEF Here
<1>4. nodesToClean2 \subseteq Inside
  BY <1>2, <1>3 DEF Inside
<1>5. ASSUME NEW x \in Here, doc.parent[x] # 0 PROVE doc.parent[x] \in Here /\ doc.parent[x] \notin nodesToClean2
  <2>1. Ancestors[x] = {doc.parent[x]} \cup Ancestors[doc.parent[x]]
    BY <1>1, AncestorsAre
  <2>2. doc.parent[x] \in Left
    BY <1>1, <1>5, LeftIs
  <2> QED
    BY <2>1, <2>2 DEF Here
<1>6. ASSUME NEW b \in nodesToClean2
      PROVE  /\ doc.parent[b] \in Built /\ doc.parent[b] \in Here \ Inside
             /\ doc.link[b] \in Built /\ doc.link[b] \in Here \ Inside
  <2>1. doc.parent[b] \in Built /\ doc.kind[doc.parent[b]] = "item"
    BY <1>2, LeftIs
  <2>2. doc.link[b] \in Built /\ doc.kind[doc.link[b]] = "item"
    BY DEF Progress
  <2>3. \A x : doc.kind[x] = "item" => x \notin A
    BY DEF Associations
  <2> QED
    BY <1>2, <1>3, <2>1, <2>2, <2>3 DEF Inside
<1> QED
  BY <1>1, <1>3, <1>4, <1>5, <1>6 DEF HereFacts

\* The lists of two elements have no node in common.
LEMMA ListIs == doc \in Feeds /\ Progress => ListFacts
<1> SUFFICES ASSUME doc \in Feeds, Progress PROVE ListFacts
  OBVIOUS
<1>1. HereFacts
  BY HereIs
<1>2. D \subseteq Node /\ \A a \in D : Pointer(a) \in Node /\ Pointer(a) \notin D
  BY Numbers
<1>3. \A a, b \in D : Pointer(a) = Pointer(b) => a = b
  BY Numbers
<1>4. Here \subseteq D /\ nodesToClean2 \subseteq D
  BY <1>1 DEF HereFacts
<1>5. ASSUME NEW x, NEW y
      PROVE  y \in ListOf(x) <=> \/ y \in Here /\ doc.parent[y] = x
                                 \/ \E b \in nodesToClean2 : y = Pointer(b) /\ doc.link[b] = x
  BY DEF ListOf
<1>6. \A x : ListOf(x) \in SUBSET Node
  BY <1>2, <1>4, <1>5
<1>7. ASSUME NEW x \in nodesToClean2 PROVE ListOf(x) = {}
  <2>1. ASSUME NEW y \in ListOf(x) PROVE FALSE
    <3>1. x \in Inside /\ x # 0
      BY <1>1, <1>4, Numbers DEF HereFacts
    <3>2. CASE y \in Here /\ doc.parent[y] = x
      BY <1>1, <3>1, <3>2 DEF HereFacts
    <3>3. ASSUME NEW b \in nodesToClean2, doc.link[b] = x PROVE FALSE
      BY <1>1, <3>1, <3>3 DEF HereFacts
    <3> QED
      BY <1>5, <2>1, <3>2, <3>3
  <2> QED
    BY <2>1
<1>8. ASSUME NEW x, NEW z, NEW y \in ListOf(x), y \in ListOf(z) PROVE x = z
  <2>1. CASE y \in Here
    BY <1>2, <1>4, <1>5, <1>8, <2>1
  <2>2. CASE y \notin Here
    BY <1>3, <1>4, <1>5, <1>8, <2>2
  <2> QED
    BY <2>1, <2>2
<1> QED
  BY <1>5, <1>6, <1>7, <1>8 DEF ListFacts

\* A site that is not loaded satisfies the invariant.
LEMMA LoadInitIInv == LoadInit => LoadIInv
<1> SUFFICES ASSUME LoadInit PROVE LoadIInv
  OBVIOUS
<1>1. [x \in Node |-> Null] \in [Node -> NodeOrNull]
  BY DEF NodeOrNull
<1>2. LoadTypeOK
  BY <1>1 DEF LoadInit, LoadTypeOK, NodeOrNull
<1>3. ~twice /\ phase = "new" /\ Fresh
  BY DEF LoadInit, Fresh
<1> QED
  BY <1>2, <1>3 DEF LoadIInv, Linked

\* The ends of a list are nodes, or Null.
LEMMA LeastType == \A L \in SUBSET Node : Least(L) \in NodeOrNull /\ Greatest(L) \in NodeOrNull
BY LeastIs, GreatestIs DEF NodeOrNull

\* The contexts constructor: the parsed document is linked as Lists and Own say.
LEMMA LoadContextsIInv == LoadIInv /\ LoadContexts => LoadIInv'
<1> SUFFICES ASSUME LoadIInv, LoadContexts PROVE LoadIInv'
  OBVIOUS
<1> DEFINE A == Associations(doc)
<1>0. /\ doc' = doc /\ phase = "new" /\ phase' = "linking" /\ twice' = twice /\ removed' = {} /\ nodesToClean2' = {} /\ nodesToClean' = {}
      /\ exposed' = exposed /\ pointerNodes' = [x \in Node |-> {}] /\ doc \in Feeds /\ ~twice /\ exposed \in BOOLEAN /\ twice \in BOOLEAN
  BY DEF LoadContexts, LoadIInv, Fresh, LoadTypeOK
<1>1. /\ D' = D /\ Ancestors' = Ancestors /\ Built' = Built /\ Left' = Left
      /\ Elements' = Elements /\ A' = A
      /\ \A i : Registered(i)' = Registered(i)
  BY <1>0, SameDoc
<1>2. Left \subseteq D /\ Built \subseteq Elements /\ Elements \subseteq Left /\ Built \subseteq D /\ D \subseteq Node /\ D \subseteq 1..MaxSize /\ 0 \notin D
  BY <1>0, LeftIs, Numbers
<1>3. Here' = Left /\ Inside' = Left \cap A
  BY <1>0, <1>1 DEF Here, Inside
<1>4. \A x : ListOf(x)' = Kids(x)
  BY <1>0, <1>3 DEF ListOf, Kids
<1>5. \A x : Kids(x) \in SUBSET Node
  BY <1>2 DEF Kids
<1>6. \A x \in Node : Text(x) \in Texts <=> x \in Left \cap A
  <2> SUFFICES ASSUME NEW x \in Node, NEW a \in Left \cap A, Text(x) = Text(a) PROVE x = a
    BY DEF Texts
  <2>1. x \in Int /\ a \in Int /\ MaxSize \in Int
    BY <1>2, Sizes
  <2> QED
    BY <2>1 DEF Text
<1>7. \A a \in Left \cap A : Text(a) \in Texts /\ Text(a) - MaxSize = a /\ Text(a) \in Node /\ Text(a) \notin D /\ Text(a) # 0
                             /\ (\A b \in D : Text(a) = Text(b) => a = b) /\ Text(Text(a)) \notin Texts
  <2> SUFFICES ASSUME NEW a \in Left \cap A
               PROVE  Text(a) \in Texts /\ Text(a) - MaxSize = a /\ Text(a) \in Node /\ Text(a) \notin D /\ Text(a) # 0
                      /\ (\A b \in D : Text(a) = Text(b) => a = b) /\ Text(Text(a)) \notin Texts
    OBVIOUS
  <2>1. a \in D /\ a \in Int /\ MaxSize \in Int
    BY <1>2, Sizes
  <2>2. Text(a) \in Node /\ Text(a) \notin D /\ Text(a) # 0 /\ \A b \in D : Text(a) = Text(b) => a = b
    BY <1>0, <2>1, Numbers
  <2>3. Text(a) \in Texts
    BY DEF Texts
  <2>4. Text(a) - MaxSize = a
    BY <2>1 DEF Text
  <2>5. Text(Text(a)) \notin Texts
    BY <1>2, <1>6, <2>2
  <2> QED
    BY <2>2, <2>3, <2>4, <2>5
<1>8. \A x \in Texts : x \in Node /\ x - MaxSize \in Left \cap A /\ x \notin D /\ x # 0
  <2> SUFFICES ASSUME NEW a \in Left \cap A
               PROVE  Text(a) \in Node /\ Text(a) - MaxSize \in Left \cap A /\ Text(a) \notin D /\ Text(a) # 0
    BY DEF Texts
  <2> QED
    BY <1>7
<1>9. /\ children' = [x \in Node |-> IF Text(x) \in Texts THEN Text(x) ELSE Least(Kids(x))]
      /\ next' = [x \in Node |-> IF x \in Texts THEN Least(Kids(x - MaxSize))
                                 ELSE IF x \in Left THEN Least(Siblings(x)) ELSE Null]
      /\ last' = [x \in Node |-> IF Kids(x) # {} THEN Max(Kids(x))
                                 ELSE IF Text(x) \in Texts THEN Text(x) ELSE Null]
      /\ parent' = [x \in Node |-> IF x \in Left THEN doc.parent[x] ELSE IF x \in Texts THEN x - MaxSize ELSE Null]
      /\ properties' = [x \in Node |-> IF x \in Elements THEN x ELSE Null]
      /\ _private' = [x \in Node |-> IF x \in Built THEN x ELSE Null]
      /\ alloc' = [nodes |-> {0} \cup Left \cup Texts, contexts |-> Built, lists |-> Elements]
      /\ nodes' = [i \in 0..MaxSize |-> Registered(i)]
      /\ associationsToInitialize' = Built \cap A
  BY DEF LoadContexts
<1>10. \A x : x \in Left => Siblings(x) = Later(Kids(doc.parent[x]), x) /\ x \in Kids(doc.parent[x]) /\ doc.parent[x] \in {0} \cup Left
  BY <1>0, LeftIs DEF Siblings, Later, Kids
<1>11. LoadTypeOK'
  <2>1. children' \in [Node -> NodeOrNull]
    BY <1>9, <1>5, <1>6, <1>7, LeastType DEF NodeOrNull
  <2>2. next' \in [Node -> NodeOrNull]
    <3>1. \A x \in Left : Siblings(x) \in SUBSET Node
      BY <1>5 DEF Siblings
    <3> QED
      BY <1>9, <1>5, <3>1, LeastType DEF NodeOrNull
  <2>3. last' \in [Node -> NodeOrNull]
    <3>1. ASSUME NEW x \in Node, Kids(x) # {} PROVE Max(Kids(x)) \in NodeOrNull
      <4>1. Max(Kids(x)) = Greatest(Kids(x))
        BY <3>1 DEF Greatest
      <4> QED
        BY <1>5, <4>1, LeastType
    <3> QED
      BY <1>9, <1>6, <1>7, <3>1 DEF NodeOrNull
  <2>4. parent' \in [Node -> NodeOrNull]
    <3>1. \A x \in Left : doc.parent[x] \in Node
      BY <1>2, <1>10, Sizes
    <3>2. \A x \in Texts : x - MaxSize \in Node
      BY <1>2, <1>8
    <3> QED
      BY <1>9, <3>1, <3>2 DEF NodeOrNull
  <2>5. properties' \in [Node -> NodeOrNull] /\ _private' \in [Node -> NodeOrNull]
    BY <1>9 DEF NodeOrNull
  <2>6. nodes' \in [0..MaxSize -> NodeOrNull]
    <3>1. \A i \in 0..MaxSize : Registered(i) \in NodeOrNull
      BY <1>0, <1>2, RegisteredIs DEF NodeOrNull
    <3> QED
      BY <1>9, <3>1
  <2>7. {alloc.nodes, alloc.contexts, alloc.lists, nodesToClean, nodesToClean2, removed}' \subseteq SUBSET Node
    <3>1. {0} \cup Left \cup Texts \subseteq Node
      BY <1>2, <1>8, Sizes
    <3>2. alloc'.nodes \in SUBSET Node /\ alloc'.contexts \in SUBSET Node /\ alloc'.lists \in SUBSET Node
      BY <1>2, <1>9, <3>1
    <3> QED
      BY <1>0, <3>2
  <2>8. associationsToInitialize' \in SUBSET Node /\ pointerNodes' \in [Node -> SUBSET Node] /\ {exposed, twice}' \subseteq BOOLEAN
    <3>1. associationsToInitialize' \in SUBSET Node /\ pointerNodes' \in [Node -> SUBSET Node]
      BY <1>0, <1>2, <1>9
    <3>2. {exposed, twice}' \subseteq BOOLEAN
      BY <1>0
    <3> QED
      BY <3>1, <3>2
  <2>9. (\A f \in {children, next, last, parent, properties, _private} : f \in [Node -> NodeOrNull])'
    BY <2>1, <2>2, <2>3, <2>4, <2>5
  <2> QED
    BY <1>0, <2>6, <2>7, <2>8, <2>9 DEF LoadTypeOK
<1>12. Progress'
  <2>1. nodes' = [i \in 0..MaxSize |-> Registered(i)']
    BY <1>1, <1>9
  <2> QED
    BY <1>0, <1>1, <1>9, <2>1 DEF Progress
<1>13. Allocated'
  <2>1. Texts = {Text(n) : n \in Left \cap A}
    BY DEF Texts
  <2> QED
    BY <1>0, <1>1, <1>2, <1>3, <1>9, <2>1 DEF Allocated, Text
<1>14. ASSUME NEW x \in {0} \cup Left PROVE ListAt(x)'
  <2>1. x \in Node
    BY <1>2, Sizes
  <2>2. children'[x] = IF x \in Inside' THEN Text(x) ELSE Least(ListOf(x)')
    BY <1>3, <1>4, <1>6, <1>9, <2>1
  <2>3. ASSUME NEW y \in Kids(x) PROVE next'[y] = Least(Later(Kids(x), y)) /\ parent'[y] = x
    <3>1. y \in Left /\ doc.parent[y] = x /\ y \in Node /\ y \notin Texts
      BY <1>2, <1>8 DEF Kids
    <3> QED
      BY <1>9, <1>10, <3>1
  <2> QED
    BY <1>4, <2>2, <2>3 DEF ListAt, Text, Least, Null, Later
<1>15. ASSUME NEW x \in {0} \cup Left PROVE EndAt(x)'
  <2>1. x \in Node
    BY <1>2, Sizes
  <2>2. CASE x \in Left \cap A
    <3>1. last'[x] = IF Kids(x) # {} THEN Max(Kids(x)) ELSE Text(x)
      BY <1>6, <1>9, <2>1, <2>2
    <3>2. Kids(x) # {} => Max(Kids(x)) \in Kids(x)
      BY <1>5, GreatestIs DEF Greatest
    <3>3. last'[x] \in {Text(x)} \cup ListOf(x)'
      BY <1>4, <3>1, <3>2
    <3> QED
      BY <1>3, <2>2, <3>3 DEF EndAt, Text
  <2>3. CASE x \notin Left \cap A
    <3>1. last'[x] = Greatest(Kids(x))
      BY <1>6, <1>9, <2>1, <2>3 DEF Greatest
    <3> QED
      BY <1>3, <1>4, <2>3, <3>1 DEF EndAt, Greatest, Null
  <2> QED
    BY <2>2, <2>3
<1>16. ASSUME NEW x \in Left \cap A PROVE TextAt(x)'
  <2>1. /\ Text(x) \in Texts /\ Text(x) - MaxSize = x /\ Text(x) \in Node /\ Text(x) \notin Left /\ Text(x) \notin Elements /\ Text(x) \notin Built
        /\ Text(Text(x)) \notin Texts
    BY <1>2, <1>7
  <2>2. Kids(Text(x)) = {}
    BY <1>2, <1>10, <2>1, <1>7 DEF Kids
  <2>3. children'[Text(x)] = Null /\ parent'[Text(x)] = x /\ last'[Text(x)] = Null
    BY <1>9, <2>1, <2>2, LeastIs
  <2>4. _private'[Text(x)] = Null /\ properties'[Text(x)] = Null /\ next'[Text(x)] = Least(ListOf(x)')
    BY <1>4, <1>9, <2>1
  <2> QED
    BY <2>3, <2>4 DEF TextAt, Text, Null, Least
<1>17. next'[0] = Null /\ _private'[0] = Null /\ properties'[0] = Null
  BY <1>2, <1>8, <1>9, Sizes
<1>18. \A x \in Here' \ nodesToClean2' : OwnAt(x)'
  BY <1>0, <1>1, <1>2, <1>3, <1>9 DEF OwnAt, Null
<1>20. \A a \in Built \cap A : next'[Pointer(a)] = Null
  <2> SUFFICES ASSUME NEW a \in Built \cap A PROVE next'[Pointer(a)] = Null
    OBVIOUS
  <2>1. a \in D /\ Pointer(a) \in Node /\ Pointer(a) \notin D
    BY <1>0, <1>2, Numbers
  <2>2. Pointer(a) \notin Texts
    BY <1>0, <1>2, <2>1, Numbers DEF Texts
  <2> QED
    BY <1>2, <1>9, <2>1, <2>2
<1>19. Lists' /\ Own' /\ Sharing'
  <2>1. (\A a \in associationsToInitialize : next[Pointer(a)] = Null)'
    BY <1>9, <1>20 DEF Pointer, Null
  <2> QED
    BY <2>1, <1>0, <1>3, <1>14, <1>15, <1>16, <1>17, <1>18 DEF Lists, Own, Sharing, Null
<1> QED
  BY <1>0, <1>11, <1>12, <1>13, <1>19 DEF LoadIInv, LinkedInv, Linked

\* Whoever has the first of a list and with each member the next one, has all.
LEMMA ListCover ==
    ASSUME NEW L \in SUBSET Node, NEW Z, L # {} => Least(L) \in Z,
           \A y \in L : y \in Z /\ Later(L, y) # {} => Least(Later(L, y)) \in Z
    PROVE  L \subseteq Z
<1> SUFFICES ASSUME L \ Z # {} PROVE FALSE
  OBVIOUS
<1>0. L \subseteq Nat /\ Node \subseteq Nat
  BY Sizes
<1> DEFINE m == Least(L \ Z)
           B == {z \in L : z < m}
<1>1. m \in L \ Z /\ \A y \in L \ Z : m <= y
  BY LeastIs
<1>2. Least(L) \in L /\ Least(L) \in Z /\ Least(L) <= m
  BY <1>1, LeastIs
<1> HIDE DEF m
<1>3. B # {} /\ B \in SUBSET Node
  <2>1. Least(L) # m /\ Least(L) \in Nat /\ m \in Nat
    BY <1>0, <1>1, <1>2
  <2>2. Least(L) < m
    BY <1>2, <2>1
  <2> QED
    BY <1>2, <2>2
<1> DEFINE y == Greatest(B)
<1>4. y \in B /\ \A z \in B : y >= z
  BY <1>3, GreatestIs
<1> HIDE DEF y
<1>5. y \in L /\ y \in Z /\ y < m
  BY <1>0, <1>1, <1>4
<1>6. m \in Later(L, y) /\ Later(L, y) \in SUBSET Node
  BY <1>0, <1>1, <1>5 DEF Later
<1>7. \A z \in Later(L, y) : m <= z
  BY <1>0, <1>1, <1>4 DEF Later
<1>8. Least(Later(L, y)) = m
  BY <1>6, <1>7, LeastIs
<1> QED
  BY <1>1, <1>5, <1>6, <1>8

\* The nodes inside an association that is not resolved yet.
Held(a) == {n \in Here : a \in Ancestors[n]}
Below(a) == Held(a) \cup {Text(n) : n \in Held(a) \cap Inside}

BelowFacts(a) ==
    /\ a \in Inside /\ a \in Built /\ a \notin nodesToClean2 /\ a \notin removed
    /\ Held(a) \subseteq Here /\ Held(a) \cap nodesToClean2 = {} /\ a \notin Held(a)
    /\ Held(a) \cap Built = {}
    /\ \A n \in {a} \cup Held(a) : ListOf(n) \subseteq Held(a)
    /\ \A n \in Held(a) : doc.parent[n] \in {a} \cup Held(a) /\ doc.parent[n] < n

\* What is inside an association that waits is linked to nothing outside of it.
LEMMA BelowIs == ASSUME doc \in Feeds, Progress, NEW a \in associationsToInitialize PROVE BelowFacts(a)
<1>1. HereFacts /\ ListFacts
  BY HereIs, ListIs
<1>2. /\ a \in Built /\ a \in Associations(doc) /\ a \notin nodesToClean2 /\ a \notin removed
      /\ nodesToClean2 \subseteq Built
  <2>1. a \in nodesToClean2 \cup removed => a < a
    BY DEF Progress
  <2>2. a \in Built /\ a \in Associations(doc) /\ nodesToClean2 \subseteq Built
    BY DEF Progress
  <2>3. a \in Int
    BY <2>2, LeftIs, Numbers, Sizes
  <2> QED
    BY <2>1, <2>2, <2>3
<1>3. a \in Inside /\ a \in D
  BY <1>1, <1>2 DEF HereFacts, Inside
<1>4. \A n \in Built : a \notin Ancestors[n]
  BY <1>2, LeftIs
<1>5. Held(a) \subseteq Here /\ Held(a) \cap nodesToClean2 = {} /\ a \notin Held(a) /\ Held(a) \cap Built = {}
  BY <1>2, <1>4 DEF Held
<1>6. ASSUME NEW n \in {a} \cup Held(a), NEW y \in ListOf(n) PROVE y \in Held(a)
  <2>1. CASE y \in Here /\ doc.parent[y] = n
    <3>1. Ancestors[y] = {n} \cup Ancestors[n]
      BY <1>1, <2>1, AncestorsAre DEF HereFacts
    <3> QED
      BY <2>1, <3>1 DEF Held
  <2>2. ASSUME NEW b \in nodesToClean2, doc.link[b] = n PROVE FALSE
    <3>1. n \in Built /\ n \notin Inside
      BY <1>1, <2>2 DEF HereFacts
    <3> QED
      BY <1>3, <1>4, <3>1 DEF Held
  <2> QED
    BY <1>1, <2>1, <2>2 DEF ListFacts
<1>7. ASSUME NEW n \in Held(a) PROVE doc.parent[n] \in {a} \cup Held(a) /\ doc.parent[n] < n
  <2>1. n \in Here /\ n \in D /\ a \in Ancestors[n]
    BY <1>1 DEF HereFacts, Held
  <2>2. Ancestors[n] = {doc.parent[n]} \cup Ancestors[doc.parent[n]] /\ Ancestors[0] = {}
    BY <2>1, AncestorsAre
  <2>3. doc.parent[n] < n
    BY <2>1, FeedIs DEF FeedFacts, NodeFacts
  <2>4. doc.parent[n] = a \/ doc.parent[n] # 0
    BY <2>1, <2>2
  <2> QED
    BY <1>1, <2>1, <2>2, <2>3, <2>4 DEF HereFacts, Held
<1> QED
  BY <1>2, <1>3, <1>5, <1>6, <1>7 DEF BelowFacts

\* The pointers along a list.
LEMMA FirstOrNull ==
    ASSUME doc \in Feeds, Progress, Lists
    PROVE  /\ \A x : ListOf(x) \in SUBSET Node
           /\ \A x : Least(ListOf(x)) \in ListOf(x) \cup {Null}
           /\ \A x \in {0} \cup Here : \A y \in ListOf(x) :
                 /\ next[y] = Least(Later(ListOf(x), y)) /\ parent[y] = x
                 /\ next[y] \in ListOf(x) \cup {Null}
                 /\ Later(ListOf(x), y) # {} => next[y] \in Later(ListOf(x), y)
<1>1. \A x : ListOf(x) \in SUBSET Node
  BY ListIs DEF ListFacts
<1>2. \A x : Least(ListOf(x)) \in ListOf(x) \cup {Null}
  BY <1>1, LeastIs
<1>3. ASSUME NEW x \in {0} \cup Here, NEW y \in ListOf(x)
      PROVE  /\ next[y] = Least(Later(ListOf(x), y)) /\ parent[y] = x
             /\ next[y] \in ListOf(x) \cup {Null}
             /\ Later(ListOf(x), y) # {} => next[y] \in Later(ListOf(x), y)
  <2>1. next[y] = Least(Later(ListOf(x), y)) /\ parent[y] = x
    BY DEF Lists, ListAt
  <2>2. Later(ListOf(x), y) \subseteq ListOf(x) /\ Later(ListOf(x), y) \in SUBSET Node
    BY <1>1 DEF Later
  <2> QED
    BY <2>1, <2>2, LeastIs
<1> QED
  BY <1>1, <1>2, <1>3

\* xmlFreeNodeList frees just what is inside the association.
LEMMA BelowReached ==
    ASSUME doc \in Feeds, LoadTypeOK, Progress, Lists, NEW a \in associationsToInitialize
    PROVE  /\ Reach({next[Text(a)]}, {children, next}) = Below(a)
           /\ Tree(a) = {a, Text(a)} \cup Below(a)
<1> DEFINE fs == {children, next}
           S == {next[Text(a)]}
           R == Reach(S, fs)
           T == Reach({children[a]}, fs)
           V == {Text(a)} \cup Below(a)
<1>1. BelowFacts(a) /\ HereFacts
  BY BelowIs, HereIs
<1>2. a \in D /\ a \in Node /\ Text(a) \in Node /\ Below(a) \subseteq Node /\ Null \notin Node /\ Held(a) \subseteq D
  <2>1. a \in D /\ Held(a) \subseteq D
    BY <1>1 DEF BelowFacts, HereFacts
  <2>2. \A x \in D : x \in Node /\ Text(x) \in Node
    BY Numbers
  <2> QED
    BY <2>1, <2>2, Sizes DEF Below
<1>3. children \in [Node -> NodeOrNull] /\ next \in [Node -> NodeOrNull] /\ Pointers(fs)
  BY DEF LoadTypeOK, Pointers
<1>4. S \subseteq NodeOrNull /\ {children[a]} \subseteq NodeOrNull
  BY <1>2, <1>3
<1>5. children[a] = Text(a) /\ next[Text(a)] = Least(ListOf(a))
  BY <1>1 DEF BelowFacts, Lists, ListAt, TextAt, Inside
<1>6. ASSUME NEW n \in Held(a)
      PROVE  /\ n \in Here /\ ListOf(n) \subseteq Held(a)
             /\ n \in Inside => /\ children[n] = Text(n) /\ children[Text(n)] = Null
                                /\ next[Text(n)] = Least(ListOf(n)) /\ Text(n) \in Below(a)
             /\ n \notin Inside => children[n] = Least(ListOf(n))
             /\ Least(ListOf(n)) \in Held(a) \cup {Null}
             /\ next[n] \in Held(a) \cup {Null}
  <2>1. n \in Here /\ ListOf(n) \subseteq Held(a) /\ n \notin nodesToClean2
    BY <1>1 DEF BelowFacts
  <2>2. n \in Inside => /\ children[n] = Text(n) /\ children[Text(n)] = Null
                        /\ next[Text(n)] = Least(ListOf(n)) /\ Text(n) \in Below(a)
    BY <2>1 DEF Lists, ListAt, TextAt, Below
  <2>3. n \notin Inside => children[n] = Least(ListOf(n))
    BY <2>1 DEF Lists, ListAt
  <2>4. Least(ListOf(n)) \in Held(a) \cup {Null}
    BY <2>1, FirstOrNull
  <2>5. next[n] \in Held(a) \cup {Null}
    <3>1. n \in ListOf(doc.parent[n])
      BY <2>1, ListIs DEF ListFacts
    <3>2. doc.parent[n] \in {a} \cup Held(a) /\ ListOf(doc.parent[n]) \subseteq Held(a) /\ doc.parent[n] \in Here
      BY <1>1 DEF BelowFacts, HereFacts
    <3> QED
      BY <3>1, <3>2, FirstOrNull
  <2> QED
    BY <2>1, <2>2, <2>3, <2>4, <2>5
<1>7. Closed(Below(a), fs)
  <2> SUFFICES ASSUME NEW x \in Below(a) PROVE children[x] \in Below(a) \cup {Null} /\ next[x] \in Below(a) \cup {Null}
    BY DEF Closed
  <2>1. CASE x \in Held(a)
    BY <1>6, <2>1 DEF Below
  <2>2. ASSUME NEW n \in Held(a) \cap Inside, x = Text(n) PROVE children[x] \in Below(a) \cup {Null} /\ next[x] \in Below(a) \cup {Null}
    BY <1>6, <2>2 DEF Below
  <2> QED
    BY <2>1, <2>2 DEF Below
<1>8. Least(ListOf(a)) \in Held(a) \cup {Null} /\ ListOf(a) \subseteq Held(a)
  BY <1>1, FirstOrNull DEF BelowFacts
<1>9. R \subseteq Below(a)
  <2>1. S \ {Null} \subseteq Below(a)
    BY <1>5, <1>8 DEF Below
  <2> HIDE DEF S, fs
  <2> QED
    BY <1>7, <2>1, ReachLeast
<1>10. T \subseteq V
  <2>1. Closed(V, fs)
    <3>1. children[Text(a)] = Null
      BY <1>1 DEF BelowFacts, Lists, TextAt
    <3>2. next[Text(a)] \in V \cup {Null}
      BY <1>5, <1>8 DEF Below
    <3>3. \A x \in Below(a) : \A f \in fs : f[x] # Null => f[x] \in Below(a)
      BY <1>7 DEF Closed
    <3> SUFFICES ASSUME NEW x \in V, NEW f \in fs, f[x] # Null PROVE f[x] \in V
      BY DEF Closed
    <3>4. CASE x = Text(a)
      BY <3>1, <3>2, <3>4
    <3>5. CASE x \in Below(a)
      BY <3>3, <3>5
    <3> QED
      BY <3>4, <3>5
  <2>2. {children[a]} \ {Null} \subseteq V
    BY <1>5
  <2> HIDE DEF fs, V
  <2> QED
    BY <2>1, <2>2, ReachLeast
<1>11. ASSUME NEW Z, Closed(Z, fs), S \ {Null} \subseteq Z PROVE Below(a) \subseteq Z
  <2> DEFINE P == {n \in Nat : n \in Held(a) => n \in Z}
  <2>1. ASSUME NEW x \in Z PROVE (children[x] # Null => children[x] \in Z) /\ (next[x] # Null => next[x] \in Z)
    BY <1>11 DEF Closed
  <2>2. ASSUME NEW y \in 0..MaxSize, \A m \in 0..y - 1 : m \in P PROVE y \in P
    <3> SUFFICES ASSUME y \in Held(a) PROVE y \in Z
      OBVIOUS
    <3> DEFINE n == doc.parent[y]
    <3>1. n \in {a} \cup Held(a) /\ n < y /\ n \in Here /\ y \in ListOf(n) /\ y \in Here
      <4>1. n \in {a} \cup Held(a) /\ n < y /\ n \in Here /\ y \in Here
        BY <1>1 DEF BelowFacts, HereFacts
      <4> QED
        BY <4>1, ListIs DEF ListFacts
    <3>2. n \in Int /\ n >= 0 /\ y \in Int
      <4>1. n \in D /\ y \in D /\ D \subseteq 1..MaxSize
        BY <1>1, <3>1, Numbers DEF HereFacts
      <4> HIDE DEF n, P
      <4>2. n \in 1..MaxSize /\ y \in 1..MaxSize /\ MaxSize \in Nat
        BY <4>1, Sizes
      <4> QED
        BY <4>2
    <3>3. n \in Held(a) => n \in Z
      <4>1. n \in P
        BY <2>2, <3>1, <3>2
      <4> QED
        BY <4>1
    <3> HIDE DEF n
    <3>4. Least(ListOf(n)) # Null => Least(ListOf(n)) \in Z
      <4>1. CASE n = a
        BY <1>5, <1>11, <4>1
      <4>2. CASE n \in Held(a) /\ n \in Inside
        <5>1. Text(n) \in Z
          <6>1. Text(n) \in Node
            BY <1>2, <4>2, Numbers
          <6> QED
            BY <1>2, <1>6, <2>1, <3>3, <4>2, <6>1
        <5> QED
          BY <1>6, <2>1, <4>2, <5>1
      <4>3. CASE n \in Held(a) /\ n \notin Inside
        BY <1>6, <2>1, <3>3, <4>3
      <4> QED
        BY <3>1, <4>1, <4>2, <4>3
    <3>5. ListOf(n) \subseteq Z
      <4>1. ListOf(n) \in SUBSET Node
        BY FirstOrNull
      <4>2. ListOf(n) # {} => Least(ListOf(n)) \in Z
        <5>1. ListOf(n) # {} => Least(ListOf(n)) \in Node
          BY <4>1, LeastIs
        <5> QED
          BY <3>4, <5>1, <1>2
      <4>3. ASSUME NEW x \in ListOf(n), x \in Z, Later(ListOf(n), x) # {} PROVE Least(Later(ListOf(n), x)) \in Z
        <5>1. next[x] = Least(Later(ListOf(n), x)) /\ next[x] \in Later(ListOf(n), x)
          BY <3>1, <4>3, FirstOrNull
        <5>2. next[x] \in Node
          BY <4>1, <5>1 DEF Later
        <5> QED
          BY <1>2, <2>1, <4>3, <5>1, <5>2
      <4> QED
        BY <4>1, <4>2, <4>3, ListCover
    <3> QED
      BY <3>1, <3>5
  <2>3. \A y \in 0..MaxSize : y \in P
    <3> HIDE DEF P
    <3> QED
      BY <2>2, Descent, Sizes
  <2>4. Held(a) \subseteq 0..MaxSize
    BY <1>2, Numbers
  <2>5. Held(a) \subseteq Z
    BY <2>3, <2>4
  <2>6. ASSUME NEW n \in Held(a) \cap Inside PROVE Text(n) \in Z
    <3>1. Text(n) \in Node
      BY <1>2, Numbers
    <3> QED
      BY <1>2, <1>6, <2>1, <2>5, <3>1
  <2> QED
    BY <2>5, <2>6 DEF Below
<1>12. Below(a) \subseteq R
  <2>1. Closed(R, fs) /\ S \ {Null} \subseteq R
    <3> HIDE DEF S, fs
    <3> QED
      BY <1>3, <1>4, ReachClosed
  <2> HIDE DEF S, fs, R
  <2> QED
    BY <1>11, <2>1
<1>13. V \subseteq T
  <2>1. Closed(T, fs) /\ {children[a]} \ {Null} \subseteq T
    <3> HIDE DEF fs
    <3> QED
      BY <1>3, <1>4, ReachClosed
  <2>2. Text(a) \in T
    BY <1>2, <1>5, <2>1
  <2>3. S \ {Null} \subseteq T
    <3> HIDE DEF T
    <3> QED
      BY <2>1, <2>2 DEF Closed
  <2>4. Below(a) \subseteq T
    <3> HIDE DEF S, fs, T
    <3> QED
      BY <1>11, <2>1, <2>3
  <2> QED
    BY <2>2, <2>4
<1>14. Tree(a) = {a} \cup T
  BY DEF Tree
<1> QED
  BY <1>9, <1>10, <1>12, <1>13, <1>14

\* What is known of the association whose turn it is.
TurnFacts(a) ==
    /\ a \in Built /\ a \in Inside /\ a \in D /\ a \notin nodesToClean2 /\ a \notin removed
    /\ parent[a] = doc.parent[a] /\ parent[a] \in Built /\ parent[a] \in Here \ Inside
    /\ a \in ListOf(parent[a])
    /\ _private[parent[a]] = parent[a] /\ properties[parent[a]] = parent[a]
    /\ _private[a] = a /\ properties[a] = a /\ a \in alloc.lists
    /\ children[parent[a]] = Least(ListOf(parent[a])) /\ children[parent[a]] # Null
    /\ children[a] = Text(a)
    /\ Below(a) \subseteq alloc.nodes /\ {a, Text(a)} \subseteq alloc.nodes
    /\ {properties[x] : x \in Below(a)} \ {Null} = Held(a) \cap Elements
    /\ Held(a) \cap Elements \subseteq alloc.lists

\* The association whose turn it is, its parent and what is inside it are unshared.
LEMMA TurnIs ==
    ASSUME doc \in Feeds, LinkedInv, NEW a \in associationsToInitialize
    PROVE  TurnFacts(a)
<1> USE DEF LinkedInv
<1>1. BelowFacts(a) /\ HereFacts /\ ListFacts
  BY BelowIs, HereIs, ListIs
<1>2. a \in Built /\ a \in Inside /\ a \in D /\ a \notin nodesToClean2 /\ a \notin removed /\ a \in Here /\ a \in Associations(doc)
  BY <1>1 DEF BelowFacts, HereFacts, Inside
<1>3. a \in ListOf(doc.parent[a])
  BY <1>1, <1>2 DEF ListFacts
<1>4. doc.parent[a] \in Built /\ doc.kind[doc.parent[a]] = "item"
  BY <1>2, LeftIs
<1>5. doc.parent[a] \notin Associations(doc)
  BY <1>4 DEF Associations
<1>6. doc.parent[a] \in Here \ Inside /\ doc.parent[a] \notin nodesToClean2
  <2>1. removed \subseteq Associations(doc)
    BY DEF Progress
  <2> QED
    BY <1>1, <1>4, <1>5, <2>1 DEF HereFacts, Inside
<1>7. parent[a] = doc.parent[a]
  BY <1>3, <1>6 DEF Lists, ListAt
<1>8. /\ _private[parent[a]] = parent[a] /\ properties[parent[a]] = parent[a]
      /\ _private[a] = a /\ properties[a] = a
  <2>1. Built \subseteq Elements
    BY LeftIs
  <2>2. OwnAt(doc.parent[a]) /\ OwnAt(a)
    BY <1>2, <1>6 DEF Own
  <2> QED
    BY <1>2, <1>4, <1>7, <2>1, <2>2 DEF OwnAt
<1>9. a \in alloc.lists
  BY <1>2, LeftIs DEF Allocated
<1>10. children[parent[a]] = Least(ListOf(parent[a])) /\ children[parent[a]] # Null
  <2>1. children[parent[a]] = Least(ListOf(parent[a]))
    BY <1>6, <1>7 DEF Lists, ListAt
  <2>2. ListOf(parent[a]) \in SUBSET Node /\ Null \notin Node
    BY <1>1, Sizes DEF ListFacts
  <2> QED
    BY <1>3, <1>7, <2>1, <2>2, LeastIs
<1>11. children[a] = Text(a)
  BY <1>2 DEF Lists, ListAt
<1>12. Below(a) \subseteq alloc.nodes /\ {a, Text(a)} \subseteq alloc.nodes
  BY <1>1, <1>2 DEF Allocated, Below, BelowFacts
<1>13. ASSUME NEW n \in Held(a)
       PROVE  /\ properties[n] = IF n \in Elements THEN n ELSE Null
              /\ n \in Inside => properties[Text(n)] = Null
  <2>1. n \in Here \ nodesToClean2
    BY <1>1 DEF BelowFacts
  <2>2. OwnAt(n) /\ (n \in Inside => TextAt(n))
    BY <2>1 DEF Own, Lists
  <2> QED
    BY <2>2 DEF OwnAt, TextAt
<1>14. {properties[x] : x \in Below(a)} \ {Null} = Held(a) \cap Elements
  <2>1. ASSUME NEW x \in Below(a), properties[x] # Null PROVE properties[x] \in Held(a) \cap Elements
    <3>1. CASE x \in Held(a)
      BY <1>13, <2>1, <3>1
    <3>2. ASSUME NEW n \in Held(a) \cap Inside, x = Text(n) PROVE FALSE
      BY <1>13, <2>1, <3>2
    <3> QED
      BY <3>1, <3>2 DEF Below
  <2>2. ASSUME NEW x \in Held(a) \cap Elements PROVE x \in {properties[y] : y \in Below(a)} \ {Null}
    <3>1. x \in Below(a) /\ properties[x] = x
      BY <1>13 DEF Below
    <3>2. x # Null
      BY <1>1, Numbers, Sizes DEF HereFacts, BelowFacts
    <3> QED
      BY <3>1, <3>2
  <2> QED
    BY <2>1, <2>2
<1>15. Held(a) \cap Elements \subseteq alloc.lists
  BY <1>1 DEF Allocated, BelowFacts
<1> QED
  BY <1>2, <1>3, <1>4, <1>6, <1>7, <1>8, <1>9, <1>10, <1>11, <1>12, <1>14, <1>15 DEF TurnFacts

\* The node that Query::find gives has the number the association holds.
LEMMA FoundIs ==
    ASSUME doc \in Feeds, LinkedInv, NEW a \in associationsToInitialize, Found(a) # Null
    PROVE  /\ Found(a) = doc.link[a] /\ Found(a) \in Built /\ Found(a) \in Here \ Inside
           /\ doc.kind[Found(a)] = "item"
           /\ _private[Found(a)] = Found(a) /\ properties[Found(a)] = Found(a)
           /\ Found(a) \in alloc.lists
<1> USE DEF LinkedInv
<1> DEFINE i == doc.link[a]
<1>0. HereFacts /\ a \in Associations(doc) /\ removed \subseteq Associations(doc) /\ nodesToClean2 \subseteq Inside
  BY HereIs DEF Progress, HereFacts
<1>1. i \in 1..MaxSize /\ nodes[i] # Null /\ Found(a) = nodes[i]
  BY DEF Found
<1>2. i \in 0..MaxSize /\ i # 0
  BY <1>1, Sizes
<1>3. nodes[i] = Registered(i)
  BY <1>2 DEF Progress
<1>4. Registered(i) = i /\ i \in Built
  BY <1>1, <1>2, <1>3, RegisteredIs
<1>5. i \in D /\ i \in Elements
  BY <1>4, LeftIs
<1>6. doc.kind[i] = "item"
  BY <1>0, <1>5, FeedIs DEF FeedFacts, LinkFacts
<1>7. i \notin Associations(doc)
  BY <1>6 DEF Associations
<1>8. i \in Here \ Inside /\ i \notin nodesToClean2
  BY <1>0, <1>4, <1>7 DEF HereFacts, Inside
<1>9. OwnAt(i)
  BY <1>8 DEF Own
<1>10. i \in alloc.lists
  BY <1>5, <1>8 DEF Allocated
<1> QED
  BY <1>1, <1>3, <1>4, <1>5, <1>6, <1>8, <1>9, <1>10 DEF OwnAt

\* The next association is the first that waits.
LEMMA TurnOrder ==
    ASSUME doc \in Feeds, LoadTypeOK, associationsToInitialize # {}
    PROVE  LET a == Min(associationsToInitialize)
           IN  a \in associationsToInitialize /\ \A q \in associationsToInitialize : a <= q
<1>1. associationsToInitialize \in SUBSET Node
  BY DEF LoadTypeOK
<1>2. Least(associationsToInitialize) = Min(associationsToInitialize)
  BY DEF Least
<1> QED
  BY <1>1, <1>2, LeastIs

\* Adding the greatest to a list.
LEMMA Appended ==
    ASSUME NEW L \in SUBSET Node, NEW p \in Node, \A y \in L : y < p
    PROVE  /\ Least(L \cup {p}) = IF L = {} THEN p ELSE Least(L)
           /\ Greatest(L \cup {p}) = p
           /\ Least(Later(L \cup {p}, p)) = Null
           /\ \A y \in L : Least(Later(L \cup {p}, y)) = IF y = Greatest(L) THEN p ELSE Least(Later(L, y))
<1>0. (\A y \in L : y \in Int /\ y < p) /\ p \in Int /\ L \cup {p} \in SUBSET Node
  BY Sizes
<1>1. Least(L \cup {p}) = IF L = {} THEN p ELSE Least(L)
  <2>1. CASE L = {}
    BY <1>0, <2>1, LeastIs
  <2>2. CASE L # {}
    <3>1. Least(L) \in L /\ \A y \in L : Least(L) <= y
      BY <2>2, LeastIs
    <3>2. ASSUME NEW y \in L \cup {p} PROVE Least(L) <= y
      <4>1. Least(L) < p /\ Least(L) \in Int /\ p \in Int
        BY <1>0, <3>1
      <4>2. CASE y = p
        BY <4>1, <4>2
      <4>3. CASE y \in L
        BY <3>1, <4>3
      <4> QED
        BY <4>2, <4>3
    <3> QED
      BY <1>0, <2>2, <3>1, <3>2, LeastIs
  <2> QED
    BY <2>1, <2>2
<1>2. Greatest(L \cup {p}) = p
  BY <1>0, GreatestIs
<1>3. Least(Later(L \cup {p}, p)) = Null
  <2>1. ASSUME NEW z \in L \cup {p} PROVE ~(z > p)
    <3>1. z = p \/ (z \in Int /\ z < p)
      BY <1>0
    <3> QED
      BY <1>0, <3>1
  <2>2. Later(L \cup {p}, p) = {}
    BY <2>1 DEF Later
  <2> QED
    BY <2>2, LeastIs
<1>4. ASSUME NEW y \in L PROVE Least(Later(L \cup {p}, y)) = IF y = Greatest(L) THEN p ELSE Least(Later(L, y))
  <2>0. Greatest(L) \in L /\ \A z \in L : Greatest(L) >= z
    BY GreatestIs
  <2>1. CASE y = Greatest(L)
    <3>0. \A z \in L : ~(z > y)
      <4>1. \A z \in L : y >= z /\ z \in Int /\ y \in Int
        BY <1>0, <2>0, <2>1
      <4> QED
        BY <4>1
    <3>1. Later(L \cup {p}, y) = {p}
      <4>1. p > y
        BY <1>0
      <4> QED
        BY <3>0, <4>1 DEF Later
    <3> QED
      BY <1>0, <2>1, <3>1, LeastIs
  <2>2. CASE y # Greatest(L)
    <3>1. Later(L, y) # {} /\ Later(L, y) \in SUBSET Node
      <4>0. Greatest(L) \in Int /\ y \in Int /\ Greatest(L) >= y
        BY <1>0, <2>0
      <4>1. Greatest(L) > y
        BY <4>0, <2>2
      <4> QED
        BY <2>0, <4>1 DEF Later
    <3>2. Least(Later(L, y)) \in Later(L, y) /\ \A z \in Later(L, y) : Least(Later(L, y)) <= z
      BY <3>1, LeastIs
    <3>3. Later(L \cup {p}, y) = Later(L, y) \cup {p} /\ Later(L \cup {p}, y) \in SUBSET Node
      <4>1. p > y
        BY <1>0
      <4> QED
        BY <1>0, <4>1 DEF Later
    <3>4. ASSUME NEW z \in Later(L \cup {p}, y) PROVE Least(Later(L, y)) <= z
      <4>1. Least(Later(L, y)) \in L
        BY <3>2 DEF Later
      <4>2. Least(Later(L, y)) < p /\ Least(Later(L, y)) \in Int /\ p \in Int
        BY <1>0, <4>1
      <4>3. CASE z = p
        BY <4>2, <4>3
      <4>4. CASE z \in Later(L, y)
        BY <3>2, <4>4
      <4> QED
        BY <3>3, <4>3, <4>4
    <3> QED
      BY <2>2, <3>2, <3>3, <3>4, LeastIs
  <2> QED
    BY <2>1, <2>2
<1> QED
  BY <1>1, <1>2, <1>3, <1>4

\* initializeAssociation of an association that names a node.
LEMMA ResolveLinked ==
    ASSUME LoadIInv, phase = "linking", NEW a \in associationsToInitialize,
           \A q \in associationsToInitialize : a <= q,
           Found(a) # Null, Resolve(a, Found(a)),
           associationsToInitialize' = associationsToInitialize \ {a},
           doc' = doc, phase' = phase, nodes' = nodes
    PROVE  LoadIInv'
<1> DEFINE T == Found(a)
           P == parent[a]
           p == Pointer(a)
           R == nodesToClean2
           C == Held(a)
           tail == {last[T]} \ {Null}
<1>0. doc \in Feeds /\ LoadTypeOK /\ LinkedInv /\ ~twice
  BY DEF LoadIInv, Linked, LoadTypeOK
<1>1. TurnFacts(a) /\ BelowFacts(a) /\ HereFacts /\ ListFacts
  BY <1>0, TurnIs, BelowIs, HereIs, ListIs DEF LinkedInv
<1>2. /\ T = doc.link[a] /\ T \in Built /\ T \in Here \ Inside /\ doc.kind[T] = "item"
      /\ _private[T] = T /\ properties[T] = T /\ T \in alloc.lists
  BY <1>0, FoundIs
<1>25. T' = T
  BY DEF Found
<1>3. Reach({next[Text(a)]}, {children, next}) = Below(a)
  BY <1>0, BelowReached DEF LinkedInv
<1>4. /\ next' = [x \in Node |-> IF x \in tail THEN p ELSE IF x = Text(a) THEN children[T] ELSE next[x]]
      /\ children' = [x \in Node |-> IF x = p THEN children[P] ELSE IF x = T /\ tail = {} THEN p ELSE children[x]]
      /\ properties' = [properties EXCEPT ![a] = properties[T], ![p] = properties[P]]
      /\ _private' = [_private EXCEPT ![a] = _private[T], ![p] = _private[P]]
      /\ parent' = [parent EXCEPT ![p] = T]
      /\ pointerNodes' = [pointerNodes EXCEPT ![_private[P]] = @ \cup {p}]
      /\ last' = [x \in Node |-> IF x \in {T} \cup pointerNodes'[_private[T]] THEN p
                                 ELSE IF x = a THEN last[T] ELSE IF x = p THEN last[P] ELSE last[x]]
      /\ alloc' = [nodes |-> (alloc.nodes \ Below(a)) \cup {p}, contexts |-> alloc.contexts \ {a},
                   lists |-> alloc.lists \ {properties[x] : x \in Below(a) \cup {a}}]
      /\ twice' = (twice \/ Again(Below(a)) \/ properties[a] \notin alloc.lists)
      /\ nodesToClean' = nodesToClean \cup {p} /\ nodesToClean2' = R \cup {a}
      /\ removed' = removed /\ exposed' = exposed
  BY <1>3 DEF Resolve, Content, Shared, Copies
<1>5. /\ D \subseteq Node /\ 0 \notin D /\ 0 \in Node /\ Here \subseteq D /\ R \subseteq D /\ R \subseteq Inside /\ Inside \subseteq Here
      /\ a \in D /\ T \in D /\ P \in D /\ a # T /\ a # P /\ a \in Node /\ T \in Node /\ P \in Node
  BY <1>0, <1>1, <1>2, Numbers, Sizes DEF HereFacts, TurnFacts
<1>6. /\ p \in Node /\ p \notin D /\ p # 0 /\ Text(a) \in Node /\ Text(a) \notin D /\ Text(a) # 0 /\ Text(a) # p
      /\ \A x \in D : Text(x) \in Node /\ Text(x) \notin D /\ Text(x) # p /\ (Text(x) = Text(a) => x = a) /\ Text(x) # 0
      /\ \A b \in D : Pointer(b) \in Node /\ Pointer(b) \notin D /\ (Pointer(b) = p => b = a) /\ Pointer(b) # Text(a) /\ Pointer(b) # 0
      /\ \A x, b \in D : Text(x) # Pointer(b)
      /\ Null \notin Node /\ \A x \in D : x < p
  <2>1. /\ p \in Node /\ p \notin D /\ p # 0 /\ Text(a) \in Node /\ Text(a) \notin D /\ Text(a) # 0 /\ Text(a) # p
    BY <1>0, <1>5, Numbers
  <2>2. \A x, b \in D : Text(x) # Pointer(b)
    BY <1>0, Numbers
  <2>3. \A x \in D : Text(x) \in Node /\ Text(x) \notin D /\ Text(x) # p /\ (Text(x) = Text(a) => x = a) /\ Text(x) # 0
    BY <1>0, <1>5, Numbers
  <2>4. \A b \in D : Pointer(b) \in Node /\ Pointer(b) \notin D /\ (Pointer(b) = p => b = a) /\ Pointer(b) # Text(a) /\ Pointer(b) # 0
    BY <1>0, <1>5, Numbers
  <2>5. Null \notin Node /\ \A x \in D : x < p
    <3>1. \A x \in D : p > x /\ x \in Int
      BY <1>0, <1>5, Numbers, Sizes
    <3> QED
      BY <3>1, <2>1, Sizes
  <2> QED
    BY <2>1, <2>2, <2>3, <2>4, <2>5
<1>7. \A x : ListOf(x) \in SUBSET Node /\ \A y \in ListOf(x) : y < p /\ y # p /\ y # Text(a) /\ (\A z \in D : y # Text(z))
  <2> SUFFICES ASSUME NEW x, NEW y \in ListOf(x) PROVE y < p /\ y # p /\ y # Text(a) /\ (\A z \in D : y # Text(z))
    BY <1>1 DEF ListFacts
  <2>1. CASE y \in Here
    BY <1>5, <1>6, <2>1
  <2>2. ASSUME NEW b \in R, y = Pointer(b) PROVE y < p /\ y # p /\ y # Text(a) /\ (\A z \in D : y # Text(z))
    <3>1. b < a /\ b \in D
      BY <1>0, <1>5 DEF LinkedInv, Progress
    <3>2. Pointer(b) < p
      BY <1>0, <1>5, <3>1, Numbers
    <3>3. b # a
      BY <1>1 DEF TurnFacts
    <3> QED
      BY <1>5, <1>6, <2>2, <3>1, <3>2, <3>3
  <2> QED
    BY <1>1, <2>1, <2>2 DEF ListFacts
<1>8. /\ last[T] = Greatest(ListOf(T)) /\ children[T] = Least(ListOf(T))
      /\ ListOf(T) = {} => tail = {} /\ children[T] = Null
      /\ ListOf(T) # {} => tail = {last[T]} /\ last[T] \in ListOf(T) /\ children[T] \in ListOf(T)
  <2>1. last[T] = Greatest(ListOf(T)) /\ children[T] = Least(ListOf(T))
    BY <1>0, <1>2 DEF LinkedInv, Lists, ListAt, EndAt
  <2>2. ASSUME ListOf(T) = {} PROVE tail = {} /\ children[T] = Null
    <3>1. Greatest(ListOf(T)) = Null /\ Least(ListOf(T)) = Null
      BY <2>2, LeastIs, GreatestIs
    <3> QED
      BY <2>1, <3>1
  <2>3. ASSUME ListOf(T) # {} PROVE tail = {last[T]} /\ last[T] \in ListOf(T) /\ children[T] \in ListOf(T)
    <3>0. ListOf(T) \in SUBSET Node
      BY <1>7
    <3>1. Greatest(ListOf(T)) \in ListOf(T) /\ Least(ListOf(T)) \in ListOf(T)
      BY <2>3, <3>0, LeastIs, GreatestIs
    <3>2. last[T] # Null
      BY <1>6, <2>1, <3>0, <3>1
    <3> QED
      BY <2>1, <3>1, <3>2
  <2> QED
    BY <2>1, <2>2, <2>3
<1>9. /\ D' = D /\ Ancestors' = Ancestors /\ Built' = Built /\ Left' = Left
      /\ Elements' = Elements /\ Associations(doc)' = Associations(doc)
      /\ (\A x : Kids(x)' = Kids(x)) /\ \A i : Registered(i)' = Registered(i)
  BY SameDoc
<1>10. Here' = Here \ C /\ Inside' = Inside \ C
  <2>1. Here' = Here \ C
    BY <1>4, <1>9 DEF Here, Held
  <2> QED
    BY <1>9, <2>1 DEF Inside
<1>11. ASSUME NEW x \in {0} \cup Here'
       PROVE  /\ ListOf(x)' = IF x = a THEN {} ELSE IF x = T THEN ListOf(T) \cup {p} ELSE ListOf(x)
              /\ x \in {0} \cup Here /\ x \in Node /\ x # p /\ (x \in Inside' <=> x \in Inside)
  <2>1. x \in {0} \cup Here /\ x \notin C /\ (x \in Inside' <=> x \in Inside)
    <3>1. 0 \notin C
      BY <1>1, <1>5 DEF BelowFacts
    <3> QED
      BY <1>10, <3>1
  <2>2. x \in Node /\ x # p
    BY <1>5, <1>6, <2>1
  <2>3. \A y : y \in ListOf(x)' <=> \/ y \in Here /\ y \notin C /\ doc.parent[y] = x
                               \/ \E b \in R \cup {a} : y = Pointer(b) /\ doc.link[b] = x
    BY <1>4, <1>10 DEF ListOf, Pointer
  <2>4. \A y : y \in ListOf(x) <=> \/ y \in Here /\ doc.parent[y] = x
                              \/ \E b \in R : y = Pointer(b) /\ doc.link[b] = x
    BY DEF ListOf
  <2>5. \A y \in C : doc.parent[y] \in {a} \cup C
    BY <1>1 DEF BelowFacts
  <2>6. \A b \in R : doc.link[b] # a
    BY <1>1 DEF HereFacts, TurnFacts
  <2>7. \A y \in Here : doc.parent[y] = a => y \in C
    <3>1. \A y \in Here : y \in ListOf(doc.parent[y])
      BY <1>1 DEF ListFacts
    <3> QED
      BY <1>1, <3>1 DEF BelowFacts
  <2>8. CASE x = a
    <3>1. \A y : y \notin ListOf(x)'
      BY <1>2, <1>5, <2>3, <2>6, <2>7, <2>8
    <3> QED
      BY <2>1, <2>2, <2>8, <3>1
  <2>9. CASE x = T
    <3>1. \A y \in Here : doc.parent[y] = x => y \notin C
      BY <1>5, <2>1, <2>5, <2>9
    <3>2. \A y : y \in ListOf(x)' <=> y \in ListOf(x) \/ y = p
      BY <1>2, <2>3, <2>4, <2>9, <3>1
    <3> QED
      BY <1>5, <2>1, <2>2, <2>9, <3>2
  <2>10. CASE x # a /\ x # T
    <3>1. \A y \in Here : doc.parent[y] = x => y \notin C
      BY <2>1, <2>5, <2>10
    <3>2. \A y : y \in ListOf(x)' <=> y \in ListOf(x)
      BY <1>2, <2>3, <2>4, <2>10, <3>1
    <3> QED
      BY <2>1, <2>2, <2>10, <3>2
  <2> QED
    BY <2>8, <2>9, <2>10

<1>12. ASSUME NEW x \in {0} \cup Here' PROVE ListAt(x)'
  <2>1. x \in {0} \cup Here /\ x \in Node /\ x # p /\ (x \in Inside' <=> x \in Inside)
    BY <1>11
  <2>2. ListAt(x)
    BY <1>0, <2>1 DEF LinkedInv, Lists
  <2>3. children'[x] = IF x = T /\ tail = {} THEN p ELSE children[x]
    BY <1>4, <2>1
  <2>4. CASE x = a
    <3>1. ListOf(x)' = {}
      BY <1>11, <2>4
    <3>2. children'[x] = Text(x)
      BY <1>1, <1>5, <2>3, <2>4 DEF TurnFacts
    <3> QED
      BY <1>1, <2>1, <2>4, <3>1, <3>2 DEF ListAt, TurnFacts, Text
  <2>5. CASE x = T
    <3>1. ListOf(x)' = ListOf(T) \cup {p} /\ x \notin Inside' /\ ListOf(T) \in SUBSET Node
      BY <1>2, <1>5, <1>7, <1>11, <2>1, <2>5
    <3>2. /\ Least(ListOf(T) \cup {p}) = IF ListOf(T) = {} THEN p ELSE Least(ListOf(T))
          /\ Least(Later(ListOf(T) \cup {p}, p)) = Null
          /\ \A y \in ListOf(T) : Least(Later(ListOf(T) \cup {p}, y)) = IF y = Greatest(ListOf(T)) THEN p ELSE Least(Later(ListOf(T), y))
      BY <1>6, <1>7, Appended
    <3>3. children'[x] = Least(ListOf(T) \cup {p})
      BY <1>8, <2>3, <2>5, <3>2
    <3>4. next'[p] = Null /\ parent'[p] = T
      <4>1. p \notin tail /\ p # Text(a)
        BY <1>6, <1>7, <1>8
      <4>2. next[p] = Null
        BY <1>0 DEF LinkedInv, Lists
      <4> QED
        BY <1>0, <1>4, <1>6, <4>1, <4>2 DEF LoadTypeOK
    <3>5. ASSUME NEW y \in ListOf(T) PROVE next'[y] = Least(Later(ListOf(T) \cup {p}, y)) /\ parent'[y] = T
      <4>1. y \in Node /\ y # p /\ y # Text(a)
        BY <1>7, <3>1
      <4>2. next[y] = Least(Later(ListOf(T), y)) /\ parent[y] = T
        BY <2>2, <2>5 DEF ListAt
      <4>3. parent'[y] = T
        BY <1>0, <1>4, <4>1, <4>2 DEF LoadTypeOK
      <4>4. y \in tail <=> y = Greatest(ListOf(T))
        BY <1>8
      <4> QED
        BY <1>4, <3>2, <4>1, <4>2, <4>3, <4>4
    <3>6. \A y \in ListOf(x)' : next'[y] = Least(Later(ListOf(x)', y)) /\ parent'[y] = x
      BY <2>5, <3>1, <3>2, <3>4, <3>5
    <3> QED
      BY <3>1, <3>3, <3>6 DEF ListAt, Later, Least, Null
  <2>6. CASE x # a /\ x # T
    <3>1. ListOf(x)' = ListOf(x) /\ ListOf(x) \in SUBSET Node
      BY <1>7, <1>11, <2>6
    <3>2. children'[x] = IF x \in Inside' THEN Text(x) ELSE Least(ListOf(x)')
      BY <2>1, <2>2, <2>3, <2>6, <3>1 DEF ListAt
    <3>3. ASSUME NEW y \in ListOf(x) PROVE next'[y] = Least(Later(ListOf(x), y)) /\ parent'[y] = x
      <4>1. y \in Node /\ y # p /\ y # Text(a)
        BY <1>7, <3>1
      <4>2. next[y] = Least(Later(ListOf(x), y)) /\ parent[y] = x
        BY <2>2 DEF ListAt
      <4>3. y \notin ListOf(T)
        BY <1>1, <2>6 DEF ListFacts
      <4>4. y \notin tail
        BY <1>8, <4>3
      <4> QED
        BY <1>0, <1>4, <4>1, <4>2, <4>4 DEF LoadTypeOK
    <3>4. \A y \in ListOf(x)' : next'[y] = Least(Later(ListOf(x)', y)) /\ parent'[y] = x
      BY <3>1, <3>3
    <3> QED
      BY <3>2, <3>4 DEF ListAt, Text, Least, Null, Later
  <2> QED
    BY <2>4, <2>5, <2>6
<1>13. pointerNodes' = [x \in Node |-> {Pointer(b) : b \in {b \in R \cup {a} : doc.parent[b] = x}}]
  <2>1. pointerNodes = [x \in Node |-> {Pointer(b) : b \in {b \in R : doc.parent[b] = x}}]
    BY <1>0 DEF LinkedInv, Progress
  <2>2. pointerNodes' = [pointerNodes EXCEPT ![P] = @ \cup {p}] /\ P = doc.parent[a]
    BY <1>1, <1>4 DEF TurnFacts
  <2>3. ASSUME NEW x \in Node PROVE pointerNodes'[x] = {Pointer(b) : b \in {b \in R \cup {a} : doc.parent[b] = x}}
    <3>1. CASE x = P
      <4>1. pointerNodes'[x] = {Pointer(b) : b \in {b \in R : doc.parent[b] = x}} \cup {p}
        BY <2>1, <2>2, <3>1
      <4> QED
        BY <2>2, <3>1, <4>1
    <3>2. CASE x # P
      <4>1. pointerNodes'[x] = {Pointer(b) : b \in {b \in R : doc.parent[b] = x}}
        BY <2>1, <2>2, <3>2
      <4> QED
        BY <2>2, <3>2, <4>1
    <3> QED
      BY <3>1, <3>2
  <2>4. pointerNodes' = [x \in Node |-> pointerNodes'[x]]
    BY <2>1, <2>2
  <2> QED
    BY <2>3, <2>4
<1> DEFINE W == {Pointer(b) : b \in {b \in R \cup {a} : doc.parent[b] = T}}
<1>14. /\ W \in SUBSET Node /\ W \cap D = {} /\ 0 \notin W /\ (\A x \in D : Text(x) \notin W)
       /\ \A b \in R \cup {a} : Pointer(b) \in W <=> doc.parent[b] = T
  <2>1. R \cup {a} \subseteq D
    BY <1>5
  <2>2. W \in SUBSET Node /\ W \cap D = {} /\ 0 \notin W /\ (\A x \in D : Text(x) \notin W)
    BY <1>6, <2>1
  <2>3. ASSUME NEW b \in R \cup {a} PROVE Pointer(b) \in W <=> doc.parent[b] = T
    <3>1. \A c \in R \cup {a} : Pointer(c) = Pointer(b) => c = b
      BY <1>0, <2>1, Numbers
    <3> QED
      BY <3>1
  <2> QED
    BY <2>2, <2>3
<1>15. \A x \in Node : last'[x] = IF x = T \/ x \in W THEN p
                                   ELSE IF x = a THEN last[T] ELSE IF x = p THEN last[P] ELSE last[x]
  <2>1. pointerNodes'[_private[T]] = W
    BY <1>2, <1>5, <1>13
  <2> HIDE DEF W
  <2> QED
    BY <1>4, <2>1
<1> HIDE DEF W
<1>16. ASSUME NEW x \in {0} \cup Here' PROVE EndAt(x)'
  <2>1. x \in {0} \cup Here /\ x \in Node /\ x # p /\ (x \in Inside' <=> x \in Inside)
    BY <1>11
  <2>2. EndAt(x)
    BY <1>0, <2>1 DEF LinkedInv, Lists
  <2>3. x \notin W
    BY <1>5, <1>14, <2>1
  <2>4. CASE x = T
    <3>1. ListOf(x)' = ListOf(T) \cup {p} /\ x \notin Inside'
      BY <1>2, <1>5, <1>11, <2>1, <2>4
    <3>2. Greatest(ListOf(T) \cup {p}) = p
      BY <1>6, <1>7, Appended
    <3>3. last'[x] = Greatest(ListOf(x)')
      BY <1>15, <2>1, <2>4, <3>1, <3>2
    <3> QED
      BY <3>1, <3>3 DEF EndAt, Greatest, Null
  <2>5. CASE x = a
    BY <1>1, <1>4, <2>1, <2>5 DEF EndAt, TurnFacts
  <2>6. CASE x # a /\ x # T
    <3>1. ListOf(x)' = ListOf(x) /\ last'[x] = last[x]
      BY <1>11, <1>15, <2>1, <2>3, <2>6
    <3>2. x \in nodesToClean2' <=> x \in R
      BY <1>4, <2>6
    <3> QED
      BY <2>1, <2>2, <3>1, <3>2 DEF EndAt, Text, Greatest, Null
  <2> QED
    BY <2>4, <2>5, <2>6
<1>17. ASSUME NEW x \in Inside' PROVE TextAt(x)'
  <2>1. x \in Inside /\ x \in D /\ x \in Here' /\ x # T
    BY <1>2, <1>5, <1>10
  <2>2. /\ Text(x) \in Node /\ Text(x) # p /\ Text(x) # a /\ Text(x) # T /\ Text(x) \notin W
        /\ (Text(x) = Text(a) => x = a)
    BY <1>5, <1>6, <1>14, <2>1
  <2>3. TextAt(x)
    BY <1>0, <2>1 DEF LinkedInv, Lists
  <2>4. Text(x) \notin tail
    BY <1>7, <1>8, <2>1
  <2>5. children'[Text(x)] = Null /\ parent'[Text(x)] = x
    BY <1>0, <1>4, <2>2, <2>3 DEF TextAt, LoadTypeOK
  <2>6. last'[Text(x)] = Null
    BY <1>15, <2>2, <2>3 DEF TextAt
  <2>7. _private'[Text(x)] = Null /\ properties'[Text(x)] = Null
    BY <1>0, <1>4, <2>2, <2>3 DEF TextAt, LoadTypeOK
  <2>8. ASSUME x \notin nodesToClean2' PROVE next'[Text(x)] = Least(ListOf(x)')
    <3>1. x # a /\ x \notin R
      BY <1>4, <2>8
    <3>2. ListOf(x)' = ListOf(x) /\ next[Text(x)] = Least(ListOf(x))
      BY <1>11, <2>1, <2>3, <3>1 DEF TextAt
    <3> QED
      BY <1>4, <2>2, <2>4, <3>1, <3>2
  <2> QED
    BY <2>5, <2>6, <2>7, <2>8 DEF TextAt, Text, Null, Least
<1>18. Lists'
  <2>1. next'[0] = Null
    <3>1. 0 \notin tail /\ 0 # Text(a)
      <4>1. 0 \notin ListOf(T)
        <5>1. ASSUME 0 \in ListOf(T) PROVE FALSE
          BY <1>1, <1>5, <1>6, <5>1 DEF ListFacts
        <5> QED
          BY <5>1
      <4> QED
        BY <1>6, <1>8, <4>1
    <3> QED
      BY <1>0, <1>4, <1>5, <3>1 DEF LinkedInv, Lists
  <2>2. ASSUME NEW q \in associationsToInitialize' PROVE next'[Pointer(q)] = Null
    <3>1. q \in associationsToInitialize /\ q # a /\ q \in D
      BY <1>0, LeftIs DEF LinkedInv, Progress
    <3>2. next[Pointer(q)] = Null /\ Pointer(q) \in Node /\ Pointer(q) # Text(a)
      BY <1>0, <1>6, <3>1 DEF LinkedInv, Lists
    <3>3. Pointer(q) \notin ListOf(T)
      <4>1. q \notin R /\ \A b \in R : Pointer(b) = Pointer(q) => b = q
        <5>1. BelowFacts(q)
          BY <1>0, <3>1, BelowIs DEF LinkedInv
        <5>2. \A b \in R : Pointer(b) = Pointer(q) => b = q
          BY <1>0, <1>5, <3>1, Numbers
        <5> QED
          BY <5>1, <5>2 DEF BelowFacts
      <4> QED
        BY <1>1, <1>5, <1>6, <3>1, <4>1 DEF ListFacts
    <3>4. Pointer(q) \notin tail
      BY <1>8, <3>3
    <3> QED
      BY <1>4, <3>2, <3>4
  <2>3. (\A q \in associationsToInitialize : next[Pointer(q)] = Null)'
    BY <2>2 DEF Pointer, Null
  <2> QED
    BY <1>12, <1>16, <1>17, <2>1, <2>3 DEF Lists, Null
<1>19. Progress'
  <2>1. nodesToClean' = {Pointer(b) : b \in R \cup {a}}
    BY <1>0, <1>4 DEF LinkedInv, Progress
  <2>2. associationsToInitialize' \cup (R \cup {a}) \cup removed = Built \cap Associations(doc)
    BY <1>0 DEF LinkedInv, Progress
  <2>3. removed \cap (R \cup {a}) = {}
    BY <1>0, <1>1 DEF LinkedInv, Progress, TurnFacts
  <2>4. ASSUME NEW q \in associationsToInitialize', NEW b \in (R \cup {a}) \cup removed PROVE b < q
    <3>1. q \in associationsToInitialize /\ q # a /\ a <= q /\ q \in D
      BY <1>0, LeftIs DEF LinkedInv, Progress
    <3>2. a < q
      <4>1. q \in Int /\ a \in Int
        BY <1>5, <3>1, Sizes
      <4> QED
        BY <3>1, <4>1
    <3> QED
      BY <1>0, <3>1, <3>2 DEF LinkedInv, Progress
  <2>5. \A b \in R \cup {a} : doc.link[b] \in Built /\ doc.kind[doc.link[b]] = "item"
    BY <1>0, <1>2 DEF LinkedInv, Progress
  <2>6. nodes' = [i \in 0..MaxSize |-> Registered(i)']
    BY <1>0, <1>9 DEF LinkedInv, Progress
  <2>7. pointerNodes' = [x \in Node |-> {Pointer(b) : b \in {b \in nodesToClean2' : doc'.parent[b] = x}}]
    BY <1>4, <1>13
  <2>8. \A b \in R \cup {a} : Found(b)' = doc.link[b]
    <3>1. \A b : Found(b)' = Found(b)
      BY DEF Found, Null
    <3> QED
      BY <1>0, <1>2, <3>1 DEF LinkedInv, Progress
  <2> QED
    BY <1>4, <1>9, <2>1, <2>2, <2>3, <2>4, <2>5, <2>6, <2>7, <2>8 DEF Progress, Pointer
<1>20. Allocated'
  <2>1. alloc'.nodes = {0} \cup (Here \ C) \cup {Text(n) : n \in Inside \ C} \cup {Pointer(b) : b \in R \cup {a}}
    <3>1. alloc'.nodes = (alloc.nodes \ Below(a)) \cup {p}
      BY <1>4
    <3>2. alloc.nodes = {0} \cup Here \cup {Text(n) : n \in Inside} \cup {Pointer(b) : b \in R}
      BY <1>0 DEF LinkedInv, Allocated
    <3>3. Below(a) = C \cup {Text(n) : n \in C \cap Inside} /\ C \subseteq Here
      BY <1>1 DEF Below, BelowFacts
    <3>4. \A n, m \in Inside : Text(n) = Text(m) => n = m
      BY <1>0, <1>5, Numbers
    <3>5. /\ \A n \in Inside : Text(n) \notin Here /\ Text(n) # 0 /\ \A b \in R : Text(n) # Pointer(b)
          /\ \A b \in R : Pointer(b) \notin Here
          /\ 0 \notin Here
      BY <1>5, <1>6
    <3> HIDE DEF C, R, p
    <3>6. ASSUME NEW z PROVE z \in alloc'.nodes <=> z \in {0} \cup (Here \ C) \cup {Text(n) : n \in Inside \ C} \cup ({Pointer(b) : b \in R} \cup {p})
      <4>1. CASE \E n \in Inside : z = Text(n)
        <5>1. PICK n \in Inside : z = Text(n)
          BY <4>1
        <5>2. z \in Below(a) <=> n \in C
          BY <3>3, <3>4, <3>5, <5>1
        <5>3. z \in {Text(m) : m \in Inside \ C} <=> n \notin C
          BY <3>4, <5>1
        <5> QED
          BY <3>1, <3>2, <3>5, <5>1, <5>2, <5>3
      <4>2. CASE ~ \E n \in Inside : z = Text(n)
        <5>1. z \in Below(a) <=> z \in C
          BY <3>3, <4>2
        <5>2. z \in alloc.nodes <=> z = 0 \/ z \in Here \/ z \in {Pointer(b) : b \in R}
          BY <3>2, <4>2
        <5>3. z \notin {Text(m) : m \in Inside \ C}
          BY <4>2
        <5> QED
          BY <3>1, <3>3, <3>5, <5>1, <5>2, <5>3
      <4> QED
        BY <4>1, <4>2
    <3>7. {Pointer(b) : b \in R \cup {a}} = {Pointer(b) : b \in R} \cup {p}
      BY DEF p
    <3> QED
      BY <3>6, <3>7
  <2>2. alloc'.contexts = Built \ (removed \cup (R \cup {a}))
    BY <1>0, <1>4 DEF LinkedInv, Allocated
  <2>3. alloc'.lists = ((Here \ C) \cap Elements) \ (R \cup {a})
    <3>1. alloc'.lists = alloc.lists \ {properties[x] : x \in Below(a) \cup {a}}
      BY <1>4
    <3>2. alloc.lists = (Here \cap Elements) \ R
      BY <1>0 DEF LinkedInv, Allocated
    <3>3. {properties[x] : x \in Below(a)} \ {Null} = C \cap Elements /\ properties[a] = a
      BY <1>1 DEF TurnFacts
    <3>4. {properties[x] : x \in Below(a) \cup {a}} = {properties[x] : x \in Below(a)} \cup {a}
      BY <3>3
    <3>5. Null \notin Here
      BY <1>5, <1>6
    <3> HIDE DEF C, R
    <3> QED
      BY <3>1, <3>2, <3>3, <3>4, <3>5
  <2> QED
    BY <1>4, <1>9, <1>10, <2>1, <2>2, <2>3 DEF Allocated, Text, Pointer
<1>21. Own'
  <2>1. _private'[0] = Null /\ properties'[0] = Null
    BY <1>0, <1>4, <1>5, <1>6 DEF LinkedInv, Own, LoadTypeOK
  <2>2. ASSUME NEW x \in Here' \ nodesToClean2' PROVE OwnAt(x)'
    <3>1. x \in Here /\ x \notin R /\ x # a /\ x # p /\ x \in Node
      BY <1>4, <1>5, <1>6, <1>10
    <3>2. OwnAt(x)
      BY <1>0, <3>1 DEF LinkedInv, Own
    <3>3. _private'[x] = _private[x] /\ properties'[x] = properties[x]
      BY <1>0, <1>4, <3>1 DEF LoadTypeOK
    <3> QED
      BY <1>9, <3>2, <3>3 DEF OwnAt, Null
  <2>3. ASSUME NEW b \in R \cup {a} PROVE SharedAt(b)'
    <3>1. CASE b = a
      <4>1. _private'[a] = T /\ properties'[a] = T /\ _private'[p] = P /\ properties'[p] = P
        BY <1>0, <1>1, <1>2, <1>4, <1>5, <1>6 DEF LoadTypeOK, TurnFacts
      <4>2. T = doc.link[a] /\ P = doc.parent[a]
        BY <1>1, <1>2 DEF TurnFacts
      <4> QED
        BY <3>1, <4>1, <4>2 DEF SharedAt, Pointer
    <3>2. CASE b \in R
      <4>1. b # a /\ b # p /\ b \in Node /\ Pointer(b) # p /\ Pointer(b) # a /\ Pointer(b) \in Node
        BY <1>1, <1>5, <1>6, <3>2 DEF TurnFacts
      <4>2. SharedAt(b)
        BY <1>0, <3>2 DEF LinkedInv, Own
      <4>3. /\ _private'[b] = _private[b] /\ properties'[b] = properties[b]
            /\ _private'[Pointer(b)] = _private[Pointer(b)] /\ properties'[Pointer(b)] = properties[Pointer(b)]
        BY <1>0, <1>4, <4>1 DEF LoadTypeOK
      <4> QED
        BY <4>2, <4>3 DEF SharedAt, Pointer
    <3> QED
      BY <3>1, <3>2
  <2> QED
    BY <1>4, <2>1, <2>2, <2>3 DEF Own, Null
<1>22. Sharing'
  <2> SUFFICES ASSUME ~exposed, NEW b \in R \cup {a} PROVE SameLists(b)'
    BY <1>4 DEF Sharing
  <2>1. \A x \in D : ListOf(x) # {} => children'[x] = children[x]
    BY <1>4, <1>5, <1>6, <1>8
  <2>2. CASE b \in R
    <3> DEFINE Pb == doc.parent[b]
               Tb == doc.link[b]
    <3>1. SameLists(b)
      BY <1>0, <2>2 DEF LinkedInv, Sharing
    <3>2. /\ b \in ListOf(Pb) /\ Pointer(b) \in ListOf(Tb) /\ Pb \in Here \ Inside /\ Tb \in Here \ Inside
          /\ Pb \in D /\ Tb \in D /\ b \in D /\ b # a /\ b # T
      BY <1>1, <1>2, <1>5, <2>2 DEF ListFacts, HereFacts, TurnFacts
    <3>3. children'[Pb] = children[Pb] /\ children'[Tb] = children[Tb]
      BY <2>1, <3>2
    <3>4. /\ Pointer(b) \in Node /\ Pointer(b) # p /\ Pointer(b) # T /\ Pointer(b) # a /\ b \in Node /\ b # p
          /\ Pb \in Node /\ Pb # a /\ Pb # p /\ Pb \notin W /\ b \notin W /\ Pb # b
      BY <1>1, <1>5, <1>6, <1>14, <3>2 DEF TurnFacts
    <3>5. children'[Pointer(b)] = children'[Pb]
      <4>1. children'[Pointer(b)] = children[Pointer(b)]
        BY <1>4, <3>4
      <4> QED
        BY <3>1, <3>3, <4>1 DEF SameLists
    <3>6. last'[Pointer(b)] = last'[Pb]
      <4>1. last[Pointer(b)] = last[Pb]
        BY <3>1 DEF SameLists
      <4>2. Pointer(b) \in W <=> Pb = T
        BY <1>14, <2>2
      <4> QED
        BY <1>15, <3>4, <4>1, <4>2
    <3>7. next'[Text(b)] = IF Blind(b)' THEN Null ELSE children'[Tb]
      <4>1. Text(b) \notin tail /\ Text(b) # Text(a) /\ Text(b) \in Node
        BY <1>6, <1>7, <1>8, <3>2
      <4>2. next'[Text(b)] = next[Text(b)]
        BY <1>4, <4>1
      <4>3. b <= a
        <5>1. b < a /\ b \in Int /\ a \in Int
          BY <1>0, <1>5, <2>2, Sizes DEF LinkedInv, Progress
        <5> QED
          BY <5>1
      <4>4. Blind(b)' <=> Blind(b)
        BY <1>4, <1>9, <4>3 DEF Blind
      <4>5. next[Text(b)] = IF Blind(b) THEN Null ELSE children[Tb]
        BY <3>1 DEF SameLists
      <4> QED
        BY <3>3, <4>2, <4>4, <4>5
    <3>8. last'[b] \in ListOf(Tb)' \cup {Null}
      <4>1. last'[b] = last[b]
        BY <1>15, <3>2, <3>4
      <4>2. Tb \in {0} \cup Here' /\ Tb # a
        <5>1. Tb \notin C /\ Tb # a
          BY <1>1, <2>2 DEF HereFacts, BelowFacts, TurnFacts
        <5> QED
          BY <1>10, <3>2, <5>1
      <4>3. ListOf(Tb) \subseteq ListOf(Tb)'
        BY <1>11, <4>2
      <4> QED
        BY <3>1, <4>1, <4>3 DEF SameLists
    <3> QED
      BY <3>5, <3>6, <3>7, <3>8 DEF SameLists, Pointer, Text, Null
  <2>3. CASE b = a
    <3>1. P = doc.parent[a] /\ T = doc.link[a] /\ a \in ListOf(P)
      BY <1>1, <1>2 DEF TurnFacts
    <3>2. children'[p] = children'[P]
      <4>1. children'[P] = children[P]
        BY <2>1, <1>5, <3>1
      <4> QED
        BY <1>4, <1>6, <4>1
    <3>3. last'[p] = last'[P]
      <4>1. p \in W <=> P = T
        BY <1>14, <3>1
      <4>2. P \notin W /\ P # a /\ P # p /\ P \in Node /\ p # T /\ p # a /\ p \in Node
        BY <1>5, <1>6, <1>14
      <4> QED
        BY <1>15, <4>1, <4>2
    <3>4. next'[Text(a)] = IF Blind(a)' THEN Null ELSE children'[T]
      <4>1. next'[Text(a)] = children[T]
        <5>1. Text(a) \notin tail
          BY <1>7, <1>8
        <5> QED
          BY <1>4, <1>6, <5>1
      <4>2. CASE ListOf(T) # {}
        <5>1. children'[T] = children[T]
          BY <1>5, <2>1, <4>2
        <5>2. PICK y \in ListOf(T) : TRUE
          BY <4>2
        <5>3. CASE y \in Here /\ doc.parent[y] = T
          <6>1. y \in Kids(T) /\ y \notin removed
            BY <5>3 DEF Kids, Here
          <6>2. ~Blind(a)'
            BY <1>4, <1>9, <3>1, <6>1 DEF Blind
          <6> QED
            BY <4>1, <5>1, <6>2
        <5>4. ASSUME NEW c \in R, doc.link[c] = T PROVE next'[Text(a)] = IF Blind(a)' THEN Null ELSE children'[T]
          <6>1. c < a /\ c \in Int /\ a \in Int
            BY <1>0, <1>5, Sizes DEF LinkedInv, Progress
          <6>2. ~(a <= c)
            BY <6>1
          <6>3. ~Blind(a)'
            BY <1>4, <3>1, <5>4, <6>2 DEF Blind
          <6> QED
            BY <4>1, <5>1, <6>3
        <5> QED
          BY <1>1, <5>2, <5>3, <5>4 DEF ListFacts
      <4>3. CASE ListOf(T) = {}
        <5>1. ASSUME NEW n \in Kids(T) PROVE n \in removed
          <6>1. n \in Left /\ n \in D /\ doc.parent[n] = T
            BY <1>0, LeftIs DEF Kids
          <6>2. n \notin Here
            BY <1>1, <4>3, <6>1 DEF ListFacts
          <6>3. Ancestors[n] = {T} \cup Ancestors[T]
            BY <1>0, <6>1, AncestorsAre
          <6>4. removed \cup R \subseteq Associations(doc)
            BY <1>0 DEF LinkedInv, Progress
          <6>5. Ancestors[T] \cap Associations(doc) = {}
            BY <1>0, <1>2, LeftIs
          <6>6. T \notin Associations(doc)
            BY <1>2 DEF Inside
          <6> QED
            BY <6>1, <6>2, <6>3, <6>4, <6>5, <6>6 DEF Here
        <5>2. \A c \in R : doc.link[c] # T
          BY <1>1, <4>3 DEF ListFacts
        <5>3. a <= a
          BY <1>5, Sizes
        <5>4. Blind(a)'
          BY <1>4, <1>9, <3>1, <5>1, <5>2, <5>3 DEF Blind
        <5>5. children[T] = Null
          BY <1>8, <4>3, LeastIs
        <5> QED
          BY <4>1, <5>4, <5>5
      <4> QED
        BY <4>2, <4>3
    <3>5. last'[a] \in ListOf(T)' \cup {Null}
      <4>1. last'[a] = last[T]
        BY <1>5, <1>14, <1>15
      <4>2. T \in {0} \cup Here' /\ T # a
        <5>1. T \notin C
          BY <1>1, <1>2 DEF BelowFacts
        <5> QED
          BY <1>2, <1>5, <1>10, <5>1
      <4>3. ListOf(T) \subseteq ListOf(T)'
        BY <1>11, <1>25, <4>2
      <4>4. last[T] \in ListOf(T) \cup {Null}
        BY <1>8, GreatestIs
      <4> QED
        BY <4>1, <4>3, <4>4
    <3> QED
      BY <1>25, <2>3, <3>1, <3>2, <3>3, <3>4, <3>5 DEF SameLists, Pointer, Text, Null
  <2> QED
    BY <2>2, <2>3
<1>23. ~twice'
  <2>1. ~Again(Below(a))
    BY <1>1 DEF Again, TurnFacts
  <2> QED
    BY <1>0, <1>1, <1>4, <2>1 DEF TurnFacts
<1>24. LoadTypeOK'
  <2>0. /\ children \in [Node -> NodeOrNull] /\ next \in [Node -> NodeOrNull] /\ last \in [Node -> NodeOrNull]
        /\ parent \in [Node -> NodeOrNull] /\ properties \in [Node -> NodeOrNull] /\ _private \in [Node -> NodeOrNull]
    BY <1>0 DEF LoadTypeOK
  <2>1. p \in NodeOrNull /\ T \in NodeOrNull
    BY <1>5, <1>6 DEF NodeOrNull
  <2>2. children' \in [Node -> NodeOrNull] /\ next' \in [Node -> NodeOrNull]
    BY <1>4, <1>5, <2>0, <2>1
  <2>3. last' \in [Node -> NodeOrNull]
    BY <1>4, <1>5, <2>0, <2>1
  <2>4. parent' \in [Node -> NodeOrNull] /\ properties' \in [Node -> NodeOrNull] /\ _private' \in [Node -> NodeOrNull]
    BY <1>4, <1>5, <2>0, <2>1
  <2>5. (\A f \in {children, next, last, parent, properties, _private} : f \in [Node -> NodeOrNull])'
    BY <2>2, <2>3, <2>4
  <2>6. nodes' \in [0..MaxSize -> NodeOrNull] /\ associationsToInitialize' \in SUBSET Node
    BY <1>0 DEF LoadTypeOK
  <2>7. pointerNodes' \in [Node -> SUBSET Node]
    <3>1. \A b \in R \cup {a} : Pointer(b) \in Node
      BY <1>5, <1>6
    <3> QED
      BY <1>13, <3>1
  <2>8. {alloc.nodes, alloc.contexts, alloc.lists, nodesToClean, nodesToClean2, removed}' \subseteq SUBSET Node
    <3>1. /\ alloc.nodes \in SUBSET Node /\ alloc.contexts \in SUBSET Node /\ alloc.lists \in SUBSET Node
          /\ nodesToClean \in SUBSET Node /\ R \in SUBSET Node /\ removed \in SUBSET Node
      BY <1>0 DEF LoadTypeOK
    <3>2. alloc'.nodes \in SUBSET Node /\ alloc'.contexts \in SUBSET Node /\ alloc'.lists \in SUBSET Node
      BY <1>4, <1>6, <3>1
    <3> QED
      BY <1>4, <1>5, <1>6, <3>1, <3>2
  <2>9. {exposed, twice}' \subseteq BOOLEAN
    <3>1. exposed' \in BOOLEAN
      BY <1>0, <1>4 DEF LoadTypeOK
    <3>2. twice' \in BOOLEAN
      BY <1>4
    <3> QED
      BY <3>1, <3>2
  <2> QED
    BY <1>0, <2>5, <2>6, <2>7, <2>8, <2>9 DEF LoadTypeOK
<1> QED
  BY <1>18, <1>19, <1>20, <1>21, <1>22, <1>23, <1>24 DEF LoadIInv, Linked, LinkedInv

\* The member in front of a, and what is left of a list without a.
Before(L, a) == {y \in L : y < a}

\* Taking one member out of a list.
LEMMA Without ==
    ASSUME NEW L \in SUBSET Node, NEW a \in L
    PROVE  /\ Least(L) = a <=> Before(L, a) = {}
           /\ Least(L \ {a}) = IF Before(L, a) = {} THEN Least(Later(L, a)) ELSE Least(L)
           /\ Greatest(L) = a <=> Later(L, a) = {}
           /\ Greatest(L \ {a}) = IF Later(L, a) = {} THEN Greatest(Before(L, a)) ELSE Greatest(L)
           /\ \A y \in L : Least(Later(L, y)) = a <=> Before(L, a) # {} /\ y = Greatest(Before(L, a))
           /\ \A y \in L \ {a} : Least(Later(L \ {a}, y)) =
                                   IF Least(Later(L, y)) = a THEN Least(Later(L, a)) ELSE Least(Later(L, y))
<1> DEFINE B == Before(L, a)
           A == Later(L, a)
           M == L \ {a}
<1>0. /\ \A y \in L : y \in Int /\ y \in Node
      /\ a \in Int /\ Null \notin Node
      /\ B \in SUBSET Node /\ A \in SUBSET Node /\ M \in SUBSET Node
  BY Sizes DEF Before, Later
<1>1. \A y : /\ y \in B <=> y \in L /\ y < a
             /\ y \in A <=> y \in L /\ y > a
             /\ y \in M <=> y \in L /\ y # a
             /\ \A z : y \in Later(L, z) <=> y \in L /\ y > z
             /\ \A z : y \in Later(M, z) <=> y \in L /\ y # a /\ y > z
  BY DEF Before, Later
<1>2. \A z : Later(L, z) \in SUBSET Node /\ Later(M, z) \in SUBSET Node
  BY <1>0, <1>1
<1> HIDE DEF B, A, M
<1>3. Least(L) \in L /\ \A y \in L : Least(L) <= y
  BY LeastIs
<1>4. Greatest(L) \in L /\ \A y \in L : Greatest(L) >= y
  BY GreatestIs
<1>5. Least(L) = a <=> B = {}
  <2>1. ASSUME Least(L) = a, NEW y \in B PROVE FALSE
    <3>1. y \in Int /\ y < a /\ a <= y
      BY <1>0, <1>1, <1>3, <2>1
    <3> QED
      BY <1>0, <3>1
  <2>2. ASSUME B = {} PROVE Least(L) = a
    <3>1. Least(L) \in Int /\ Least(L) <= a /\ ~(Least(L) < a)
      BY <1>0, <1>1, <1>3, <2>2
    <3> QED
      BY <1>0, <3>1
  <2> QED
    BY <2>1, <2>2
<1>6. Greatest(L) = a <=> A = {}
  <2>1. ASSUME Greatest(L) = a, NEW y \in A PROVE FALSE
    <3>1. y \in Int /\ y > a /\ a >= y
      BY <1>0, <1>1, <1>4, <2>1
    <3> QED
      BY <1>0, <3>1
  <2>2. ASSUME A = {} PROVE Greatest(L) = a
    <3>1. Greatest(L) \in Int /\ Greatest(L) >= a /\ ~(Greatest(L) > a)
      BY <1>0, <1>1, <1>4, <2>2
    <3> QED
      BY <1>0, <3>1
  <2> QED
    BY <2>1, <2>2
<1>7. Least(M) = IF B = {} THEN Least(A) ELSE Least(L)
  <2>1. CASE B = {}
    <3>1. M = A
      <4>1. \A y \in L : y # a => y > a
        <5>1. \A y \in L : ~(y < a) /\ y \in Int
          BY <1>0, <1>1, <2>1
        <5> QED
          BY <1>0, <5>1
      <4>2. ~(a > a)
        BY <1>0
      <4> QED
        BY <1>1, <4>1, <4>2
    <3> QED
      BY <2>1, <3>1
  <2>2. CASE B # {}
    <3>1. Least(L) # a
      BY <1>5, <2>2
    <3>2. Least(L) \in M /\ \A y \in M : Least(L) <= y
      BY <1>1, <1>3, <3>1
    <3> QED
      BY <1>0, <2>2, <3>2, LeastIs
  <2> QED
    BY <2>1, <2>2
<1>8. Greatest(M) = IF A = {} THEN Greatest(B) ELSE Greatest(L)
  <2>1. CASE A = {}
    <3>1. M = B
      <4>1. \A y \in L : y # a => y < a
        <5>1. \A y \in L : ~(y > a) /\ y \in Int
          BY <1>0, <1>1, <2>1
        <5> QED
          BY <1>0, <5>1
      <4>2. ~(a < a)
        BY <1>0
      <4> QED
        BY <1>1, <4>1, <4>2
    <3> QED
      BY <2>1, <3>1
  <2>2. CASE A # {}
    <3>1. Greatest(L) # a
      BY <1>6, <2>2
    <3>2. Greatest(L) \in M /\ \A y \in M : Greatest(L) >= y
      BY <1>1, <1>4, <3>1
    <3> QED
      BY <1>0, <2>2, <3>2, GreatestIs
  <2> QED
    BY <2>1, <2>2
<1>9. ASSUME NEW y \in L PROVE Least(Later(L, y)) = a <=> B # {} /\ y = Greatest(B)
  <2>0. y \in Int /\ Later(L, y) \in SUBSET Node
    BY <1>0, <1>2
  <2>1. ASSUME Least(Later(L, y)) = a PROVE B # {} /\ y = Greatest(B)
    <3>1. Later(L, y) # {}
      BY <1>0, <2>1, LeastIs
    <3>2. a \in Later(L, y) /\ \A z \in Later(L, y) : a <= z
      BY <2>0, <2>1, <3>1, LeastIs
    <3>3. y < a
      BY <1>0, <1>1, <2>0, <3>2
    <3>4. y \in B
      BY <1>1, <3>3
    <3>5. ASSUME NEW z \in B PROVE y >= z
      <4>1. z \in L /\ z \in Int /\ z < a
        BY <1>0, <1>1
      <4>2. z > y => a <= z
        BY <1>1, <3>2, <4>1
      <4> QED
        BY <1>0, <2>0, <4>1, <4>2
    <3> QED
      BY <1>0, <3>4, <3>5, GreatestIs
  <2>2. ASSUME B # {}, y = Greatest(B) PROVE Least(Later(L, y)) = a
    <3>1. y \in B /\ \A z \in B : y >= z
      BY <1>0, <2>2, GreatestIs
    <3>2. a \in Later(L, y)
      <4>1. y < a
        BY <1>1, <3>1
      <4>2. a > y
        BY <1>0, <2>0, <4>1
      <4> QED
        BY <1>1, <4>2
    <3>3. ASSUME NEW z \in Later(L, y) PROVE a <= z
      <4>1. z \in L /\ z \in Int /\ z > y
        BY <1>0, <1>1
      <4>2. z < a => y >= z
        BY <1>1, <3>1, <4>1
      <4> QED
        BY <1>0, <2>0, <4>1, <4>2
    <3> QED
      BY <2>0, <3>2, <3>3, LeastIs
  <2> QED
    BY <2>1, <2>2
<1>10. ASSUME NEW y \in M
       PROVE  Least(Later(M, y)) = IF Least(Later(L, y)) = a THEN Least(A) ELSE Least(Later(L, y))
  <2>0. y \in L /\ y # a /\ y \in Int /\ Later(L, y) \in SUBSET Node /\ Later(M, y) \in SUBSET Node
    BY <1>0, <1>1, <1>2
  <2>1. CASE Least(Later(L, y)) = a
    <3>1. Later(L, y) # {}
      BY <1>0, <2>1, LeastIs
    <3>2. a \in Later(L, y) /\ \A z \in Later(L, y) : a <= z
      BY <2>0, <2>1, <3>1, LeastIs
    <3>3. ASSUME NEW z PROVE z \in Later(M, y) <=> z \in A
      <4>1. z \in L /\ z > y => z \in Int /\ a <= z
        BY <1>0, <1>1, <3>2
      <4>2. z \in L /\ z > a => z > y
        <5>1. a > y
          BY <1>1, <3>2
        <5>2. z \in L => z \in Int
          BY <1>0
        <5> QED
          BY <1>0, <2>0, <5>1, <5>2
      <4>3. z \in L /\ z > a => z # a
        BY <1>0
      <4>4. z \in L /\ z > y /\ z # a => z > a
        BY <1>0, <4>1
      <4> QED
        BY <1>1, <4>2, <4>3, <4>4
    <3>4. Later(M, y) = A
      BY <3>3
    <3> QED
      BY <2>1, <3>4
  <2>2. CASE Least(Later(L, y)) # a
    <3>1. CASE Later(L, y) = {}
      <4>1. Later(M, y) = {}
        BY <1>1, <3>1
      <4> QED
        BY <2>2, <3>1, <4>1
    <3>2. CASE Later(L, y) # {}
      <4>1. Least(Later(L, y)) \in Later(L, y) /\ \A z \in Later(L, y) : Least(Later(L, y)) <= z
        BY <2>0, <3>2, LeastIs
      <4>2. Least(Later(L, y)) \in Later(M, y)
        BY <1>1, <2>2, <4>1
      <4>3. \A z \in Later(M, y) : Least(Later(L, y)) <= z
        BY <1>1, <4>1
      <4> QED
        BY <2>0, <2>2, <4>2, <4>3, LeastIs
    <3> QED
      BY <3>1, <3>2
  <2> QED
    BY <2>1, <2>2
<1> QED
  BY <1>5, <1>6, <1>7, <1>8, <1>9, <1>10 DEF B, A, M

\* The sibling in front of an association is the member in front of it.
LEMMA PrevIs ==
    ASSUME doc \in Feeds, LinkedInv, NEW a \in associationsToInitialize
    PROVE  Prev(a) = Greatest(Before(ListOf(parent[a]), a))
<1> DEFINE P == parent[a]
           L == ListOf(P)
           B == Before(L, a)
<1> USE DEF LinkedInv
<1>1. TurnFacts(a) /\ HereFacts /\ ListFacts
  BY TurnIs, HereIs, ListIs
<1>2. L \in SUBSET Node /\ a \in L /\ children[P] = Least(L) /\ P \in Here \ Inside /\ a \in Node
  BY <1>1 DEF TurnFacts, ListFacts
<1>3. /\ Least(L) = a <=> B = {}
      /\ \A y \in L : Least(Later(L, y)) = a <=> B # {} /\ y = Greatest(B)
  BY <1>2, Without
<1>4. CASE B = {}
  <2>1. Prev(a) = Null
    BY <1>2, <1>3, <1>4 DEF Prev
  <2> QED
    BY <1>4, <2>1, GreatestIs
<1>5. CASE B # {}
  <2> DEFINE g == Greatest(B)
  <2>1. g \in L
    <3>1. B \in SUBSET Node /\ B \subseteq L
      BY <1>2 DEF Before
    <3> QED
      BY <1>5, <3>1, GreatestIs
  <2>2. \A y \in L : next[y] = Least(Later(L, y)) /\ parent[y] = P
    BY <1>2, FirstOrNull
  <2>3. L \subseteq alloc.nodes
    <3>1. \A y \in L : y \in Here \/ \E b \in nodesToClean2 : y = Pointer(b)
      BY <1>1 DEF ListFacts
    <3> QED
      BY <3>1 DEF Allocated
  <2>4. g \in alloc.nodes /\ next[g] = a /\ parent[g] = P
    BY <1>3, <1>5, <2>1, <2>2, <2>3
  <2>5. ASSUME NEW y \in alloc.nodes, next[y] = a, parent[y] = P PROVE y = g
    <3>1. y \in L
      <4>1. y # 0
        BY <1>2, <2>5, Sizes DEF Lists
      <4>2. ASSUME NEW n \in Inside, y = Text(n) PROVE FALSE
        BY <1>2, <2>5, <4>2 DEF Lists, TextAt
      <4>3. CASE y \in Here
        <5>1. y \in ListOf(doc.parent[y]) /\ doc.parent[y] \in {0} \cup Here
          BY <1>1, <4>3 DEF ListFacts, HereFacts
        <5>2. parent[y] = doc.parent[y]
          BY <5>1, FirstOrNull
        <5> QED
          BY <2>5, <5>1, <5>2
      <4>4. ASSUME NEW b \in nodesToClean2, y = Pointer(b) PROVE y \in L
        <5>1. y \in ListOf(doc.link[b]) /\ doc.link[b] \in {0} \cup Here
          BY <1>1, <4>4 DEF ListFacts, HereFacts
        <5>2. parent[y] = doc.link[b]
          BY <5>1, FirstOrNull
        <5> QED
          BY <2>5, <5>1, <5>2
      <4> QED
        BY <4>1, <4>2, <4>3, <4>4 DEF Allocated
    <3> QED
      BY <1>3, <2>2, <2>5, <3>1
  <2>6. children[P] # a
    BY <1>2, <1>3, <1>5
  <2>7. Prev(a) = CHOOSE y \in alloc.nodes : next[y] = a /\ parent[y] = P
    BY <2>6 DEF Prev
  <2> HIDE DEF g, P
  <2>8. (CHOOSE y \in alloc.nodes : next[y] = a /\ parent[y] = P) = g
    BY <2>4, <2>5
  <2> QED
    BY <2>7, <2>8 DEF g, P
<1> QED
  BY <1>4, <1>5

\* initializeAssociation of an association that names no node.
LEMMA DiscardLinked ==
    ASSUME LoadIInv, phase = "linking", NEW a \in associationsToInitialize,
           \A q \in associationsToInitialize : a <= q,
           Discard(a),
           associationsToInitialize' = associationsToInitialize \ {a},
           doc' = doc, phase' = phase, nodes' = nodes
    PROVE  LoadIInv'
<1> DEFINE P == parent[a]
           L == ListOf(P)
           R == nodesToClean2
           C == {a} \cup Held(a)
           g == Prev(a)
<1>0. doc \in Feeds /\ LoadTypeOK /\ LinkedInv /\ ~twice
  BY DEF LoadIInv, Linked, LoadTypeOK
<1>1. TurnFacts(a) /\ BelowFacts(a) /\ HereFacts /\ ListFacts
  BY <1>0, TurnIs, BelowIs, HereIs, ListIs DEF LinkedInv
<1>2. Tree(a) = {a, Text(a)} \cup Below(a)
  BY <1>0, BelowReached DEF LinkedInv
<1>3. /\ children' = IF children[P] = a THEN [children EXCEPT ![P] = next[a]] ELSE children
      /\ last' = IF last[P] = a THEN [last EXCEPT ![P] = g] ELSE last
      /\ next' = IF g = Null THEN next ELSE [next EXCEPT ![g] = next[a]]
      /\ alloc' = [nodes |-> alloc.nodes \ Tree(a), contexts |-> alloc.contexts \ {a},
                   lists |-> alloc.lists \ {properties[x] : x \in Tree(a)}]
      /\ twice' = (twice \/ Again(Tree(a)))
      /\ removed' = removed \cup {a}
      /\ exposed' = (exposed \/ IsShared(P))
      /\ parent' = parent /\ properties' = properties /\ _private' = _private /\ pointerNodes' = pointerNodes
      /\ nodesToClean' = nodesToClean /\ nodesToClean2' = R
  BY DEF Discard
<1>4. /\ D \subseteq Node /\ 0 \notin D /\ 0 \in Node /\ Here \subseteq D /\ R \subseteq D /\ R \subseteq Inside /\ Inside \subseteq Here
      /\ a \in D /\ P \in D /\ a # P /\ a \in Node /\ P \in Node /\ P \in Here \ Inside /\ a \in L /\ a \notin R
      /\ children[P] = Least(L) /\ Null \notin Node
      /\ \A x \in D : Text(x) \in Node /\ Text(x) \notin D /\ Text(x) # 0
      /\ \A b \in D : Pointer(b) \in Node /\ Pointer(b) \notin D /\ Pointer(b) # 0
      /\ \A x, b \in D : Text(x) # Pointer(b)
  <2>1. /\ D \subseteq Node /\ 0 \notin D /\ 0 \in Node /\ Here \subseteq D /\ R \subseteq D /\ R \subseteq Inside /\ Inside \subseteq Here
        /\ a \in D /\ P \in D /\ a # P /\ a \in Node /\ P \in Node /\ P \in Here \ Inside /\ a \in L /\ a \notin R
        /\ children[P] = Least(L) /\ Null \notin Node
    BY <1>0, <1>1, Numbers, Sizes DEF HereFacts, TurnFacts
  <2>2. /\ \A x \in D : Text(x) \in Node /\ Text(x) \notin D /\ Text(x) # 0
        /\ \A b \in D : Pointer(b) \in Node /\ Pointer(b) \notin D /\ Pointer(b) # 0
        /\ \A x, b \in D : Text(x) # Pointer(b)
    BY <1>0, Numbers
  <2> QED
    BY <2>1, <2>2
<1>5. \A x : ListOf(x) \in SUBSET Node /\ \A y \in ListOf(x) : y # 0 /\ (\A z \in D : y # Text(z))
  <2> SUFFICES ASSUME NEW x, NEW y \in ListOf(x) PROVE y # 0 /\ (\A z \in D : y # Text(z))
    BY <1>1 DEF ListFacts
  <2>1. CASE y \in Here
    BY <1>4, <2>1
  <2>2. ASSUME NEW b \in R, y = Pointer(b) PROVE y # 0 /\ (\A z \in D : y # Text(z))
    BY <1>4, <2>2
  <2> QED
    BY <1>1, <2>1, <2>2 DEF ListFacts
<1>6. /\ L \in SUBSET Node /\ g = Greatest(Before(L, a)) /\ last[P] = Greatest(L)
      /\ \A y \in L : next[y] = Least(Later(L, y)) /\ parent[y] = P
  <2>1. ListAt(P) /\ EndAt(P)
    BY <1>0, <1>4 DEF LinkedInv, Lists
  <2> QED
    BY <1>0, <1>4, <1>5, <2>1, PrevIs DEF ListAt, EndAt
<1>7. /\ Least(L) = a <=> Before(L, a) = {}
      /\ Least(L \ {a}) = IF Before(L, a) = {} THEN Least(Later(L, a)) ELSE Least(L)
      /\ Greatest(L) = a <=> Later(L, a) = {}
      /\ Greatest(L \ {a}) = IF Later(L, a) = {} THEN Greatest(Before(L, a)) ELSE Greatest(L)
      /\ \A y \in L : Least(Later(L, y)) = a <=> Before(L, a) # {} /\ y = Greatest(Before(L, a))
      /\ \A y \in L \ {a} : Least(Later(L \ {a}, y)) =
                              IF Least(Later(L, y)) = a THEN Least(Later(L, a)) ELSE Least(Later(L, y))
  BY <1>4, <1>6, Without
<1>8. (g = Null <=> Before(L, a) = {}) /\ g \in L \cup {Null}
  <2>1. Before(L, a) \in SUBSET Node /\ Before(L, a) \subseteq L
    BY <1>6 DEF Before
  <2> QED
    BY <1>4, <1>6, <2>1, GreatestIs
<1>9. /\ D' = D /\ Ancestors' = Ancestors /\ Built' = Built /\ Left' = Left
      /\ Elements' = Elements /\ Associations(doc)' = Associations(doc)
      /\ (\A x : Kids(x)' = Kids(x)) /\ \A i : Registered(i)' = Registered(i)
  BY SameDoc
<1>10. Here' = Here \ C /\ Inside' = Inside \ C /\ C \subseteq Here
  <2>1. Here' = Here \ C
    BY <1>3, <1>9 DEF Here, Held
  <2> QED
    BY <1>1, <1>9, <2>1 DEF Inside, BelowFacts
<1>11. ASSUME NEW x \in {0} \cup Here'
       PROVE  /\ ListOf(x)' = IF x = P THEN L \ {a} ELSE ListOf(x)
              /\ x \in {0} \cup Here /\ x \in Node /\ x # a /\ (x \in Inside' <=> x \in Inside)
  <2>1. x \in {0} \cup Here /\ x \notin C /\ (x \in Inside' <=> x \in Inside)
    <3>1. 0 \notin C
      BY <1>4, <1>10
    <3> QED
      BY <1>10, <3>1
  <2>2. x \in Node /\ x # a
    BY <1>4, <2>1
  <2>3. \A y : y \in ListOf(x)' <=> \/ y \in Here /\ y \notin C /\ doc.parent[y] = x
                               \/ \E b \in R : y = Pointer(b) /\ doc.link[b] = x
    BY <1>3, <1>10 DEF ListOf, Pointer
  <2>4. \A y : y \in ListOf(x) <=> \/ y \in Here /\ doc.parent[y] = x
                              \/ \E b \in R : y = Pointer(b) /\ doc.link[b] = x
    BY DEF ListOf
  <2>5. \A y \in Held(a) : doc.parent[y] # x
    BY <1>1, <2>1 DEF BelowFacts
  <2>6. doc.parent[a] = P
    BY <1>1 DEF TurnFacts
  <2>7. CASE x = P
    <3>1. \A y : y \in ListOf(x)' <=> y \in ListOf(x) /\ y # a
      <4>1. \A b \in R : Pointer(b) # a
        BY <1>4
      <4> QED
        BY <2>3, <2>4, <2>5, <4>1
    <3> QED
      BY <2>1, <2>2, <2>7, <3>1
  <2>8. CASE x # P
    <3>1. \A y : y \in ListOf(x)' <=> y \in ListOf(x)
      BY <2>3, <2>4, <2>5, <2>6, <2>8
    <3> QED
      BY <2>1, <2>2, <2>8, <3>1
  <2> QED
    BY <2>7, <2>8
<1>12. \A x \in Node : /\ children'[x] = IF x = P /\ Least(L) = a THEN Least(Later(L, a)) ELSE children[x]
                       /\ last'[x] = IF x = P /\ Greatest(L) = a THEN g ELSE last[x]
                       /\ next'[x] = IF g # Null /\ x = g THEN Least(Later(L, a)) ELSE next[x]
  <2>1. next[a] = Least(Later(L, a))
    BY <1>4, <1>6
  <2>2. children \in [Node -> NodeOrNull] /\ last \in [Node -> NodeOrNull] /\ next \in [Node -> NodeOrNull]
    BY <1>0 DEF LoadTypeOK
  <2> HIDE DEF g, L, P
  <2> QED
    BY <1>3, <1>4, <1>6, <2>1, <2>2
<1>13. ASSUME NEW x \in {0} \cup Here' PROVE ListAt(x)'
  <2>1. x \in {0} \cup Here /\ x \in Node /\ (x \in Inside' <=> x \in Inside)
    BY <1>11
  <2>2. ListAt(x)
    BY <1>0, <2>1 DEF LinkedInv, Lists
  <2>3. CASE x = P
    <3>1. ListOf(x)' = L \ {a} /\ x \notin Inside'
      BY <1>4, <1>11, <2>1, <2>3
    <3>2. children'[x] = Least(L \ {a})
      BY <1>4, <1>7, <1>12, <2>1, <2>3
    <3>3. ASSUME NEW y \in L \ {a} PROVE next'[y] = Least(Later(L \ {a}, y)) /\ parent'[y] = P
      <4>1. y \in Node /\ next[y] = Least(Later(L, y)) /\ parent[y] = P
        BY <1>6
      <4>2. (g # Null /\ y = g) <=> Least(Later(L, y)) = a
        BY <1>6, <1>7, <1>8
      <4> QED
        BY <1>3, <1>7, <1>12, <4>1, <4>2
    <3>4. \A y \in ListOf(x)' : next'[y] = Least(Later(ListOf(x)', y)) /\ parent'[y] = x
      BY <2>3, <3>1, <3>3
    <3> QED
      BY <3>1, <3>2, <3>4 DEF ListAt, Later, Least, Null
  <2>4. CASE x # P
    <3>1. ListOf(x)' = ListOf(x) /\ ListOf(x) \in SUBSET Node
      BY <1>5, <1>11, <2>4
    <3>2. children'[x] = IF x \in Inside' THEN Text(x) ELSE Least(ListOf(x)')
      BY <1>12, <2>1, <2>2, <2>4, <3>1 DEF ListAt
    <3>3. ASSUME NEW y \in ListOf(x) PROVE next'[y] = Least(Later(ListOf(x), y)) /\ parent'[y] = x
      <4>1. y \in Node /\ y \notin L
        BY <1>1, <2>4, <3>1 DEF ListFacts
      <4>2. next[y] = Least(Later(ListOf(x), y)) /\ parent[y] = x
        BY <2>2 DEF ListAt
      <4> QED
        BY <1>3, <1>8, <1>12, <4>1, <4>2
    <3>4. \A y \in ListOf(x)' : next'[y] = Least(Later(ListOf(x)', y)) /\ parent'[y] = x
      BY <3>1, <3>3
    <3> QED
      BY <3>2, <3>4 DEF ListAt, Text, Least, Null, Later
  <2> QED
    BY <2>3, <2>4
<1>14. ASSUME NEW x \in {0} \cup Here' PROVE EndAt(x)'
  <2>1. x \in {0} \cup Here /\ x \in Node /\ (x \in Inside' <=> x \in Inside)
    BY <1>11
  <2>2. EndAt(x)
    BY <1>0, <2>1 DEF LinkedInv, Lists
  <2>3. CASE x = P
    <3>1. ListOf(x)' = L \ {a} /\ x \notin Inside'
      BY <1>4, <1>11, <2>1, <2>3
    <3>2. last'[x] = Greatest(L \ {a})
      BY <1>6, <1>7, <1>12, <2>1, <2>3
    <3> QED
      BY <3>1, <3>2 DEF EndAt, Greatest, Null
  <2>4. CASE x # P
    <3>1. ListOf(x)' = ListOf(x) /\ last'[x] = last[x]
      BY <1>11, <1>12, <2>1, <2>4
    <3> QED
      BY <1>3, <2>1, <2>2, <3>1 DEF EndAt, Text, Greatest, Null
  <2> QED
    BY <2>3, <2>4
<1>15. \A x \in D : next'[Text(x)] = next[Text(x)] /\ children'[Text(x)] = children[Text(x)] /\ last'[Text(x)] = last[Text(x)]
  <2> SUFFICES ASSUME NEW x \in D PROVE next'[Text(x)] = next[Text(x)] /\ children'[Text(x)] = children[Text(x)] /\ last'[Text(x)] = last[Text(x)]
    OBVIOUS
  <2>1. Text(x) \in Node /\ Text(x) # P /\ Text(x) \notin L
    BY <1>4, <1>5
  <2>2. g # Null => Text(x) # g
    BY <1>8, <2>1
  <2> QED
    BY <1>12, <2>1, <2>2
<1>16. ASSUME NEW x \in Inside' PROVE TextAt(x)'
  <2>1. x \in Inside /\ x \in D /\ x \in Here' /\ x # P
    BY <1>4, <1>10
  <2>2. TextAt(x) /\ ListOf(x)' = ListOf(x)
    BY <1>0, <1>11, <2>1 DEF LinkedInv, Lists
  <2> QED
    BY <1>3, <1>15, <2>1, <2>2 DEF TextAt, Text, Null, Least
<1>17. Lists'
  <2>1. next'[0] = Null
    <3>1. 0 \notin L
      BY <1>5
    <3>2. g # Null => 0 # g
      BY <1>8, <3>1
    <3> QED
      BY <1>0, <1>4, <1>12, <3>2 DEF LinkedInv, Lists
  <2>2. ASSUME NEW q \in associationsToInitialize' PROVE next'[Pointer(q)] = Null
    <3>1. q \in associationsToInitialize /\ q # a /\ q \in D
      BY <1>0, LeftIs DEF LinkedInv, Progress
    <3>2. next[Pointer(q)] = Null /\ Pointer(q) \in Node
      BY <1>0, <1>4, <3>1 DEF LinkedInv, Lists
    <3>3. Pointer(q) \notin L
      <4>1. q \notin R /\ \A b \in R : Pointer(b) = Pointer(q) => b = q
        <5>1. BelowFacts(q)
          BY <1>0, <3>1, BelowIs DEF LinkedInv
        <5>2. \A b \in R : Pointer(b) = Pointer(q) => b = q
          BY <1>0, <1>4, <3>1, Numbers
        <5> QED
          BY <5>1, <5>2 DEF BelowFacts
      <4> QED
        BY <1>1, <1>4, <3>1, <4>1 DEF ListFacts
    <3>4. g # Null => Pointer(q) # g
      BY <1>8, <3>3
    <3> QED
      BY <1>12, <3>2, <3>4
  <2>3. (\A q \in associationsToInitialize : next[Pointer(q)] = Null)'
    BY <2>2 DEF Pointer, Null
  <2> QED
    BY <1>13, <1>14, <1>16, <2>1, <2>3 DEF Lists, Null
<1>18. Progress'
  <2>1. associationsToInitialize' \cup R \cup (removed \cup {a}) = Built \cap Associations(doc)
    BY <1>0 DEF LinkedInv, Progress
  <2>2. (removed \cup {a}) \cap R = {}
    BY <1>0, <1>1 DEF LinkedInv, Progress, TurnFacts
  <2>3. ASSUME NEW q \in associationsToInitialize', NEW b \in R \cup (removed \cup {a}) PROVE b < q
    <3>1. q \in associationsToInitialize /\ q # a /\ a <= q /\ q \in D
      BY <1>0, LeftIs DEF LinkedInv, Progress
    <3>2. a < q
      <4>1. q \in Int /\ a \in Int
        BY <1>4, <3>1, Sizes
      <4> QED
        BY <3>1, <4>1
    <3> QED
      BY <1>0, <3>1, <3>2 DEF LinkedInv, Progress
  <2>4. nodes' = [i \in 0..MaxSize |-> Registered(i)']
    BY <1>0, <1>9 DEF LinkedInv, Progress
  <2>5. /\ nodesToClean = {Pointer(b) : b \in R}
        /\ pointerNodes = [x \in Node |-> {Pointer(b) : b \in {b \in R : doc.parent[b] = x}}]
        /\ \A b \in R : doc.link[b] \in Built /\ doc.kind[doc.link[b]] = "item"
    BY <1>0 DEF LinkedInv, Progress
  <2>6. \A b \in R : Found(b)' = doc.link[b]
    <3>1. \A b : Found(b)' = Found(b)
      BY DEF Found, Null
    <3> QED
      BY <1>0, <3>1 DEF LinkedInv, Progress
  <2> QED
    BY <1>3, <1>9, <2>1, <2>2, <2>3, <2>4, <2>5, <2>6 DEF Progress, Pointer
<1>19. Allocated'
  <2>1. alloc'.nodes = {0} \cup (Here \ C) \cup {Text(n) : n \in Inside \ C} \cup {Pointer(b) : b \in R}
    <3>1. alloc'.nodes = alloc.nodes \ Tree(a)
      BY <1>3
    <3>2. alloc.nodes = {0} \cup Here \cup {Text(n) : n \in Inside} \cup {Pointer(b) : b \in R}
      BY <1>0 DEF LinkedInv, Allocated
    <3>3. Tree(a) = C \cup {Text(n) : n \in C \cap Inside}
      <4>1. a \in Inside
        BY <1>1 DEF TurnFacts
      <4>2. Tree(a) = {a, Text(a)} \cup (Held(a) \cup {Text(n) : n \in Held(a) \cap Inside})
        BY <1>2 DEF Below
      <4> QED
        BY <4>1, <4>2
    <3>4. \A n, m \in Inside : Text(n) = Text(m) => n = m
      BY <1>0, <1>4, Numbers
    <3>5. /\ \A n \in Inside : Text(n) \notin Here /\ Text(n) # 0 /\ \A b \in R : Text(n) # Pointer(b)
          /\ \A b \in R : Pointer(b) \notin Here
          /\ 0 \notin Here
      BY <1>4
    <3>6. C \subseteq Here
      BY <1>10
    <3> HIDE DEF C, R
    <3>7. ASSUME NEW z PROVE z \in alloc'.nodes <=> z \in {0} \cup (Here \ C) \cup {Text(n) : n \in Inside \ C} \cup {Pointer(b) : b \in R}
      <4>1. CASE \E n \in Inside : z = Text(n)
        <5>1. PICK n \in Inside : z = Text(n)
          BY <4>1
        <5>2. z \in Tree(a) <=> n \in C
          BY <3>3, <3>4, <3>5, <3>6, <5>1
        <5>3. z \in {Text(m) : m \in Inside \ C} <=> n \notin C
          BY <3>4, <5>1
        <5> QED
          BY <3>1, <3>2, <3>5, <5>1, <5>2, <5>3
      <4>2. CASE ~ \E n \in Inside : z = Text(n)
        <5>1. z \in Tree(a) <=> z \in C
          BY <3>3, <4>2
        <5>2. z \in alloc.nodes <=> z = 0 \/ z \in Here \/ z \in {Pointer(b) : b \in R}
          BY <3>2, <4>2
        <5>3. z \notin {Text(m) : m \in Inside \ C}
          BY <4>2
        <5> QED
          BY <3>1, <3>5, <3>6, <5>1, <5>2, <5>3
      <4> QED
        BY <4>1, <4>2
    <3> QED
      BY <3>7
  <2>2. alloc'.contexts = Built \ ((removed \cup {a}) \cup R)
    BY <1>0, <1>3 DEF LinkedInv, Allocated
  <2>3. alloc'.lists = ((Here \ C) \cap Elements) \ R
    <3>1. alloc'.lists = alloc.lists \ {properties[x] : x \in Tree(a)}
      BY <1>3
    <3>2. alloc.lists = (Here \cap Elements) \ R
      BY <1>0 DEF LinkedInv, Allocated
    <3>3. {properties[x] : x \in Below(a)} \ {Null} = Held(a) \cap Elements /\ properties[a] = a
      BY <1>1 DEF TurnFacts
    <3>4. properties[Text(a)] = Null
      BY <1>0, <1>1 DEF TurnFacts, LinkedInv, Lists, TextAt
    <3>5. {properties[x] : x \in Tree(a)} = {properties[x] : x \in Below(a)} \cup {a, Null}
      BY <1>2, <3>3, <3>4
    <3>6. Null \notin Here
      BY <1>4
    <3> QED
      BY <3>1, <3>2, <3>3, <3>5, <3>6
  <2> QED
    BY <1>3, <1>9, <1>10, <2>1, <2>2, <2>3 DEF Allocated, Text, Pointer
<1>20. Own'
  <2>1. \A x \in Here' \ nodesToClean2' : OwnAt(x)
    BY <1>0, <1>3, <1>10 DEF LinkedInv, Own
  <2>2. \A x : OwnAt(x) => OwnAt(x)'
    BY <1>3, <1>9 DEF OwnAt, Null
  <2>3. \A b \in R : SharedAt(b)'
    BY <1>0, <1>3 DEF LinkedInv, Own, SharedAt, Pointer
  <2>4. _private'[0] = Null /\ properties'[0] = Null
    BY <1>0, <1>3 DEF LinkedInv, Own
  <2> QED
    BY <1>3, <2>1, <2>2, <2>3, <2>4 DEF Own, Null
<1>21. Sharing'
  <2> SUFFICES ASSUME ~exposed', NEW b \in R PROVE SameLists(b)'
    BY <1>3 DEF Sharing
  <2> DEFINE Pb == doc.parent[b]
             Tb == doc.link[b]
  <2>1. SameLists(b)
    BY <1>0, <1>3 DEF LinkedInv, Sharing
  <2>2. Pb # P /\ Tb # P
    <3>1. pointerNodes[P] = {} /\ doc.link[b] # P
      BY <1>3 DEF IsShared
    <3>2. pointerNodes[P] = {Pointer(c) : c \in {c \in R : doc.parent[c] = P}}
      BY <1>0, <1>4 DEF LinkedInv, Progress
    <3> QED
      BY <3>1, <3>2
  <2>3. Pb \in Here \ Inside /\ Tb \in Here \ Inside /\ Pb \in Node /\ Tb \in Node /\ b \in D /\ b \in Node
    BY <1>1, <1>4 DEF HereFacts
  <2>4. Pointer(b) \in Node /\ Pointer(b) # P /\ b # P
    BY <1>4, <2>3
  <2>5. /\ children'[Pb] = children[Pb] /\ children'[Tb] = children[Tb] /\ children'[Pointer(b)] = children[Pointer(b)]
        /\ last'[Pb] = last[Pb] /\ last'[Pointer(b)] = last[Pointer(b)] /\ last'[b] = last[b]
    BY <1>12, <2>2, <2>3, <2>4
  <2>6. next'[Text(b)] = next[Text(b)]
    BY <1>15, <2>3
  <2>7. ListOf(Tb)' = ListOf(Tb)
    <3>1. Tb \in Here'
      <4>1. Tb \in Built /\ Built \cap Held(a) = {} /\ a \in Inside
        BY <1>1 DEF HereFacts, BelowFacts
      <4> QED
        BY <1>10, <2>3, <4>1
    <3> QED
      BY <1>11, <2>2, <3>1
  <2>8. Blind(b)' <=> Blind(b)
    <3>1. a \notin Kids(Tb)
      BY <1>1, <2>2 DEF TurnFacts, Kids
    <3> QED
      BY <1>3, <1>9, <3>1 DEF Blind
  <2> QED
    BY <2>1, <2>5, <2>6, <2>7, <2>8 DEF SameLists, Pointer, Text, Null
<1>22. ~twice'
  <2>1. Tree(a) \subseteq alloc.nodes
    BY <1>1, <1>2 DEF TurnFacts
  <2>2. {properties[x] : x \in Tree(a)} \ {Null} \subseteq alloc.lists
    <3>1. {properties[x] : x \in Below(a)} \ {Null} \subseteq alloc.lists /\ properties[a] \in alloc.lists
      BY <1>1 DEF TurnFacts
    <3>2. properties[Text(a)] = Null
      BY <1>0, <1>1 DEF TurnFacts, LinkedInv, Lists, TextAt
    <3> QED
      BY <1>2, <3>1, <3>2
  <2> QED
    BY <1>0, <1>3, <2>1, <2>2 DEF Again
<1>23. LoadTypeOK'
  <2>0. /\ children \in [Node -> NodeOrNull] /\ next \in [Node -> NodeOrNull] /\ last \in [Node -> NodeOrNull]
        /\ parent \in [Node -> NodeOrNull] /\ properties \in [Node -> NodeOrNull] /\ _private \in [Node -> NodeOrNull]
    BY <1>0 DEF LoadTypeOK
  <2>1. next[a] \in NodeOrNull /\ g \in NodeOrNull
    <3>1. L \subseteq Node
      BY <1>6
    <3>2. L \cup {Null} \subseteq NodeOrNull
      BY <3>1 DEF NodeOrNull
    <3> QED
      BY <1>4, <1>8, <2>0, <3>2
  <2>2. children' \in [Node -> NodeOrNull] /\ next' \in [Node -> NodeOrNull] /\ last' \in [Node -> NodeOrNull]
    <3> HIDE DEF g, P
    <3> QED
      BY <1>3, <2>0, <2>1
  <2>3. (\A f \in {children, next, last, parent, properties, _private} : f \in [Node -> NodeOrNull])'
    BY <1>3, <2>0, <2>2
  <2>4. nodes' \in [0..MaxSize -> NodeOrNull] /\ associationsToInitialize' \in SUBSET Node /\ pointerNodes' \in [Node -> SUBSET Node]
    BY <1>0, <1>3 DEF LoadTypeOK
  <2>5. {alloc.nodes, alloc.contexts, alloc.lists, nodesToClean, nodesToClean2, removed}' \subseteq SUBSET Node
    <3>1. /\ alloc.nodes \in SUBSET Node /\ alloc.contexts \in SUBSET Node /\ alloc.lists \in SUBSET Node
          /\ nodesToClean \in SUBSET Node /\ R \in SUBSET Node /\ removed \in SUBSET Node
      BY <1>0 DEF LoadTypeOK
    <3>2. alloc'.nodes \in SUBSET Node /\ alloc'.contexts \in SUBSET Node /\ alloc'.lists \in SUBSET Node
      BY <1>3, <3>1
    <3>3. removed' \in SUBSET Node
      BY <1>3, <1>4, <3>1
    <3> QED
      BY <1>3, <3>1, <3>2, <3>3
  <2>6. {exposed, twice}' \subseteq BOOLEAN
    <3>1. exposed' \in BOOLEAN /\ twice' \in BOOLEAN
      BY <1>3
    <3> QED
      BY <3>1
  <2> QED
    BY <1>0, <2>3, <2>4, <2>5, <2>6 DEF LoadTypeOK
<1> QED
  BY <1>17, <1>18, <1>19, <1>20, <1>21, <1>22, <1>23 DEF LoadIInv, Linked, LinkedInv

\* What the destructor makes of the pointers before it frees anything.
Undone(f, S) == [x \in Node |-> IF x \in S THEN Null ELSE f[x]]
OwnChildren == Undone(children, nodesToClean)
OwnNext == Undone(next, Cut)
Shares == nodesToClean \cup nodesToClean2

\* Children are Text(x) or the first of x's list, a next is a later one of the
\* same list or, at the text of an association, the first of its list.
ChildOf(x) ==
    /\ x \in {0} \cup Here
    /\ \/ x \in Inside /\ OwnChildren[x] = Text(x)
       \/ x \notin Inside /\ OwnChildren[x] = Least(ListOf(x)) /\ OwnChildren[x] \in ListOf(x)
NextIn(y) ==
    \/ \E x \in {0} \cup Here : y \in ListOf(x) /\ OwnNext[y] = Least(Later(ListOf(x), y)) /\ OwnNext[y] \in Later(ListOf(x), y)
    \/ \E x \in Inside \ nodesToClean2 : y = Text(x) /\ OwnNext[y] = Least(ListOf(x)) /\ OwnNext[y] \in ListOf(x)

UndoneFacts ==
    /\ OwnChildren \in [Node -> NodeOrNull] /\ OwnNext \in [Node -> NodeOrNull]
    /\ \A x \in alloc.nodes : OwnChildren[x] # Null => ChildOf(x)
    /\ \A y \in alloc.nodes : OwnNext[y] # Null => NextIn(y)
    /\ \A x \in Inside : OwnChildren[x] = Text(x)
    /\ \A x \in ({0} \cup Here) \ Inside : OwnChildren[x] = Least(ListOf(x))
    /\ \A x \in Inside \ nodesToClean2 : OwnNext[Text(x)] = Least(ListOf(x))
    /\ \A x \in {0} \cup Here : \A y \in ListOf(x) : OwnNext[y] = Least(Later(ListOf(x), y))

\* Where the nodes that are allocated are.
Placed ==
    /\ alloc.nodes \subseteq Node /\ 0 \in alloc.nodes /\ 0 \notin Here /\ Here \subseteq alloc.nodes
    /\ \A x : ListOf(x) \subseteq alloc.nodes /\ ListOf(x) \in SUBSET Node
    /\ \A x \in Inside : Text(x) \in alloc.nodes /\ Text(x) \in Node /\ Text(x) \notin {0} \cup Here /\ Text(x) > x
    /\ \A x, z \in Inside : Text(x) = Text(z) => x = z
    /\ \A x \in Inside : Text(x) \notin nodesToClean /\ (\A z : Text(x) \notin ListOf(z)) /\ (Text(x) \in Cut <=> x \in nodesToClean2)
    /\ \A x : \A y \in ListOf(x) : y \notin Cut /\ y # 0
    /\ \A y \in alloc.nodes : \/ y = 0
                              \/ \E x \in {0} \cup Here : y \in ListOf(x) /\ x < y
                              \/ \E x \in Inside : y = Text(x)
    /\ \A y \in alloc.nodes : y \in {0} \cup Here \/ y \in nodesToClean \/ \E x \in Inside : y = Text(x)
    /\ \A x \in {0} \cup Here : x \notin nodesToClean
    /\ 0 \notin Cut

\* Where the nodes are, from the invariant.
LEMMA PlacedIs == ASSUME LoadTypeOK, LinkedInv PROVE Placed
<1> USE DEF LinkedInv
<1>0. doc \in Feeds
  BY DEF LoadTypeOK
<1>1. HereFacts /\ ListFacts
  BY <1>0, HereIs, ListIs
<1>2. /\ D \subseteq Node /\ 0 \notin D /\ 0 \in Node /\ Null \notin Node
      /\ \A x \in D : Text(x) \in Node /\ Text(x) \notin D /\ Text(x) # 0
      /\ \A b \in D : Pointer(b) \in Node /\ Pointer(b) \notin D /\ Pointer(b) # 0
      /\ \A x, b \in D : Text(x) # Pointer(b) /\ (Text(x) = Text(b) => x = b)
      /\ \A x, b \in D : x < Pointer(b)
      /\ \A x \in D : Text(x) > x
  <2>1. \A x \in D : x \in Int /\ x <= MaxSize /\ x > 0
    BY <1>0, Numbers, Sizes
  <2>2. \A x \in D : Text(x) \in Int /\ Text(x) > MaxSize /\ Pointer(x) \in Int
    BY <1>0, Numbers, Sizes
  <2>3. \A x \in D : Text(x) > x
    BY <2>1, <2>2, Sizes
  <2>4. \A x, b \in D : x < Pointer(b)
    <3>1. \A x, b \in D : Pointer(b) > x
      BY <1>0, Numbers
    <3> QED
      BY <2>1, <2>2, <3>1
  <2> QED
    BY <1>0, <2>3, <2>4, Numbers, Sizes
<1>3. Here \subseteq D /\ Inside \subseteq Here /\ nodesToClean2 \subseteq Inside /\ nodesToClean = {Pointer(b) : b \in nodesToClean2}
  BY <1>1 DEF HereFacts, Progress
<1>4. alloc.nodes = {0} \cup Here \cup {Text(n) : n \in Inside} \cup {Pointer(b) : b \in nodesToClean2}
  BY DEF Allocated
<1>5. alloc.nodes \subseteq Node /\ 0 \in alloc.nodes /\ 0 \notin Here /\ Here \subseteq alloc.nodes
  BY <1>2, <1>3, <1>4
<1>6. ASSUME NEW x, NEW y \in ListOf(x)
      PROVE  y \in alloc.nodes /\ y \in Node /\ y # 0 /\ y \notin Cut /\ (\A z \in D : y # Text(z))
  <2>1. y \in Here \/ \E b \in nodesToClean2 : y = Pointer(b)
    BY <1>1 DEF ListFacts
  <2>2. y \in alloc.nodes /\ y \in Node /\ y # 0 /\ (\A z \in D : y # Text(z))
    BY <1>2, <1>3, <1>4, <2>1
  <2> QED
    BY <1>3, <2>2 DEF Cut
<1>7. ASSUME NEW x \in Inside
      PROVE  /\ Text(x) \in alloc.nodes /\ Text(x) \in Node /\ Text(x) \notin {0} \cup Here /\ Text(x) > x
             /\ Text(x) \notin nodesToClean /\ (\A z : Text(x) \notin ListOf(z)) /\ (Text(x) \in Cut <=> x \in nodesToClean2)
  <2>1. x \in D
    BY <1>3
  <2>2. Text(x) \in Cut <=> x \in nodesToClean2
    BY <1>2, <1>3, <2>1 DEF Cut
  <2> QED
    BY <1>2, <1>3, <1>4, <1>6, <2>1, <2>2
<1>8. ASSUME NEW y \in alloc.nodes
      PROVE  \/ y = 0
             \/ \E x \in {0} \cup Here : y \in ListOf(x) /\ x < y
             \/ \E x \in Inside : y = Text(x)
  <2>1. CASE y \in Here
    <3>1. y \in ListOf(doc.parent[y]) /\ doc.parent[y] \in {0} \cup Here /\ y \in D
      BY <1>1, <2>1 DEF ListFacts, HereFacts
    <3>2. doc.parent[y] < y
      BY <1>0, <3>1, FeedIs DEF FeedFacts, NodeFacts
    <3> QED
      BY <3>1, <3>2
  <2>2. ASSUME NEW b \in nodesToClean2, y = Pointer(b) PROVE \E x \in {0} \cup Here : y \in ListOf(x) /\ x < y
    <3>1. y \in ListOf(doc.link[b]) /\ doc.link[b] \in Here /\ doc.link[b] \in D /\ b \in D
      BY <1>1, <2>2 DEF ListFacts, HereFacts
    <3> QED
      BY <1>2, <2>2, <3>1
  <2> QED
    BY <1>4, <2>1, <2>2
<1>9. /\ \A y \in alloc.nodes : y \in {0} \cup Here \/ y \in nodesToClean \/ \E x \in Inside : y = Text(x)
      /\ \A x \in {0} \cup Here : x \notin nodesToClean
      /\ 0 \notin Cut
      /\ \A x, z \in Inside : Text(x) = Text(z) => x = z
  BY <1>2, <1>3, <1>4 DEF Cut
<1> QED
  BY <1>1, <1>5, <1>6, <1>7, <1>8, <1>9 DEF Placed, ListFacts

\* The pointers that ~Site leaves are those of the lists.
LEMMA UndoneIs == ASSUME LoadTypeOK, LinkedInv PROVE UndoneFacts
<1> USE DEF LinkedInv
<1>0. doc \in Feeds /\ children \in [Node -> NodeOrNull] /\ next \in [Node -> NodeOrNull] /\ Null \in NodeOrNull
  BY DEF LoadTypeOK, NodeOrNull
<1>1. Placed /\ HereFacts /\ ListFacts
  BY <1>0, PlacedIs, HereIs, ListIs
<1>2. OwnChildren \in [Node -> NodeOrNull] /\ OwnNext \in [Node -> NodeOrNull]
  BY <1>0 DEF OwnChildren, OwnNext, Undone
<1>3. /\ \A x \in Node : OwnChildren[x] = IF x \in nodesToClean THEN Null ELSE children[x]
      /\ \A x \in Node : OwnNext[x] = IF x \in Cut THEN Null ELSE next[x]
  BY DEF OwnChildren, OwnNext, Undone
<1>4. \A x : Least(ListOf(x)) \in ListOf(x) \cup {Null}
  BY <1>0, FirstOrNull
<1>5. ASSUME NEW x \in {0} \cup Here
      PROVE  /\ x \in Inside => OwnChildren[x] = Text(x)
             /\ x \notin Inside => OwnChildren[x] = Least(ListOf(x))
             /\ \A y \in ListOf(x) : /\ OwnNext[y] = Least(Later(ListOf(x), y))
                                     /\ OwnNext[y] # Null => OwnNext[y] \in Later(ListOf(x), y)
  <2>1. ListAt(x) /\ x \in Node /\ x \notin nodesToClean
    BY <1>1 DEF Lists, Placed
  <2>2. /\ x \in Inside => OwnChildren[x] = Text(x)
        /\ x \notin Inside => OwnChildren[x] = Least(ListOf(x))
    BY <1>3, <2>1 DEF ListAt
  <2>3. ASSUME NEW y \in ListOf(x)
        PROVE  OwnNext[y] = Least(Later(ListOf(x), y)) /\ (OwnNext[y] # Null => OwnNext[y] \in Later(ListOf(x), y))
    <3>1. y \notin Cut /\ y \in Node
      BY <1>1 DEF Placed
    <3>2. OwnNext[y] = next[y] /\ next[y] = Least(Later(ListOf(x), y))
      BY <1>3, <2>1, <3>1 DEF ListAt
    <3>3. Later(ListOf(x), y) = {} => next[y] = Null
      BY <3>2, LeastIs
    <3>4. Later(ListOf(x), y) # {} => next[y] \in Later(ListOf(x), y)
      BY <1>0, FirstOrNull
    <3> QED
      BY <3>2, <3>3, <3>4
  <2> QED
    BY <2>2, <2>3
<1>6. ASSUME NEW x \in Inside PROVE /\ OwnChildren[Text(x)] = Null
                                    /\ OwnNext[Text(x)] = IF x \in nodesToClean2 THEN Null ELSE Least(ListOf(x))
  <2>1. TextAt(x) /\ Text(x) \in Node /\ Text(x) \notin nodesToClean /\ (Text(x) \in Cut <=> x \in nodesToClean2)
    BY <1>1 DEF Lists, Placed
  <2> QED
    BY <1>3, <2>1 DEF TextAt
<1>7. ASSUME NEW x \in alloc.nodes, OwnChildren[x] # Null PROVE ChildOf(x)
  <2>1. x \notin nodesToClean
    BY <1>1, <1>3, <1>7 DEF Placed
  <2>2. x \in {0} \cup Here
    BY <1>1, <1>6, <1>7, <2>1 DEF Placed
  <2> QED
    BY <1>4, <1>5, <1>7, <2>2 DEF ChildOf
<1>8. ASSUME NEW y \in alloc.nodes, OwnNext[y] # Null PROVE NextIn(y)
  <2>1. CASE y = 0
    BY <1>1, <1>3, <1>8, <2>1 DEF Placed, Lists
  <2>2. ASSUME NEW x \in {0} \cup Here, y \in ListOf(x) PROVE NextIn(y)
    BY <1>5, <1>8, <2>2 DEF NextIn
  <2>3. ASSUME NEW x \in Inside, y = Text(x) PROVE NextIn(y)
    <3>1. x \notin nodesToClean2 /\ OwnNext[y] = Least(ListOf(x))
      BY <1>6, <1>8, <2>3
    <3> QED
      BY <1>4, <1>8, <2>3, <3>1 DEF NextIn
  <2> QED
    BY <1>1, <2>1, <2>2, <2>3 DEF Placed
<1>9. Inside \subseteq {0} \cup Here
  BY <1>1 DEF HereFacts
<1> QED
  BY <1>2, <1>5, <1>6, <1>7, <1>8, <1>9 DEF UndoneFacts

\* The destructor reaches the nodes that are allocated, and no other.
LEMMA AllReached ==
    ASSUME LoadTypeOK, LinkedInv
    PROVE  {0} \cup Reach({OwnChildren[0]}, {OwnChildren, OwnNext}) = alloc.nodes
<1> DEFINE fs == {OwnChildren, OwnNext}
           S == {OwnChildren[0]}
           R == Reach(S, fs)
           Z == {0} \cup R
           N == alloc.nodes
<1>0. doc \in Feeds /\ UndoneFacts /\ Placed
  BY UndoneIs, PlacedIs DEF LoadTypeOK
<1>1. Pointers(fs) /\ S \subseteq NodeOrNull /\ Null \notin Node /\ 0 \in Node
  BY <1>0, Sizes DEF UndoneFacts, Pointers
<1>2. ASSUME NEW x \in N PROVE /\ OwnChildren[x] # Null => OwnChildren[x] \in N
                               /\ OwnNext[x] # Null => OwnNext[x] \in N
  <2>1. ASSUME OwnChildren[x] # Null PROVE OwnChildren[x] \in N
    BY <1>0, <2>1 DEF UndoneFacts, ChildOf, Placed
  <2>2. ASSUME OwnNext[x] # Null PROVE OwnNext[x] \in N
    <3>1. NextIn(x)
      BY <1>0, <2>2 DEF UndoneFacts
    <3>2. \E z : OwnNext[x] \in ListOf(z)
      BY <3>1 DEF NextIn, Later
    <3> QED
      BY <1>0, <3>2 DEF Placed
  <2> QED
    BY <2>1, <2>2
<1>3. Z \subseteq N
  <2>1. Closed(N, fs)
    BY <1>2 DEF Closed
  <2>2. 0 \in N
    BY <1>0 DEF Placed
  <2>3. S \ {Null} \subseteq N
    BY <1>2, <2>2
  <2> HIDE DEF fs, S, N
  <2>4. R \subseteq N
    BY <2>1, <2>3, ReachLeast
  <2> QED
    BY <2>2, <2>4
<1>4. Closed(R, fs) /\ S \ {Null} \subseteq R
  <2> HIDE DEF fs, S
  <2> QED
    BY <1>1, ReachClosed
<1>5. ASSUME NEW x \in Z PROVE (OwnChildren[x] # Null => OwnChildren[x] \in Z) /\ (OwnNext[x] # Null => OwnNext[x] \in Z)
  <2>1. \A z \in R : \A f \in fs : f[z] # Null => f[z] \in R
    BY <1>4 DEF Closed
  <2>2. CASE x = 0
    <3>1. OwnNext[0] = Null
      <4>1. next[0] = Null
        BY DEF LinkedInv, Lists
      <4> QED
        BY <1>1, <4>1 DEF OwnNext, Undone
    <3> HIDE DEF R
    <3> QED
      BY <1>4, <2>2, <3>1
  <2>3. CASE x \in R
    <3> HIDE DEF R
    <3> QED
      BY <2>1, <2>3
  <2> QED
    BY <2>2, <2>3
<1> HIDE DEF R
<1> DEFINE P == {y \in Nat : y \in N => y \in Z}
<1>6. ASSUME NEW x \in {0} \cup Here, x \in Z PROVE ListOf(x) \subseteq Z
  <2>1. ListOf(x) \in SUBSET Node
    BY <1>0 DEF Placed
  <2>2. ASSUME ListOf(x) # {} PROVE Least(ListOf(x)) \in Z
    <3>1. Least(ListOf(x)) \in Node
      BY <2>1, <2>2, LeastIs
    <3>2. CASE x \notin Inside
      <4>1. OwnChildren[x] = Least(ListOf(x))
        BY <1>0, <3>2 DEF UndoneFacts
      <4> QED
        BY <1>1, <1>5, <1>6, <3>1, <4>1
    <3>3. CASE x \in Inside
      <4>1. x \notin nodesToClean2
        BY <1>0, <2>2, ListIs DEF ListFacts, LinkedInv
      <4>2. OwnChildren[x] = Text(x) /\ OwnNext[Text(x)] = Least(ListOf(x)) /\ Text(x) \in Node
        BY <1>0, <3>3, <4>1 DEF UndoneFacts, Placed
      <4>3. Text(x) \in Z
        BY <1>1, <1>5, <1>6, <4>2
      <4> HIDE DEF Z
      <4> QED
        BY <1>1, <1>5, <3>1, <4>2, <4>3
    <3> QED
      BY <3>2, <3>3
  <2>3. ASSUME NEW y \in ListOf(x), y \in Z, Later(ListOf(x), y) # {} PROVE Least(Later(ListOf(x), y)) \in Z
    <3>1. OwnNext[y] = Least(Later(ListOf(x), y))
      BY <1>0 DEF UndoneFacts
    <3>2. Later(ListOf(x), y) \in SUBSET Node
      BY <2>1 DEF Later
    <3>3. OwnNext[y] \in Node
      BY <2>3, <3>1, <3>2, LeastIs
    <3> HIDE DEF Z
    <3> QED
      BY <1>1, <1>5, <2>3, <3>1, <3>3
  <2> HIDE DEF Z
  <2> QED
    BY <2>1, <2>2, <2>3, ListCover
<1> HIDE DEF Z
<1>7. ASSUME NEW y \in 0..3 * MaxSize, \A m \in 0..y - 1 : m \in P PROVE y \in P
  <2> SUFFICES ASSUME y \in N PROVE y \in Z
    BY Sizes
  <2>1. CASE y = 0
    BY <2>1 DEF Z
  <2>2. ASSUME NEW x \in {0} \cup Here, y \in ListOf(x), x < y PROVE y \in Z
    <3>1. x \in N /\ x \in Int /\ 0 <= x
      BY <1>0, Sizes DEF Placed
    <3>2. x \in P
      BY <1>7, <2>2, <3>1, Sizes
    <3> QED
      BY <1>6, <2>2, <3>1, <3>2
  <2>3. ASSUME NEW x \in Inside, y = Text(x) PROVE y \in Z
    <3>1. x \in N /\ x \in Int /\ 0 <= x /\ Text(x) > x /\ OwnChildren[x] = Text(x) /\ Text(x) \in Node
      <4>1. Inside \subseteq Here /\ Inside \subseteq Node
        BY <1>0, HereIs, Numbers DEF HereFacts, LinkedInv
      <4> QED
        BY <1>0, <4>1, Sizes DEF Placed, UndoneFacts
    <3>2. x < y
      BY <2>3, <3>1, Sizes
    <3>3. x \in P
      BY <1>7, <2>3, <3>1, <3>2, Sizes
    <3>4. x \in Z
      BY <3>1, <3>3
    <3> QED
      BY <1>1, <1>5, <2>3, <3>1, <3>4
  <2> QED
    BY <1>0, <2>1, <2>2, <2>3 DEF Placed
<1>8. \A y \in 0..3 * MaxSize : y \in P
  <2> HIDE DEF P
  <2> QED
    BY <1>7, Descent, Sizes
<1>9. N \subseteq Z
  <2>1. N \subseteq 0..3 * MaxSize
    BY <1>0 DEF Placed, Node
  <2> QED
    BY <1>8, <2>1
<1> QED
  BY <1>3, <1>9 DEF Z, R

\* What is left of the pointers leads to every node once.
LEMMA FreedApart ==
    ASSUME LoadTypeOK, LinkedInv
    PROVE  /\ ~Collides(OwnChildren, alloc.nodes) /\ ~Collides(OwnNext, alloc.nodes)
           /\ \A x, y \in alloc.nodes : OwnChildren[x] # Null => OwnChildren[x] # OwnNext[y]
<1> DEFINE N == alloc.nodes
           c == OwnChildren
           n == OwnNext
<1>0. doc \in Feeds /\ UndoneFacts /\ Placed
  BY UndoneIs, PlacedIs DEF LoadTypeOK
<1>1. /\ \A x : ListOf(x) \in SUBSET Node
      /\ \A x, z : \A y \in ListOf(x) : y \in ListOf(z) => x = z
      /\ \A x \in Inside : \A z : Text(x) \notin ListOf(z)
      /\ \A x, z \in Inside : Text(x) = Text(z) => x = z
  BY <1>0, ListIs DEF ListFacts, Placed, LinkedInv
<1>2. \A x \in N : c[x] # Null => ChildOf(x)
  BY <1>0 DEF UndoneFacts
<1>3. \A y \in N : n[y] # Null => NextIn(y)
  BY <1>0 DEF UndoneFacts
<1>4. ASSUME NEW x \in N, NEW y \in N, c[x] = c[y], c[x] # Null PROVE x = y
  <2>1. ChildOf(x) /\ ChildOf(y)
    BY <1>2, <1>4
  <2> QED
    BY <1>1, <1>4, <2>1 DEF ChildOf
<1>5. ASSUME NEW L \in SUBSET Node, NEW y \in L, NEW z \in Later(L, y)
      PROVE  z \in L /\ z # Least(L) /\ z > y /\ y \in Int /\ z \in Int
  <2>1. z \in L /\ z > y /\ y \in Int /\ z \in Int
    BY Sizes DEF Later
  <2>2. Least(L) <= y /\ Least(L) \in L
    BY LeastIs
  <2>3. Least(L) \in Int
    BY <2>2, Sizes
  <2> QED
    BY <2>1, <2>2, <2>3
<1>6. ASSUME NEW L \in SUBSET Node, NEW x \in L, NEW y \in L, x < y,
             Least(Later(L, y)) \in Later(L, y)
      PROVE  Least(Later(L, x)) # Least(Later(L, y))
  <2>1. x \in Int /\ y \in Int /\ y \in Later(L, x) /\ Later(L, x) \in SUBSET Node
    BY <1>6, Sizes DEF Later
  <2>2. Least(Later(L, x)) <= y /\ Least(Later(L, x)) \in Later(L, x)
    BY <2>1, LeastIs
  <2>3. Least(Later(L, x)) \in Int
    BY <1>5, <2>2
  <2>4. Least(Later(L, y)) > y /\ Least(Later(L, y)) \in Int
    BY <1>5, <1>6
  <2> QED
    BY <2>1, <2>2, <2>3, <2>4
<1>7. ASSUME NEW x \in N, NEW y \in N, n[x] = n[y], n[x] # Null PROVE x = y
  <2>1. NextIn(x) /\ NextIn(y)
    BY <1>3, <1>7
  <2>2. ASSUME NEW z, NEW w \in ListOf(z), n[w] \in Later(ListOf(z), w),
               NEW v \in Inside, n[w] = Least(ListOf(v)), n[w] \in ListOf(v)
        PROVE  FALSE
    <3>1. n[w] \in ListOf(z) /\ n[w] # Least(ListOf(z))
      BY <1>1, <1>5, <2>2
    <3>2. z = v
      BY <1>1, <2>2, <3>1
    <3> QED
      BY <2>2, <3>1, <3>2
  <2>3. ASSUME NEW z \in {0} \cup Here, x \in ListOf(z), n[x] = Least(Later(ListOf(z), x)), n[x] \in Later(ListOf(z), x),
               NEW w \in {0} \cup Here, y \in ListOf(w), n[y] = Least(Later(ListOf(w), y)), n[y] \in Later(ListOf(w), y)
        PROVE  x = y
    <3>1. n[x] \in ListOf(z) /\ n[y] \in ListOf(w)
      BY <2>3 DEF Later
    <3>2. z = w
      BY <1>1, <1>7, <3>1
    <3>3. x \in Int /\ y \in Int
      BY <1>1, <2>3, Sizes
    <3> DEFINE L == ListOf(z)
    <3>4. L \in SUBSET Node /\ x \in L /\ y \in L
      BY <1>1, <2>3, <3>2
    <3>5. /\ Least(Later(L, x)) = Least(Later(L, y))
          /\ Least(Later(L, x)) \in Later(L, x) /\ Least(Later(L, y)) \in Later(L, y)
      BY <1>7, <2>3, <3>2
    <3> HIDE DEF L
    <3>6. ~(x < y)
      BY <1>6, <3>4, <3>5
    <3>7. ~(y < x)
      BY <1>6, <3>4, <3>5
    <3> QED
      BY <3>3, <3>6, <3>7
  <2>4. ASSUME NEW z \in Inside, x = Text(z), n[x] = Least(ListOf(z)), n[x] \in ListOf(z),
               NEW w \in Inside, y = Text(w), n[y] = Least(ListOf(w)), n[y] \in ListOf(w)
        PROVE  x = y
    BY <1>1, <1>7, <2>4
  <2> QED
    BY <1>7, <2>1, <2>2, <2>3, <2>4 DEF NextIn
<1>8. ASSUME NEW x \in N, NEW y \in N, c[x] # Null, c[x] = n[y] PROVE FALSE
  <2>1. ChildOf(x) /\ NextIn(y)
    BY <1>2, <1>3, <1>8
  <2>2. \E z : n[y] \in ListOf(z)
    BY <2>1 DEF NextIn, Later
  <2>3. x \notin Inside /\ c[x] = Least(ListOf(x)) /\ c[x] \in ListOf(x)
    BY <1>1, <1>8, <2>1, <2>2 DEF ChildOf
  <2>4. ASSUME NEW z, y \in ListOf(z), n[y] \in Later(ListOf(z), y) PROVE FALSE
    <3>1. n[y] \in ListOf(z) /\ n[y] # Least(ListOf(z))
      BY <1>1, <1>5, <2>4
    <3>2. z = x
      BY <1>1, <1>8, <2>3, <3>1
    <3> QED
      BY <1>8, <2>3, <3>1, <3>2
  <2>5. ASSUME NEW z \in Inside, n[y] \in ListOf(z) PROVE FALSE
    <3>1. z = x
      BY <1>1, <1>8, <2>3, <2>5
    <3> QED
      BY <2>3, <2>5, <3>1
  <2> QED
    BY <2>1, <2>4, <2>5 DEF NextIn
<1> QED
  BY <1>4, <1>7, <1>8 DEF Collides

\* The contexts and the property lists that are left belong to one node each.
LEMMA OwnApart ==
    ASSUME LoadTypeOK, LinkedInv
    PROVE  LET ctxts == Undone(_private, Shares)
               props == Undone(properties, Shares)
           IN  /\ ~Collides(ctxts, alloc.nodes) /\ ~Collides(props, alloc.nodes)
               /\ {ctxts[x] : x \in alloc.nodes} \ {Null} = alloc.contexts
               /\ {props[x] : x \in alloc.nodes} \ {Null} = alloc.lists
<1> DEFINE ctxts == Undone(_private, Shares)
           props == Undone(properties, Shares)
           N == alloc.nodes
           R == nodesToClean2
<1>0. doc \in Feeds /\ Placed /\ HereFacts
  BY PlacedIs, HereIs DEF LoadTypeOK, LinkedInv
<1>1. N \subseteq Node /\ Here \subseteq N /\ Null \notin Here /\ (\A x \in Here : x \notin nodesToClean)
  BY <1>0, Sizes DEF Placed
<1>2. ASSUME NEW x \in Node
      PROVE /\ ctxts[x] = IF x \in Shares THEN Null ELSE _private[x]
            /\ props[x] = IF x \in Shares THEN Null ELSE properties[x]
  BY DEF Undone
<1>3. ASSUME NEW x \in Here \ R
      PROVE  /\ ctxts[x] = IF x \in Built THEN x ELSE Null
             /\ props[x] = IF x \in Elements THEN x ELSE Null
  <2>1. x \in Node /\ x \notin Shares
    BY <1>1 DEF Shares
  <2>2. OwnAt(x)
    BY DEF LinkedInv, Own
  <2> HIDE DEF ctxts, props
  <2> QED
    BY <1>2, <2>1, <2>2 DEF OwnAt
<1>4. ASSUME NEW x \in N, x \notin Here \ R PROVE ctxts[x] = Null /\ props[x] = Null
  <2>0. x \in Node
    BY <1>1
  <2>1. CASE x \in Shares
    BY <1>2, <2>0, <2>1
  <2>2. CASE x = 0
    <3>1. _private[0] = Null /\ properties[0] = Null
      BY DEF LinkedInv, Own
    <3> QED
      BY <1>2, <2>0, <2>2, <3>1
  <2>3. ASSUME NEW z \in Inside, x = Text(z) PROVE ctxts[x] = Null /\ props[x] = Null
    <3>1. TextAt(z)
      BY DEF LinkedInv, Lists
    <3> QED
      BY <1>2, <2>0, <2>3, <3>1 DEF TextAt
  <2> QED
    BY <1>0, <1>4, <2>1, <2>2, <2>3 DEF Placed, Shares
<1> HIDE DEF ctxts, props
<1>5. ~Collides(ctxts, N) /\ ~Collides(props, N)
  BY <1>3, <1>4 DEF Collides
<1>6. alloc.contexts = (Here \ R) \cap Built
  <2>1. alloc.contexts = Built \ (removed \cup R)
    BY DEF LinkedInv, Allocated
  <2>2. Here \cap removed = {}
    BY DEF Here
  <2> QED
    BY <1>0, <2>1, <2>2 DEF HereFacts
<1>7. alloc.lists = (Here \ R) \cap Elements
  BY DEF LinkedInv, Allocated
<1>8. {ctxts[x] : x \in N} \ {Null} = alloc.contexts
  BY <1>1, <1>3, <1>4, <1>6
<1>9. {props[x] : x \in N} \ {Null} = alloc.lists
  BY <1>1, <1>3, <1>4, <1>7
<1> QED
  BY <1>5, <1>8, <1>9 DEF ctxts, props

\* ~Site.
LEMMA CloseSiteIInv == ASSUME LoadIInv, CloseSite PROVE LoadIInv'
<1> DEFINE c == OwnChildren
           n == OwnNext
           N == alloc.nodes
           all == {0} \cup Reach({c[0]}, {c, n})
           ctxts == Undone(_private, Shares)
           props == Undone(properties, Shares)
           IC == {ctxts[x] : x \in all} \ {Null}
           IP == {props[x] : x \in all} \ {Null}
<1>0. phase = "loaded" /\ LoadTypeOK /\ LinkedInv /\ ~twice
  BY DEF LoadIInv, Linked, CloseSite
<1>1. /\ alloc' = [nodes |-> N \ all, contexts |-> alloc.contexts \ IC, lists |-> alloc.lists \ IP]
      /\ twice' = \/ twice
                  \/ \E f \in {c, n, ctxts, props} : Collides(f, all)
                  \/ ({c[x] : x \in all} \ {Null}) \cap ({n[x] : x \in all} \ {Null}) # {}
                  \/ ~(all \subseteq N)
                  \/ ~(IC \subseteq alloc.contexts /\ IP \subseteq alloc.lists)
      /\ phase' = "closed" /\ nodesToClean' = {} /\ nodesToClean2' = {}
      /\ nodes' = [i \in 0..MaxSize |-> Null]
      /\ UNCHANGED <<doc, links, associationsToInitialize, pointerNodes, removed, exposed>>
  BY DEF CloseSite, OwnChildren, OwnNext, Shares, Undone
<1> HIDE DEF c, n, ctxts, props
<1>2. all = N
  BY <1>0, AllReached DEF c, n
<1>3. ~Collides(c, N) /\ ~Collides(n, N) /\ \A x, y \in N : c[x] # Null => c[x] # n[y]
  BY <1>0, FreedApart DEF c, n
<1>4. ~Collides(ctxts, N) /\ ~Collides(props, N) /\ IC = alloc.contexts /\ IP = alloc.lists
  <2>1. /\ ~Collides(ctxts, N) /\ ~Collides(props, N)
        /\ {ctxts[x] : x \in N} \ {Null} = alloc.contexts /\ {props[x] : x \in N} \ {Null} = alloc.lists
    BY <1>0, OwnApart DEF ctxts, props
  <2> HIDE DEF all
  <2> QED
    BY <1>2, <2>1
<1> HIDE DEF all, IC, IP
<1>5. ({c[x] : x \in all} \ {Null}) \cap ({n[x] : x \in all} \ {Null}) = {}
  BY <1>2, <1>3
<1>6. ~twice' /\ twice' \in BOOLEAN
  BY <1>0, <1>1, <1>2, <1>3, <1>4, <1>5
<1>7. alloc' = [nodes |-> {}, contexts |-> {}, lists |-> {}]
  BY <1>1, <1>2, <1>4
<1>8. Cleared'
  BY <1>1, <1>7 DEF Cleared, Null
<1>9. LoadTypeOK'
  <2>1. (\A f \in {children, next, last, parent, properties, _private} : f \in [Node -> NodeOrNull])'
    BY <1>0, <1>1 DEF LoadTypeOK, links
  <2>2. nodes' \in [0..MaxSize -> NodeOrNull]
    BY <1>1 DEF NodeOrNull
  <2>3. {alloc.nodes, alloc.contexts, alloc.lists, nodesToClean, nodesToClean2, removed}' \subseteq SUBSET Node
    <3>1. removed \in SUBSET Node
      BY <1>0 DEF LoadTypeOK
    <3> QED
      BY <1>1, <1>7, <3>1
  <2>4. doc' \in Feeds /\ associationsToInitialize' \in SUBSET Node /\ pointerNodes' \in [Node -> SUBSET Node] /\ exposed' \in BOOLEAN
    BY <1>0, <1>1 DEF LoadTypeOK
  <2>5. {exposed, twice}' \subseteq BOOLEAN
    BY <1>6, <2>4
  <2>6. phase' \in {"new", "linking", "loaded", "failed", "closed"}
    BY <1>1
  <2> QED
    BY <2>1, <2>2, <2>3, <2>4, <2>5, <2>6 DEF LoadTypeOK
<1> QED
  BY <1>1, <1>6, <1>8, <1>9 DEF LoadIInv, Linked

\* A step that changes nothing but the phase.
LEMMA SameLinks ==
    ASSUME UNCHANGED <<doc, links, alloc, nodes, associationsToInitialize, pointerNodes,
                       nodesToClean, nodesToClean2, removed, exposed, twice>>
    PROVE  /\ LinkedInv => LinkedInv'
           /\ LoadTypeOK /\ phase' \in {"new", "linking", "loaded", "failed", "closed"} => LoadTypeOK'
           /\ (Fresh => Fresh') /\ (Cleared => Cleared')
<1> USE DEF links
<1>1. /\ D' = D /\ Ancestors' = Ancestors /\ Built' = Built /\ Left' = Left
      /\ Elements' = Elements /\ Associations(doc)' = Associations(doc)
      /\ (\A x : Kids(x)' = Kids(x)) /\ \A i : Registered(i)' = Registered(i)
  BY SameDoc
<1>2. Here' = Here /\ Inside' = Inside
  BY <1>1 DEF Here, Inside
<1>3. \A x : ListOf(x)' = ListOf(x)
  BY <1>2 DEF ListOf, Pointer
<1>4. Progress => Progress'
  <2>1. \A b : Found(b)' = Found(b)
    BY DEF Found, Null
  <2>2. nodes = [i \in 0..MaxSize |-> Registered(i)] => nodes' = [i \in 0..MaxSize |-> Registered(i)']
    BY <1>1
  <2> QED
    BY <1>1, <2>1, <2>2 DEF Progress, Pointer
<1>5. Allocated => Allocated'
  BY <1>1, <1>2 DEF Allocated, Text, Pointer
<1>6. Lists => Lists'
  <2>1. \A x : ListAt(x) => ListAt(x)'
    BY <1>2, <1>3 DEF ListAt, Text, Least, Later, Null
  <2>2. \A x : EndAt(x) => EndAt(x)'
    BY <1>2, <1>3 DEF EndAt, Text, Greatest, Null
  <2>3. \A x : TextAt(x) => TextAt(x)'
    BY <1>2, <1>3 DEF TextAt, Text, Least, Null
  <2> QED
    BY <1>2, <2>1, <2>2, <2>3 DEF Lists, Pointer, Null
<1>7. Own => Own'
  BY <1>1, <1>2 DEF Own, OwnAt, SharedAt, Pointer, Null
<1>8. Sharing => Sharing'
  <2>1. \A b : Blind(b)' <=> Blind(b)
    BY <1>1, <1>3 DEF Blind
  <2>2. \A b : SameLists(b) => SameLists(b)'
    BY <1>1, <1>3, <2>1 DEF SameLists, Pointer, Text, Null
  <2> QED
    BY <1>1, <2>2 DEF Sharing
<1>9. LinkedInv => LinkedInv'
  BY <1>4, <1>5, <1>6, <1>7, <1>8 DEF LinkedInv
<1>10. LoadTypeOK /\ phase' \in {"new", "linking", "loaded", "failed", "closed"} => LoadTypeOK'
  BY DEF LoadTypeOK
<1>11. (Fresh => Fresh') /\ (Cleared => Cleared')
  BY DEF Fresh, Cleared, Null
<1> QED
  BY <1>9, <1>10, <1>11

\* Every step keeps the invariant.
LEMMA LoadNextIInv == LoadIInv /\ [LoadNext]_loadVars => LoadIInv'
<1> SUFFICES ASSUME LoadIInv, [LoadNext]_loadVars PROVE LoadIInv'
  OBVIOUS
<1>0. LoadTypeOK /\ doc \in Feeds /\ ~twice
  BY DEF LoadIInv, LoadTypeOK
<1>1. CASE LoadContexts
  BY <1>1, LoadContextsIInv
<1>2. CASE initializeAssociation
  <2> DEFINE a == Min(associationsToInitialize)
  <2>1. /\ phase = "linking" /\ associationsToInitialize # {}
        /\ IF Found(a) # Null THEN Resolve(a, Found(a)) ELSE Discard(a)
        /\ associationsToInitialize' = associationsToInitialize \ {a}
        /\ doc' = doc /\ phase' = phase /\ nodes' = nodes
    BY <1>2 DEF initializeAssociation
  <2>2. a \in associationsToInitialize /\ \A q \in associationsToInitialize : a <= q
    BY <1>0, <2>1, TurnOrder
  <2>3. \A m \in associationsToInitialize :
           /\ \A q \in associationsToInitialize : m <= q
           /\ associationsToInitialize' = associationsToInitialize \ {m}
           /\ IF Found(m) # Null THEN Resolve(m, Found(m)) ELSE Discard(m)
           => LoadIInv'
    <3> SUFFICES ASSUME NEW m \in associationsToInitialize,
                        \A q \in associationsToInitialize : m <= q,
                        associationsToInitialize' = associationsToInitialize \ {m},
                        IF Found(m) # Null THEN Resolve(m, Found(m)) ELSE Discard(m)
                 PROVE  LoadIInv'
      OBVIOUS
    <3>1. CASE Found(m) # Null
      BY <2>1, <3>1, ResolveLinked
    <3>2. CASE Found(m) = Null
      BY <2>1, <3>2, DiscardLinked
    <3> QED
      BY <3>1, <3>2
  <2> HIDE DEF a
  <2> QED
    BY <2>1, <2>2, <2>3
<1>3. CASE FinishLoading
  <2>1. /\ UNCHANGED <<doc, links, alloc, nodes, associationsToInitialize, pointerNodes,
                       nodesToClean, nodesToClean2, removed, exposed, twice>>
        /\ phase = "linking" /\ phase' \in {"loaded", "failed"}
    BY <1>3 DEF FinishLoading
  <2>2. LinkedInv
    BY <2>1 DEF LoadIInv, Linked
  <2>3. LinkedInv' /\ LoadTypeOK'
    BY <1>0, <2>1, <2>2, SameLinks
  <2> QED
    BY <1>0, <2>1, <2>3 DEF LoadIInv
<1>4. CASE CloseSite
  BY <1>4, CloseSiteIInv
<1>5. CASE Terminated \/ UNCHANGED loadVars
  <2>1. /\ UNCHANGED <<doc, links, alloc, nodes, associationsToInitialize, pointerNodes,
                       nodesToClean, nodesToClean2, removed, exposed, twice>>
        /\ phase' = phase
    BY <1>5 DEF Terminated, loadVars, links
  <2>2. phase' \in {"new", "linking", "loaded", "failed", "closed"}
    BY <1>0, <2>1 DEF LoadTypeOK
  <2>3. /\ LinkedInv => LinkedInv'
        /\ LoadTypeOK' /\ (Fresh => Fresh') /\ (Cleared => Cleared')
    BY <1>0, <2>1, <2>2, SameLinks
  <2> QED
    BY <1>0, <2>1, <2>3 DEF LoadIInv, Linked
<1> QED
  BY <1>1, <1>2, <1>3, <1>4, <1>5 DEF LoadNext

\* The invariant holds in every state.
THEOREM LoadInvariant == LoadSpec => []LoadIInv
<1>1. LoadInit => LoadIInv
  BY LoadInitIInv
<1>2. LoadIInv /\ [LoadNext]_loadVars => LoadIInv'
  BY LoadNextIInv
<1> QED
  BY <1>1, <1>2, PTL DEF LoadSpec

\* The children of an element that is no association are its list.
LEMMA ChainIs ==
    ASSUME LoadTypeOK, LinkedInv, NEW x \in ({0} \cup Here) \ Inside
    PROVE  Chain(x) = ListOf(x)
<1> DEFINE L == ListOf(x)
           S == {children[x]}
           fs == {next}
           R == Reach(S, fs)
<1> USE DEF LinkedInv
<1>0. doc \in Feeds /\ children \in [Node -> NodeOrNull] /\ next \in [Node -> NodeOrNull]
  BY DEF LoadTypeOK
<1>1. L \in SUBSET Node /\ children[x] = Least(L) /\ Least(L) \in L \cup {Null} /\ Null \notin Node /\ (L # {} => Least(L) \in L)
  BY <1>0, FirstOrNull, LeastIs, Sizes DEF Lists, ListAt
<1>2. \A y \in L : next[y] = Least(Later(L, y)) /\ next[y] \in L \cup {Null}
  BY <1>0, FirstOrNull
<1>3. S \subseteq NodeOrNull /\ Pointers(fs)
  BY <1>0, <1>1 DEF NodeOrNull, Pointers
<1>4. R \subseteq L
  <2>1. Closed(L, fs) /\ S \ {Null} \subseteq L
    BY <1>1, <1>2 DEF Closed
  <2> HIDE DEF S, fs, L
  <2> QED
    BY <2>1, ReachLeast
<1>5. Closed(R, fs) /\ S \ {Null} \subseteq R
  <2> HIDE DEF S, fs
  <2> QED
    BY <1>3, ReachClosed
<1> HIDE DEF R
<1>6. \A y \in R : next[y] # Null => next[y] \in R
  BY <1>5 DEF Closed
<1>7. L # {} => Least(L) \in R
  BY <1>1, <1>5
<1>8. ASSUME NEW y \in L, y \in R, Later(L, y) # {} PROVE Least(Later(L, y)) \in R
  <2>1. Later(L, y) \in SUBSET Node
    BY <1>1 DEF Later
  <2>2. next[y] \in Node
    BY <1>2, <1>8, <2>1, LeastIs
  <2> QED
    BY <1>1, <1>2, <1>6, <1>8, <2>2
<1>9. L \subseteq R
  <2> HIDE DEF L
  <2> QED
    BY <1>1, <1>7, <1>8, ListCover
<1>10. Chain(x) = R
  BY DEF Chain, R
<1> QED
  BY <1>4, <1>9, <1>10

\* Where the pointers of a node that is allocated lead, if no list was exposed.
PointsInside(x) ==
    /\ children[x] \in alloc.nodes \cup {Null} /\ next[x] \in alloc.nodes \cup {Null}
    /\ last[x] \in alloc.nodes \cup {Null}
    /\ _private[x] \in alloc.contexts \cup {Null} /\ properties[x] \in alloc.lists \cup {Null}

\* No pointer of a node that is allocated dangles.
LEMMA PointersInside ==
    ASSUME LoadTypeOK, LinkedInv, ~exposed, NEW x \in alloc.nodes PROVE PointsInside(x)
<1> USE DEF LinkedInv
<1> DEFINE N == alloc.nodes
           R == nodesToClean2
<1>0. doc \in Feeds /\ Placed /\ HereFacts /\ ListFacts
  BY PlacedIs, HereIs, ListIs DEF LoadTypeOK
<1>1. \A z : /\ ListOf(z) \subseteq N /\ ListOf(z) \in SUBSET Node
             /\ Least(ListOf(z)) \in N \cup {Null} /\ Greatest(ListOf(z)) \in N \cup {Null}
  <2>1. \A z : ListOf(z) \subseteq N /\ ListOf(z) \in SUBSET Node
    BY <1>0 DEF Placed
  <2> QED
    BY <2>1, LeastIs, GreatestIs
<1>2. Here \subseteq N /\ \A z \in Inside : Text(z) \in N
  BY <1>0 DEF Placed
<1>3. /\ alloc.contexts = Built \ (removed \cup R)
      /\ alloc.lists = (Here \cap Elements) \ R
      /\ Here \cap removed = {} /\ Built \subseteq Elements /\ R \subseteq Inside
  BY <1>0, LeftIs DEF Allocated, Here, HereFacts
<1>4. ASSUME NEW z \in {0} \cup Here, NEW y \in ListOf(z) PROVE next[y] \in N \cup {Null}
  BY <1>0, <1>1, FirstOrNull
<1>5. CASE x = 0
  <2>1. children[0] = Least(ListOf(0)) /\ last[0] = Greatest(ListOf(0)) /\ next[0] = Null
    <3>1. 0 \notin Inside
      BY <1>0 DEF Placed, HereFacts
    <3> QED
      BY <3>1 DEF Lists, ListAt, EndAt
  <2>2. _private[0] = Null /\ properties[0] = Null
    BY DEF Own
  <2> QED
    BY <1>1, <1>5, <2>1, <2>2 DEF PointsInside
<1>6. CASE x \in Here
  <2>1. x \in ListOf(doc.parent[x]) /\ doc.parent[x] \in {0} \cup Here
    BY <1>0, <1>6 DEF ListFacts, HereFacts
  <2>2. next[x] \in N \cup {Null}
    BY <1>4, <2>1
  <2>3. children[x] \in N \cup {Null}
    <3>1. children[x] = IF x \in Inside THEN Text(x) ELSE Least(ListOf(x))
      BY <1>6 DEF Lists, ListAt
    <3>2. CASE x \in Inside
      BY <1>2, <3>1, <3>2
    <3>3. CASE x \notin Inside
      BY <1>1, <3>1, <3>3
    <3> QED
      BY <3>2, <3>3
  <2>4. CASE x \in R
    <3>1. last[x] \in ListOf(doc.link[x]) \cup {Null}
      BY <2>4 DEF Sharing, SameLists
    <3>2. doc.link[x] \in Built /\ doc.link[x] \in Here \ Inside
      BY <1>0, <2>4 DEF HereFacts
    <3>3. _private[x] = doc.link[x] /\ properties[x] = doc.link[x]
      BY <2>4 DEF Own, SharedAt
    <3> QED
      BY <1>1, <1>3, <2>2, <2>3, <3>1, <3>2, <3>3 DEF PointsInside
  <2>5. CASE x \notin R
    <3>1. last[x] \in N \cup {Null}
      BY <1>1, <1>2, <1>6, <2>5 DEF Lists, EndAt
    <3>2. OwnAt(x)
      BY <1>6, <2>5 DEF Own
    <3> QED
      BY <1>3, <1>6, <2>2, <2>3, <2>5, <3>1, <3>2 DEF PointsInside, OwnAt
  <2> QED
    BY <2>4, <2>5
<1>7. ASSUME NEW z \in Inside, x = Text(z) PROVE PointsInside(x)
  <2>1. TextAt(z)
    BY DEF Lists
  <2>2. next[x] \in N \cup {Null}
    <3>1. CASE z \notin R
      BY <1>1, <1>7, <2>1, <3>1 DEF TextAt
    <3>2. CASE z \in R
      <4>1. next[x] = Null \/ next[x] = children[doc.link[z]]
        BY <1>7, <3>2 DEF Sharing, SameLists
      <4>2. children[doc.link[z]] = Least(ListOf(doc.link[z]))
        BY <1>0, <3>2 DEF HereFacts, Lists, ListAt
      <4> QED
        BY <1>1, <4>1, <4>2
    <3> QED
      BY <3>1, <3>2
  <2> QED
    BY <1>7, <2>1, <2>2 DEF PointsInside, TextAt
<1>8. ASSUME NEW b \in R, x = Pointer(b) PROVE PointsInside(x)
  <2>1. x \in ListOf(doc.link[b]) /\ doc.link[b] \in Here
    BY <1>0, <1>8 DEF ListFacts, HereFacts
  <2>2. doc.parent[b] \in Built /\ doc.parent[b] \in Here \ Inside
    BY <1>0 DEF HereFacts
  <2>3. /\ children[x] = children[doc.parent[b]] /\ last[x] = last[doc.parent[b]]
        /\ _private[x] = doc.parent[b] /\ properties[x] = doc.parent[b]
    BY <1>8 DEF Sharing, SameLists, Own, SharedAt
  <2>4. /\ children[doc.parent[b]] = Least(ListOf(doc.parent[b]))
        /\ last[doc.parent[b]] = Greatest(ListOf(doc.parent[b]))
    BY <2>2 DEF Lists, ListAt, EndAt
  <2> QED
    BY <1>1, <1>3, <1>4, <2>1, <2>2, <2>3, <2>4 DEF PointsInside
<1> QED
  BY <1>5, <1>6, <1>7, <1>8 DEF Allocated

\* The invariant implies NoDangling: what can be reached from the content element
\* stays within the allocated nodes.
LEMMA NoDanglingIs == LoadIInv => NoDangling
<1> SUFFICES ASSUME LoadIInv PROVE NoDangling
  OBVIOUS
<1>0. LoadTypeOK /\ doc \in Feeds
  BY DEF LoadIInv, LoadTypeOK
<1>1. ASSUME NEW i \in DOMAIN nodes, nodes[i] \notin removed \cup {Null}
      PROVE  nodes[i] \in alloc.nodes /\ _private[nodes[i]] \in alloc.contexts
  <2>0. i \in 0..MaxSize
    BY <1>0 DEF LoadTypeOK
  <2>1. LinkedInv
    <3>1. phase \notin {"new", "closed"}
      BY <1>1, <2>0 DEF LoadIInv, Fresh, Cleared
    <3> QED
      BY <1>0, <3>1 DEF LoadIInv, LoadTypeOK, Linked
  <2> DEFINE x == nodes[i]
  <2>2. x \in Built
    <3>1. x = Registered(i)
      BY <2>0, <2>1 DEF LinkedInv, Progress
    <3> QED
      BY <1>0, <1>1, <2>0, <3>1, RegisteredIs
  <2> HIDE DEF x
  <2>3. HereFacts /\ x \in Here /\ x \in alloc.nodes
    <3>1. HereFacts
      BY <1>0, <2>1, HereIs DEF LinkedInv
    <3>2. x \in Here
      BY <1>1, <2>2, <3>1 DEF HereFacts, x
    <3> QED
      BY <2>1, <3>1, <3>2 DEF LinkedInv, Allocated
  <2>4. alloc.contexts = Built \ (removed \cup nodesToClean2)
    BY <2>1 DEF LinkedInv, Allocated
  <2>5. CASE x \in nodesToClean2
    <3>1. _private[x] = doc.link[x]
      BY <2>1, <2>5 DEF LinkedInv, Own, SharedAt
    <3>2. doc.link[x] \in Built /\ doc.link[x] \in Here \ Inside /\ nodesToClean2 \subseteq Inside
      BY <2>3, <2>5 DEF HereFacts
    <3>3. doc.link[x] \notin removed
      BY <3>2 DEF Here
    <3> QED
      BY <2>3, <2>4, <3>1, <3>2, <3>3 DEF x
  <2>6. CASE x \notin nodesToClean2
    <3>1. _private[x] = x
      BY <2>1, <2>2, <2>3, <2>6 DEF LinkedInv, Own, OwnAt
    <3> QED
      BY <1>1, <2>2, <2>3, <2>4, <2>6, <3>1 DEF x
  <2> QED
    BY <2>5, <2>6
<1>2. ASSUME phase = "loaded", ~exposed, NEW x \in Tree(0)
      PROVE  /\ x \in alloc.nodes
             /\ last[x] \in alloc.nodes \cup {Null}
             /\ _private[x] \in alloc.contexts \cup {Null}
             /\ properties[x] \in alloc.lists \cup {Null}
  <2> DEFINE fs == {children, next}
             S == {children[0]}
             N == alloc.nodes
  <2>1. LinkedInv /\ Placed
    BY <1>0, <1>2, PlacedIs DEF LoadIInv, Linked
  <2>2. \A y \in N : PointsInside(y)
    BY <1>0, <1>2, <2>1, PointersInside
  <2>3. 0 \in N
    BY <2>1 DEF Placed
  <2>4. Closed(N, fs) /\ S \ {Null} \subseteq N
    BY <2>2, <2>3 DEF Closed, PointsInside
  <2>5. Reach(S, fs) \subseteq N
    <3> HIDE DEF S, fs, N
    <3> QED
      BY <2>4, ReachLeast
  <2>6. x \in N
    BY <1>2, <2>3, <2>5 DEF Tree
  <2> QED
    BY <2>2, <2>6 DEF PointsInside
<1> QED
  BY <1>1, <1>2 DEF NoDangling

\* The invariant implies LastIsLast.
LEMMA LastIsLastIs == LoadIInv => LastIsLast
<1> SUFFICES ASSUME LoadIInv, phase = "loaded", ~exposed,
                    NEW x \in {n \in Built : doc.kind[n] = "item"} \cup nodesToClean, Chain(x) # {}
             PROVE  last[x] \in Chain(x) /\ next[last[x]] = Null
  BY DEF LastIsLast
<1>0. LoadTypeOK /\ doc \in Feeds /\ LinkedInv
  BY DEF LoadIInv, Linked, LoadTypeOK
<1>1. HereFacts /\ ListFacts /\ removed \subseteq Associations(doc)
  BY <1>0, HereIs, ListIs DEF LinkedInv, Progress
<1>2. ASSUME NEW z \in Here \ Inside, Chain(z) # {}
      PROVE  last[z] \in Chain(z) /\ next[last[z]] = Null
  <2> DEFINE L == ListOf(z)
  <2>1. Chain(z) = L /\ L \in SUBSET Node /\ last[z] = Greatest(L)
    BY <1>0, <1>1, ChainIs DEF ListFacts, LinkedInv, Lists, EndAt
  <2>2. last[z] \in L /\ \A y \in L : last[z] >= y
    BY <1>2, <2>1, GreatestIs
  <2>3. next[last[z]] = Least(Later(L, last[z]))
    BY <1>0, <2>2, FirstOrNull DEF LinkedInv
  <2>4. Later(L, last[z]) = {}
    <3>1. \A y \in L : y \in Int /\ last[z] \in Int
      BY <2>1, <2>2, Sizes
    <3>2. \A y \in L : ~(y > last[z])
      BY <2>2, <3>1
    <3> QED
      BY <3>2 DEF Later
  <2> QED
    BY <2>1, <2>2, <2>3, <2>4, LeastIs
<1>3. CASE x \in Built /\ doc.kind[x] = "item"
  <2>1. x \notin Associations(doc)
    BY <1>3 DEF Associations
  <2>2. x \in Here \ Inside
    BY <1>1, <1>3, <2>1 DEF HereFacts, Inside
  <2> QED
    BY <1>2, <2>2
<1>4. CASE x \in nodesToClean
  <2>1. PICK b \in nodesToClean2 : x = Pointer(b)
    BY <1>0, <1>4 DEF LinkedInv, Progress
  <2>2. doc.parent[b] \in Here \ Inside
    BY <1>1 DEF HereFacts
  <2>3. children[x] = children[doc.parent[b]] /\ last[x] = last[doc.parent[b]]
    BY <1>0, <2>1 DEF LinkedInv, Sharing, SameLists
  <2>4. Chain(x) = Chain(doc.parent[b])
    BY <2>3 DEF Chain
  <2> QED
    BY <1>2, <2>2, <2>3, <2>4
<1> QED
  BY <1>3, <1>4

\* The invariant implies BothWays.
LEMMA BothWaysIs == LoadIInv => BothWays
<1> SUFFICES ASSUME LoadIInv, phase = "loaded", ~exposed, NEW a \in nodesToClean2
             PROVE  /\ Chain(a) = {Text(a)} \cup (IF Blind(a) THEN {} ELSE Chain(Found(a)))
                    /\ Pointer(a) \in Chain(Found(a))
                    /\ Chain(Pointer(a)) = Chain(doc.parent[a])
  BY DEF BothWays
<1> DEFINE T == doc.link[a]
           L == ListOf(T)
<1>0. LoadTypeOK /\ doc \in Feeds /\ LinkedInv /\ children \in [Node -> NodeOrNull] /\ next \in [Node -> NodeOrNull]
  BY DEF LoadIInv, Linked, LoadTypeOK
<1>1. HereFacts /\ ListFacts /\ Placed
  BY <1>0, HereIs, ListIs, PlacedIs DEF LinkedInv
<1>2. Found(a) = T /\ SameLists(a)
  BY <1>0 DEF LinkedInv, Progress, Sharing
<1>3. T \in Here \ Inside /\ a \in Inside /\ a \in Here
  BY <1>1 DEF HereFacts
<1>4. Chain(T) = L
  BY <1>0, <1>3, ChainIs
<1>5. Pointer(a) \in L
  BY <1>1 DEF ListFacts
<1>6. Chain(Pointer(a)) = Chain(doc.parent[a])
  BY <1>2 DEF SameLists, Chain
<1>7. children[a] = Text(a) /\ next[Text(a)] = IF Blind(a) THEN Null ELSE Least(L)
  <2>1. children[a] = Text(a) /\ children[T] = Least(L)
    BY <1>0, <1>3 DEF LinkedInv, Lists, ListAt
  <2> QED
    BY <1>2, <2>1 DEF SameLists
<1> DEFINE t == Text(a)
           fs == {next}
           S == {t}
           R == Reach(S, fs)
<1>8. t \in Node /\ Null \notin Node /\ L \in SUBSET Node
  BY <1>1, <1>3, Sizes DEF Placed
<1>9. Closed(R, fs) /\ S \ {Null} \subseteq R
  <2>1. S \subseteq NodeOrNull /\ Pointers(fs)
    BY <1>0, <1>8 DEF NodeOrNull, Pointers
  <2> HIDE DEF S, fs
  <2> QED
    BY <2>1, ReachClosed
<1>10. Chain(a) = R
  BY <1>7 DEF Chain
<1>11. t \in R /\ \A y \in R : next[y] # Null => next[y] \in R
  <2> HIDE DEF R
  <2> QED
    BY <1>8, <1>9 DEF Closed
<1>12. ASSUME NEW Z, Closed(Z, fs), t \in Z PROVE R \subseteq Z
  <2>1. S \ {Null} \subseteq Z
    BY <1>12
  <2> HIDE DEF S, fs
  <2> QED
    BY <1>12, <2>1, ReachLeast
<1>13. CASE Blind(a)
  <2>1. next[t] = Null
    BY <1>7, <1>13
  <2>2. Closed({t}, fs)
    BY <2>1 DEF Closed
  <2>3. R \subseteq {t}
    <3> HIDE DEF R, fs, t
    <3> QED
      BY <1>12, <2>2
  <2> HIDE DEF R
  <2> QED
    BY <1>2, <1>5, <1>4, <1>6, <1>10, <1>11, <1>13, <2>3
<1>14. CASE ~Blind(a)
  <2> DEFINE Z == {t} \cup L
  <2>1. next[t] = Least(L) /\ Least(L) \in L
    BY <1>5, <1>7, <1>8, <1>14, LeastIs
  <2>2. \A y \in L : next[y] = Least(Later(L, y)) /\ next[y] \in L \cup {Null}
    BY <1>0, <1>3, FirstOrNull DEF LinkedInv
  <2>3. R \subseteq Z
    <3>1. Closed(Z, fs) /\ t \in Z
      BY <2>1, <2>2 DEF Closed
    <3> HIDE DEF R, fs, Z, t
    <3> QED
      BY <1>12, <3>1
  <2> HIDE DEF R, t
  <2>4. Least(L) \in R
    BY <1>8, <1>11, <2>1
  <2>5. ASSUME NEW y \in L, y \in R, Later(L, y) # {} PROVE Least(Later(L, y)) \in R
    <3>1. Later(L, y) \in SUBSET Node
      BY <1>8 DEF Later
    <3>2. next[y] \in Node
      BY <2>2, <2>5, <3>1, LeastIs
    <3> QED
      BY <1>8, <1>11, <2>2, <2>5, <3>2
  <2>6. L \subseteq R
    <3> HIDE DEF L
    <3> QED
      BY <1>8, <2>4, <2>5, ListCover
  <2>7. R = {t} \cup L
    BY <1>11, <2>3, <2>6
  <2> QED
    BY <1>2, <1>4, <1>5, <1>6, <1>10, <1>14, <2>7 DEF t
<1> QED
  BY <1>13, <1>14

\* The invariant implies FreedOnce.
LEMMA FreedOnceIs == LoadIInv => FreedOnce
BY DEF LoadIInv, Cleared, FreedOnce

\* Type correctness of the loading of a feed.
THEOREM LoadTyped == LoadSpec => []LoadTypeOK
<1>1. LoadIInv => LoadTypeOK
  BY DEF LoadIInv
<1> QED
  BY <1>1, LoadInvariant, PTL

\* For every feed: nothing that Query::find, permalinks or a walk of a loaded site
\* (site.cpp, context.cpp) reaches was freed by initializeAssociation, unless an
\* association was removed from a list that was shared.
THEOREM NothingDangles == LoadSpec => []NoDangling
BY NoDanglingIs, LoadInvariant, PTL

\* For every feed and order of its associations: an association has the children of
\* its node, those that are linked later too, and the node has a child with those of
\* the association's parent.  Exactly the first association to a node without children
\* has none, whatever is linked later (initializeAssociation, context.cpp:115).
THEOREM EndsSeeEachOther == LoadSpec => []BothWays
BY BothWaysIs, LoadInvariant, PTL

\* For every feed: the last pointers that initializeAssociation keeps for the item
\* and for its copies (pointerNodes) are the ends of their lists.
THEOREM EndsAreEnds == LoadSpec => []LastIsLast
BY LastIsLastIs, LoadInvariant, PTL

\* For every feed: ~Site frees every node, context and property list, and none
\* twice, whatever initializeAssociation shared and freed before.
THEOREM AllFreedOnce == LoadSpec => []FreedOnce
BY FreedOnceIs, LoadInvariant, PTL

-----------------------------------------------------------------------------
\* The site registry.
USE SiteRegistryAssumption

\* Names for what a key is made of, used throughout.
LEMMA KeyFacts ==
    /\ \A k \in SiteKey : k[1] \in Subdomain /\ k[2] \in BOOLEAN
    /\ Blank \in Site
    /\ \A m : Named(m) \subseteq SiteKey
BY DEF SiteKey, Blank, Site, Version, How, Named

\* An empty registry satisfies the invariant.
LEMMA InitIInv == Init => IInv
<1> SUFFICES ASSUME Init PROVE IInv
  OBVIOUS
<1> USE DEF Init
<1>1. TypeOK
  BY KeyFacts DEF TypeOK, PC, Job, Message, Thread
<1>3. MutexMatchesPC /\ LoadedOnce /\ ReloadTakesEffect
  BY DEF MutexMatchesPC, LoadedOnce, ReloadTakesEffect, Locked, Building
<1>4. LoadsAreFresh
  BY DEF LoadsAreFresh, Read
<1>5. PublishedIsPast
  BY KeyFacts DEF PublishedIsPast, Blank
<1> QED
  BY <1>1, <1>3, <1>4, <1>5 DEF IInv

\* A new version in S3 leaves the registry alone.
LEMMA PublishIInv ==
    ASSUME IInv, NEW s \in Subdomain, Publish(s)
    PROVE  IInv'
<1> USE DEF IInv, Publish
<1>1. TypeOK' /\ \A u \in Subdomain : feed'[u] >= feed[u] /\ secret'[u] >= secret[u]
  <2>0. feed[s] < MaxVersion /\ secret[s] < MaxVersion
    <3>1. feed[s] \in Nat /\ secret[s] \in Nat /\ feed[s] >= 1 /\ secret[s] >= 1
      BY DEF TypeOK
    <3>2. feed[s] + secret[s] < MaxVersion /\ MaxVersion \in Nat
      BY SiteRegistryAssumption
    <3> QED
      BY <3>1, <3>2
  <2>1. CASE feed[s] < MaxVersion /\ feed' = [feed EXCEPT ![s] = @ + 1] /\ UNCHANGED secret
    <3>1. feed' \in [Subdomain -> 1..MaxVersion] /\ \A u \in Subdomain : feed'[u] >= feed[u]
      BY <2>1 DEF TypeOK
    <3> QED
      BY <2>1, <3>1 DEF TypeOK
  <2>2. CASE secret[s] < MaxVersion /\ secret' = [secret EXCEPT ![s] = @ + 1] /\ UNCHANGED feed
    <3>1. secret' \in [Subdomain -> 1..MaxVersion] /\ \A u \in Subdomain : secret'[u] >= secret[u]
      BY <2>2 DEF TypeOK
    <3> QED
      BY <2>2, <3>1 DEF TypeOK
  <2> QED
    BY <2>0, <2>1, <2>2
<1>3. PublishedIsPast'
  <2> SUFFICES ASSUME NEW k \in SiteKey
               PROVE  published[k].feed <= feed'[k[1]] /\ published[k].secret <= secret'[k[1]]
    BY DEF PublishedIsPast
  <2>1. k[1] \in Subdomain /\ published[k] \in Site
    BY KeyFacts DEF TypeOK
  <2>2. published[k].feed \in Nat /\ published[k].secret \in Nat
    BY <2>1 DEF Site, Version
  <2>3. feed[k[1]] \in Nat /\ secret[k[1]] \in Nat /\ feed'[k[1]] \in Nat /\ secret'[k[1]] \in Nat
    BY <1>1, <2>1 DEF TypeOK
  <2> QED
    BY <1>1, <2>1, <2>2, <2>3 DEF PublishedIsPast
<1>4. MutexMatchesPC' /\ LoadedOnce' /\ ReloadTakesEffect' /\ LoadsAreFresh'
  BY DEF MutexMatchesPC, LoadedOnce, ReloadTakesEffect, LoadsAreFresh, Key
<1> QED
  BY <1>1, <1>3, <1>4

\* A message on the bus leaves the registry alone.
LEMMA AnnounceIInv ==
    ASSUME IInv, NEW m \in Message, Announce(m)
    PROVE  IInv'
<1> USE DEF IInv, Announce
<1>1. TypeOK'
  BY DEF TypeOK
<1>2. MutexMatchesPC' /\ LoadedOnce' /\ ReloadTakesEffect' /\ LoadsAreFresh' /\ PublishedIsPast'
  BY DEF MutexMatchesPC, LoadedOnce, ReloadTakesEffect, LoadsAreFresh, PublishedIsPast, Key
<1> QED
  BY <1>1, <1>2

\* A new request keeps the invariant: its worker holds no mutex.
LEMMA getSiteIInv ==
    ASSUME IInv, NEW w \in Worker, getSite(w)
    PROVE  IInv'
<1> USE DEF IInv
<1>1. PICK k \in SiteKey : job' = [job EXCEPT ![w].key = k]
  BY DEF getSite
<1>2. /\ pc[w] = "idle" /\ pc' = [pc EXCEPT ![w] = "lock"]
      /\ UNCHANGED <<feed, secret, sites, siteMutex, queue, threads, published>>
  BY DEF getSite
<1>3. job[w] \in Job /\ job'[w] = [job[w] EXCEPT !.key = k]
  BY <1>1 DEF TypeOK
<1>4. TypeOK'
  <2>1. job' \in [Worker -> Job]
    BY <1>1, <1>3 DEF TypeOK, Job
  <2> QED
    BY <1>2, <2>1 DEF TypeOK, PC
<1>5. \A v \in Worker : v # w => job'[v] = job[v] /\ pc'[v] = pc[v]
  BY <1>1, <1>2 DEF TypeOK
<1>6. pc'[w] = "lock"
  BY <1>2 DEF TypeOK
<1>7. MutexMatchesPC'
  BY <1>2, <1>5, <1>6 DEF MutexMatchesPC, Locked, Key
<1>8. LoadedOnce' /\ ReloadTakesEffect' /\ LoadsAreFresh' /\ PublishedIsPast'
  BY <1>2, <1>5, <1>6 DEF LoadedOnce, ReloadTakesEffect, LoadsAreFresh, PublishedIsPast,
                          Building, Read, Key
<1> QED
  BY <1>4, <1>7, <1>8

\* Taking a free site mutex keeps the invariant.
LEMMA _get_site_mutexIInv ==
    ASSUME IInv, NEW w \in Worker, _get_site_mutex(w)
    PROVE  IInv'
<1> USE DEF IInv, _get_site_mutex
<1>1. TypeOK' /\ Key(w) \in SiteKey
  BY DEF TypeOK, PC, Key, Job
<1>2. \A v \in Worker : v # w => pc'[v] = pc[v]
  BY DEF TypeOK
<1>3. pc'[w] = "find" /\ siteMutex[Key(w)] = NoWorker
  BY DEF TypeOK
<1>4. \A k \in SiteKey : siteMutex'[k] = IF k = Key(w) THEN w ELSE siteMutex[k]
  BY <1>1 DEF TypeOK
<1>5. MutexMatchesPC'
  BY <1>2, <1>3, <1>4 DEF MutexMatchesPC, Locked, Key
<1>6. LoadedOnce' /\ ReloadTakesEffect' /\ LoadsAreFresh' /\ PublishedIsPast'
  BY <1>2, <1>3 DEF LoadedOnce, ReloadTakesEffect, LoadsAreFresh, PublishedIsPast,
                    Building, Read, Key
<1> QED
  BY <1>1, <1>5, <1>6

\* Leaving getSite, with the map, S3 and the bus untouched, keeps the invariant.
LEMMA LeaveIInv ==
    ASSUME IInv, NEW w \in Worker, Leave(w), pc[w] \in Locked,
           UNCHANGED <<feed, secret, sites, queue, threads, published>>
    PROVE  IInv'
<1> USE DEF IInv
<1>1. /\ job' = [job EXCEPT ![w].site = Blank]
      /\ pc' = [pc EXCEPT ![w] = "idle"]
      /\ siteMutex' = [siteMutex EXCEPT ![Key(w)] = NoWorker]
  BY DEF Leave, Build
<1>2. job[w] \in Job /\ Key(w) \in SiteKey /\ job'[w] = [job[w] EXCEPT !.site = Blank]
  BY <1>1 DEF TypeOK, Key, Job
<1>3. TypeOK'
  <2>1. job' \in [Worker -> Job]
    BY <1>1, <1>2, KeyFacts DEF TypeOK, Job
  <2> QED
    BY <1>1, <1>2, <2>1 DEF TypeOK, PC
<1>4. \A v \in Worker : v # w => job'[v] = job[v] /\ pc'[v] = pc[v]
  BY <1>1 DEF TypeOK
<1>5. pc'[w] = "idle"
  BY <1>1 DEF TypeOK
<1>6. \A k \in SiteKey : siteMutex'[k] = IF k = Key(w) THEN NoWorker ELSE siteMutex[k]
  BY <1>1, <1>2 DEF TypeOK
<1>7. MutexMatchesPC'
  <2> SUFFICES ASSUME NEW v \in Worker, NEW k \in SiteKey
               PROVE  siteMutex'[k] = v <=> pc'[v] \in Locked /\ job'[v].key = k
    BY DEF MutexMatchesPC, Key
  <2>1. CASE v = w
    BY <1>2, <1>5, <1>6, <2>1 DEF MutexMatchesPC, Locked, Key
  <2>2. CASE v # w
    BY <1>2, <1>4, <1>6, <2>2 DEF MutexMatchesPC, Key
  <2> QED
    BY <2>1, <2>2
<1>8. LoadedOnce' /\ ReloadTakesEffect' /\ LoadsAreFresh' /\ PublishedIsPast'
  BY <1>4, <1>5 DEF LoadedOnce, ReloadTakesEffect, LoadsAreFresh, PublishedIsPast,
                    Building, Read, Key
<1> QED
  BY <1>3, <1>7, <1>8

\* Looking a site up keeps the invariant: only a worker that finds none builds.
LEMMA _getSiteIInv ==
    ASSUME IInv, NEW w \in Worker, _getSite(w)
    PROVE  IInv'
<1> USE DEF IInv
<1>1. CASE Leave(w)
  BY <1>1, LeaveIInv DEF _getSite, Locked
<1>2. CASE sites[Key(w)] = NoSite /\ pc' = [pc EXCEPT ![w] = "feed"] /\ UNCHANGED <<siteMutex, job>>
  <2>1. /\ pc[w] = "find" /\ UNCHANGED <<feed, secret, sites, queue, threads, published>>
    BY DEF _getSite
  <2>2. TypeOK'
    BY <1>2, <2>1 DEF TypeOK, PC
  <2>3. \A v \in Worker : pc'[v] = IF v = w THEN "feed" ELSE pc[v]
    BY <1>2 DEF TypeOK
  <2>4. MutexMatchesPC'
    BY <1>2, <2>1, <2>3 DEF MutexMatchesPC, Locked, Key
  <2>5. LoadedOnce' /\ ReloadTakesEffect' /\ LoadsAreFresh' /\ PublishedIsPast'
    BY <1>2, <2>1, <2>3 DEF LoadedOnce, ReloadTakesEffect, LoadsAreFresh, PublishedIsPast,
                            Building, Read, Key
  <2> QED
    BY <2>2, <2>4, <2>5
<1> QED
  BY <1>1, <1>2 DEF _getSite

\* What read_s3 returns is a version, and a fresh one is the current one.
LEMMA read_s3Returns ==
    ASSUME NEW v \in 1..MaxVersion, NEW r \in read_s3(v)
    PROVE  r[1] \in Version /\ r[2] \in {"fresh", "disk"} /\ (r[2] = "fresh" => r[1] = v)
BY DEF read_s3, Version

\* A building step that stays inside Building keeps the invariant when the
\* part it read is fresh or tagged.
LEMMA BuildIInv ==
    ASSUME IInv, NEW w \in Worker, NEW s \in Site, NEW to \in Read, pc[w] \in Building,
           Build(w, s, to),
           UNCHANGED <<feed, secret, sites, siteMutex, queue, threads, published>>,
           s.how = "fresh" => /\ s.feed >= published[Key(w)].feed
                              /\ to = "store" => s.secret >= published[Key(w)].secret
    PROVE  IInv'
<1> USE DEF IInv
<1>1. job' = [job EXCEPT ![w].site = s] /\ pc' = [pc EXCEPT ![w] = to]
  BY DEF Build
<1>2. job[w] \in Job /\ job'[w] = [job[w] EXCEPT !.site = s]
  BY <1>1 DEF TypeOK
<1>3. job'[w].key = job[w].key /\ job'[w].site = s /\ job'[w] \in Job
  BY <1>2 DEF Job
<1>4. TypeOK'
  <2>1. job' \in [Worker -> Job]
    BY <1>1, <1>2, <1>3 DEF TypeOK
  <2> QED
    BY <1>1, <2>1 DEF TypeOK, PC, Read
<1>5. \A v \in Worker : v # w => job'[v] = job[v] /\ pc'[v] = pc[v]
  BY <1>1 DEF TypeOK
<1>6. pc'[w] = to
  BY <1>1 DEF TypeOK
<1>7. \A v \in Worker : Key(v)' = Key(v)
  BY <1>3, <1>5 DEF Key
<1>8. MutexMatchesPC' /\ LoadedOnce'
  BY <1>5, <1>6, <1>7 DEF MutexMatchesPC, LoadedOnce, Locked, Building, Read
<1>9. LoadsAreFresh'
  BY <1>3, <1>5, <1>6, <1>7 DEF LoadsAreFresh
<1>10. ReloadTakesEffect' /\ PublishedIsPast'
  BY DEF ReloadTakesEffect, PublishedIsPast
<1> QED
  BY <1>4, <1>8, <1>9, <1>10

\* Reading the feed keeps the invariant: the version in S3 is not older than
\* what any reload saw.
LEMMA ReadFeedIInv ==
    ASSUME IInv, NEW w \in Worker, ReadFeed(w)
    PROVE  IInv'
<1> USE DEF IInv
<1>1. Key(w) \in SiteKey /\ Key(w)[1] \in Subdomain
  BY KeyFacts DEF TypeOK, Key, Job
<1>2. feed[Key(w)[1]] \in 1..MaxVersion
  BY <1>1 DEF TypeOK
<1>3. PICK r \in read_s3(feed[Key(w)[1]]) :
         Build(w, [feed |-> r[1], secret |-> 0, how |-> r[2]], "secret")
  BY DEF ReadFeed
<1>4. r[1] \in Version /\ r[2] \in {"fresh", "disk"} /\ (r[2] = "fresh" => r[1] = feed[Key(w)[1]])
  BY <1>2, <1>3, read_s3Returns
<1>5. published[Key(w)].feed <= feed[Key(w)[1]] /\ published[Key(w)].feed \in Nat
  BY <1>1 DEF PublishedIsPast, TypeOK, Site, Version
<1> DEFINE s == [feed |-> r[1], secret |-> 0, how |-> r[2]]
<1>6. s \in Site
  BY <1>4 DEF Site, How, Version
<1>7. s.how = "fresh" => s.feed >= published[Key(w)].feed
  BY <1>2, <1>4, <1>5
<1>8. pc[w] \in Building /\ "secret" \in Read
  BY DEF ReadFeed, Building, Read
<1>9. UNCHANGED <<feed, secret, sites, siteMutex, queue, threads, published>>
  BY DEF ReadFeed
<1>10. Build(w, s, "secret")
  BY <1>3
<1> HIDE DEF s
<1> QED
  BY <1>6, <1>7, <1>8, <1>9, <1>10, BuildIInv

\* Building the site keeps the invariant, or throws and leaves.
LEMMA LoadXmlDocIInv ==
    ASSUME IInv, NEW w \in Worker, LoadXmlDoc(w)
    PROVE  IInv'
<1> USE DEF IInv
<1>1. CASE Leave(w)
  BY <1>1, LeaveIInv DEF LoadXmlDoc, Locked
<1>2. CASE /\ \E r \in read_s3(secret[Key(w)[1]]) :
                Build(w, [job[w].site EXCEPT !.secret = r[1], !.how = Worse(@, r[2])], "store")
           /\ UNCHANGED siteMutex
  <2>1. Key(w) \in SiteKey /\ Key(w)[1] \in Subdomain /\ job[w].site \in Site
    BY KeyFacts DEF TypeOK, Key, Job
  <2>2. secret[Key(w)[1]] \in 1..MaxVersion
    BY <2>1 DEF TypeOK
  <2>3. PICK r \in read_s3(secret[Key(w)[1]]) :
           Build(w, [job[w].site EXCEPT !.secret = r[1], !.how = Worse(@, r[2])], "store")
    BY <1>2
  <2>4. r[1] \in Version /\ r[2] \in {"fresh", "disk"} /\ (r[2] = "fresh" => r[1] = secret[Key(w)[1]])
    BY <2>2, <2>3, read_s3Returns
  <2>5. published[Key(w)].secret <= secret[Key(w)[1]] /\ published[Key(w)].secret \in Nat
    BY <2>1 DEF PublishedIsPast, TypeOK, Site, Version
  <2> DEFINE s == [job[w].site EXCEPT !.secret = r[1], !.how = Worse(@, r[2])]
  <2>6. s \in Site /\ s.feed = job[w].site.feed /\ s.secret = r[1] /\ s.how = Worse(job[w].site.how, r[2])
    BY <2>1, <2>4 DEF Site, How, Worse
  <2>7. s.how = "fresh" => job[w].site.how = "fresh" /\ r[2] = "fresh"
    BY <2>6 DEF Worse
  <2>8. pc[w] = "secret" /\ UNCHANGED <<feed, secret, sites, queue, threads, published>>
    BY DEF LoadXmlDoc
  <2>9. s.how = "fresh" => /\ s.feed >= published[Key(w)].feed
                           /\ s.secret >= published[Key(w)].secret
    BY <2>2, <2>4, <2>5, <2>6, <2>7, <2>8 DEF LoadsAreFresh, Read
  <2>10. pc[w] \in Building /\ "store" \in Read
    BY <2>8 DEF Building, Read
  <2>11. Build(w, s, "store")
    BY <2>3
  <2> HIDE DEF s
  <2> QED
    BY <1>2, <2>6, <2>8, <2>9, <2>10, <2>11, BuildIInv
<1> QED
  BY <1>1, <1>2 DEF LoadXmlDoc

\* Storing the site keeps the invariant: nobody else builds a site of this key.
LEMMA _loadSiteIInv ==
    ASSUME IInv, NEW w \in Worker, _loadSite(w)
    PROVE  IInv'
<1> USE DEF IInv, _loadSite
<1>1. Key(w) \in SiteKey /\ job[w].site \in Site
  BY DEF TypeOK, Key, Job
<1>2. TypeOK'
  BY <1>1 DEF TypeOK, PC
<1>3. \A v \in Worker : pc'[v] = IF v = w THEN "validate" ELSE pc[v]
  BY DEF TypeOK
<1>4. \A k \in SiteKey : sites'[k] = IF k = Key(w) THEN job[w].site ELSE sites[k]
  BY <1>1 DEF TypeOK
<1>5. MutexMatchesPC'
  BY <1>3 DEF MutexMatchesPC, Locked, Key
<1>6. LoadedOnce'
  <2> SUFFICES ASSUME NEW v \in Worker, pc'[v] \in Building PROVE sites'[Key(v)] = NoSite
    BY DEF LoadedOnce, Key
  <2>1. v # w /\ pc[v] \in Building
    BY <1>3 DEF Building
  <2>2. Key(v) \in SiteKey /\ Key(v) # Key(w)
    BY <1>1, <2>1 DEF MutexMatchesPC, Building, Locked, TypeOK, Key, Job
  <2> QED
    BY <1>4, <2>1, <2>2 DEF LoadedOnce
<1>7. ReloadTakesEffect'
  BY <1>1, <1>4 DEF ReloadTakesEffect, LoadsAreFresh, AtLeast, Read
<1>8. LoadsAreFresh' /\ PublishedIsPast'
  BY <1>3 DEF LoadsAreFresh, PublishedIsPast, Read, Key
<1> QED
  BY <1>2, <1>5, <1>6, <1>7, <1>8

\* A reload keeps the invariant, whoever calls it: the loads it overtakes are
\* tagged and the entries it finds are erased.
LEMMA reloadSiteIInv ==
    ASSUME IInv, NEW m \in Message, reloadSite(m),
           queue' \in Seq(Message), threads' \in [Slot -> Thread \cup {NoThread}],
           UNCHANGED <<feed, secret, siteMutex, pc>>
    PROVE  IInv'
<1> USE DEF IInv
<1> DEFINE now(k) == [feed |-> feed[k[1]], secret |-> secret[k[1]], how |-> "fresh"]
           hit(w) == pc[w] \in Read /\ Key(w) \in Named(m)
<1>1. \A k \in SiteKey : sites'[k] = IF k \in Named(m) THEN NoSite ELSE sites[k]
  BY DEF reloadSite
<1>2. \A k \in SiteKey : published'[k] = IF k \in Named(m) THEN now(k) ELSE published[k]
  BY DEF reloadSite
<1>3. \A w \in Worker : job'[w] = IF hit(w) THEN [job[w] EXCEPT !.site.how = "overtaken"] ELSE job[w]
  BY DEF reloadSite
<1>4. \A w \in Worker : job[w] \in Job /\ Key(w) \in SiteKey
  BY DEF TypeOK, Key, Job
<1>5. \A w \in Worker : /\ job'[w] \in Job
                        /\ job'[w].key = job[w].key
                        /\ hit(w) => job'[w].site.how = "overtaken"
                        /\ ~hit(w) => job'[w] = job[w]
  <2> SUFFICES ASSUME NEW w \in Worker
               PROVE  /\ job'[w] \in Job
                      /\ job'[w].key = job[w].key
                      /\ hit(w) => job'[w].site.how = "overtaken"
                      /\ ~hit(w) => job'[w] = job[w]
    OBVIOUS
  <2> HIDE DEF hit
  <2>1. CASE ~hit(w)
    BY <1>3, <1>4, <2>1
  <2>2. CASE hit(w)
    <3>1. job'[w] = [job[w] EXCEPT !.site.how = "overtaken"]
      BY <1>3, <2>2
    <3> QED
      BY <1>4, <2>2, <3>1 DEF Job, Site, How
  <2> QED
    BY <2>1, <2>2
<1>6. \A k \in SiteKey : now(k) \in Site
  BY KeyFacts DEF TypeOK, Site, Version, How
<1>7. TypeOK'
  <2>1. sites' \in [SiteKey -> Site \cup {NoSite}]
    BY DEF reloadSite, TypeOK
  <2>2. published' \in [SiteKey -> Site]
    <3>1. published' = [k \in SiteKey |-> IF k \in Named(m) THEN now(k) ELSE published[k]]
      BY DEF reloadSite
    <3> HIDE DEF now
    <3> QED
      BY <1>6, <3>1 DEF TypeOK
  <2>3. job' \in [Worker -> Job]
    <3>1. job' = [w \in Worker |-> job'[w]]
      BY DEF reloadSite
    <3> QED
      BY <1>5, <3>1
  <2> QED
    BY <2>1, <2>2, <2>3 DEF TypeOK
<1>8. \A w \in Worker : Key(w)' = Key(w) /\ pc'[w] = pc[w]
  BY <1>5 DEF Key
<1>9. MutexMatchesPC' /\ LoadedOnce'
  <2> HIDE DEF hit, now
  <2> QED
    BY <1>1, <1>4, <1>8 DEF MutexMatchesPC, LoadedOnce
<1>10. ReloadTakesEffect'
  <2> HIDE DEF hit, now
  <2> QED
    BY <1>1, <1>2 DEF ReloadTakesEffect
<1>11. LoadsAreFresh'
  <2> SUFFICES ASSUME NEW w \in Worker, job'[w].site.how = "fresh", pc[w] \in Read
               PROVE  /\ job'[w].site.feed >= published'[Key(w)].feed
                      /\ pc[w] = "store" => job'[w].site.secret >= published'[Key(w)].secret
    BY <1>8 DEF LoadsAreFresh, Read
  <2>1. ~hit(w) /\ job'[w] = job[w]
    BY <1>5
  <2>2. Key(w) \notin Named(m)
    BY <2>1
  <2>3. published'[Key(w)] = published[Key(w)]
    BY <1>2, <1>4, <2>2
  <2> QED
    BY <2>1, <2>3 DEF LoadsAreFresh
<1>12. PublishedIsPast'
  <2> SUFFICES ASSUME NEW k \in SiteKey
               PROVE  published'[k].feed <= feed[k[1]] /\ published'[k].secret <= secret[k[1]]
    BY DEF PublishedIsPast
  <2>1. feed[k[1]] \in Nat /\ secret[k[1]] \in Nat
    BY KeyFacts DEF TypeOK
  <2>2. now(k).feed = feed[k[1]] /\ now(k).secret = secret[k[1]]
    OBVIOUS
  <2>3. CASE k \in Named(m)
    <3>1. published'[k] = now(k)
      BY <1>2, <2>3
    <3> HIDE DEF now
    <3> QED
      BY <2>1, <2>2, <3>1
  <2>4. CASE k \notin Named(m)
    <3>1. published'[k] = published[k]
      BY <1>2, <2>4
    <3> QED
      BY <3>1 DEF PublishedIsPast
  <2> QED
    BY <2>3, <2>4
<1> QED
  BY <1>7, <1>9, <1>10, <1>11, <1>12

\* The vector of reload threads keeps its type when ended threads leave it.
LEMMA BusIInv ==
    ASSUME IInv, BusRun \/ \E i \in Slot : BusReload(i)
    PROVE  IInv'
<1> USE DEF IInv
<1>1. CASE BusRun
  <2>1. Head(queue) \in Message /\ Tail(queue) \in Seq(Message)
    BY <1>1 DEF BusRun, TypeOK
  <2>3. [sub |-> Head(queue), done |-> FALSE] \in Thread
    BY <2>1 DEF Thread
  <2>4. threads' \in [Slot -> Thread \cup {NoThread}]
    BY <1>1, <2>3 DEF BusRun, TypeOK
  <2> QED
    BY <1>1, <2>1, <2>4, reloadSiteIInv DEF BusRun
<1>2. CASE \E i \in Slot : BusReload(i)
  <2>1. PICK i \in Slot : BusReload(i)
    BY <1>2
  <2>2. threads[i] \in Thread
    BY <2>1 DEF TypeOK, BusReload, Running
  <2>3. threads' \in [Slot -> Thread \cup {NoThread}]
    BY <2>1, <2>2 DEF BusReload, TypeOK, Thread
  <2>4. threads[i].sub \in Message /\ queue' \in Seq(Message)
    BY <2>1, <2>2 DEF Thread, BusReload, TypeOK
  <2> QED
    BY <2>1, <2>3, <2>4, reloadSiteIInv DEF BusReload
<1> QED
  BY <1>1, <1>2

\* Every step of the registry keeps the invariant.
LEMMA NextIInv == IInv /\ [Next]_vars => IInv'
<1> SUFFICES ASSUME IInv, [Next]_vars PROVE IInv'
  OBVIOUS
<1>1. CASE UNCHANGED vars
  BY <1>1 DEF vars, IInv, TypeOK, MutexMatchesPC, LoadedOnce, ReloadTakesEffect,
              LoadsAreFresh, PublishedIsPast, Key
<1>2. CASE \E s \in Subdomain : Publish(s)
  BY <1>2, PublishIInv
<1>3. CASE \E m \in Message : Announce(m)
  BY <1>3, AnnounceIInv
<1>4. ASSUME NEW w \in Worker, getSite(w) \/ Serve(w)
      PROVE  IInv'
  <2>1. CASE validateSecretKey(w)
    BY <2>1, LeaveIInv DEF validateSecretKey, Locked
  <2> QED
    BY <1>4, <2>1, getSiteIInv, _get_site_mutexIInv, _getSiteIInv, ReadFeedIInv,
       LoadXmlDocIInv, _loadSiteIInv DEF Serve
<1>5. CASE BusRun \/ \E i \in Slot : BusReload(i)
  BY <1>5, BusIInv
<1> QED
  BY <1>1, <1>2, <1>3, <1>4, <1>5 DEF Next

\* Mutexes, program counters and the map of sites agree in every reachable
\* state, whatever the interleaving of requests, publications and reloads.
THEOREM RegistryInvariant == Spec => []IInv
<1>1. Init => IInv
  BY InitIInv
<1>2. IInv /\ [Next]_vars => IInv'
  BY NextIInv
<1> QED
  BY <1>1, <1>2, PTL DEF Spec

\* A site is built by one worker at a time and only while the map has none.
THEOREM RegistryLoadedOnce == Spec => []LoadedOnce
<1>1. IInv => LoadedOnce
  BY DEF IInv
<1> QED
  BY <1>1, RegistryInvariant, PTL

\* A site older than the last reload of its key was overtaken by that reload
\* while it was being loaded, or came from the disk cache.
THEOREM RegistryReloadTakesEffect == Spec => []ReloadTakesEffect
<1>1. IInv => ReloadTakesEffect
  BY DEF IInv
<1> QED
  BY <1>1, RegistryInvariant, PTL

\* No step puts one loaded site in the place of another.
THEOREM RegistryNeverReplaced == Spec => NeverReplaced
<1> DEFINE Kept == \A k \in SiteKey : sites[k] # NoSite => sites'[k] \in {sites[k], NoSite}
<1>1. IInv /\ [Next]_vars => [Kept]_vars
  <2> SUFFICES ASSUME IInv, [Next]_vars PROVE Kept
    OBVIOUS
  <2>1. CASE UNCHANGED sites
    BY <2>1
  <2>2. ASSUME NEW m, reloadSite(m) PROVE Kept
    BY <2>2 DEF reloadSite
  <2>3. ASSUME NEW w \in Worker, _loadSite(w) PROVE Kept
    <3>1. sites[Key(w)] = NoSite
      BY <2>3 DEF IInv, LoadedOnce, _loadSite, Building
    <3>2. \A k \in SiteKey : k # Key(w) => sites'[k] = sites[k]
      BY <2>3 DEF IInv, TypeOK, _loadSite
    <3> QED
      BY <3>1, <3>2
  <2> QED
    BY <2>1, <2>2, <2>3 DEF Next, Serve, vars, Publish, Announce, getSite, _get_site_mutex,
       _getSite, ReadFeed, LoadXmlDoc, validateSecretKey, BusRun, BusReload
<1> QED
  BY <1>1, RegistryInvariant, PTL DEF Spec, NeverReplaced
=============================================================================
