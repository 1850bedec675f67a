---------------------------- MODULE HelperProofs ----------------------------
(***************************************************************************)
(* What is read from --request options and from certificates and what JSON *)
(* shows, for inputs of any length and depth, and the safety of the camera *)
(* scan, for any cameras.  The folds are taken element by element: what    *)
(* holds of an input and is kept by one more element holds of every input. *)
(* The DER traversal is taken by the number of bytes it looks at, a value  *)
(* that is shown by its depth.                                             *)
(***************************************************************************)
EXTENDS Algorithms, CameraScan, SequenceTheorems, FiniteSetTheorems, WellFoundedInduction, TLAPS

(* Every set of natural numbers has a least element.                       *)
LEMMA LeastNumber ==
    ASSUME NEW T, T \subseteq Nat, T # {}
    PROVE  \E x \in T : \A y \in T : x <= y
<1> DEFINE R == {p \in Nat \X Nat : p[1] < p[2]}
<1>1. IsWellFoundedOn(R, Nat)
  BY NatLessThanWellFounded DEF OpToRel
<1> HIDE DEF R
<1>2. PICK x \in T : \A y \in T : ~(<<y, x>> \in R)
  BY <1>1, WFMin
<1>3. ASSUME NEW y \in T PROVE x <= y
  <2>1. <<y, x>> \notin R
    BY <1>2
  <2> QED
    BY <2>1 DEF R
<1> QED
  BY <1>3

(* Induction over a beginning of the natural numbers.                      *)
LEMMA Induction ==
    ASSUME NEW n \in Nat, NEW S, 0 \in S, \A k \in 0..(n - 1) : k \in S => k + 1 \in S
    PROVE  0..n \subseteq S
<1> SUFFICES ASSUME (0..n) \ S # {} PROVE FALSE
  OBVIOUS
<1>1. PICK x \in (0..n) \ S : \A y \in (0..n) \ S : x <= y
  <2>1. (0..n) \ S \subseteq Nat
    OBVIOUS
  <2> QED
    BY <2>1, LeastNumber
<1>2. x # 0 /\ x - 1 \in 0..(n - 1)
  BY <1>1
<1>3. x - 1 \in S
  BY <1>1, <1>2
<1> QED
  BY <1>1, <1>2, <1>3

(* The greatest of the first numbers, and of a set that has a greatest.    *)
LEMMA GreatestIs ==
    ASSUME NEW S, S \subseteq Int, NEW x \in S, \A y \in S : x >= y
    PROVE  Max(S) = x
<1>1. \E y \in S : \A z \in S : y >= z
  OBVIOUS
<1>2. Max(S) \in S /\ \A z \in S : Max(S) >= z
  BY <1>1 DEF Max
<1>3. Max(S) >= x /\ x >= Max(S) /\ Max(S) \in Int /\ x \in Int
  BY <1>2
<1> QED
  BY <1>3

(* A set of the first numbers has its greatest in it.                      *)
LEMMA GreatestOfFirst ==
    ASSUME NEW n \in Nat, NEW s \in SUBSET (1..n), s # {}
    PROVE  Max(s) \in s /\ \A y \in s : Max(s) >= y
<1> DEFINE T == {y \in 0..n : \A z \in s : z <= y}
<1>0. \A z \in s : z \in Nat /\ 1 <= z /\ z <= n
  OBVIOUS
<1>1. n \in T /\ T \subseteq Nat /\ T # {}
  BY <1>0
<1>2. PICK x \in T : \A y \in T : x <= y
  <2> HIDE DEF T
  <2> QED
    BY <1>1, LeastNumber
<1>3. x \in s
  <2> SUFFICES ASSUME x \notin s PROVE FALSE
    OBVIOUS
  <2>0. x \in 0..n /\ \A z \in s : z <= x /\ z # x
    OBVIOUS
  <2>1. x # 0
    <3>1. PICK z \in s : TRUE
      OBVIOUS
    <3> QED
      BY <1>0, <2>0, <3>1
  <2>2. \A z \in s : z <= x - 1
    BY <1>0, <2>0
  <2>3. x - 1 \in T
    BY <2>1, <2>2
  <2> QED
    BY <1>2, <2>3
<1>4. \A y \in s : x >= y
  OBVIOUS
<1> QED
  BY <1>3, <1>4 DEF Max

(* The function that MapThenFoldSet recurses with exists, over subsets of  *)
(* the domain of a sequence: `step` is the fold's operator, on a set that  *)
(* it does not leave.                                                      *)
IsFold(g, n, base, step) ==
    \A s \in SUBSET (1..n) : g[s] = IF s = {} THEN base ELSE step[<<Max(s), g[s \ {Max(s)}]>>]

LEMMA FoldExists ==
    ASSUME NEW n \in Nat, NEW V, NEW base \in V, NEW step \in [(1..n) \X V -> V]
    PROVE  \E g \in [SUBSET (1..n) -> V] : IsFold(g, n, base, step)
<1> DEFINE Folds(k, g) == \A s \in SUBSET (1..k) :
               g[s] = IF s = {} THEN base ELSE step[<<Max(s), g[s \ {Max(s)}]>>]
           S == {k \in 0..n : \E g \in [SUBSET (1..k) -> V] : Folds(k, g)}
<1>1. 0 \in S
  <2> DEFINE g == [s \in SUBSET (1..0) |-> base]
  <2>1. g \in [SUBSET (1..0) -> V]
    OBVIOUS
  <2>2. \A s \in SUBSET (1..0) : s = {}
    OBVIOUS
  <2>3. Folds(0, g)
    BY <2>2
  <2> HIDE DEF g, Folds
  <2>4. \E f \in [SUBSET (1..0) -> V] : Folds(0, f)
    BY <2>1, <2>3
  <2>5. 0 \in 0..n
    OBVIOUS
  <2> QED
    BY <2>4, <2>5
<1>2. ASSUME NEW k \in 0..(n - 1), k \in S
      PROVE  k + 1 \in S
  <2>1. PICK g \in [SUBSET (1..k) -> V] : Folds(k, g)
    BY <1>2
  <2> DEFINE h == [s \in SUBSET (1..(k + 1)) |->
                      IF k + 1 \in s THEN step[<<k + 1, g[s \ {k + 1}]>>] ELSE g[s]]
  <2>2. ASSUME NEW s \in SUBSET (1..(k + 1)), k + 1 \in s
        PROVE  s \ {k + 1} \in SUBSET (1..k) /\ Max(s) = k + 1 /\ k + 1 \notin s \ {k + 1}
               /\ s \ {k + 1} \in SUBSET (1..(k + 1))
    <3>1. s \subseteq Int /\ \A y \in s : k + 1 >= y
      OBVIOUS
    <3>2. Max(s) = k + 1
      BY <2>2, <3>1, GreatestIs
    <3>3. s \ {k + 1} \in SUBSET (1..k)
      OBVIOUS
    <3> QED
      BY <3>2, <3>3
  <2>3. ASSUME NEW s \in SUBSET (1..(k + 1)), k + 1 \notin s
        PROVE  s \in SUBSET (1..k)
    BY <2>3
  <2>4. ASSUME NEW s \in SUBSET (1..(k + 1)) PROVE h[s] \in V
    <3>1. CASE k + 1 \in s
      <4>1. <<k + 1, g[s \ {k + 1}]>> \in (1..n) \X V
        BY <2>2, <3>1
      <4> QED
        BY <3>1, <4>1
    <3>2. CASE k + 1 \notin s
      BY <2>3, <3>2
    <3> QED
      BY <3>1, <3>2
  <2>5. h \in [SUBSET (1..(k + 1)) -> V]
    BY <2>4
  <2>6. ASSUME NEW s \in SUBSET (1..(k + 1))
        PROVE  h[s] = IF s = {} THEN base ELSE step[<<Max(s), h[s \ {Max(s)}]>>]
    <3>1. CASE k + 1 \in s
      <4>1. h[s \ {k + 1}] = g[s \ {k + 1}]
        BY <2>2, <3>1
      <4>2. h[s] = step[<<k + 1, g[s \ {k + 1}]>>]
        BY <3>1
      <4> QED
        BY <2>2, <3>1, <4>1, <4>2
    <3>2. CASE k + 1 \notin s
      <4>1. s \in SUBSET (1..k) /\ h[s] = g[s]
        BY <2>3, <3>2
      <4>2. s \ {Max(s)} \in SUBSET (1..(k + 1)) /\ k + 1 \notin s \ {Max(s)}
        BY <3>2
      <4>3. h[s \ {Max(s)}] = g[s \ {Max(s)}]
        BY <4>2
      <4>4. g[s] = IF s = {} THEN base ELSE step[<<Max(s), g[s \ {Max(s)}]>>]
        BY <2>1, <4>1
      <4> QED
        BY <4>1, <4>3, <4>4
    <3> QED
      BY <3>1, <3>2
  <2>7. Folds(k + 1, h)
    BY <2>6
  <2> HIDE DEF h, Folds
  <2> QED
    BY <2>5, <2>7
<1> HIDE DEF S
<1>3. n \in 0..n /\ 0..n \subseteq S
  BY <1>1, <1>2, Induction
<1> QED
  BY <1>3 DEF S, IsFold

(* What FoldLeft has folded after the first elements of a sequence.        *)
LEMMA FirstNumbers ==
    ASSUME NEW n \in Nat, NEW k \in 1..n
    PROVE  /\ 1..k \in SUBSET (1..n) /\ 1..k # {} /\ Max(1..k) = k
           /\ (1..k) \ {Max(1..k)} = 1..(k - 1)
<1>1. k \in 1..k /\ 1..k \subseteq Int /\ \A y \in 1..k : k >= y
  OBVIOUS
<1>2. Max(1..k) = k
  BY <1>1, GreatestIs
<1>3. (1..k) \ {k} = 1..(k - 1)
  OBVIOUS
<1> QED
  BY <1>1, <1>2, <1>3
(* What has been folded of the first k elements, one by one.               *)
Unfolds(G, n, V, base, step) ==
    /\ G[{}] = base
    /\ \A s \in SUBSET (1..n) : s # {} /\ G[s \ {Max(s)}] \in V => G[s] = step[<<Max(s), G[s \ {Max(s)}]>>]

Runs(F, n, base, step) == F[0] = base /\ \A k \in 1..n : F[k] = step[<<k, F[k - 1]>>]

Folded(G, n, V, base, step) == \E F \in [0..n -> V] : Runs(F, n, base, step) /\ F[n] = G[1..n]

LEMMA OneByOne ==
    ASSUME NEW n \in Nat, NEW V, NEW base \in V, NEW step \in [(1..n) \X V -> V],
           NEW G, Unfolds(G, n, V, base, step)
    PROVE  Folded(G, n, V, base, step)
<1>1. ASSUME NEW k \in 1..n, G[1..(k - 1)] \in V PROVE G[1..k] = step[<<k, G[1..(k - 1)]>>]
  <2>1. /\ 1..k \in SUBSET (1..n) /\ 1..k # {} /\ Max(1..k) = k
        /\ (1..k) \ {Max(1..k)} = 1..(k - 1)
    BY FirstNumbers
  <2>2. G[(1..k) \ {Max(1..k)}] \in V
    BY <1>1, <2>1
  <2>3. G[1..k] = step[<<Max(1..k), G[(1..k) \ {Max(1..k)}]>>]
    BY <2>1, <2>2 DEF Unfolds
  <2> QED
    BY <2>1, <2>3
<1> DEFINE F == [k \in 0..n |-> G[1..k]]
           S == {k \in 0..n : G[1..k] \in V}
<1>2. 0 \in S /\ G[1..0] = base
  <2>1. 1..0 = {}
    OBVIOUS
  <2> QED
    BY <2>1 DEF Unfolds
<1>3. ASSUME NEW k \in 0..(n - 1), k \in S PROVE k + 1 \in S
  <2>1. k + 1 \in 1..n /\ (k + 1) - 1 = k /\ k + 1 \in 0..n
    OBVIOUS
  <2>2. G[1..(k + 1)] = step[<<k + 1, G[1..k]>>]
    BY <1>1, <1>3, <2>1
  <2>3. <<k + 1, G[1..k]>> \in (1..n) \X V
    BY <1>3, <2>1
  <2>4. G[1..(k + 1)] \in V
    BY <2>2, <2>3
  <2> QED
    BY <2>1, <2>4
<1>4. 0..n \subseteq S
  <2> HIDE DEF S
  <2> QED
    BY <1>2, <1>3, Induction
<1>5. F \in [0..n -> V] /\ \A k \in 0..n : F[k] = G[1..k]
  BY <1>4
<1> HIDE DEF F
<1>6. F[0] = base /\ F[n] = G[1..n]
  BY <1>2, <1>5
<1>7. ASSUME NEW k \in 1..n PROVE F[k] = step[<<k, F[k - 1]>>]
  <2>1. k \in 0..n /\ k - 1 \in 0..n
    OBVIOUS
  <2>2. F[k] = G[1..k] /\ F[k - 1] = G[1..(k - 1)] /\ F[k - 1] \in V
    BY <1>5, <2>1
  <2> QED
    BY <1>1, <2>2
<1> QED
  BY <1>5, <1>6, <1>7 DEF Runs, Folded
-----------------------------------------------------------------------------
(* --request options of any document types T, namespaces N and claims C.   *)
MapsOf(N, C)      == UNION {[S -> Seq(C)] : S \in SUBSET N}
RequestOf(T, N, C) == [docType : T, namespaces : MapsOf(N, C)]
OptionOf(T, N, C)  == [fields : Nat, docType : T, namespace : N, claims : Seq(C)]

(* The elements of a sequence that grows.                                  *)
LEMMA ElementsOfConcat ==
    ASSUME NEW C, NEW s \in Seq(C), NEW t \in Seq(C)
    PROVE  /\ s \o t \in Seq(C)
           /\ \A c : c \in ToSet(s \o t) <=> c \in ToSet(s) \/ c \in ToSet(t)
<1> DEFINE l == Len(s)
           m == Len(t)
<1>1. /\ s \o t \in Seq(C) /\ l \in Nat /\ m \in Nat /\ Len(s \o t) = l + m
      /\ \A i \in 1..l : (s \o t)[i] = s[i]
      /\ \A i \in 1..m : (s \o t)[l + i] = t[i]
  <2>1. /\ s \o t \in Seq(C) /\ l \in Nat /\ m \in Nat /\ Len(s \o t) = l + m
        /\ \A i \in 1..l : (s \o t)[i] = s[i]
    OBVIOUS
  <2>2. ASSUME NEW i \in 1..m PROVE (s \o t)[l + i] = t[i]
    <3>1. l + i \in 1..(l + m) /\ ~(l + i <= l) /\ (l + i) - l = i
      BY <2>1
    <3> QED
      BY <3>1
  <2> QED
    BY <2>1, <2>2
<1>2. DOMAIN s = 1..l /\ DOMAIN t = 1..m /\ DOMAIN (s \o t) = 1..(l + m)
  BY <1>1
<1> DEFINE u == s \o t
<1> HIDE DEF u, l, m
<1>3. ASSUME NEW c, c \in ToSet(u) PROVE c \in ToSet(s) \/ c \in ToSet(t)
  <2>1. PICK i \in 1..(l + m) : u[i] = c
    BY <1>2, <1>3 DEF ToSet, u
  <2>2. CASE i <= l
    <3>1. i \in 1..l
      BY <1>1, <2>2
    <3> QED
      BY <1>1, <1>2, <2>1, <3>1 DEF ToSet, u
  <2>3. CASE ~(i <= l)
    <3>1. i - l \in 1..m /\ l + (i - l) = i
      BY <1>1, <2>3
    <3>2. t[i - l] = c
      BY <1>1, <2>1, <3>1 DEF u
    <3> QED
      BY <1>2, <3>1, <3>2 DEF ToSet
  <2> QED
    BY <2>2, <2>3
<1>4. ASSUME NEW c, c \in ToSet(s) PROVE c \in ToSet(u)
  <2>1. PICK i \in 1..l : s[i] = c
    BY <1>2, <1>4 DEF ToSet
  <2>2. i \in 1..(l + m) /\ u[i] = c
    BY <1>1, <2>1 DEF u
  <2> QED
    BY <1>2, <2>2 DEF ToSet, u
<1>5. ASSUME NEW c, c \in ToSet(t) PROVE c \in ToSet(u)
  <2>1. PICK i \in 1..m : t[i] = c
    BY <1>2, <1>5 DEF ToSet
  <2>2. l + i \in 1..(l + m) /\ u[l + i] = c
    BY <1>1, <2>1 DEF u
  <2> QED
    BY <1>2, <2>2 DEF ToSet, u
<1> QED
  BY <1>1, <1>3, <1>4, <1>5 DEF u

(* A namespace is extended by claims, the others are left alone.           *)
LEMMA ExtendedIs ==
    ASSUME NEW N, NEW C, NEW f \in MapsOf(N, C), NEW ns \in N, NEW claims \in Seq(C)
    PROVE  /\ Extended(f, ns, claims) \in MapsOf(N, C)
           /\ DOMAIN Extended(f, ns, claims) = DOMAIN f \cup {ns}
           /\ \A x \in DOMAIN f \cup {ns} : \A c :
                 c \in ToSet(Extended(f, ns, claims)[x])
                     <=> (x \in DOMAIN f /\ c \in ToSet(f[x])) \/ (x = ns /\ c \in ToSet(claims))
<1> DEFINE before(x) == IF x \in DOMAIN f THEN f[x] ELSE <<>>
           added(x)  == IF x = ns THEN claims ELSE <<>>
           e == Extended(f, ns, claims)
           D == DOMAIN f \cup {ns}
<1>1. DOMAIN f \subseteq N /\ \A x \in DOMAIN f : f[x] \in Seq(C)
  BY DEF MapsOf
<1>2. \A x : before(x) \in Seq(C) /\ added(x) \in Seq(C)
  BY <1>1
<1>3. e = [x \in D |-> before(x) \o added(x)]
  BY DEF Extended
<1>4. \A c : c \notin ToSet(<<>>)
  BY DEF ToSet
<1>5. ASSUME NEW x \in D, NEW c
      PROVE  c \in ToSet(before(x) \o added(x))
                 <=> (x \in DOMAIN f /\ c \in ToSet(f[x])) \/ (x = ns /\ c \in ToSet(claims))
  <2>1. c \in ToSet(before(x) \o added(x)) <=> c \in ToSet(before(x)) \/ c \in ToSet(added(x))
    BY <1>2, ElementsOfConcat
  <2>2. c \in ToSet(before(x)) <=> x \in DOMAIN f /\ c \in ToSet(f[x])
    BY <1>4
  <2>3. c \in ToSet(added(x)) <=> x = ns /\ c \in ToSet(claims)
    BY <1>4
  <2> HIDE DEF before, added
  <2> QED
    BY <2>1, <2>2, <2>3
<1>6. \A x \in D : before(x) \o added(x) \in Seq(C)
  BY <1>2, ElementsOfConcat
<1> HIDE DEF before, added, e
<1>7. e \in [D -> Seq(C)] /\ D \in SUBSET N
  BY <1>1, <1>3, <1>6
<1>8. e \in MapsOf(N, C)
  BY <1>7 DEF MapsOf
<1> HIDE DEF D
<1>9. \A x \in D : e[x] = before(x) \o added(x)
  BY <1>3
<1> QED
  BY <1>5, <1>7, <1>8, <1>9 DEF e, D

(* The map that a new document type starts with.                           *)
LEMMA EmptyMap ==
    ASSUME NEW N, NEW C
    PROVE  <<>> \in MapsOf(N, C) /\ DOMAIN <<>> = {}
<1>1. DOMAIN <<>> = {}
  OBVIOUS
<1>2. <<>> = [x \in {} |-> <<>>]
  BY <1>1
<1>3. <<>> \in [{} -> Seq(C)] /\ {} \in SUBSET N
  BY <1>2
<1> QED
  BY <1>1, <1>3 DEF MapsOf

(* That a claim is asked for.                                              *)
Asks(request, t, ns, c) ==
    request.docType = t /\ ns \in DOMAIN request.namespaces /\ c \in ToSet(request.namespaces[ns])

Mentions(spec, t, ns, c) == spec.docType = t /\ spec.namespace = ns /\ c \in ToSet(spec.claims)

(* An option adds its claims to the request of its document type, which it *)
(* appends if there is none, and does nothing else.                        *)
Adds(more, requests, spec) ==
    LET n   == Len(requests)
        new == \A i \in 1..n : requests[i].docType # spec.docType
    IN  /\ Len(more) = IF new THEN n + 1 ELSE n
        /\ \A i \in 1..n : more[i].docType = requests[i].docType
        /\ new => more[n + 1].docType = spec.docType
        /\ \A t, ns, c :
              (\E i \in 1..Len(more) : Asks(more[i], t, ns, c))
                  <=> (\E i \in 1..n : Asks(requests[i], t, ns, c)) \/ Mentions(spec, t, ns, c)

LEMMA AddSpecIs ==
    ASSUME NEW T, NEW N, NEW C, NEW requests \in Seq(RequestOf(T, N, C)), NEW spec \in OptionOf(T, N, C)
    PROVE  /\ AddSpec(requests, spec) \in Seq(RequestOf(T, N, C))
           /\ Adds(AddSpec(requests, spec), requests, spec)
<1> DEFINE more  == AddSpec(requests, spec)
           n     == Len(requests)
           known == {i \in 1..n : requests[i].docType = spec.docType}
           R     == RequestOf(T, N, C)
<1>1. n \in Nat /\ DOMAIN requests = 1..n /\ \A i \in 1..n : requests[i] \in R
  OBVIOUS
<1>2. /\ spec.docType \in T /\ spec.namespace \in N /\ spec.claims \in Seq(C)
      /\ \A i \in 1..n : requests[i].docType \in T /\ requests[i].namespaces \in MapsOf(N, C)
  BY <1>1 DEF OptionOf, RequestOf
<1>3. CASE known = {}
  <2> DEFINE f == Extended(<<>>, spec.namespace, spec.claims)
             r == [docType |-> spec.docType, namespaces |-> f]
  <2>1. more = Append(requests, r)
    BY <1>1, <1>3 DEF AddSpec
  <2>2. /\ f \in MapsOf(N, C) /\ DOMAIN f = {spec.namespace}
        /\ \A c : c \in ToSet(f[spec.namespace]) <=> c \in ToSet(spec.claims)
    <3>1. PICK ns \in N, claims \in Seq(C) : ns = spec.namespace /\ claims = spec.claims
      BY <1>2
    <3>2. PICK none \in MapsOf(N, C) : none = <<>> /\ DOMAIN none = {}
      BY EmptyMap
    <3>3. f = Extended(none, ns, claims)
      BY <3>1, <3>2
    <3> HIDE DEF f
    <3>4. /\ Extended(none, ns, claims) \in MapsOf(N, C)
          /\ DOMAIN Extended(none, ns, claims) = DOMAIN none \cup {ns}
          /\ \A x \in DOMAIN none \cup {ns} : \A c :
                c \in ToSet(Extended(none, ns, claims)[x])
                    <=> (x \in DOMAIN none /\ c \in ToSet(none[x])) \/ (x = ns /\ c \in ToSet(claims))
      BY ExtendedIs
    <3> QED
      BY <3>1, <3>2, <3>3, <3>4
  <2> HIDE DEF f
  <2>3. r \in R
    BY <1>2, <2>2 DEF RequestOf
  <2>4. \A t, ns, c : Asks(r, t, ns, c) <=> Mentions(spec, t, ns, c)
    BY <2>2 DEF Asks, Mentions
  <2>5. r.docType = spec.docType
    OBVIOUS
  <2> HIDE DEF more, r, R, n
  <2>6. /\ more \in Seq(R) /\ Len(more) = n + 1 /\ more[n + 1] = r
        /\ \A i \in 1..n : more[i] = requests[i]
    BY <1>1, <2>1, <2>3, AppendProperties DEF n, R
  <2>7. \A i \in 1..(n + 1) : i \in 1..n \/ i = n + 1
    BY <1>1
  <2>8. n + 1 \in 1..(n + 1) /\ \A i \in 1..n : i \in 1..(n + 1)
    BY <1>1
  <2>9. ASSUME NEW t, NEW ns, NEW c
        PROVE  (\E i \in 1..(n + 1) : Asks(more[i], t, ns, c))
                   <=> (\E i \in 1..n : Asks(requests[i], t, ns, c)) \/ Mentions(spec, t, ns, c)
    BY <2>4, <2>6, <2>7, <2>8
  <2>10. \A i \in 1..n : requests[i].docType # spec.docType
    BY <1>3
  <2> QED
    BY <2>5, <2>6, <2>9, <2>10 DEF more, n, R, Adds
<1>4. CASE known # {}
  <2> DEFINE f(i) == Extended(requests[i].namespaces, spec.namespace, spec.claims)
             r(i) == [requests[i] EXCEPT !.namespaces = f(i)]
  <2>1. more = [i \in 1..n |-> IF i \notin known THEN requests[i] ELSE r(i)]
    BY <1>1, <1>4 DEF AddSpec
  <2>2. ASSUME NEW i \in known
        PROVE  /\ r(i) \in R /\ r(i).docType = requests[i].docType
               /\ \A t, ns, c : Asks(r(i), t, ns, c) <=> Asks(requests[i], t, ns, c) \/ Mentions(spec, t, ns, c)
    <3>1. requests[i] \in R /\ requests[i].docType = spec.docType /\ requests[i].namespaces \in MapsOf(N, C)
      BY <1>1, <1>2
    <3>2. /\ f(i) \in MapsOf(N, C)
          /\ DOMAIN f(i) = DOMAIN requests[i].namespaces \cup {spec.namespace}
          /\ \A x \in DOMAIN requests[i].namespaces \cup {spec.namespace} : \A c :
                c \in ToSet(f(i)[x])
                    <=> (x \in DOMAIN requests[i].namespaces /\ c \in ToSet(requests[i].namespaces[x]))
                        \/ (x = spec.namespace /\ c \in ToSet(spec.claims))
      <4>1. PICK ns \in N, claims \in Seq(C), before \in MapsOf(N, C) :
               ns = spec.namespace /\ claims = spec.claims /\ before = requests[i].namespaces
        BY <1>2, <3>1
      <4>2. f(i) = Extended(before, ns, claims)
        BY <4>1
      <4> HIDE DEF f
      <4>3. /\ Extended(before, ns, claims) \in MapsOf(N, C)
            /\ DOMAIN Extended(before, ns, claims) = DOMAIN before \cup {ns}
            /\ \A x \in DOMAIN before \cup {ns} : \A c :
                  c \in ToSet(Extended(before, ns, claims)[x])
                      <=> (x \in DOMAIN before /\ c \in ToSet(before[x])) \/ (x = ns /\ c \in ToSet(claims))
        BY ExtendedIs
      <4> QED
        BY <4>1, <4>2, <4>3
    <3> HIDE DEF f
    <3>3. r(i) \in R /\ r(i).docType = requests[i].docType /\ r(i).namespaces = f(i)
      BY <3>1, <3>2 DEF RequestOf
    <3> HIDE DEF r
    <3>4. ASSUME NEW t, NEW ns, NEW c
          PROVE  Asks(r(i), t, ns, c) <=> Asks(requests[i], t, ns, c) \/ Mentions(spec, t, ns, c)
      BY <3>1, <3>2, <3>3 DEF Asks, Mentions
    <3> QED
      BY <3>3, <3>4
  <2> HIDE DEF more, r, R, n
  <2>3. ASSUME NEW i \in 1..n
        PROVE  more[i] \in R /\ more[i].docType = requests[i].docType
    BY <1>1, <2>1, <2>2
  <2>4. more \in Seq(R) /\ Len(more) = n
    <3>1. more \in [1..n -> R]
      BY <2>1, <2>3
    <3> QED
      BY <1>1, <3>1
  <2>5. ASSUME NEW t, NEW ns, NEW c
        PROVE  (\E i \in 1..n : Asks(more[i], t, ns, c))
                   <=> (\E i \in 1..n : Asks(requests[i], t, ns, c)) \/ Mentions(spec, t, ns, c)
    <3>1. PICK k \in known : TRUE
      BY <1>4
    <3>2. k \in 1..n
      BY <3>1
    <3>3. \A i \in 1..n : i \notin known => more[i] = requests[i]
      BY <2>1
    <3>4. \A i \in known : i \in 1..n /\ more[i] = r(i)
      BY <2>1
    <3> HIDE DEF known
    <3> QED
      BY <2>2, <3>1, <3>2, <3>3, <3>4
  <2>6. ~\A i \in 1..n : requests[i].docType # spec.docType
    BY <1>4
  <2> QED
    BY <2>3, <2>4, <2>5, <2>6 DEF more, n, R, Adds
<1> QED
  BY <1>3, <1>4

(* The options are read one by one: F is what has come of the first k.     *)
ParsedRun(F, n, specs) ==
    /\ F[0] = <<>> /\ F[n] = ParseRequests(specs)
    /\ \A k \in 1..n : F[k] = AddSpec(F[k - 1], specs[k])

LEMMA ParsedOneByOne ==
    ASSUME NEW n \in Nat, NEW specs, DOMAIN specs = 1..n,
           NEW V, NEW none \in V, none = <<>>,
           \A requests \in V : \A i \in 1..n : AddSpec(requests, specs[i]) \in V
    PROVE  \E F \in [0..n -> V] : ParsedRun(F, n, specs)
<1> DEFINE D       == DOMAIN specs
           Of(g)   == [s \in SUBSET D |->
                          IF s = {} THEN <<>> ELSE LET x == Max(s) IN AddSpec(g[s \ {x}], specs[x])]
           G       == CHOOSE g : g = Of(g)
           step    == [p \in (1..n) \X V |-> AddSpec(p[2], specs[p[1]])]
<1>1. ParseRequests(specs) = G[D]
  BY DEF ParseRequests, FoldLeft, MapThenFoldSet
<1>2. \E g : g = Of(g)
  <2>1. step \in [(1..n) \X V -> V]
    OBVIOUS
  <2> HIDE DEF step
  <2>2. PICK g \in [SUBSET (1..n) -> V] : IsFold(g, n, none, step)
    BY <2>1, FoldExists
  <2>3. ASSUME NEW s \in SUBSET (1..n), s # {}
        PROVE  step[<<Max(s), g[s \ {Max(s)}]>>] = AddSpec(g[s \ {Max(s)}], specs[Max(s)])
    <3>1. Max(s) \in 1..n
      BY <2>3, GreatestOfFirst
    <3>2. g[s \ {Max(s)}] \in V
      BY <2>2
    <3> QED
      BY <3>1, <3>2 DEF step
  <2>4. g = Of(g)
    BY <2>2, <2>3 DEF IsFold
  <2> QED
    BY <2>4
<1>3. G = Of(G)
  BY <1>2
<1> HIDE DEF G
<1>4. G[{}] = <<>>
  BY <1>3
<1>5. ASSUME NEW s \in SUBSET (1..n), s # {}, G[s \ {Max(s)}] \in V
      PROVE  G[s] = step[<<Max(s), G[s \ {Max(s)}]>>]
  <2>1. Max(s) \in 1..n
    BY <1>5, GreatestOfFirst
  <2> QED
    BY <1>3, <1>5, <2>1
<1>6. step \in [(1..n) \X V -> V]
  OBVIOUS
<1> HIDE DEF step
<1>7. PICK F \in [0..n -> V] : Runs(F, n, none, step) /\ F[n] = G[1..n]
  <2>1. Unfolds(G, n, V, none, step)
    BY <1>4, <1>5 DEF Unfolds
  <2>2. Folded(G, n, V, none, step)
    BY <1>6, <2>1, OneByOne
  <2> QED
    BY <2>2 DEF Folded
<1>8. ASSUME NEW k \in 1..n PROVE F[k] = AddSpec(F[k - 1], specs[k])
  <2>1. k - 1 \in 0..n
    OBVIOUS
  <2> QED
    BY <1>7, <2>1 DEF Runs, step
<1>9. F[0] = <<>>
  BY <1>7 DEF Runs
<1> QED
  BY <1>1, <1>7, <1>8, <1>9 DEF ParsedRun

(* Where a document type is mentioned first.                               *)
FirstOf(specs, t) == SelectInSeq(specs, LAMBDA spec : spec.docType = t)

LEMMA FirstMention ==
    ASSUME NEW specs, Len(specs) \in Nat, NEW p \in 1..Len(specs)
    PROVE  LET t == specs[p].docType
           IN  /\ FirstOf(specs, t) \in 1..p /\ specs[FirstOf(specs, t)].docType = t
               /\ \A q \in 1..Len(specs) : specs[q].docType = t => FirstOf(specs, t) <= q
<1> DEFINE t == specs[p].docType
           I == {i \in 1..Len(specs) : specs[i].docType = t}
<1>1. FirstOf(specs, t) = IF I # {} THEN Min(I) ELSE 0
  BY DEF FirstOf, SelectInSeq
<1>2. p \in I /\ I \subseteq Nat
  OBVIOUS
<1>3. \E x \in I : \A y \in I : x <= y
  <2> HIDE DEF I
  <2> QED
    BY <1>2, LeastNumber
<1>4. Min(I) \in I /\ \A y \in I : Min(I) <= y
  BY <1>3 DEF Min
<1> HIDE DEF t
<1>5. FirstOf(specs, t) = Min(I)
  BY <1>1, <1>2
<1>6. Min(I) \in 1..Len(specs) /\ specs[Min(I)].docType = t
  BY <1>4
<1>7. Min(I) <= p /\ \A q \in 1..Len(specs) : specs[q].docType = t => Min(I) <= q
  BY <1>2, <1>4
<1>8. Min(I) \in 1..p
  BY <1>6, <1>7
<1> QED
  BY <1>5, <1>6, <1>7, <1>8 DEF t

(* What has come of the first k options.                                   *)
Merged(requests, specs, k) ==
    /\ \A i \in 1..Len(requests) : \E p \in 1..k : requests[i].docType = specs[p].docType
    /\ \A p \in 1..k : \E i \in 1..Len(requests) : requests[i].docType = specs[p].docType
    /\ \A i, j \in 1..Len(requests) :
          i < j => FirstOf(specs, requests[i].docType) < FirstOf(specs, requests[j].docType)
    /\ \A t, ns, c : (\E i \in 1..Len(requests) : Asks(requests[i], t, ns, c))
                        <=> (\E p \in 1..k : Mentions(specs[p], t, ns, c))

(* One more option keeps what has come of the options before it.           *)
LEMMA MergedNext ==
    ASSUME NEW T, NEW N, NEW C, NEW specs \in Seq(OptionOf(T, N, C)),
           NEW k \in 0..(Len(specs) - 1), NEW requests \in Seq(RequestOf(T, N, C)),
           Merged(requests, specs, k)
    PROVE  Merged(AddSpec(requests, specs[k + 1]), specs, k + 1)
<1> DEFINE spec == specs[k + 1]
           more == AddSpec(requests, spec)
           n    == Len(requests)
           new  == \A i \in 1..n : requests[i].docType # spec.docType
           m    == Len(more)
           L    == Len(specs)
<1>1. /\ n \in Nat /\ L \in Nat /\ k \in 0..(L - 1) /\ k + 1 \in 1..L /\ spec \in OptionOf(T, N, C)
  OBVIOUS
<1>2. /\ m = IF new THEN n + 1 ELSE n
      /\ \A i \in 1..n : more[i].docType = requests[i].docType
      /\ new => more[n + 1].docType = spec.docType
      /\ \A t, ns, c : (\E i \in 1..m : Asks(more[i], t, ns, c))
             <=> (\E i \in 1..n : Asks(requests[i], t, ns, c)) \/ Mentions(spec, t, ns, c)
  <2> HIDE DEF n, spec, more, m
  <2>1. Adds(more, requests, spec)
    BY <1>1, AddSpecIs DEF more
  <2> QED
    BY <2>1 DEF Adds, n, m
<1>3. /\ \A p \in 1..k : p \in 1..(k + 1)
      /\ \A p \in 1..(k + 1) : p \in 1..k \/ p = k + 1
      /\ k + 1 \in 1..(k + 1)
      /\ \A i \in 1..n : i \in 1..m
      /\ \A i \in 1..m : i \in 1..n \/ (new /\ i = n + 1)
  <2> HIDE DEF new, n, more, m, L
  <2> QED
    BY <1>1, <1>2
<1> HIDE DEF more
<1>4. /\ \A i \in 1..n : \E p \in 1..k : requests[i].docType = specs[p].docType
      /\ \A p \in 1..k : \E i \in 1..n : requests[i].docType = specs[p].docType
      /\ \A i, j \in 1..n : i < j => FirstOf(specs, requests[i].docType) < FirstOf(specs, requests[j].docType)
      /\ \A t, ns, c : (\E i \in 1..n : Asks(requests[i], t, ns, c))
                          <=> (\E p \in 1..k : Mentions(specs[p], t, ns, c))
  BY DEF Merged
<1>5. \A i \in 1..m : \E p \in 1..(k + 1) : more[i].docType = specs[p].docType
  <2> HIDE DEF n, m
  <2>1. ASSUME NEW i \in 1..n PROVE \E p \in 1..(k + 1) : more[i].docType = specs[p].docType
    <3>1. PICK p \in 1..k : requests[i].docType = specs[p].docType
      BY <1>4
    <3> HIDE DEF new
    <3> QED
      BY <1>2, <1>3, <3>1
  <2>2. new => more[n + 1].docType = specs[k + 1].docType
    BY <1>2
  <2> HIDE DEF new
  <2> QED
    BY <1>3, <2>1, <2>2
<1>6. \A p \in 1..(k + 1) : \E i \in 1..m : more[i].docType = specs[p].docType
  <2>1. ASSUME NEW p \in 1..k PROVE \E i \in 1..m : more[i].docType = specs[p].docType
    <3> HIDE DEF n, m
    <3> QED
      BY <1>2, <1>3, <1>4
  <2>2. \E i \in 1..m : more[i].docType = spec.docType
    <3>1. CASE new
      <4>1. n + 1 \in 1..m
        <5> HIDE DEF n, m, new
        <5> QED
          BY <1>1, <1>2, <3>1
      <4> QED
        BY <1>2, <3>1, <4>1
    <3>2. CASE ~new
      <4> HIDE DEF n, m
      <4> QED
        BY <1>2, <1>3, <3>2
    <3> QED
      BY <3>1, <3>2
  <2> HIDE DEF m
  <2> QED
    BY <1>3, <2>1, <2>2
<1>7. ASSUME NEW i \in 1..m, NEW j \in 1..m, i < j
      PROVE  FirstOf(specs, more[i].docType) < FirstOf(specs, more[j].docType)
  <2>1. i \in 1..n
    <3> HIDE DEF n, m, new
    <3> QED
      BY <1>1, <1>2, <1>3, <1>7
  <2>2. CASE j \in 1..n
    <3> HIDE DEF n, m, new
    <3> QED
      BY <1>2, <1>4, <1>7, <2>1, <2>2
  <2>3. CASE new /\ j = n + 1
    <3>1. PICK p \in 1..k : requests[i].docType = specs[p].docType
      <4> HIDE DEF n, m, new
      <4> QED
        BY <1>4, <2>1
    <3>2. p \in 1..L /\ p <= k
      BY <1>1, <3>1
    <3>3. FirstOf(specs, specs[p].docType) \in 1..p
      BY <1>1, <3>2, FirstMention
    <3>4. /\ FirstOf(specs, spec.docType) \in 1..(k + 1)
          /\ specs[FirstOf(specs, spec.docType)].docType = spec.docType
      BY <1>1, FirstMention
    <3>5. \A q \in 1..k : specs[q].docType # spec.docType
      <4> HIDE DEF m
      <4> QED
        BY <1>4, <2>3
    <3>6. more[j].docType = spec.docType /\ more[i].docType = specs[p].docType
      BY <1>2, <2>1, <2>3, <3>1
    <3> HIDE DEF n, m, new, spec, L
    <3>7. FirstOf(specs, spec.docType) = k + 1
      BY <1>1, <1>3, <3>4, <3>5
    <3>8. FirstOf(specs, specs[p].docType) <= k /\ FirstOf(specs, specs[p].docType) \in Int
      BY <1>1, <3>2, <3>3
    <3> QED
      BY <1>1, <3>6, <3>7, <3>8
  <2> HIDE DEF n, m, new
  <2> QED
    BY <1>3, <2>2, <2>3
<1>8. ASSUME NEW t, NEW ns, NEW c
      PROVE  (\E i \in 1..m : Asks(more[i], t, ns, c)) <=> (\E p \in 1..(k + 1) : Mentions(specs[p], t, ns, c))
  <2>1. (\E p \in 1..(k + 1) : Mentions(specs[p], t, ns, c))
            <=> (\E p \in 1..k : Mentions(specs[p], t, ns, c)) \/ Mentions(spec, t, ns, c)
    BY <1>3
  <2> HIDE DEF n, m, spec
  <2> QED
    BY <1>2, <1>4, <2>1
<1> QED
  BY <1>5, <1>6, <1>7, <1>8 DEF Merged, more

(* All options are merged, whatever their number.                          *)
LEMMA AllMerged ==
    ASSUME NEW T, NEW N, NEW C, NEW specs \in Seq(OptionOf(T, N, C))
    PROVE  ParseRequests(specs) \in Seq(RequestOf(T, N, C)) /\ Merged(ParseRequests(specs), specs, Len(specs))
<1> DEFINE n == Len(specs)
           V == Seq(RequestOf(T, N, C))
<1>1. n \in Nat /\ DOMAIN specs = 1..n /\ \A i \in 1..n : specs[i] \in OptionOf(T, N, C)
  OBVIOUS
<1>2. \A requests \in V : \A i \in 1..n : AddSpec(requests, specs[i]) \in V
  BY <1>1, AddSpecIs
<1>3. PICK none \in V : none = <<>>
  <2>1. <<>> \in V
    OBVIOUS
  <2> HIDE DEF V
  <2> QED
    BY <2>1
<1>4. PICK F \in [0..n -> V] : ParsedRun(F, n, specs)
  <2> HIDE DEF V, n
  <2> QED
    BY <1>1, <1>2, <1>3, ParsedOneByOne
<1> DEFINE S == {k \in 0..n : Merged(F[k], specs, k)}
<1>5. 0 \in S
  <2>1. Len(F[0]) = 0 /\ 0 \in 0..n
    BY <1>1, <1>4 DEF ParsedRun
  <2>2. Merged(F[0], specs, 0)
    BY <2>1 DEF Merged
  <2> QED
    BY <2>1, <2>2
<1>6. ASSUME NEW k \in 0..(n - 1), k \in S PROVE k + 1 \in S
  <2>1. k + 1 \in 1..n /\ (k + 1) - 1 = k /\ k \in 0..n /\ k + 1 \in 0..n
    BY <1>1
  <2>2. F[k + 1] = AddSpec(F[k], specs[k + 1])
    BY <1>4, <2>1 DEF ParsedRun
  <2>3. Merged(F[k], specs, k) /\ F[k] \in V
    BY <1>4, <1>6, <2>1
  <2>4. Merged(AddSpec(F[k], specs[k + 1]), specs, k + 1)
    BY <2>3, MergedNext
  <2> QED
    BY <2>1, <2>2, <2>4
<1>7. 0..n \subseteq S
  <2> HIDE DEF S, n
  <2> QED
    BY <1>1, <1>5, <1>6, Induction
<1>8. n \in 0..n
  BY <1>1
<1>9. F[n] \in V /\ Merged(F[n], specs, n)
  BY <1>4, <1>7, <1>8
<1> QED
  BY <1>4, <1>9 DEF ParsedRun

(* Options of any number, of any document types, namespaces and claims,    *)
(* are merged into one request with all that they mention and nothing      *)
(* else, an item per document type in the order of first mention           *)
(* (cli.py:34-51, mdoc.py:59-65).                                          *)
THEOREM RequestsMerged ==
    ASSUME NEW T, NEW N, NEW C,
           input.algorithm = "requests" => input.value \in Seq(OptionOf(T, N, C))
    PROVE  RequestIsMerged
<1> SUFFICES ASSUME input.algorithm = "requests"
             PROVE  RequestIsMerged
  BY DEF RequestIsMerged
<1> DEFINE specs    == input.value
           parsed   == ParseRequests(specs)
           requests == BuildDeviceRequest(parsed)
           asked(r) == UNION {{<<r.docType, ns, c>> : c \in r.namespaces[ns]} : ns \in DOMAIN r.namespaces}
           first(t) == SelectInSeq(specs, LAMBDA spec : spec.docType = t)
           said(s)  == {<<s.docType, s.namespace, c>> : c \in ToSet(s.claims)}
           A        == UNION {asked(r) : r \in ToSet(requests)}
           B        == UNION {said(s) : s \in ToSet(specs)}
<1>1. specs \in Seq(OptionOf(T, N, C)) /\ Len(specs) \in Nat /\ DOMAIN specs = 1..Len(specs)
  OBVIOUS
<1>2. parsed \in Seq(RequestOf(T, N, C)) /\ Merged(parsed, specs, Len(specs))
  BY <1>1, AllMerged
<1>3. DOMAIN parsed = 1..Len(parsed)
  BY <1>2
<1> HIDE DEF parsed, specs
<1>4. /\ DOMAIN requests = 1..Len(parsed)
      /\ \A i \in 1..Len(parsed) :
            requests[i] = [docType |-> parsed[i].docType,
                           namespaces |-> [ns \in DOMAIN parsed[i].namespaces |-> ToSet(parsed[i].namespaces[ns])]]
  BY <1>3 DEF BuildDeviceRequest
<1> HIDE DEF requests
<1>5. \A i, j \in DOMAIN requests : i < j => first(requests[i].docType) < first(requests[j].docType)
  <2>1. \A t : first(t) = FirstOf(specs, t)
    BY DEF FirstOf
  <2>2. \A i, j \in 1..Len(parsed) :
           i < j => FirstOf(specs, parsed[i].docType) < FirstOf(specs, parsed[j].docType)
    BY <1>2 DEF Merged
  <2>3. \A i \in 1..Len(parsed) : requests[i].docType = parsed[i].docType
    BY <1>4
  <2> HIDE DEF first
  <2> QED
    BY <1>4, <2>1, <2>2, <2>3
<1>6. ASSUME NEW x PROVE x \in A <=> x \in B
  <2>1. x \in A <=> \E i \in 1..Len(parsed) : x \in asked(requests[i])
    <3> HIDE DEF asked
    <3>1. ToSet(requests) = {requests[i] : i \in 1..Len(parsed)}
      BY <1>4 DEF ToSet
    <3> QED
      BY <3>1
  <2>2. ASSUME NEW i \in 1..Len(parsed)
        PROVE  x \in asked(requests[i]) <=> \E t, ns, c : x = <<t, ns, c>> /\ Asks(parsed[i], t, ns, c)
    <3> DEFINE r == requests[i]
               q == parsed[i]
    <3>1. /\ r.docType = q.docType /\ DOMAIN r.namespaces = DOMAIN q.namespaces
          /\ \A ns \in DOMAIN q.namespaces : r.namespaces[ns] = ToSet(q.namespaces[ns])
      BY <1>4
    <3> HIDE DEF r, q
    <3>2. x \in asked(r) <=> \E ns \in DOMAIN r.namespaces : \E c \in r.namespaces[ns] : x = <<r.docType, ns, c>>
      OBVIOUS
    <3> HIDE DEF asked
    <3>3. x \in asked(r)
              <=> \E ns \in DOMAIN q.namespaces : \E c \in ToSet(q.namespaces[ns]) : x = <<q.docType, ns, c>>
      BY <3>1, <3>2
    <3> QED
      BY <3>3, Zenon DEF Asks, r, q
  <2>3. x \in B <=> \E p \in 1..Len(specs) : x \in said(specs[p])
    <3> HIDE DEF said
    <3>1. ToSet(specs) = {specs[p] : p \in 1..Len(specs)}
      BY <1>1 DEF ToSet
    <3> QED
      BY <3>1
  <2>4. ASSUME NEW p \in 1..Len(specs)
        PROVE  x \in said(specs[p]) <=> \E t, ns, c : x = <<t, ns, c>> /\ Mentions(specs[p], t, ns, c)
    BY DEF Mentions
  <2>5. \A t, ns, c : (\E i \in 1..Len(parsed) : Asks(parsed[i], t, ns, c))
                         <=> (\E p \in 1..Len(specs) : Mentions(specs[p], t, ns, c))
    BY <1>2 DEF Merged
  <2> HIDE DEF A, B, asked, said
  <2> QED
    BY <2>1, <2>2, <2>3, <2>4, <2>5, Zenon
<1>7. A = B
  <2> HIDE DEF A, B
  <2> QED
    BY <1>6
<1> QED
  BY <1>5, <1>7 DEF RequestIsMerged, requests, parsed, specs
-----------------------------------------------------------------------------
(* Names and extensions with rests from a set R; what has been read.       *)
NameOf(R, P)      == [kind : {"uri", "dns", "other"}, ascii : BOOLEAN, prefix : P, rest : R]
ExtensionOf(R, P) == [san : BOOLEAN, ok : BOOLEAN, names : Seq(NameOf(R, P))]
IdOf(R)           == {Hash} \cup {Https(r) : r \in R}
ReadOf(R)         == [id : IdOf(R) \cup {Absent}, host : R \cup {Absent}]

(* None is no string.                                                      *)
AbsentIsNone(R) == Absent \notin IdOf(R) \cup R

(* What one name does to what has been read.                               *)
LEMMA ReadNameIs ==
    ASSUME NEW R, NEW P, AbsentIsNone(R), NEW read \in ReadOf(R), NEW name \in NameOf(R, P)
    PROVE  LET next == ReadName(read, name)
               url  == name.kind = "uri" /\ name.ascii /\ name.prefix \in {"http://", "https://"}
               host == name.kind = "dns" /\ name.ascii /\ name.prefix # "*."
               bad  == name.kind # "other" /\ ~name.ascii
           IN  /\ next \in ReadOf(R)
               /\ read.id # Absent => next = read
               /\ read.id = Absent =>
                     /\ url => next.id = Https(name.rest)
                     /\ bad => next.id = Hash
                     /\ ~url /\ ~bad => /\ next.id = Absent
                                        /\ next.host = IF host /\ read.host = Absent THEN name.rest ELSE read.host
<1>1. /\ read.id \in IdOf(R) \cup {Absent} /\ read.host \in R \cup {Absent}
      /\ name.kind \in {"uri", "dns", "other"} /\ name.ascii \in BOOLEAN /\ name.rest \in R
  BY DEF ReadOf, NameOf
<1>2. Hash \in IdOf(R) /\ Https(name.rest) \in IdOf(R)
  BY <1>1 DEF IdOf
<1>3. \A id \in IdOf(R) : [read EXCEPT !.id = id] \in ReadOf(R) /\ [read EXCEPT !.id = id].id = id
  BY DEF ReadOf
<1>4. /\ [read EXCEPT !.host = name.rest] \in ReadOf(R)
      /\ [read EXCEPT !.host = name.rest].host = name.rest
      /\ [read EXCEPT !.host = name.rest].id = read.id
  BY <1>1 DEF ReadOf
<1> QED
  BY <1>1, <1>2, <1>3, <1>4 DEF ReadName, ReadHost

(* The names are read one by one.                                          *)
NamesRun(F, n, names, base) ==
    /\ F[0] = base /\ F[n] = FoldLeft(ReadName, base, names)
    /\ \A k \in 1..n : F[k] = ReadName(F[k - 1], names[k])

LEMMA NamesOneByOne ==
    ASSUME NEW n \in Nat, NEW names, DOMAIN names = 1..n,
           NEW V, NEW base \in V, \A read \in V : \A i \in 1..n : ReadName(read, names[i]) \in V
    PROVE  \E F \in [0..n -> V] : NamesRun(F, n, names, base)
<1> DEFINE D     == DOMAIN names
           Of(g) == [s \in SUBSET D |->
                        IF s = {} THEN base ELSE LET x == Max(s) IN ReadName(g[s \ {x}], names[x])]
           G     == CHOOSE g : g = Of(g)
           step  == [p \in (1..n) \X V |-> ReadName(p[2], names[p[1]])]
<1>1. FoldLeft(ReadName, base, names) = G[D]
  BY DEF FoldLeft, MapThenFoldSet
<1>2. step \in [(1..n) \X V -> V]
  OBVIOUS
<1> HIDE DEF step
<1>3. \E g : g = Of(g)
  <2>1. PICK g \in [SUBSET (1..n) -> V] : IsFold(g, n, base, step)
    BY <1>2, FoldExists
  <2>2. ASSUME NEW s \in SUBSET (1..n), s # {}
        PROVE  step[<<Max(s), g[s \ {Max(s)}]>>] = ReadName(g[s \ {Max(s)}], names[Max(s)])
    <3>1. Max(s) \in 1..n
      BY <2>2, GreatestOfFirst
    <3>2. g[s \ {Max(s)}] \in V
      BY <2>1
    <3> QED
      BY <3>1, <3>2 DEF step
  <2>3. g = Of(g)
    BY <2>1, <2>2 DEF IsFold
  <2> QED
    BY <2>3
<1>4. G = Of(G)
  BY <1>3
<1> HIDE DEF G
<1>5. Unfolds(G, n, V, base, step)
  <2>1. G[{}] = base
    BY <1>4
  <2>2. ASSUME NEW s \in SUBSET (1..n), s # {}, G[s \ {Max(s)}] \in V
        PROVE  G[s] = step[<<Max(s), G[s \ {Max(s)}]>>]
    <3>1. Max(s) \in 1..n
      BY <2>2, GreatestOfFirst
    <3> QED
      BY <1>4, <2>2, <3>1 DEF step
  <2> QED
    BY <2>1, <2>2 DEF Unfolds
<1>6. PICK F \in [0..n -> V] : Runs(F, n, base, step) /\ F[n] = G[1..n]
  <2>1. Folded(G, n, V, base, step)
    BY <1>2, <1>5, OneByOne
  <2> QED
    BY <2>1 DEF Folded
<1>7. ASSUME NEW k \in 1..n PROVE F[k] = ReadName(F[k - 1], names[k])
  <2>1. k - 1 \in 0..n
    OBVIOUS
  <2> QED
    BY <1>6, <2>1 DEF Runs, step
<1>8. F[0] = base /\ F[n] = FoldLeft(ReadName, base, names)
  BY <1>1, <1>6 DEF Runs
<1> QED
  BY <1>6, <1>7, <1>8 DEF NamesRun

(* What has come of the first k names of an extension.                     *)
NamesRead(read, e, k) ==
    /\ read.id = Absent =>
          /\ \A i \in 1..k : i \notin Urls(e) \cup Unreadable(e)
          /\ read.host = Absent => \A i \in 1..k : i \notin Hosts(e)
          /\ read.host # Absent => \E h \in Hosts(e) : IsFirst(h, Hosts(e)) /\ h <= k /\ read.host = e.names[h].rest
    /\ read.id # Absent =>
          \/ \E u \in Urls(e) : /\ IsFirst(u, Urls(e)) /\ read.id = Https(e.names[u].rest)
                                /\ \A i \in Unreadable(e) : u < i
          \/ /\ read.id = Hash
             /\ \E x \in Unreadable(e) : \A u \in Urls(e) : x < u

LEMMA NamesReadNext ==
    ASSUME NEW R, NEW P, AbsentIsNone(R), NEW e \in ExtensionOf(R, P),
           NEW k \in 0..(Len(e.names) - 1), NEW read \in ReadOf(R), NamesRead(read, e, k)
    PROVE  NamesRead(ReadName(read, e.names[k + 1]), e, k + 1)
<1> DEFINE name == e.names[k + 1]
           next == ReadName(read, name)
           n    == Len(e.names)
<1>1. /\ n \in Nat /\ DOMAIN e.names = 1..n /\ k + 1 \in 1..n /\ k \in Nat
      /\ \A i \in 1..n : e.names[i] \in NameOf(R, P)
  BY DEF ExtensionOf
<1>2. name \in NameOf(R, P)
  BY <1>1
<1>3. \A i \in 1..(k + 1) : i \in 1..k \/ i = k + 1
  BY <1>1
<1>4. \A i \in 1..n : i \in 1..k \/ i = k + 1 \/ i > k + 1
  BY <1>1
<1>5. Urls(e) \subseteq 1..n /\ Hosts(e) \subseteq 1..n /\ Unreadable(e) \subseteq 1..n
  BY <1>1 DEF Urls, Hosts, Unreadable
<1>6. /\ k + 1 \in Urls(e) <=> name.kind = "uri" /\ name.ascii /\ name.prefix \in {"http://", "https://"}
      /\ k + 1 \in Hosts(e) <=> name.kind = "dns" /\ name.ascii /\ name.prefix # "*."
      /\ k + 1 \in Unreadable(e) <=> name.kind # "other" /\ ~name.ascii
  BY <1>1 DEF Urls, Hosts, Unreadable
<1>7. Urls(e) \cap Unreadable(e) = {}
  BY DEF Urls, Unreadable
<1>8. /\ read.id # Absent => next = read
      /\ read.id = Absent =>
            /\ k + 1 \in Urls(e) => next.id = Https(name.rest)
            /\ k + 1 \in Unreadable(e) => next.id = Hash
            /\ k + 1 \notin Urls(e) /\ k + 1 \notin Unreadable(e) =>
                  /\ next.id = Absent
                  /\ next.host = IF k + 1 \in Hosts(e) /\ read.host = Absent THEN name.rest ELSE read.host
  BY <1>2, <1>6, ReadNameIs
<1>9. name.rest \in R /\ Absent # Hash /\ Absent # Https(name.rest) /\ Absent # name.rest
  BY <1>2 DEF NameOf, AbsentIsNone, IdOf
<1>10. CASE read.id # Absent
  <2>1. next = read
    BY <1>8, <1>10
  <2> HIDE DEF next
  <2> QED
    BY <1>10, <2>1 DEF NamesRead, next
<1>11. CASE read.id = Absent
  <2> DEFINE U == Urls(e)
             X == Unreadable(e)
             H == Hosts(e)
             Rest(i) == e.names[i].rest
  <2>1. /\ \A i \in 1..k : i \notin U /\ i \notin X
        /\ read.host = Absent => \A i \in 1..k : i \notin H
        /\ read.host # Absent => \E h \in H : IsFirst(h, H) /\ h <= k /\ read.host = Rest(h)
    BY <1>11 DEF NamesRead
  <2>2. Rest(k + 1) = name.rest
    OBVIOUS
  <2> SUFFICES NamesRead(next, e, k + 1)
    OBVIOUS
  <2> HIDE DEF next, name, n, Rest
  <2>3. CASE k + 1 \in U
    <3>1. next.id = Https(Rest(k + 1)) /\ next.id # Absent
      BY <1>8, <1>9, <1>11, <2>2, <2>3
    <3> HIDE DEF U, X, H
    <3>2. IsFirst(k + 1, U)
      BY <1>1, <1>4, <1>5, <2>1, <2>3 DEF IsFirst, U
    <3>3. \A i \in X : k + 1 < i
      BY <1>1, <1>4, <1>5, <1>7, <2>1, <2>3 DEF U, X
    <3> QED
      BY <2>3, <3>1, <3>2, <3>3 DEF NamesRead, U, X, Rest
  <2>4. CASE k + 1 \in X
    <3>1. next.id = Hash /\ next.id # Absent
      BY <1>8, <1>9, <1>11, <2>4
    <3> HIDE DEF U, X, H
    <3>2. \A u \in U : k + 1 < u
      BY <1>1, <1>4, <1>5, <1>7, <2>1, <2>4 DEF U, X
    <3> QED
      BY <2>4, <3>1, <3>2 DEF NamesRead, U, X
  <2>5. CASE k + 1 \notin U /\ k + 1 \notin X
    <3>1. next.id = Absent /\ next.host = IF k + 1 \in H /\ read.host = Absent THEN Rest(k + 1) ELSE read.host
      BY <1>8, <1>11, <2>2, <2>5
    <3> HIDE DEF U, X, H
    <3>2. \A i \in 1..(k + 1) : i \notin U \cup X
      BY <1>3, <2>1, <2>5
    <3>3. CASE k + 1 \in H /\ read.host = Absent
      <4>1. next.host = Rest(k + 1) /\ next.host # Absent
        BY <1>9, <2>2, <3>1, <3>3
      <4>2. IsFirst(k + 1, H)
        BY <1>1, <1>4, <1>5, <2>1, <3>3 DEF IsFirst, H
      <4>3. \E h \in H : IsFirst(h, H) /\ h <= k + 1 /\ next.host = Rest(h)
        BY <1>1, <3>3, <4>1, <4>2
      <4> QED
        BY <3>1, <3>2, <4>1, <4>3 DEF NamesRead, U, X, H, Rest
    <3>4. CASE ~(k + 1 \in H /\ read.host = Absent)
      <4>1. next.host = read.host
        BY <3>1, <3>4
      <4>2. next.host = Absent => \A i \in 1..(k + 1) : i \notin H
        BY <1>3, <2>1, <3>4, <4>1
      <4>3. next.host # Absent => \E h \in H : IsFirst(h, H) /\ h <= k + 1 /\ next.host = Rest(h)
        <5> SUFFICES ASSUME next.host # Absent
                     PROVE  \E h \in H : IsFirst(h, H) /\ h <= k + 1 /\ next.host = Rest(h)
          OBVIOUS
        <5>1. PICK h \in H : IsFirst(h, H) /\ h <= k /\ read.host = Rest(h)
          BY <2>1, <4>1
        <5>2. h <= k + 1
          BY <1>1, <1>5, <5>1 DEF H
        <5> QED
          BY <4>1, <5>1, <5>2
      <4> QED
        BY <3>1, <3>2, <4>2, <4>3 DEF NamesRead, U, X, H, Rest
    <3> QED
      BY <3>3, <3>4
  <2> QED
    BY <2>3, <2>4, <2>5
<1> QED
  BY <1>10, <1>11

(* The extensions are read one by one.                                     *)
ExtensionsRun(F, n, extensions, base) ==
    /\ F[0] = base /\ F[n] = FoldLeft(ReadExtension, base, extensions)
    /\ \A k \in 1..n : F[k] = ReadExtension(F[k - 1], extensions[k])

LEMMA ExtensionsOneByOne ==
    ASSUME NEW n \in Nat, NEW extensions, DOMAIN extensions = 1..n,
           NEW V, NEW base \in V, \A read \in V : \A i \in 1..n : ReadExtension(read, extensions[i]) \in V
    PROVE  \E F \in [0..n -> V] : ExtensionsRun(F, n, extensions, base)
<1> DEFINE D     == DOMAIN extensions
           Of(g) == [s \in SUBSET D |->
                        IF s = {} THEN base ELSE LET x == Max(s) IN ReadExtension(g[s \ {x}], extensions[x])]
           G     == CHOOSE g : g = Of(g)
           step  == [p \in (1..n) \X V |-> ReadExtension(p[2], extensions[p[1]])]
<1>1. FoldLeft(ReadExtension, base, extensions) = G[D]
  BY DEF FoldLeft, MapThenFoldSet
<1>2. step \in [(1..n) \X V -> V]
  OBVIOUS
<1> HIDE DEF step
<1>3. \E g : g = Of(g)
  <2>1. PICK g \in [SUBSET (1..n) -> V] : IsFold(g, n, base, step)
    BY <1>2, FoldExists
  <2>2. ASSUME NEW s \in SUBSET (1..n), s # {}
        PROVE  step[<<Max(s), g[s \ {Max(s)}]>>] = ReadExtension(g[s \ {Max(s)}], extensions[Max(s)])
    <3>1. Max(s) \in 1..n
      BY <2>2, GreatestOfFirst
    <3>2. g[s \ {Max(s)}] \in V
      BY <2>1
    <3> QED
      BY <3>1, <3>2 DEF step
  <2>3. g = Of(g)
    BY <2>1, <2>2 DEF IsFold
  <2> QED
    BY <2>3
<1>4. G = Of(G)
  BY <1>3
<1> HIDE DEF G
<1>5. Unfolds(G, n, V, base, step)
  <2>1. G[{}] = base
    BY <1>4
  <2>2. ASSUME NEW s \in SUBSET (1..n), s # {}, G[s \ {Max(s)}] \in V
        PROVE  G[s] = step[<<Max(s), G[s \ {Max(s)}]>>]
    <3>1. Max(s) \in 1..n
      BY <2>2, GreatestOfFirst
    <3> QED
      BY <1>4, <2>2, <3>1 DEF step
  <2> QED
    BY <2>1, <2>2 DEF Unfolds
<1>6. PICK F \in [0..n -> V] : Runs(F, n, base, step) /\ F[n] = G[1..n]
  <2>1. Folded(G, n, V, base, step)
    BY <1>2, <1>5, OneByOne
  <2> QED
    BY <2>1 DEF Folded
<1>7. ASSUME NEW k \in 1..n PROVE F[k] = ReadExtension(F[k - 1], extensions[k])
  <2>1. k - 1 \in 0..n
    OBVIOUS
  <2> QED
    BY <1>6, <2>1 DEF Runs, step
<1>8. F[0] = base /\ F[n] = FoldLeft(ReadExtension, base, extensions)
  BY <1>1, <1>6 DEF Runs
<1> QED
  BY <1>6, <1>7, <1>8 DEF ExtensionsRun

(* What an extension that tells anything tells.                            *)
Tells(e, id) ==
    IF ~e.ok THEN id = Hash
    ELSE IF \E u \in Urls(e) : \A n \in Unreadable(e) : u < n
    THEN \E u \in Urls(e) : IsFirst(u, Urls(e)) /\ id = Https(e.names[u].rest)
    ELSE IF Unreadable(e) # {} THEN id = Hash
    ELSE \E h \in Hosts(e) : IsFirst(h, Hosts(e)) /\ id = Https(e.names[h].rest)

Decided(next, e) ==
    /\ next.id = Absent => ~Settles(e)
    /\ next.id # Absent => Settles(e) /\ Tells(e, next.id)

(* An extension after which there is still no identifier tells nothing,    *)
(* otherwise it is the one that decides.                                   *)
LEMMA ReadExtensionIs ==
    ASSUME NEW R, NEW P, AbsentIsNone(R), NEW e \in ExtensionOf(R, P), NEW read \in ReadOf(R)
    PROVE  LET next == ReadExtension(read, e)
           IN  /\ next \in ReadOf(R)
               /\ read.id # Absent => next = read
               /\ read.id = Absent => Decided(next, e)
<1> DEFINE next  == ReadExtension(read, e)
           n     == Len(e.names)
           base  == [read EXCEPT !.host = Absent]
           names == FoldLeft(ReadName, base, e.names)
<1>1. /\ read.id \in IdOf(R) \cup {Absent} /\ e.san \in BOOLEAN /\ e.ok \in BOOLEAN
      /\ e.names \in Seq(NameOf(R, P)) /\ n \in Nat /\ DOMAIN e.names = 1..n
      /\ \A i \in 1..n : e.names[i] \in NameOf(R, P)
  BY DEF ReadOf, ExtensionOf
<1>2. base \in ReadOf(R) /\ base.id = read.id /\ base.host = Absent
  BY DEF ReadOf
<1>3. Absent # Hash /\ Hash \in IdOf(R) /\ \A r \in R : Absent # r /\ Https(r) # Absent /\ Https(r) \in IdOf(R)
  BY DEF AbsentIsNone, IdOf
<1> HIDE DEF base, n
<1>4. names \in ReadOf(R) /\ (read.id = Absent => NamesRead(names, e, n))
  <2>1. \A r \in ReadOf(R) : \A i \in 1..n : ReadName(r, e.names[i]) \in ReadOf(R)
    BY <1>1, ReadNameIs
  <2>2. PICK F \in [0..n -> ReadOf(R)] :
            /\ F[0] = base /\ F[n] = names
            /\ \A k \in 1..n : F[k] = ReadName(F[k - 1], e.names[k])
    <3>1. \E F \in [0..n -> ReadOf(R)] : NamesRun(F, n, e.names, base)
      BY <1>1, <1>2, <2>1, NamesOneByOne
    <3> QED
      BY <3>1 DEF NamesRun, names
  <2>3. n \in 0..n /\ 0 \in 0..n
    BY <1>1
  <2>4. ASSUME read.id = Absent PROVE NamesRead(names, e, n)
    <3> DEFINE S == {k \in 0..n : NamesRead(F[k], e, k)}
    <3>1. 0 \in S
      <4>1. F[0].id = Absent /\ F[0].host = Absent
        BY <1>2, <2>2, <2>4
      <4> QED
        BY <2>3, <4>1 DEF NamesRead
    <3>2. ASSUME NEW k \in 0..(n - 1), k \in S PROVE k + 1 \in S
      <4>1. k + 1 \in 1..n /\ (k + 1) - 1 = k /\ k \in 0..n /\ k + 1 \in 0..n
        BY <1>1
      <4>2. F[k] \in ReadOf(R) /\ NamesRead(F[k], e, k) /\ k \in 0..(Len(e.names) - 1)
        BY <2>2, <3>2, <4>1 DEF n
      <4>3. NamesRead(ReadName(F[k], e.names[k + 1]), e, k + 1)
        BY <4>2, NamesReadNext
      <4>4. F[k + 1] = ReadName(F[k], e.names[k + 1])
        BY <2>2, <4>1
      <4> QED
        BY <4>1, <4>3, <4>4
    <3> HIDE DEF S
    <3>3. n \in S
      BY <1>1, <2>3, <3>1, <3>2, Induction
    <3> QED
      BY <2>2, <3>3 DEF S
  <2> QED
    BY <2>2, <2>3, <2>4
<1> HIDE DEF names
<1>5. names.id \in IdOf(R) \cup {Absent} /\ names.host \in R \cup {Absent}
  BY <1>4 DEF ReadOf
<1>6. CASE read.id # Absent \/ ~e.san
  <2>1. next = read
    BY <1>6 DEF ReadExtension
  <2> QED
    BY <1>6, <2>1 DEF Decided, Settles
<1>7. CASE read.id = Absent /\ e.san /\ ~e.ok
  <2>1. next = [read EXCEPT !.id = Hash]
    BY <1>7 DEF ReadExtension
  <2>2. next \in ReadOf(R) /\ next.id = Hash
    BY <1>3, <2>1 DEF ReadOf
  <2> HIDE DEF next
  <2> QED
    BY <1>3, <1>7, <2>2 DEF Decided, Settles, Tells, next
<1>8. CASE read.id = Absent /\ e.san /\ e.ok
  <2>1. next = IF names.id = Absent /\ names.host # Absent THEN [names EXCEPT !.id = Https(names.host)] ELSE names
    BY <1>8 DEF ReadExtension, names, base
  <2>2. NamesRead(names, e, n)
    BY <1>4, <1>8
  <2>3. /\ Urls(e) \subseteq 1..n /\ Hosts(e) \subseteq 1..n /\ Unreadable(e) \subseteq 1..n
        /\ Urls(e) \cap Unreadable(e) = {}
    BY <1>1 DEF Urls, Hosts, Unreadable
  <2> HIDE DEF next
  <2>4. CASE names.id # Absent
    <3>1. next = names
      BY <2>1, <2>4
    <3>2. CASE \E u \in Urls(e) : /\ IsFirst(u, Urls(e)) /\ names.id = Https(e.names[u].rest)
                                  /\ \A i \in Unreadable(e) : u < i
      BY <1>4, <1>8, <2>4, <3>1, <3>2 DEF Decided, Settles, Tells, next
    <3>3. CASE names.id = Hash /\ \E x \in Unreadable(e) : \A u \in Urls(e) : x < u
      <4>1. PICK x \in Unreadable(e) : \A u \in Urls(e) : x < u
        BY <3>3
      <4>2. ~\E u \in Urls(e) : \A i \in Unreadable(e) : u < i
        BY <1>1, <2>3, <4>1
      <4> QED
        BY <1>4, <1>8, <2>4, <3>1, <3>3, <4>1, <4>2 DEF Decided, Settles, Tells, next
    <3> QED
      BY <2>2, <2>4, <3>2, <3>3 DEF NamesRead
  <2>5. CASE names.id = Absent
    <3>1. Urls(e) = {} /\ Unreadable(e) = {}
      BY <2>2, <2>3, <2>5 DEF NamesRead
    <3>2. CASE names.host = Absent
      <4>1. Hosts(e) = {} /\ next = names
        BY <2>1, <2>2, <2>3, <2>5, <3>2 DEF NamesRead
      <4> QED
        BY <1>4, <1>8, <2>5, <3>1, <4>1 DEF Decided, Settles, next
    <3>3. CASE names.host # Absent
      <4>1. PICK h \in Hosts(e) : IsFirst(h, Hosts(e)) /\ names.host = e.names[h].rest
        BY <2>2, <2>5, <3>3 DEF NamesRead
      <4>2. next = [names EXCEPT !.id = Https(names.host)]
        BY <2>1, <2>5, <3>3
      <4>3. Https(names.host) \in IdOf(R) /\ Https(names.host) # Absent
        BY <1>3, <1>5, <3>3
      <4>4. next \in ReadOf(R) /\ next.id = Https(names.host)
        BY <1>4, <4>2, <4>3 DEF ReadOf
      <4> QED
        BY <1>8, <3>1, <4>1, <4>3, <4>4 DEF Decided, Settles, Tells, next
    <3> QED
      BY <3>2, <3>3
  <2> QED
    BY <2>4, <2>5
<1> QED
  BY <1>1, <1>6, <1>7, <1>8

(* What has come of the first k extensions.                                *)
Settled(extensions) == {i \in DOMAIN extensions : Settles(extensions[i])}

ExtensionsRead(read, extensions, k) ==
    /\ read.id = Absent => \A i \in 1..k : i \notin Settled(extensions)
    /\ read.id # Absent => \E i \in Settled(extensions) : /\ IsFirst(i, Settled(extensions))
                                                          /\ Tells(extensions[i], read.id)

LEMMA AllExtensionsRead ==
    ASSUME NEW R, NEW P, AbsentIsNone(R), NEW extensions \in Seq(ExtensionOf(R, P))
    PROVE  LET read == FoldLeft(ReadExtension, [id |-> Absent, host |-> Absent], extensions)
           IN  ExtensionsRead(read, extensions, Len(extensions))
<1> DEFINE base == [id |-> Absent, host |-> Absent]
           n    == Len(extensions)
           T    == Settled(extensions)
<1>1. /\ n \in Nat /\ DOMAIN extensions = 1..n /\ \A i \in 1..n : extensions[i] \in ExtensionOf(R, P)
  OBVIOUS
<1>2. base \in ReadOf(R) /\ base.id = Absent
  BY DEF ReadOf
<1>3. \A r \in ReadOf(R) : \A i \in 1..n : ReadExtension(r, extensions[i]) \in ReadOf(R)
  <2> HIDE DEF n
  <2> QED
    BY <1>1, ReadExtensionIs
<1> HIDE DEF base, n
<1>4. PICK F \in [0..n -> ReadOf(R)] : ExtensionsRun(F, n, extensions, base)
  BY <1>1, <1>2, <1>3, ExtensionsOneByOne
<1> DEFINE S == {k \in 0..n : ExtensionsRead(F[k], extensions, k)}
<1>5. 0 \in S
  <2>1. 0 \in 0..n /\ F[0].id = Absent
    BY <1>1, <1>2, <1>4 DEF ExtensionsRun
  <2> QED
    BY <2>1 DEF ExtensionsRead
<1>6. ASSUME NEW k \in 0..(n - 1), k \in S PROVE k + 1 \in S
  <2> DEFINE read == F[k]
             next == F[k + 1]
             e    == extensions[k + 1]
  <2>1. /\ k + 1 \in 1..n /\ (k + 1) - 1 = k /\ k \in 0..n /\ k + 1 \in 0..n
        /\ \A i \in 1..(k + 1) : i \in 1..k \/ i = k + 1
        /\ \A i \in 1..n : i \in 1..k \/ i >= k + 1
    BY <1>1
  <2>2. next = ReadExtension(read, e) /\ read \in ReadOf(R) /\ e \in ExtensionOf(R, P)
    BY <1>1, <1>4, <2>1 DEF ExtensionsRun
  <2>3. ExtensionsRead(read, extensions, k)
    BY <1>6
  <2>4. (read.id # Absent => next = read) /\ (read.id = Absent => Decided(next, e))
    BY <2>2, ReadExtensionIs
  <2>5. T \subseteq 1..n /\ (k + 1 \in T <=> Settles(e))
    BY <1>1, <2>1 DEF Settled
  <2> SUFFICES ExtensionsRead(next, extensions, k + 1)
    BY <2>1
  <2> HIDE DEF read, next, T
  <2>6. CASE read.id # Absent
    BY <2>3, <2>4, <2>6 DEF ExtensionsRead
  <2>7. CASE read.id = Absent /\ next.id = Absent
    <3>1. \A i \in 1..k : i \notin T
      BY <2>3, <2>7 DEF ExtensionsRead, T
    <3>2. k + 1 \notin T
      BY <2>4, <2>5, <2>7 DEF Decided
    <3>3. \A i \in 1..(k + 1) : i \notin T
      BY <2>1, <3>1, <3>2
    <3> QED
      BY <2>7, <3>3 DEF ExtensionsRead, T
  <2>8. CASE read.id = Absent /\ next.id # Absent
    <3>1. \A i \in 1..k : i \notin T
      BY <2>3, <2>8 DEF ExtensionsRead, T
    <3>2. k + 1 \in T /\ Tells(e, next.id)
      BY <2>4, <2>5, <2>8 DEF Decided
    <3>3. IsFirst(k + 1, T)
      BY <2>1, <2>5, <3>1, <3>2 DEF IsFirst
    <3> QED
      BY <2>8, <3>2, <3>3 DEF ExtensionsRead, T
  <2> QED
    BY <2>6, <2>7, <2>8
<1> HIDE DEF S
<1>7. n \in S
  <2>1. n \in 0..n /\ 0..n \subseteq S
    BY <1>1, <1>5, <1>6, Induction
  <2> QED
    BY <2>1
<1>8. F[n] = FoldLeft(ReadExtension, base, extensions)
  BY <1>4 DEF ExtensionsRun
<1> QED
  BY <1>7, <1>8 DEF S, base, n

(* Of any number of extensions, with any number of names in each, the      *)
(* first that tells anything decides, and in it a URL over any host,       *)
(* unless a name before it cannot be read (trust.py:98-124).               *)
THEOREM IssuerChosen ==
    ASSUME NEW R, NEW P, AbsentIsNone(R),
           input.algorithm = "issuer" => input.value \in Seq(ExtensionOf(R, P))
    PROVE  IssuerIsChosen
<1> SUFFICES ASSUME input.algorithm = "issuer"
             PROVE  IssuerIsChosen
  BY DEF IssuerIsChosen
<1> DEFINE extensions == input.value
           base       == [id |-> Absent, host |-> Absent]
           read       == FoldLeft(ReadExtension, base, extensions)
           id(ok)     == MdocIssuerId([ok |-> ok, extensions |-> extensions])
           settled    == {i \in DOMAIN extensions : Settles(extensions[i])}
           c          == CHOOSE i \in settled : IsFirst(i, settled)
           e          == extensions[c]
<1>1. extensions \in Seq(ExtensionOf(R, P)) /\ Len(extensions) \in Nat /\ DOMAIN extensions = 1..Len(extensions)
  OBVIOUS
<1>2. settled = Settled(extensions) /\ settled \subseteq 1..Len(extensions)
  BY <1>1 DEF Settled
<1>3. ExtensionsRead(read, extensions, Len(extensions))
  <2> HIDE DEF extensions
  <2> QED
    BY <1>1, AllExtensionsRead
<1>4. id(FALSE) = Hash
  BY DEF MdocIssuerId
<1>5. id(TRUE) = IF read.id # Absent THEN read.id ELSE Hash
  BY DEF MdocIssuerId
<1> HIDE DEF extensions, read, settled, id, c
<1>6. read.id = Absent <=> settled = {}
  BY <1>2, <1>3 DEF ExtensionsRead
<1>7. settled # {} => Tells(e, id(TRUE))
  <2> SUFFICES ASSUME settled # {} PROVE Tells(e, id(TRUE))
    OBVIOUS
  <2>1. PICK i \in settled : IsFirst(i, settled) /\ Tells(extensions[i], read.id)
    BY <1>2, <1>3, <1>6 DEF ExtensionsRead
  <2>2. c \in settled /\ IsFirst(c, settled)
    BY <2>1 DEF c
  <2>3. c = i
    BY <1>1, <1>2, <2>1, <2>2 DEF IsFirst
  <2> QED
    BY <1>5, <1>6, <2>1, <2>3
<1>8. settled = {} => id(TRUE) = Hash
  BY <1>5, <1>6
<1> HIDE DEF e
<1>9. IF settled = {} \/ ~e.ok THEN id(TRUE) = Hash
      ELSE IF \E u \in Urls(e) : \A n \in Unreadable(e) : u < n
      THEN \E u \in Urls(e) : IsFirst(u, Urls(e)) /\ id(TRUE) = Https(e.names[u].rest)
      ELSE IF Unreadable(e) # {} THEN id(TRUE) = Hash
      ELSE \E h \in Hosts(e) : IsFirst(h, Hosts(e)) /\ id(TRUE) = Https(e.names[h].rest)
  BY <1>7, <1>8, Zenon DEF Tells
<1> QED
  BY <1>4, <1>9, Zenon DEF IssuerIsChosen, id, settled, e, c, extensions
-----------------------------------------------------------------------------
(* The DER traversal is a recursion, and so is the reference.  Both exist, *)
(* because each turns to fewer bytes; then one is shown to be the other by *)
(* induction on the number of bytes.                                       *)

(* A function that is defined by recursion exists: on a domain D with a    *)
(* measure, G makes of a function one whose value at x depends only on the *)
(* values of the first below x.                                            *)
Contracts(G, D, V, measure) ==
    \A g, h \in [D -> V] : \A x \in D :
        (\A y \in D : measure[y] < measure[x] => g[y] = h[y]) => G[g][x] = G[h][x]

FixedBelow(G, D, measure, g, n) == \A x \in D : measure[x] < n => G[g][x] = g[x]

AgreeBelow(D, measure, g, h, n) == \A x \in D : measure[x] < n => g[x] = h[x]

(* Two functions that are settled below n are the same there.              *)
LEMMA SettledAgree ==
    ASSUME NEW D, NEW V, NEW measure \in [D -> Nat], NEW G \in [[D -> V] -> [D -> V]],
           Contracts(G, D, V, measure), NEW n \in Nat,
           NEW g \in [D -> V], FixedBelow(G, D, measure, g, n),
           NEW h \in [D -> V], FixedBelow(G, D, measure, h, n)
    PROVE  AgreeBelow(D, measure, g, h, n)
<1> DEFINE T == {k \in Nat : \E x \in D : measure[x] = k /\ k < n /\ g[x] # h[x]}
<1> SUFFICES ASSUME NEW z \in D, measure[z] < n, g[z] # h[z] PROVE FALSE
  BY DEF AgreeBelow
<1>1. measure[z] \in T /\ T \subseteq Nat
  OBVIOUS
<1>2. PICK k \in T : \A y \in T : k <= y
  <2> HIDE DEF T
  <2> QED
    BY <1>1, LeastNumber
<1>3. PICK x \in D : measure[x] = k /\ k < n /\ g[x] # h[x]
  OBVIOUS
<1>4. ASSUME NEW y \in D, measure[y] < measure[x] PROVE g[y] = h[y]
  <2>1. measure[y] \in Nat /\ measure[y] < n /\ ~(k <= measure[y])
    BY <1>3, <1>4
  <2>2. measure[y] \notin T
    BY <1>2, <2>1
  <2> QED
    BY <2>1, <2>2
<1>5. G[g][x] = G[h][x]
  BY <1>4 DEF Contracts
<1>6. G[g][x] = g[x] /\ G[h][x] = h[x]
  BY <1>3 DEF FixedBelow
<1> QED
  BY <1>3, <1>5, <1>6

Recursive(G, D, V, measure) ==
    V # {} /\ measure \in [D -> Nat] /\ G \in [[D -> V] -> [D -> V]] /\ Contracts(G, D, V, measure)

HasFixpoint(G, D, V) == \E f \in [D -> V] : G[f] = f

(* So there is a function that G leaves as it is: take at each x the value *)
(* of one that is settled beyond x.                                        *)
LEMMA FixpointExists ==
    ASSUME NEW D, NEW V, NEW measure, NEW G, Recursive(G, D, V, measure)
    PROVE  HasFixpoint(G, D, V)
<1>0. /\ measure \in [D -> Nat] /\ G \in [[D -> V] -> [D -> V]] /\ Contracts(G, D, V, measure)
      /\ \E any \in V : TRUE
  BY DEF Recursive
<1> PICK any \in V : TRUE
  BY <1>0
<1> USE <1>0
<1>1. ASSUME NEW n \in Nat PROVE \E g \in [D -> V] : FixedBelow(G, D, measure, g, n)
  <2> DEFINE S == {k \in Nat : \E g \in [D -> V] : FixedBelow(G, D, measure, g, k)}
  <2>1. 0 \in S
    <3>1. [x \in D |-> any] \in [D -> V]
      OBVIOUS
    <3>2. ASSUME NEW g \in [D -> V] PROVE FixedBelow(G, D, measure, g, 0)
      BY DEF FixedBelow
    <3> QED
      BY <3>1, <3>2
  <2>2. ASSUME NEW k \in 0..(n - 1), k \in S PROVE k + 1 \in S
    <3>1. PICK g \in [D -> V] : FixedBelow(G, D, measure, g, k)
      BY <2>2
    <3>2. PICK h \in [D -> V] : h = G[g]
      OBVIOUS
    <3>3. ASSUME NEW x \in D, measure[x] < k + 1 PROVE G[h][x] = h[x]
      <4>1. ASSUME NEW y \in D, measure[y] < measure[x] PROVE h[y] = g[y]
        <5>1. measure[y] < k
          <6>1. measure[x] \in Nat /\ measure[y] \in Nat
            OBVIOUS
          <6> QED
            BY <3>3, <4>1, <6>1
        <5> QED
          BY <3>1, <3>2, <5>1 DEF FixedBelow
      <4>2. G[h][x] = G[g][x]
        BY <4>1 DEF Contracts
      <4> QED
        BY <3>2, <4>2
    <3>4. FixedBelow(G, D, measure, h, k + 1)
      BY <3>3 DEF FixedBelow
    <3> QED
      BY <3>4
  <2> HIDE DEF S
  <2>3. n \in 0..n /\ 0..n \subseteq S
    BY <2>1, <2>2, Induction
  <2> QED
    BY <2>3 DEF S
<1> DEFINE below(n) == CHOOSE g \in [D -> V] : FixedBelow(G, D, measure, g, n)
           f        == [x \in D |-> below(measure[x] + 1)[x]]
<1>2. ASSUME NEW n \in Nat PROVE below(n) \in [D -> V] /\ FixedBelow(G, D, measure, below(n), n)
  BY <1>1
<1> HIDE DEF below
<1>3. f \in [D -> V]
  <2>1. ASSUME NEW x \in D PROVE below(measure[x] + 1)[x] \in V
    <3>1. measure[x] + 1 \in Nat
      OBVIOUS
    <3> QED
      BY <1>2, <3>1
  <2> QED
    BY <2>1
<1>4. ASSUME NEW x \in D PROVE f[x] = below(measure[x] + 1)[x]
  OBVIOUS
<1> HIDE DEF f
<1>5. ASSUME NEW x \in D PROVE G[f][x] = f[x]
  <2>1. PICK n \in Nat : n = measure[x] + 1
    OBVIOUS
  <2>2. ASSUME NEW y \in D, measure[y] < measure[x] PROVE f[y] = below(n)[y]
    <3>1. PICK k \in Nat : k = measure[y] + 1
      OBVIOUS
    <3>2. measure[y] \in Nat /\ measure[x] \in Nat /\ measure[y] < k /\ k <= n
      BY <2>1, <2>2, <3>1
    <3>3. FixedBelow(G, D, measure, below(n), k)
      <4>1. ASSUME NEW z \in D, measure[z] < k PROVE measure[z] < n
        <5>1. measure[z] \in Nat
          OBVIOUS
        <5> QED
          BY <3>2, <4>1, <5>1
      <4> QED
        BY <1>2, <4>1 DEF FixedBelow
    <3>4. AgreeBelow(D, measure, below(k), below(n), k)
      <4>1. /\ below(k) \in [D -> V] /\ FixedBelow(G, D, measure, below(k), k)
            /\ below(n) \in [D -> V]
        BY <1>2
      <4> QED
        BY <3>3, <4>1, SettledAgree
    <3> QED
      BY <1>4, <3>1, <3>2, <3>4 DEF AgreeBelow
  <2>3. below(n) \in [D -> V] /\ FixedBelow(G, D, measure, below(n), n)
    BY <1>2
  <2>4. G[f][x] = G[below(n)][x]
    BY <1>3, <2>2, <2>3 DEF Contracts
  <2>5. measure[x] \in Nat /\ measure[x] < n
    BY <2>1
  <2>6. G[below(n)][x] = below(n)[x]
    BY <2>3, <2>5 DEF FixedBelow
  <2> QED
    BY <1>4, <2>1, <2>4, <2>6
<1>6. G[f] \in [D -> V]
  BY <1>3
<1> QED
  BY <1>3, <1>5, <1>6 DEF HasFixpoint

(* Induction over all natural numbers, from all that are less.             *)
LEMMA StrongInduction ==
    ASSUME NEW S, \A n \in Nat : (\A k \in 0..(n - 1) : k \in S) => n \in S
    PROVE  Nat \subseteq S
<1> SUFFICES ASSUME Nat \ S # {} PROVE FALSE
  OBVIOUS
<1>1. PICK x \in Nat \ S : \A y \in Nat \ S : x <= y
  <2>1. Nat \ S \subseteq Nat
    OBVIOUS
  <2> QED
    BY <2>1, LeastNumber
<1>2. ASSUME NEW k \in 0..(x - 1) PROVE k \in S
  <2>1. k \in Nat /\ ~(x <= k)
    OBVIOUS
  <2> QED
    BY <1>1, <2>1
<1> QED
  BY <1>1, <1>2

Byte == 0..(Base - 1)

(* A byte is less than Base, and HighBit is a byte.                        *)
LEMMA BaseIs == Base \in Nat /\ Base >= 2 /\ HighBit \in Nat /\ HighBit >= 1 /\ HighBit < Base
BY IssuerIdAssumption

(* A number is its quotient times the base and its last digit.             *)
LEMMA Division ==
    ASSUME NEW n \in Nat, NEW b \in Nat, b >= 2
    PROVE  /\ n \div b \in Nat /\ n % b \in 0..(b - 1)
           /\ n = (n \div b) * b + (n % b)
           /\ n >= b => n \div b < n /\ n \div b >= 1
<1>1. PICK q \in Int : q = n \div b
  OBVIOUS
<1>2. PICK r \in 0..(b - 1) : r = n % b
  OBVIOUS
<1>3. n = q * b + r
  BY <1>1, <1>2, Z3
<1>4. q >= 0
  BY <1>1, <1>3
<1>5. n >= b => q < n /\ q >= 1
  BY <1>1, <1>3, <1>4
<1> QED
  BY <1>1, <1>2, <1>3, <1>4, <1>5

LEMMA DivisionOf ==
    ASSUME NEW q \in Nat, NEW b \in Nat, b >= 2, NEW r \in 0..(b - 1)
    PROVE  (q * b + r) \div b = q /\ (q * b + r) % b = r /\ q * b + r \in Nat
OBVIOUS

(* The digits of a number: the recursion of Digits.                        *)
LEMMA DigitsAre ==
    /\ Digits \in [Nat -> Seq(Byte)]
    /\ \A n \in Nat : Digits[n] = IF n < Base THEN <<n>> ELSE Append(Digits[n \div Base], n % Base)
<1> DEFINE Of(f)   == [n \in Nat |-> IF n < Base THEN <<n>> ELSE Append(f[n \div Base], n % Base)]
           V       == Seq(Byte)
           G       == [f \in [Nat -> V] |-> Of(f)]
           measure == [n \in Nat |-> n]
<1>1. Digits = CHOOSE f : f = Of(f)
  BY DEF Digits
<1>2. ASSUME NEW f \in [Nat -> V] PROVE Of(f) \in [Nat -> V]
  <2>1. ASSUME NEW n \in Nat
        PROVE  (IF n < Base THEN <<n>> ELSE Append(f[n \div Base], n % Base)) \in V
    <3>1. CASE n < Base
      <4>1. n \in Byte
        BY <3>1, BaseIs DEF Byte
      <4> QED
        BY <3>1, <4>1
    <3>2. CASE ~(n < Base)
      <4>1. n \div Base \in Nat /\ n % Base \in Byte
        BY BaseIs, Division DEF Byte
      <4>2. Append(f[n \div Base], n % Base) \in Seq(Byte)
        <5> HIDE DEF V, Of, G, measure
        <5>1. f[n \div Base] \in Seq(Byte)
          BY <4>1 DEF V
        <5> QED
          BY <4>1, <5>1
      <4> QED
        BY <3>2, <4>2
    <3> QED
      BY <3>1, <3>2
  <2> QED
    BY <2>1
<1>3. ASSUME NEW g \in [Nat -> V], NEW h \in [Nat -> V], NEW n \in Nat, \A k \in Nat : k < n => g[k] = h[k]
      PROVE  Of(g)[n] = Of(h)[n]
  <2>1. CASE n < Base
    BY <2>1
  <2>2. CASE ~(n < Base)
    <3>1. n \div Base \in Nat /\ n \div Base < n
      <4>1. n >= Base /\ Base \in Nat /\ Base >= 2
        BY <2>2, BaseIs
      <4> QED
        BY <4>1, Division
    <3>2. g[n \div Base] = h[n \div Base]
      BY <1>3, <3>1
    <3> QED
      BY <2>2, <3>2
  <2> QED
    BY <2>1, <2>2
<1> HIDE DEF Of, V
<1>4. G \in [[Nat -> V] -> [Nat -> V]] /\ \A f \in [Nat -> V] : G[f] = Of(f)
  BY <1>2
<1>5. measure \in [Nat -> Nat] /\ \A n \in Nat : measure[n] = n
  OBVIOUS
<1> HIDE DEF G, measure
<1>6. Contracts(G, Nat, V, measure)
  <2>1. ASSUME NEW g \in [Nat -> V], NEW h \in [Nat -> V], NEW n \in Nat,
               \A k \in Nat : measure[k] < measure[n] => g[k] = h[k]
        PROVE  G[g][n] = G[h][n]
    <3>1. \A k \in Nat : k < n => g[k] = h[k]
      BY <1>5, <2>1
    <3>2. Of(g)[n] = Of(h)[n]
      BY <1>3, <3>1
    <3> QED
      BY <1>4, <3>2
  <2> QED
    BY <2>1 DEF Contracts
<1>7. PICK f \in [Nat -> V] : G[f] = f
  <2>1. V # {}
    <3>1. <<>> \in V
      BY DEF V
    <3> QED
      BY <3>1
  <2>2. Recursive(G, Nat, V, measure)
    BY <1>4, <1>5, <1>6, <2>1 DEF Recursive
  <2>3. HasFixpoint(G, Nat, V)
    BY <2>2, FixpointExists
  <2> QED
    BY <2>3 DEF HasFixpoint
<1>8. Digits = Of(Digits)
  BY <1>1, <1>4, <1>7
<1>9. \A n \in Nat : Digits[n] = IF n < Base THEN <<n>> ELSE Append(Digits[n \div Base], n % Base)
  BY <1>8 DEF Of
<1>10. Digits = [n \in Nat |-> Digits[n]]
  BY <1>8 DEF Of
<1>11. ASSUME NEW n \in Nat PROVE Digits[n] \in V
  <2> DEFINE S == {n_1 \in Nat : Digits[n_1] \in V}
  <2>1. ASSUME NEW m \in Nat, \A k \in 0..(m - 1) : k \in S PROVE m \in S
    <3>1. CASE m < Base
      <4>1. m \in Byte
        BY <3>1, BaseIs DEF Byte
      <4>2. Digits[m] = <<m>>
        BY <1>9, <3>1
      <4>3. <<m>> \in Seq(Byte)
        BY <4>1
      <4> QED
        BY <4>2, <4>3 DEF V
    <3>2. CASE ~(m < Base)
      <4>1. m \div Base \in 0..(m - 1) /\ m % Base \in Byte
        <5>1. m >= Base /\ Base \in Nat /\ Base >= 2
          BY <3>2, BaseIs
        <5>2. m \div Base \in Nat /\ m \div Base < m /\ m % Base \in Byte
          BY <5>1, Division DEF Byte
        <5> QED
          BY <5>2
      <4>2. Digits[m \div Base] \in Seq(Byte)
        BY <2>1, <4>1 DEF V
      <4>3. Digits[m] = Append(Digits[m \div Base], m % Base)
        BY <1>9, <3>2
      <4>4. Append(Digits[m \div Base], m % Base) \in Seq(Byte)
        BY <4>1, <4>2
      <4> QED
        BY <4>3, <4>4 DEF V
    <3> QED
      BY <3>1, <3>2
  <2> HIDE DEF S
  <2>2. Nat \subseteq S
    BY <2>1, StrongInduction
  <2> QED
    BY <2>2 DEF S
<1> QED
  BY <1>9, <1>10, <1>11 DEF V
(* A number less than the base is its one digit; any other has the digits  *)
(* of its quotient and one more.                                           *)
LEMMA OneDigit ==
    ASSUME NEW n \in Byte
    PROVE  Digits[n] = <<n>>
<1>1. n \in Nat /\ n < Base
  BY BaseIs DEF Byte
<1> QED
  BY <1>1, DigitsAre

LEMMA MoreDigits ==
    ASSUME NEW n \in Nat, n >= Base
    PROVE  Digits[n] = Append(Digits[n \div Base], n % Base)
<1>1. ~(n < Base)
  BY BaseIs
<1> QED
  BY <1>1, DigitsAre

Shifted(n, byte) == n * Base + byte

(* FromBytes takes the bytes one by one, shifting what it has.             *)
LEMMA ShiftedIs == \A n \in Nat : \A byte \in Byte : Shifted(n, byte) \in Nat
BY BaseIs DEF Shifted, Byte

BytesRun(F, n, bytes) ==
    F[0] = 0 /\ F[n] = FromBytes(bytes) /\ \A k \in 1..n : F[k] = Shifted(F[k - 1], bytes[k])

LEMMA BytesOneByOne ==
    ASSUME NEW n \in Nat, NEW bytes, DOMAIN bytes = 1..n, \A i \in 1..n : bytes[i] \in Byte
    PROVE  \E F \in [0..n -> Nat] : BytesRun(F, n, bytes)
<1> DEFINE D     == DOMAIN bytes
           Of(g) == [s \in SUBSET D |->
                        IF s = {} THEN 0 ELSE LET x == Max(s) IN Shifted(g[s \ {x}], bytes[x])]
           G     == CHOOSE g : g = Of(g)
           step  == [p \in (1..n) \X Nat |-> Shifted(p[2], bytes[p[1]])]
<1>1. FromBytes(bytes) = G[D]
  BY DEF FromBytes, FoldLeft, MapThenFoldSet, Shifted
<1>2. step \in [(1..n) \X Nat -> Nat]
  BY ShiftedIs
<1> HIDE DEF step
<1>3. \E g : g = Of(g)
  <2>1. PICK g \in [SUBSET (1..n) -> Nat] : IsFold(g, n, 0, step)
    BY <1>2, FoldExists
  <2>2. ASSUME NEW s \in SUBSET (1..n), s # {}
        PROVE  step[<<Max(s), g[s \ {Max(s)}]>>] = Shifted(g[s \ {Max(s)}], bytes[Max(s)])
    <3>1. Max(s) \in 1..n
      BY <2>2, GreatestOfFirst
    <3>2. g[s \ {Max(s)}] \in Nat
      BY <2>1
    <3> QED
      BY <3>1, <3>2 DEF step
  <2>3. g = Of(g)
    BY <2>1, <2>2 DEF IsFold
  <2> QED
    BY <2>3
<1>4. G = Of(G)
  BY <1>3
<1> HIDE DEF G
<1>5. Unfolds(G, n, Nat, 0, step)
  <2>1. G[{}] = 0
    BY <1>4
  <2>2. ASSUME NEW s \in SUBSET (1..n), s # {}, G[s \ {Max(s)}] \in Nat
        PROVE  G[s] = step[<<Max(s), G[s \ {Max(s)}]>>]
    <3>1. Max(s) \in 1..n
      BY <2>2, GreatestOfFirst
    <3> QED
      BY <1>4, <2>2, <3>1 DEF step
  <2> QED
    BY <2>1, <2>2 DEF Unfolds
<1>6. PICK F \in [0..n -> Nat] : Runs(F, n, 0, step) /\ F[n] = G[1..n]
  <2>1. Folded(G, n, Nat, 0, step)
    BY <1>2, <1>5, OneByOne
  <2> QED
    BY <2>1 DEF Folded
<1>7. ASSUME NEW k \in 1..n PROVE F[k] = Shifted(F[k - 1], bytes[k])
  <2>1. k - 1 \in 0..n
    OBVIOUS
  <2> QED
    BY <1>6, <2>1 DEF Runs, step
<1>8. F[0] = 0 /\ F[n] = FromBytes(bytes)
  BY <1>1, <1>6 DEF Runs
<1> QED
  BY <1>6, <1>7, <1>8 DEF BytesRun

(* The number that bytes stand for, from one byte to the next.             *)
LEMMA NumberOfBytes ==
    ASSUME NEW s \in Seq(Byte)
    PROVE  /\ FromBytes(s) \in Nat
           /\ s = <<>> => FromBytes(s) = 0
           /\ \A byte \in Byte : FromBytes(Append(s, byte)) = FromBytes(s) * Base + byte
<1>1. PICK n \in Nat : n = Len(s) /\ DOMAIN s = 1..n /\ \A i \in 1..n : s[i] \in Byte
  OBVIOUS
<1>2. PICK F \in [0..n -> Nat] : BytesRun(F, n, s)
  BY <1>1, BytesOneByOne
<1>3. F[n] = FromBytes(s) /\ FromBytes(s) \in Nat
  BY <1>2 DEF BytesRun
<1>4. s = <<>> => FromBytes(s) = 0
  BY <1>1, <1>2 DEF BytesRun
<1>5. ASSUME NEW byte \in Byte PROVE FromBytes(Append(s, byte)) = FromBytes(s) * Base + byte
  <2>1. PICK t \in Seq(Byte) : t = Append(s, byte)
    OBVIOUS
  <2>2. DOMAIN t = 1..(n + 1) /\ t[n + 1] = byte /\ \A i \in 1..n : t[i] = s[i]
    BY <1>1, <2>1
  <2>3. PICK m \in Nat : m = n + 1
    OBVIOUS
  <2>4. \A i \in 1..m : t[i] \in Byte
    BY <2>1, <2>2, <2>3
  <2>5. PICK H \in [0..m -> Nat] : BytesRun(H, m, t)
    BY <2>2, <2>3, <2>4, BytesOneByOne
  <2> DEFINE S == {k \in 0..n : H[k] = F[k]}
  <2>6. 0 \in S
    BY <1>2, <2>5 DEF BytesRun
  <2>7. ASSUME NEW k \in 0..(n - 1), k \in S PROVE k + 1 \in S
    <3>1. k + 1 \in 1..n /\ k + 1 \in 1..m /\ (k + 1) - 1 = k /\ k + 1 \in 0..n
      BY <2>3
    <3>2. H[k + 1] = Shifted(H[k], t[k + 1]) /\ F[k + 1] = Shifted(F[k], s[k + 1])
      BY <1>2, <2>5, <3>1 DEF BytesRun
    <3> QED
      BY <2>2, <2>7, <3>1, <3>2
  <2> HIDE DEF S
  <2>8. 0..n \subseteq S
    BY <2>6, <2>7, Induction
  <2>9. H[n] = F[n]
    <3>1. n \in 0..n
      OBVIOUS
    <3> QED
      BY <2>8, <3>1 DEF S
  <2>10. m \in 1..m /\ m - 1 = n
    BY <2>3
  <2>11. FromBytes(t) = Shifted(H[n], byte)
    BY <2>2, <2>3, <2>5, <2>10 DEF BytesRun
  <2> QED
    BY <1>3, <2>1, <2>9, <2>11 DEF Shifted
<1> QED
  BY <1>3, <1>4, <1>5

(* A sequence that is not empty is what is before its last element, and    *)
(* that element.                                                           *)
LEMMA AllButLast ==
    ASSUME NEW T, NEW s \in Seq(T), s # <<>>
    PROVE  \E r \in Seq(T), x \in T : s = Append(r, x) /\ Len(s) = Len(r) + 1
<1>1. PICK r \in Seq(T), x \in T : s = Append(r, x)
  BY SequenceEmptyOrAppend
<1>2. Len(s) = Len(r) + 1
  BY <1>1, AppendProperties
<1> QED
  BY <1>1, <1>2

(* Bytes that do not begin with 0 are the digits of their number.          *)
LEMMA DigitsOfNumber ==
    ASSUME NEW s \in Seq(Byte), s # <<>>, s[1] # 0
    PROVE  FromBytes(s) >= 1 /\ Digits[FromBytes(s)] = s
<1> DEFINE Good(r) == r # <<>> /\ r[1] # 0 => FromBytes(r) >= 1 /\ Digits[FromBytes(r)] = r
           S == {n \in Nat : \A r \in Seq(Byte) : Len(r) = n => Good(r)}
<1>1. 0 \in S
  <2>1. ASSUME NEW r \in Seq(Byte), Len(r) = 0 PROVE Good(r)
    BY <2>1
  <2> QED
    BY <2>1
<1>2. ASSUME NEW n \in Nat, n \in S PROVE n + 1 \in S
  <2>1. ASSUME NEW r \in Seq(Byte), Len(r) = n + 1, r # <<>>, r[1] # 0
        PROVE  FromBytes(r) >= 1 /\ Digits[FromBytes(r)] = r
    <3>1. PICK q \in Seq(Byte), x \in Byte : r = Append(q, x) /\ Len(r) = Len(q) + 1
      BY <2>1, AllButLast
    <3>2. FromBytes(r) = FromBytes(q) * Base + x /\ FromBytes(q) \in Nat
      BY <3>1, NumberOfBytes
    <3>3. x \in 0..(Base - 1) /\ Base \in Nat /\ Base >= 2
      BY BaseIs DEF Byte
    <3>4. CASE q = <<>>
      <4>1. FromBytes(q) = 0
        BY <3>4, NumberOfBytes
      <4>2. r = <<x>> /\ x # 0
        BY <2>1, <3>1, <3>4
      <4>3. FromBytes(r) = x
        BY <3>2, <3>3, <4>1
      <4>4. Digits[x] = <<x>> /\ x >= 1
        BY <3>3, <4>2, OneDigit
      <4> QED
        BY <4>2, <4>3, <4>4
    <3>5. CASE q # <<>>
      <4>1. Len(q) = n /\ q[1] # 0
        <5>1. Len(q) \in Nat /\ Len(q) >= 1
          BY <3>5
        <5>2. r[1] = q[1]
          BY <3>1, <5>1
        <5> QED
          BY <2>1, <3>1, <5>1, <5>2
      <4>2. FromBytes(q) >= 1 /\ Digits[FromBytes(q)] = q
        BY <1>2, <3>5, <4>1
      <4>3. PICK v \in Nat : v = FromBytes(q) * Base + x
        BY <3>2, <3>3, DivisionOf
      <4>4. v \div Base = FromBytes(q) /\ v % Base = x
        BY <3>2, <3>3, <4>3, DivisionOf
      <4>5. v >= Base /\ v >= 1
        <5>1. PICK f \in Nat : f = FromBytes(q)
          BY <3>2
        <5>2. f >= 1 /\ v = f * Base + x
          BY <4>2, <4>3, <5>1
        <5>3. f * Base >= Base /\ f * Base \in Nat /\ Base >= 1
          BY <3>3, <5>2
        <5>4. PICK p \in Nat : p = f * Base
          BY <5>3
        <5>5. p >= Base /\ v = p + x
          BY <5>2, <5>3, <5>4
        <5> QED
          BY <3>3, <5>5
      <4>6. Digits[v] = Append(Digits[v \div Base], v % Base)
        BY <4>5, MoreDigits
      <4> QED
        BY <3>1, <3>2, <4>2, <4>3, <4>4, <4>5, <4>6
    <3> QED
      BY <3>4, <3>5
  <2> QED
    BY <2>1
<1> HIDE DEF S
<1>3. PICK n \in Nat : n = Len(s)
  OBVIOUS
<1>4. n \in 0..n /\ 0..n \subseteq S
  BY <1>1, <1>2, Induction
<1> QED
  BY <1>3, <1>4 DEF S

(* The digits of a number stand for it, and do not begin with 0.           *)
LEMMA NumberOfDigits ==
    ASSUME NEW n \in Nat
    PROVE  /\ Digits[n] \in Seq(Byte) /\ Digits[n] # <<>>
           /\ FromBytes(Digits[n]) = n
           /\ n >= 1 => Digits[n][1] # 0
<1> DEFINE Good(m) == /\ Digits[m] \in Seq(Byte) /\ Digits[m] # <<>>
                      /\ FromBytes(Digits[m]) = m
                      /\ m >= 1 => Digits[m][1] # 0
           S == {m \in Nat : Good(m)}
<1>1. ASSUME NEW m \in Nat, \A k \in 0..(m - 1) : k \in S PROVE m \in S
  <2>1. CASE m < Base
    <3>1. m \in Byte /\ Digits[m] = <<m>>
      <4>1. m \in Byte
        BY <2>1, BaseIs DEF Byte
      <4> QED
        BY <4>1, OneDigit
    <3>2. PICK none \in Seq(Byte) : none = <<>>
      <4>1. <<>> \in Seq(Byte)
        BY EmptySeq
      <4> QED
        BY <4>1
    <3>3. FromBytes(Append(none, m)) = FromBytes(none) * Base + m /\ FromBytes(none) = 0
      BY <3>1, <3>2, NumberOfBytes
    <3>4. Append(none, m) = <<m>> /\ 0 * Base + m = m
      BY <3>2, BaseIs
    <3>5. <<m>> \in Seq(Byte) /\ <<m>> # <<>> /\ <<m>>[1] = m
      BY <3>1
    <3>6. FromBytes(<<m>>) = m
      BY <3>3, <3>4
    <3>7. Good(m)
      BY <3>1, <3>5, <3>6
    <3> QED
      BY <3>7
  <2>2. CASE ~(m < Base)
    <3>1. m >= Base /\ Base \in Nat /\ Base >= 2
      BY <2>2, BaseIs
    <3>2. PICK q \in Nat, r \in Byte :
             q = m \div Base /\ r = m % Base /\ m = q * Base + r /\ q < m /\ q >= 1
      BY <3>1, Division DEF Byte
    <3>3. Good(q)
      <4>1. q \in 0..(m - 1)
        BY <3>2
      <4> QED
        BY <1>1, <4>1
    <3>4. Digits[m] = Append(Digits[q], r)
      BY <3>1, <3>2, MoreDigits
    <3>5. FromBytes(Digits[m]) = m
      BY <3>2, <3>3, <3>4, NumberOfBytes
    <3>6. Digits[m] \in Seq(Byte) /\ Digits[m] # <<>> /\ Digits[m][1] = Digits[q][1]
      <4>1. Digits[q] \in Seq(Byte) /\ Len(Digits[q]) \in Nat /\ Len(Digits[q]) >= 1
        BY <3>3
      <4>2. Append(Digits[q], r) \in Seq(Byte) /\ Append(Digits[q], r) # <<>> /\ Append(Digits[q], r)[1] = Digits[q][1]
        BY <4>1, AppendProperties
      <4> QED
        BY <3>4, <4>2
    <3> QED
      BY <3>2, <3>3, <3>5, <3>6
  <2> QED
    BY <2>1, <2>2
<1> HIDE DEF S
<1>2. Nat \subseteq S
  BY <1>1, StrongInduction
<1> QED
  BY <1>2 DEF S

(* Length octets are at least one.                                         *)
LEMMA LengthIs ==
    ASSUME NEW m \in Nat
    PROVE  LengthOctets(m) \in Seq(Nat) /\ Len(LengthOctets(m)) \in Nat /\ Len(LengthOctets(m)) >= 1
<1>1. CASE m < HighBit
  <2>1. <<m>> \in Seq(Nat) /\ Len(<<m>>) = 1
    OBVIOUS
  <2> QED
    BY <1>1, <2>1 DEF LengthOctets
<1>2. CASE ~(m < HighBit)
  <2>1. PICK d \in Seq(Nat) : d = Digits[m] /\ Len(d) \in Nat
    <3>1. Digits[m] \in Seq(Byte)
      BY NumberOfDigits
    <3>2. Byte \subseteq Nat
      BY BaseIs DEF Byte
    <3>3. Digits[m] \in Seq(Nat)
      BY <3>1, <3>2, SeqMonotonic
    <3> QED
      BY <3>3
  <2>2. PICK h \in Nat : h = HighBit + Len(d)
    BY <2>1, BaseIs
  <2>3. <<h>> \in Seq(Nat) /\ Len(<<h>>) = 1
    OBVIOUS
  <2>4. <<h>> \o d \in Seq(Nat) /\ Len(<<h>> \o d) = 1 + Len(d)
    BY <2>3, ConcatProperties
  <2>5. LengthOctets(m) = <<h>> \o d
    BY <1>2, <2>1, <2>2 DEF LengthOctets
  <2> QED
    BY <2>1, <2>4, <2>5
<1> QED
  BY <1>1, <1>2

(* The bytes of an item, put together.                                     *)
Item(tag, size, content) == <<tag>> \o LengthOctets(size) \o content

(* An item is as long as its parts.                                        *)
LEMMA ItemIs ==
    ASSUME NEW tag \in Nat, NEW size \in Nat, NEW content \in Seq(Nat)
    PROVE  /\ Item(tag, size, content) \in Seq(Nat)
           /\ Len(Item(tag, size, content)) = 1 + Len(LengthOctets(size)) + Len(content)
<1>1. PICK lo \in Seq(Nat) : lo = LengthOctets(size)
  BY LengthIs
<1>2. <<tag>> \in Seq(Nat) /\ Len(<<tag>>) = 1
  OBVIOUS
<1>3. <<tag>> \o lo \in Seq(Nat) /\ Len(<<tag>> \o lo) = 1 + Len(lo)
  BY <1>2, ConcatProperties
<1>4. (<<tag>> \o lo) \o content \in Seq(Nat) /\ Len((<<tag>> \o lo) \o content) = 1 + Len(lo) + Len(content)
  BY <1>3, ConcatProperties
<1> QED
  BY <1>1, <1>4 DEF Item

(* Encodings, as they follow from E for fewer bytes.                       *)
Contents(E, tag, size) == IF tag \in Constructed THEN E[size].items ELSE [1..size -> 0..(Base - 1)]

ItemCodes(E, n) ==
    UNION {{<<tag>> \o LengthOctets(size) \o content :
               content \in IF tag \in Constructed THEN E[size].items ELSE [1..size -> 0..(Base - 1)]} :
           tag \in 0..(Base - 1) \ BadTags,
           size \in {m \in 0..(n - 1) : 1 + Len(LengthOctets(m)) + m = n}}
MoreCodes(E, n) == UNION {{a \o b : a \in E[k].item, b \in E[n - k].items} : k \in 1..(n - 1)}
Codes(E, n) ==
    [item |-> ItemCodes(E, n), items |-> IF n = 0 THEN {<<>>} ELSE ItemCodes(E, n) \cup MoreCodes(E, n)]

IsItem(E, n, s) ==
    \E tag \in Byte \ BadTags : \E size \in 0..(n - 1) :
        /\ 1 + Len(LengthOctets(size)) + size = n
        /\ \E content \in Contents(E, tag, size) : s = Item(tag, size, content)
IsMore(E, n, s) == \E k \in 1..(n - 1) : \E a \in E[k].item : \E b \in E[n - k].items : s = a \o b

(* Codes, said by membership.                                              *)
LEMMA CodesAre ==
    ASSUME NEW E, NEW n \in Nat
    PROVE  /\ \A s : s \in ItemCodes(E, n) <=> IsItem(E, n, s)
           /\ \A s : s \in MoreCodes(E, n) <=> IsMore(E, n, s)
<1> DEFINE Of(tag, size) == {<<tag>> \o LengthOctets(size) \o content :
                                content \in IF tag \in Constructed THEN E[size].items ELSE [1..size -> 0..(Base - 1)]}
           Sizes         == {m \in 0..(n - 1) : 1 + Len(LengthOctets(m)) + m = n}
           Both(k)       == {a \o b : a \in E[k].item, b \in E[n - k].items}
<1>1. ASSUME NEW s PROVE s \in ItemCodes(E, n) <=> IsItem(E, n, s)
  <2>1. \A tag, size : s \in Of(tag, size) <=> \E content \in Contents(E, tag, size) : s = Item(tag, size, content)
    BY DEF Contents, Item
  <2>2. ItemCodes(E, n) = UNION {Of(tag, size) : tag \in Byte \ BadTags, size \in Sizes}
    BY DEF ItemCodes, Byte
  <2>3. \A size : size \in Sizes <=> size \in 0..(n - 1) /\ 1 + Len(LengthOctets(size)) + size = n
    OBVIOUS
  <2> HIDE DEF Of, Sizes
  <2>4. s \in ItemCodes(E, n) <=> \E tag \in Byte \ BadTags : \E size \in Sizes : s \in Of(tag, size)
    BY <2>2
  <2> QED
    BY <2>1, <2>3, <2>4 DEF IsItem
<1>2. ASSUME NEW s PROVE s \in MoreCodes(E, n) <=> IsMore(E, n, s)
  <2>1. \A k : s \in Both(k) <=> \E a \in E[k].item : \E b \in E[n - k].items : s = a \o b
    OBVIOUS
  <2>2. MoreCodes(E, n) = UNION {Both(k) : k \in 1..(n - 1)}
    BY DEF MoreCodes
  <2> HIDE DEF Both
  <2> QED
    BY <2>1, <2>2 DEF IsMore
<1> QED
  BY <1>1, <1>2

TwoSets == [item : SUBSET Seq(Nat), items : SUBSET Seq(Nat)]

(* Codes are sequences, if those they are made of are.                     *)
LEMMA ContentsTyped ==
    ASSUME NEW E \in [Nat -> TwoSets], NEW tag, NEW size \in Nat, NEW c \in Contents(E, tag, size)
    PROVE  c \in Seq(Nat) /\ (tag \notin Constructed => Len(c) = size)
<1>1. CASE tag \in Constructed
  BY <1>1 DEF Contents, TwoSets
<1>2. CASE tag \notin Constructed
  <2>1. c \in [1..size -> Nat]
    BY <1>2, BaseIs DEF Contents
  <2> QED
    BY <1>2, <2>1
<1> QED
  BY <1>1, <1>2

LEMMA CodesTyped ==
    ASSUME NEW E \in [Nat -> TwoSets], NEW n \in Nat
    PROVE  Codes(E, n) \in TwoSets
<1>1. ASSUME NEW s, IsItem(E, n, s) PROVE s \in Seq(Nat)
  <2>1. PICK tag \in Byte \ BadTags, size \in 0..(n - 1) :
           \E content \in Contents(E, tag, size) : s = Item(tag, size, content)
    BY <1>1 DEF IsItem
  <2>2. PICK content \in Contents(E, tag, size) : s = Item(tag, size, content)
    BY <2>1
  <2>3. tag \in Nat /\ size \in Nat
    BY BaseIs DEF Byte
  <2>4. content \in Seq(Nat)
    BY <2>3, ContentsTyped
  <2> QED
    BY <2>2, <2>3, <2>4, ItemIs
<1>2. ASSUME NEW s, IsMore(E, n, s) PROVE s \in Seq(Nat)
  <2>1. PICK k \in 1..(n - 1) : \E a \in E[k].item : \E b \in E[n - k].items : s = a \o b
    BY <1>2 DEF IsMore
  <2>2. PICK a \in E[k].item, b \in E[n - k].items : s = a \o b
    BY <2>1
  <2>3. k \in Nat /\ n - k \in Nat
    OBVIOUS
  <2>4. a \in Seq(Nat) /\ b \in Seq(Nat)
    BY <2>3 DEF TwoSets
  <2> QED
    BY <2>2, <2>4, ConcatProperties
<1>3. ItemCodes(E, n) \in SUBSET Seq(Nat) /\ MoreCodes(E, n) \in SUBSET Seq(Nat) /\ {<<>>} \in SUBSET Seq(Nat)
  BY <1>1, <1>2, CodesAre
<1> QED
  BY <1>3 DEF Codes, TwoSets

(* The codes of n bytes are made of codes of fewer bytes, so Encodings is  *)
(* what its recursion says.                                                *)
LEMMA CodesLocal ==
    ASSUME NEW E \in [Nat -> TwoSets], NEW H \in [Nat -> TwoSets], NEW n \in Nat,
           \A k \in Nat : k < n => E[k] = H[k]
    PROVE  Codes(E, n) = Codes(H, n)
<1>1. ASSUME NEW s PROVE IsItem(E, n, s) <=> IsItem(H, n, s)
  <2>1. \A tag : \A size \in 0..(n - 1) : Contents(E, tag, size) = Contents(H, tag, size)
    <3>1. ASSUME NEW tag, NEW size \in 0..(n - 1) PROVE Contents(E, tag, size) = Contents(H, tag, size)
      <4>1. E[size] = H[size]
        OBVIOUS
      <4> QED
        BY <4>1 DEF Contents
    <3> QED
      BY <3>1
  <2> QED
    BY <2>1 DEF IsItem
<1>2. ASSUME NEW s PROVE IsMore(E, n, s) <=> IsMore(H, n, s)
  <2>1. \A k \in 1..(n - 1) : E[k] = H[k] /\ E[n - k] = H[n - k]
    OBVIOUS
  <2> QED
    BY <2>1 DEF IsMore
<1>3. \A s : s \in ItemCodes(E, n) <=> s \in ItemCodes(H, n)
  BY <1>1, CodesAre, Zenon
<1>4. \A s : s \in MoreCodes(E, n) <=> s \in MoreCodes(H, n)
  BY <1>2, CodesAre, Zenon
<1>5. ItemCodes(E, n) = ItemCodes(H, n) /\ MoreCodes(E, n) = MoreCodes(H, n)
  BY <1>3, <1>4
<1> QED
  BY <1>5 DEF Codes

LEMMA EncodingsAre == \A n \in Nat : Encodings[n] = Codes(Encodings, n)
<1> DEFINE Of(E)   == [n \in Nat |-> Codes(E, n)]
           G       == [E \in [Nat -> TwoSets] |-> Of(E)]
           measure == [n \in Nat |-> n]
<1>1. Encodings = CHOOSE E : E = Of(E)
  BY DEF Encodings, Codes, ItemCodes, MoreCodes
<1>2. ASSUME NEW E \in [Nat -> TwoSets] PROVE Of(E) \in [Nat -> TwoSets]
  BY CodesTyped
<1>3. ASSUME NEW E \in [Nat -> TwoSets], NEW n \in Nat PROVE Of(E)[n] = Codes(E, n)
  OBVIOUS
<1> HIDE DEF Of
<1>4. G \in [[Nat -> TwoSets] -> [Nat -> TwoSets]] /\ \A E \in [Nat -> TwoSets] : G[E] = Of(E)
  BY <1>2
<1>5. measure \in [Nat -> Nat] /\ \A n \in Nat : measure[n] = n
  OBVIOUS
<1> HIDE DEF G, measure
<1>6. Contracts(G, Nat, TwoSets, measure)
  <2>1. ASSUME NEW E \in [Nat -> TwoSets], NEW H \in [Nat -> TwoSets], NEW n \in Nat,
               \A k \in Nat : measure[k] < measure[n] => E[k] = H[k]
        PROVE  G[E][n] = G[H][n]
    <3>1. \A k \in Nat : k < n => E[k] = H[k]
      BY <1>5, <2>1
    <3>2. Codes(E, n) = Codes(H, n)
      BY <3>1, CodesLocal
    <3> QED
      BY <1>3, <1>4, <3>2
  <2> QED
    BY <2>1 DEF Contracts
<1>7. HasFixpoint(G, Nat, TwoSets)
  <2>1. TwoSets # {}
    <3>1. [item |-> {}, items |-> {}] \in TwoSets
      BY DEF TwoSets
    <3> QED
      BY <3>1
  <2>2. Recursive(G, Nat, TwoSets, measure)
    BY <1>4, <1>5, <1>6, <2>1 DEF Recursive
  <2> QED
    BY <2>2, FixpointExists
<1>8. PICK E \in [Nat -> TwoSets] : G[E] = E
  BY <1>7 DEF HasFixpoint
<1>9. Encodings = Of(Encodings)
  BY <1>1, <1>4, <1>8
<1> QED
  BY <1>9 DEF Of

(* What Encodings[n] holds, said by membership; and it is n bytes long.    *)
LEMMA InEncodings ==
    ASSUME NEW n \in Nat
    PROVE  /\ \A s : s \in Encodings[n].item <=> IsItem(Encodings, n, s)
           /\ \A s : s \in Encodings[n].items <=>
                  IF n = 0 THEN s = <<>> ELSE IsItem(Encodings, n, s) \/ IsMore(Encodings, n, s)
<1>1. /\ Encodings[n].item = ItemCodes(Encodings, n)
      /\ Encodings[n].items = IF n = 0 THEN {<<>>} ELSE ItemCodes(Encodings, n) \cup MoreCodes(Encodings, n)
  <2>1. Encodings[n] = Codes(Encodings, n)
    BY EncodingsAre
  <2>2. /\ Codes(Encodings, n).item = ItemCodes(Encodings, n)
        /\ Codes(Encodings, n).items = IF n = 0 THEN {<<>>} ELSE ItemCodes(Encodings, n) \cup MoreCodes(Encodings, n)
    BY DEF Codes
  <2> QED
    BY <2>1, <2>2
<1>2. \A s : s \in ItemCodes(Encodings, n) <=> IsItem(Encodings, n, s)
  BY CodesAre
<1>3. \A s : s \in MoreCodes(Encodings, n) <=> IsMore(Encodings, n, s)
  BY CodesAre
<1> QED
  BY <1>1, <1>2, <1>3

Sized(n) == \A s \in Encodings[n].item \cup Encodings[n].items : s \in Seq(Nat) /\ Len(s) = n

(* Every code in Encodings[n] is n bytes long.                             *)
LEMMA EncodingsSized == \A n \in Nat : Sized(n)
<1> DEFINE S == {n \in Nat : Sized(n)}
<1>1. ASSUME NEW n \in Nat, \A k \in 0..(n - 1) : k \in S PROVE n \in S
  <2>1. ASSUME NEW s, IsItem(Encodings, n, s) PROVE s \in Seq(Nat) /\ Len(s) = n
    <3>1. PICK tag \in Byte \ BadTags, size \in 0..(n - 1) :
             /\ 1 + Len(LengthOctets(size)) + size = n
             /\ \E content \in Contents(Encodings, tag, size) : s = Item(tag, size, content)
      BY <2>1 DEF IsItem
    <3>2. PICK content \in Contents(Encodings, tag, size) : s = Item(tag, size, content)
      BY <3>1
    <3>3. tag \in Nat /\ size \in Nat
      BY BaseIs DEF Byte
    <3>4. content \in Seq(Nat) /\ Len(content) = size
      <4>1. CASE tag \in Constructed
        <5>1. Sized(size)
          BY <1>1
        <5> QED
          BY <4>1, <5>1 DEF Contents, Sized
      <4>2. CASE tag \notin Constructed
        <5>1. content \in [1..size -> Nat]
          BY <4>2, BaseIs DEF Contents
        <5> QED
          BY <3>3, <5>1
      <4> QED
        BY <4>1, <4>2
    <3> QED
      BY <3>1, <3>2, <3>3, <3>4, ItemIs
  <2>2. ASSUME NEW s, IsMore(Encodings, n, s) PROVE s \in Seq(Nat) /\ Len(s) = n
    <3>1. PICK k \in 1..(n - 1) : \E a \in Encodings[k].item : \E b \in Encodings[n - k].items : s = a \o b
      BY <2>2 DEF IsMore
    <3>2. PICK a \in Encodings[k].item, b \in Encodings[n - k].items : s = a \o b
      BY <3>1
    <3>3. k \in 0..(n - 1) /\ n - k \in 0..(n - 1)
      OBVIOUS
    <3>4. Sized(k) /\ Sized(n - k)
      BY <1>1, <3>3
    <3>5. a \in Seq(Nat) /\ Len(a) = k /\ b \in Seq(Nat) /\ Len(b) = n - k
      BY <3>4 DEF Sized
    <3>6. a \o b \in Seq(Nat) /\ Len(a \o b) = Len(a) + Len(b)
      BY <3>5, ConcatProperties
    <3> QED
      BY <3>2, <3>5, <3>6
  <2>3. \A s : s \in Encodings[n].item => IsItem(Encodings, n, s)
    BY InEncodings
  <2>4. \A s : s \in Encodings[n].items => IsItem(Encodings, n, s) \/ IsMore(Encodings, n, s) \/ (n = 0 /\ s = <<>>)
    BY InEncodings
  <2>5. <<>> \in Seq(Nat) /\ Len(<<>>) = 0
    OBVIOUS
  <2>6. Sized(n)
    BY <2>1, <2>2, <2>3, <2>4, <2>5 DEF Sized
  <2> QED
    BY <2>6
<1> HIDE DEF S
<1>2. Nat \subseteq S
  BY <1>1, StrongInduction
<1> QED
  BY <1>2 DEF S

(* A header that is in order: where its contents lie.                      *)
LEMMA HeaderIs ==
    ASSUME NEW data \in Seq(Byte), NEW offset \in 0..Len(data), NEW limit \in 0..Len(data),
           HeaderOk(data, offset, limit)
    PROVE  /\ Tag(data, offset) \in Byte \ BadTags /\ First(data, offset) \in Byte
           /\ IsLong(data, offset) =>
                 /\ First(data, offset) > HighBit /\ Minimal(LongBytes(data, offset))
                 /\ LongBytes(data, offset) \in Seq(Byte)
                 /\ Len(LongBytes(data, offset)) = First(data, offset) - HighBit
                 /\ ContentStart(data, offset) = offset + 2 + (First(data, offset) - HighBit)
                 /\ ContentEnd(data, offset) = ContentStart(data, offset) + FromBytes(LongBytes(data, offset))
           /\ ~IsLong(data, offset) =>
                 /\ First(data, offset) < HighBit
                 /\ ContentStart(data, offset) = offset + 2
                 /\ ContentEnd(data, offset) = offset + 2 + First(data, offset)
           /\ ContentStart(data, offset) \in Nat /\ ContentEnd(data, offset) \in Nat
           /\ offset + 2 <= ContentStart(data, offset) /\ ContentStart(data, offset) <= limit
           /\ ContentStart(data, offset) <= ContentEnd(data, offset)
<1> DEFINE first == First(data, offset)
           n     == Len(data)
<1>1. n \in Nat /\ offset \in Nat /\ limit \in Nat /\ offset + 2 <= limit /\ limit <= n
  BY DEF HeaderOk
<1>2. offset + 1 \in 1..n /\ offset + 2 \in 1..n
  BY <1>1
<1>3. data[offset + 1] \in Byte /\ data[offset + 2] \in Byte
  BY <1>2
<1>4. Tag(data, offset) \in Byte \ BadTags /\ first \in Byte
  BY <1>3 DEF HeaderOk, Tag, First
<1>5. first \in Nat /\ first < Base
  BY <1>4, BaseIs DEF Byte
<1> HIDE DEF first, n
<1>6. CASE IsLong(data, offset)
  <2>1. first # HighBit /\ ContentStart(data, offset) <= limit /\ Minimal(LongBytes(data, offset))
    BY <1>6 DEF HeaderOk, first
  <2>2. first >= HighBit
    BY <1>6 DEF IsLong, first
  <2>3. PICK k \in Nat : k = first - HighBit /\ k >= 1
    BY <1>5, <2>1, <2>2, BaseIs
  <2>4. ContentStart(data, offset) = offset + 2 + k
    BY <1>6, <2>3 DEF ContentStart, first
  <2>5. offset + 3 \in Int /\ offset + 2 + k \in Int /\ \A i \in (offset + 3)..(offset + 2 + k) : data[i] \in Byte
    <3>1. ASSUME NEW i \in (offset + 3)..(offset + 2 + k) PROVE data[i] \in Byte
      <4>1. i \in 1..Len(data)
        BY <1>1, <2>1, <2>4 DEF n
      <4> QED
        BY <4>1
    <3> QED
      BY <1>1, <3>1
  <2>6. PICK from \in Int : from = offset + 3
    BY <1>1
  <2>7. PICK to \in Int : to = offset + 2 + k
    BY <1>1
  <2>8. SubSeq(data, from, to) \in Seq(Byte) /\ Len(SubSeq(data, from, to)) = k
    <3>1. from <= to /\ to - from + 1 = k
      BY <1>1, <2>3, <2>6, <2>7
    <3> QED
      BY <2>5, <2>6, <2>7, <3>1, SubSeqProperties
  <2>9. LongBytes(data, offset) = SubSeq(data, from, to)
    <3>1. offset + 2 + first - HighBit = to
      BY <1>1, <1>5, <2>3, <2>7, BaseIs
    <3> QED
      BY <2>6, <3>1 DEF LongBytes, first
  <2>10. FromBytes(LongBytes(data, offset)) \in Nat
    BY <2>8, <2>9, NumberOfBytes
  <2>11. ContentEnd(data, offset) = ContentStart(data, offset) + FromBytes(LongBytes(data, offset))
    BY <1>6 DEF ContentEnd
  <2>12. first > HighBit
    BY <1>5, <2>1, <2>2, BaseIs
  <2>13. ContentStart(data, offset) \in Nat /\ offset + 2 <= ContentStart(data, offset)
    BY <1>1, <2>4
  <2>14. ContentStart(data, offset) = offset + 2 + (first - HighBit) /\ Len(LongBytes(data, offset)) = first - HighBit
    BY <2>3, <2>4, <2>8, <2>9
  <2>15. LongBytes(data, offset) \in Seq(Byte)
    BY <2>8, <2>9
  <2>16. /\ ContentEnd(data, offset) \in Nat /\ ContentStart(data, offset) <= ContentEnd(data, offset)
    BY <2>10, <2>11, <2>13
  <2> QED
    BY <1>4, <1>6, <2>1, <2>11, <2>12, <2>13, <2>14, <2>15, <2>16 DEF first
<1>7. CASE ~IsLong(data, offset)
  <2>1. ContentStart(data, offset) = offset + 2 /\ ContentEnd(data, offset) = offset + 2 + first
    BY <1>1, <1>7 DEF ContentStart, ContentEnd, first
  <2>2. first < HighBit
    BY <1>5, <1>7, BaseIs DEF IsLong, first
  <2> QED
    BY <1>1, <1>4, <1>5, <1>7, <2>1, <2>2 DEF first
<1> QED
  BY <1>6, <1>7

(* One turn of _der_item_end, and of its loop.                             *)
ItemEnd(data, E, offset, limit) ==
    IF /\ HeaderOk(data, offset, limit) /\ ContentEnd(data, offset) <= limit
       /\ Tag(data, offset) \in Constructed =>
             E[<<ContentStart(data, offset), ContentEnd(data, offset)>>].items = ContentEnd(data, offset)
    THEN ContentEnd(data, offset) ELSE Invalid
ItemsEnd(data, E, offset, limit) ==
    IF offset >= limit THEN offset
    ELSE IF ItemEnd(data, E, offset, limit) = Invalid THEN Invalid
    ELSE E[<<ItemEnd(data, E, offset, limit), limit>>].items
BothEnds(data, E, offset, limit) ==
    [item |-> ItemEnd(data, E, offset, limit), items |-> ItemsEnd(data, E, offset, limit)]

Places(data) == 0..Len(data)
Spans(data)  == Places(data) \X Places(data)
Ends(data)   == [item : -1..Len(data), items : -1..Len(data)]

(* An item that is accepted has a header in order and ends where its       *)
(* header says, after its offset and within the limit.                     *)
LEMMA ItemEndIs ==
    ASSUME NEW data \in Seq(Byte), NEW E, NEW offset \in Places(data), NEW limit \in Places(data),
           ItemEnd(data, E, offset, limit) # Invalid
    PROVE  /\ HeaderOk(data, offset, limit)
           /\ ItemEnd(data, E, offset, limit) = ContentEnd(data, offset)
           /\ offset < ContentEnd(data, offset) /\ ContentEnd(data, offset) <= limit
           /\ ContentEnd(data, offset) \in Places(data)
<1>1. /\ HeaderOk(data, offset, limit) /\ ContentEnd(data, offset) <= limit
      /\ ItemEnd(data, E, offset, limit) = ContentEnd(data, offset)
  BY DEF ItemEnd
<1>2. /\ ContentStart(data, offset) \in Nat /\ ContentEnd(data, offset) \in Nat
      /\ offset + 2 <= ContentStart(data, offset) /\ ContentStart(data, offset) <= ContentEnd(data, offset)
  <2>1. offset \in 0..Len(data) /\ limit \in 0..Len(data)
    BY DEF Places
  <2> QED
    BY <1>1, <2>1, HeaderIs
<1>3. offset \in Nat /\ limit \in Nat /\ limit <= Len(data) /\ Len(data) \in Nat
  BY DEF Places
<1>4. offset < ContentEnd(data, offset) /\ ContentEnd(data, offset) \in 0..Len(data)
  BY <1>1, <1>2, <1>3
<1> QED
  BY <1>1, <1>4 DEF Places

(* Both ends are places or Invalid.                                        *)
LEMMA EndsTyped ==
    ASSUME NEW data \in Seq(Byte), NEW E \in [Spans(data) -> Ends(data)],
           NEW offset \in Places(data), NEW limit \in Places(data)
    PROVE  BothEnds(data, E, offset, limit) \in Ends(data)
<1>1. Len(data) \in Nat /\ Invalid = -1
  BY DEF Invalid
<1>2. ItemEnd(data, E, offset, limit) \in -1..Len(data)
  <2>1. CASE ItemEnd(data, E, offset, limit) = Invalid
    BY <1>1, <2>1
  <2>2. CASE ItemEnd(data, E, offset, limit) # Invalid
    <3>1. ItemEnd(data, E, offset, limit) \in Places(data)
      BY <2>2, ItemEndIs
    <3> QED
      BY <1>1, <3>1 DEF Places
  <2> QED
    BY <2>1, <2>2
<1>3. ItemsEnd(data, E, offset, limit) \in -1..Len(data)
  <2>1. CASE offset >= limit
    BY <1>1, <2>1 DEF ItemsEnd, Places
  <2>2. CASE ~(offset >= limit) /\ ItemEnd(data, E, offset, limit) = Invalid
    BY <1>1, <2>2 DEF ItemsEnd
  <2>3. CASE ~(offset >= limit) /\ ItemEnd(data, E, offset, limit) # Invalid
    <3>1. <<ItemEnd(data, E, offset, limit), limit>> \in Spans(data)
      BY <2>3, ItemEndIs DEF Spans
    <3>2. E[<<ItemEnd(data, E, offset, limit), limit>>].items \in -1..Len(data)
      BY <3>1 DEF Ends
    <3> QED
      BY <2>3, <3>2 DEF ItemsEnd
  <2> QED
    BY <2>1, <2>2, <2>3
<1> QED
  BY <1>2, <1>3 DEF BothEnds, Ends

Width(span) == IF span[1] <= span[2] THEN span[2] - span[1] ELSE 0

(* They depend only on narrower spans, so DerEnds is what its recursion    *)
(* says.                                                                   *)
LEMMA EndsLocal ==
    ASSUME NEW data \in Seq(Byte), NEW E, NEW H, NEW offset \in Places(data), NEW limit \in Places(data),
           \A span \in Spans(data) : Width(span) < Width(<<offset, limit>>) => E[span] = H[span]
    PROVE  BothEnds(data, E, offset, limit) = BothEnds(data, H, offset, limit)
<1>0. offset \in Nat /\ limit \in Nat /\ limit <= Len(data) /\ Len(data) \in Nat
  BY DEF Places
<1>1. ASSUME NEW a \in Places(data), NEW b \in Places(data), offset < a, a <= b, b <= limit
      PROVE  E[<<a, b>>] = H[<<a, b>>]
  <2>1. <<a, b>> \in Spans(data) /\ a \in Nat /\ b \in Nat
    BY DEF Spans, Places
  <2>2. Width(<<a, b>>) = b - a /\ Width(<<offset, limit>>) = limit - offset
    BY <1>0, <1>1, <2>1 DEF Width
  <2>3. b - a < limit - offset
    BY <1>0, <1>1, <2>1
  <2> QED
    BY <2>1, <2>2, <2>3
<1>2. ASSUME HeaderOk(data, offset, limit), ContentEnd(data, offset) <= limit
      PROVE  LET inside == <<ContentStart(data, offset), ContentEnd(data, offset)>> IN E[inside] = H[inside]
  <2>1. /\ ContentStart(data, offset) \in Nat /\ ContentEnd(data, offset) \in Nat
        /\ offset + 2 <= ContentStart(data, offset) /\ ContentStart(data, offset) <= ContentEnd(data, offset)
    <3>1. offset \in 0..Len(data) /\ limit \in 0..Len(data)
      BY DEF Places
    <3> QED
      BY <1>2, <3>1, HeaderIs
  <2>2. /\ ContentStart(data, offset) \in Places(data) /\ ContentEnd(data, offset) \in Places(data)
        /\ offset < ContentStart(data, offset)
    BY <1>0, <1>2, <2>1 DEF Places
  <2> QED
    BY <1>1, <1>2, <2>1, <2>2
<1>3. ItemEnd(data, E, offset, limit) = ItemEnd(data, H, offset, limit)
  BY <1>2 DEF ItemEnd
<1>4. ItemsEnd(data, E, offset, limit) = ItemsEnd(data, H, offset, limit)
  <2>1. CASE offset >= limit
    BY <2>1 DEF ItemsEnd
  <2>2. CASE ~(offset >= limit) /\ ItemEnd(data, E, offset, limit) = Invalid
    BY <1>3, <2>2 DEF ItemsEnd
  <2>3. CASE ~(offset >= limit) /\ ItemEnd(data, E, offset, limit) # Invalid
    <3>1. PICK e \in Places(data) : e = ItemEnd(data, E, offset, limit) /\ offset < e /\ e <= limit
      BY <2>3, ItemEndIs
    <3>2. E[<<e, limit>>] = H[<<e, limit>>]
      <4>1. limit <= limit
        BY <1>0
      <4> QED
        BY <1>1, <3>1, <4>1, Zenon
    <3> QED
      BY <1>3, <2>3, <3>1, <3>2 DEF ItemsEnd
  <2> QED
    BY <2>1, <2>2, <2>3
<1> QED
  BY <1>3, <1>4 DEF BothEnds

LEMMA DerEndsAre ==
    ASSUME NEW data \in Seq(Byte), NEW offset \in Places(data), NEW limit \in Places(data)
    PROVE  DerEnds(data)[<<offset, limit>>] = BothEnds(data, DerEnds(data), offset, limit)
<1> DEFINE D       == Spans(data)
           V       == Ends(data)
           Of(E)   == [span \in (0..Len(data)) \X (0..Len(data)) |-> BothEnds(data, E, span[1], span[2])]
           G       == [E \in [D -> V] |-> Of(E)]
           measure == [span \in D |-> Width(span)]
<1>1. DerEnds(data) = CHOOSE E : E = Of(E)
  BY DEF DerEnds, BothEnds, ItemEnd, ItemsEnd
<1>2. \A span \in D : span[1] \in Places(data) /\ span[2] \in Places(data) /\ span = <<span[1], span[2]>>
  BY DEF Spans
<1>3. ASSUME NEW E \in [D -> V] PROVE Of(E) \in [D -> V]
  <2>1. ASSUME NEW span \in D PROVE BothEnds(data, E, span[1], span[2]) \in V
    BY <1>2, EndsTyped
  <2>2. (0..Len(data)) \X (0..Len(data)) = D
    BY DEF Spans, Places
  <2> QED
    BY <2>1, <2>2
<1>4. ASSUME NEW E, NEW span \in D PROVE Of(E)[span] = BothEnds(data, E, span[1], span[2])
  BY DEF Spans, Places
<1> HIDE DEF Of, V
<1>5. G \in [[D -> V] -> [D -> V]] /\ \A E \in [D -> V] : G[E] = Of(E)
  BY <1>3
<1>6. measure \in [D -> Nat] /\ \A span \in D : measure[span] = Width(span)
  <2>1. ASSUME NEW span \in D PROVE Width(span) \in Nat
    BY <1>2 DEF Width, Places
  <2> QED
    BY <2>1
<1> HIDE DEF G, measure, D
<1>7. Contracts(G, D, V, measure)
  <2>1. ASSUME NEW E \in [D -> V], NEW H \in [D -> V], NEW span \in D,
               \A s \in D : measure[s] < measure[span] => E[s] = H[s]
        PROVE  G[E][span] = G[H][span]
    <3>1. \A s \in Spans(data) : Width(s) < Width(<<span[1], span[2]>>) => E[s] = H[s]
      BY <1>2, <1>6, <2>1 DEF D
    <3>2. BothEnds(data, E, span[1], span[2]) = BothEnds(data, H, span[1], span[2])
      BY <1>2, <3>1, EndsLocal
    <3> QED
      BY <1>4, <1>5, <3>2
  <2> QED
    BY <2>1 DEF Contracts
<1>8. HasFixpoint(G, D, V)
  <2>1. V # {}
    <3>1. Invalid \in -1..Len(data)
      BY DEF Invalid
    <3>2. [item |-> Invalid, items |-> Invalid] \in V
      BY <3>1 DEF V, Ends
    <3> QED
      BY <3>2
  <2>2. Recursive(G, D, V, measure)
    BY <1>5, <1>6, <1>7, <2>1 DEF Recursive
  <2> QED
    BY <2>2, FixpointExists
<1>9. PICK E \in [D -> V] : G[E] = E
  BY <1>8 DEF HasFixpoint
<1>10. DerEnds(data) = Of(DerEnds(data))
  BY <1>1, <1>5, <1>9
<1>11. PICK span \in D : span = <<offset, limit>>
  BY DEF D, Spans
<1> QED
  BY <1>4, <1>10, <1>11

(* Parts of a sequence: one element, one element more in front, and the    *)
(* two parts that it was put together from.                                *)
LEMMA OneElement ==
    ASSUME NEW T, NEW s \in Seq(T), NEW i \in 1..Len(s)
    PROVE  SubSeq(s, i, i) = <<s[i]>>
<1>1. SubSeq(s, i, i) = [j \in 1..1 |-> s[i]]
  <2>1. SubSeq(s, i, i) \in Seq(T) /\ Len(SubSeq(s, i, i)) = 1 /\ SubSeq(s, i, i)[1] = s[i]
    <3>1. \A j \in i..i : s[j] \in T
      OBVIOUS
    <3>2. i \in Int /\ i - i + 1 = 1 /\ i + 1 - 1 = i
      OBVIOUS
    <3> QED
      BY <3>1, <3>2, SubSeqProperties
  <2> QED
    BY <2>1
<1> QED
  BY <1>1

LEMMA OneMoreInFront ==
    ASSUME NEW T, NEW s \in Seq(T), NEW i \in 1..Len(s), NEW j \in i..Len(s)
    PROVE  SubSeq(s, i, j) = <<s[i]>> \o SubSeq(s, i + 1, j)
<1>1. SubSeq(s, i, i) \o SubSeq(s, i + 1, j) = SubSeq(s, i, j)
  <2>1. i \in 1..(Len(s) + 1) /\ i \in (i - 1)..Len(s) /\ j \in i..Len(s)
    OBVIOUS
  <2> QED
    BY <2>1, ConcatAdjacentSubSeq
<1> QED
  BY <1>1, OneElement

(* The elements of a part, and a part known by its elements.               *)
IsPart(p, T, s, i, j) == p \in Seq(T) /\ Len(p) = j - i /\ \A k \in 1..(j - i) : p[k] = s[i + k]

LEMMA PartIs ==
    ASSUME NEW T, NEW s \in Seq(T), NEW i \in 0..Len(s), NEW j \in i..Len(s)
    PROVE  IsPart(SubSeq(s, i + 1, j), T, s, i, j)
<1>1. \A k \in (i + 1)..j : s[k] \in T
  OBVIOUS
<1>2. PICK from \in Int : from = i + 1
  OBVIOUS
<1>3. j \in Int /\ j - from + 1 = j - i /\ \A k \in 1..(j - i) : from + k - 1 = i + k
  BY <1>2
<1>4. /\ SubSeq(s, from, j) \in Seq(T)
      /\ Len(SubSeq(s, from, j)) = IF from <= j THEN j - from + 1 ELSE 0
      /\ \A k \in 1..(j - from + 1) : SubSeq(s, from, j)[k] = s[from + k - 1]
  BY <1>1, <1>2, <1>3, SubSeqProperties
<1>5. (IF from <= j THEN j - from + 1 ELSE 0) = j - i
  BY <1>2
<1> QED
  BY <1>2, <1>3, <1>4, <1>5 DEF IsPart

LEMMA PartIsThat ==
    ASSUME NEW T, NEW s \in Seq(T), NEW i \in 0..Len(s), NEW j \in i..Len(s),
           NEW U, NEW t, IsPart(t, U, s, i, j)
    PROVE  SubSeq(s, i + 1, j) = t
<1>0. PICK p : p = SubSeq(s, i + 1, j)
  OBVIOUS
<1>1. /\ p \in Seq(T) /\ Len(p) = j - i /\ t \in Seq(U) /\ Len(t) = j - i
      /\ \A k \in 1..(j - i) : p[k] = t[k]
  <2>1. IsPart(p, T, s, i, j)
    BY <1>0, PartIs
  <2> QED
    BY <2>1 DEF IsPart
<1>2. PICK n \in Nat : n = j - i
  OBVIOUS
<1>3. p = [k \in 1..n |-> p[k]] /\ t = [k \in 1..n |-> t[k]] /\ \A k \in 1..n : p[k] = t[k]
  BY <1>1, <1>2
<1>4. [k \in 1..n |-> p[k]] = [k \in 1..n |-> t[k]]
  BY <1>3
<1> QED
  BY <1>0, <1>3, <1>4

InTwoParts(s, i, j, a, b) ==
    SubSeq(s, i + 1, i + Len(a)) = a /\ SubSeq(s, i + Len(a) + 1, j) = b

(* A part that is two sequences put together is these two parts.           *)
LEMMA PartsAreThese ==
    ASSUME NEW T, NEW s \in Seq(T), NEW i \in 0..Len(s), NEW j \in i..Len(s),
           NEW U, NEW a \in Seq(U), NEW b \in Seq(U), SubSeq(s, i + 1, j) = a \o b
    PROVE  InTwoParts(s, i, j, a, b)
<1>1. /\ a \o b \in Seq(U) /\ Len(a \o b) = Len(a) + Len(b)
      /\ \A k \in 1..(Len(a) + Len(b)) : (a \o b)[k] = IF k <= Len(a) THEN a[k] ELSE b[k - Len(a)]
  BY ConcatProperties
<1>2. Len(a) + Len(b) = j - i /\ \A k \in 1..(j - i) : s[i + k] = (a \o b)[k]
  <2>1. IsPart(SubSeq(s, i + 1, j), T, s, i, j)
    BY PartIs
  <2>2. SubSeq(s, i + 1, j) = a \o b
    OBVIOUS
  <2>3. Len(a) + Len(b) = j - i
    BY <1>1, <2>1, <2>2 DEF IsPart
  <2> QED
    BY <2>1, <2>2, <2>3 DEF IsPart
<1> PICK m : m = i + Len(a)
  OBVIOUS
<1>3. m = i + Len(a) /\ m \in 0..Len(s) /\ m \in i..Len(s) /\ m >= i /\ m <= j /\ j \in m..Len(s)
  BY <1>2
<1>4. SubSeq(s, i + 1, m) = a
  <2>1. Len(a) = m - i
    BY <1>3
  <2>2. ASSUME NEW k \in 1..(m - i) PROVE s[i + k] = a[k]
    <3>1. k \in 1..(j - i) /\ k \in 1..(Len(a) + Len(b)) /\ k <= Len(a)
      BY <1>2, <1>3, <2>1
    <3>2. s[i + k] = (a \o b)[k]
      BY <1>2, <3>1
    <3>3. (a \o b)[k] = a[k]
      BY <1>1, <3>1
    <3> QED
      BY <3>2, <3>3
  <2>3. IsPart(a, U, s, i, m)
    BY <2>1, <2>2 DEF IsPart
  <2> QED
    BY <1>3, <2>3, PartIsThat
<1>5. SubSeq(s, m + 1, j) = b
  <2>1. Len(b) = j - m
    BY <1>2, <1>3
  <2>2. ASSUME NEW k \in 1..(j - m) PROVE s[m + k] = b[k]
    <3>1. PICK q \in 1..(j - i) : q = Len(a) + k
      BY <1>2, <1>3
    <3>2. s[i + q] = (a \o b)[q] /\ (a \o b)[q] = b[q - Len(a)]
      BY <1>1, <1>2, <3>1
    <3>3. i + q = m + k /\ q - Len(a) = k
      BY <1>3, <3>1
    <3> QED
      BY <3>2, <3>3
  <2>3. IsPart(b, U, s, m, j)
    BY <2>1, <2>2 DEF IsPart
  <2> QED
    BY <1>3, <2>3, PartIsThat
<1> QED
  BY <1>3, <1>4, <1>5 DEF InTwoParts

(* A header that is in order is a tag, and the shortest octets of the      *)
(* length that it gives.                                                   *)
LEMMA HeaderOctets ==
    ASSUME NEW data \in Seq(Byte), NEW offset \in 0..Len(data), NEW limit \in 0..Len(data),
           HeaderOk(data, offset, limit), ContentEnd(data, offset) <= limit,
           NEW size, size = ContentEnd(data, offset) - ContentStart(data, offset)
    PROVE  SubSeq(data, offset + 2, ContentStart(data, offset)) = LengthOctets(size)
<1>1. PICK first \in Nat : first = First(data, offset)
  BY HeaderIs, BaseIs DEF Byte
<1>2. offset + 2 \in 1..Len(data) /\ data[offset + 2] = first
  <2>1. offset + 2 \in 1..Len(data)
    BY HeaderIs
  <2> QED
    BY <1>1, <2>1 DEF First
<1>3. CASE ~IsLong(data, offset)
  <2>1. ContentStart(data, offset) = offset + 2 /\ size = first /\ first < HighBit
    BY <1>1, <1>3, HeaderIs
  <2>2. SubSeq(data, offset + 2, offset + 2) = <<data[offset + 2]>>
    BY <1>2, OneElement
  <2> QED
    BY <1>2, <2>1, <2>2 DEF LengthOctets
<1>4. CASE IsLong(data, offset)
  <2>1. PICK bytes \in Seq(Byte) : bytes = LongBytes(data, offset) /\ Len(bytes) = first - HighBit
    BY <1>1, <1>4, HeaderIs
  <2>2. /\ bytes # <<>> /\ bytes[1] # 0 /\ FromBytes(bytes) >= HighBit /\ first = HighBit + Len(bytes)
    <3>1. first > HighBit /\ Minimal(bytes)
      BY <1>1, <1>4, <2>1, HeaderIs
    <3>2. Len(bytes) # 0
      BY <2>1, <3>1, BaseIs
    <3> QED
      BY <2>1, <3>1, <3>2, BaseIs DEF Minimal
  <2>3. FromBytes(bytes) \in Nat /\ Digits[FromBytes(bytes)] = bytes
    BY <2>2, NumberOfBytes, DigitsOfNumber
  <2>4. size = FromBytes(bytes)
    <3>1. /\ ContentEnd(data, offset) = ContentStart(data, offset) + FromBytes(bytes)
          /\ ContentStart(data, offset) \in Nat
      BY <1>4, <2>1, HeaderIs
    <3> QED
      BY <2>3, <3>1
  <2>5. LengthOctets(size) = <<first>> \o bytes
    <3>1. ~(size < HighBit)
      BY <2>2, <2>3, <2>4, BaseIs
    <3> QED
      BY <2>2, <2>3, <2>4, <3>1 DEF LengthOctets
  <2>6. SubSeq(data, offset + 2, ContentStart(data, offset)) = <<first>> \o bytes
    <3>1. PICK start \in (offset + 2)..Len(data) : start = ContentStart(data, offset)
      BY <1>4, HeaderIs
    <3>2. PICK i \in 1..Len(data) : i = offset + 2 /\ start \in i..Len(data)
      BY <1>2, <3>1
    <3>3. SubSeq(data, i, start) = <<data[i]>> \o SubSeq(data, i + 1, start)
      BY <3>2, OneMoreInFront
    <3>4. i + 1 = offset + 3 /\ start = offset + 2 + First(data, offset) - HighBit
      <4>1. ContentStart(data, offset) = offset + 2 + (first - HighBit)
        BY <1>1, <1>4, HeaderIs
      <4>2. offset + 2 + (first - HighBit) = offset + 2 + first - HighBit
        BY BaseIs
      <4> QED
        BY <1>1, <3>1, <3>2, <4>1, <4>2
    <3>5. SubSeq(data, i + 1, start) = bytes
      BY <2>1, <3>4 DEF LongBytes
    <3> QED
      BY <1>2, <3>1, <3>2, <3>3, <3>5
  <2> QED
    BY <2>5, <2>6
<1> QED
  BY <1>3, <1>4

(* What stands in the data where a header is in order is an item.          *)
LEMMA ItemInData ==
    ASSUME NEW data \in Seq(Byte), NEW offset \in 0..Len(data), NEW limit \in 0..Len(data),
           HeaderOk(data, offset, limit), ContentEnd(data, offset) <= limit,
           NEW size, size = ContentEnd(data, offset) - ContentStart(data, offset)
    PROVE  /\ size \in Nat
           /\ SubSeq(data, offset + 1, ContentEnd(data, offset))
                 = Item(Tag(data, offset), size,
                        SubSeq(data, ContentStart(data, offset) + 1, ContentEnd(data, offset)))
           /\ Len(LengthOctets(size)) = ContentStart(data, offset) - offset - 1
<1>1. PICK start \in Nat, stop \in Nat :
         /\ start = ContentStart(data, offset) /\ stop = ContentEnd(data, offset)
         /\ offset + 2 <= start /\ start <= stop /\ stop <= Len(data)
  BY HeaderIs
<1>2. SubSeq(data, offset + 2, start) = LengthOctets(size)
  BY <1>1, HeaderOctets
<1>3. PICK i \in 1..Len(data) : i = offset + 1
  BY <1>1
<1>4. SubSeq(data, i, start) = <<Tag(data, offset)>> \o SubSeq(data, i + 1, start)
  <2>1. start \in i..Len(data)
    BY <1>1, <1>3
  <2> QED
    BY <1>3, <2>1, OneMoreInFront DEF Tag
<1>5. i + 1 = offset + 2 /\ size \in Nat
  BY <1>1, <1>3
<1>6. SubSeq(data, i, start) \o SubSeq(data, start + 1, stop) = SubSeq(data, i, stop)
  <2>1. i \in 1..(Len(data) + 1) /\ start \in (i - 1)..Len(data) /\ stop \in start..Len(data)
    BY <1>1, <1>3
  <2> QED
    BY <2>1, ConcatAdjacentSubSeq
<1>7. Len(SubSeq(data, i + 1, start)) = start - i
  <2>1. i \in 0..Len(data) /\ start \in i..Len(data)
    BY <1>1, <1>3
  <2> QED
    BY <2>1, PartIs DEF IsPart
<1>8. start - i = start - offset - 1
  BY <1>1, <1>3
<1> QED
  BY <1>1, <1>2, <1>3, <1>4, <1>5, <1>6, <1>7, <1>8 DEF Item

IsBoth(U, a, b, c) ==
    /\ c \in Seq(U) /\ Len(c) = Len(a) + Len(b)
    /\ \A k \in 1..Len(a) : c[k] = a[k]
    /\ \A k \in 1..Len(b) : c[Len(a) + k] = b[k]

(* The elements of two sequences put together, and of an item.             *)
LEMMA ElementsOfBoth ==
    ASSUME NEW U, NEW a \in Seq(U), NEW b \in Seq(U)
    PROVE  IsBoth(U, a, b, a \o b)
<1>1. /\ a \o b \in Seq(U) /\ Len(a \o b) = Len(a) + Len(b)
      /\ \A q \in 1..(Len(a) + Len(b)) : (a \o b)[q] = IF q <= Len(a) THEN a[q] ELSE b[q - Len(a)]
  BY ConcatProperties
<1>2. Len(a) \in Nat /\ Len(b) \in Nat
  OBVIOUS
<1>3. ASSUME NEW k \in 1..Len(a) PROVE (a \o b)[k] = a[k]
  <2>1. k \in 1..(Len(a) + Len(b)) /\ k <= Len(a)
    BY <1>2
  <2> QED
    BY <1>1, <2>1
<1>4. ASSUME NEW k \in 1..Len(b) PROVE (a \o b)[Len(a) + k] = b[k]
  <2>1. Len(a) + k \in 1..(Len(a) + Len(b)) /\ ~(Len(a) + k <= Len(a)) /\ (Len(a) + k) - Len(a) = k
    BY <1>2
  <2> QED
    BY <1>1, <2>1
<1> QED
  BY <1>1, <1>3, <1>4 DEF IsBoth

IsMadeOf(item, tag, lo, content) ==
    /\ item[1] = tag
    /\ \A k \in 1..Len(lo) : item[1 + k] = lo[k]
    /\ \A k \in 1..Len(content) : item[1 + Len(lo) + k] = content[k]

LEMMA ItemParts ==
    ASSUME NEW tag \in Nat, NEW size \in Nat, NEW content \in Seq(Nat),
           NEW lo, lo = LengthOctets(size), NEW item, item = Item(tag, size, content)
    PROVE  IsMadeOf(item, tag, lo, content)
<1>1. lo \in Seq(Nat) /\ Len(lo) \in Nat
  BY LengthIs
<1>2. PICK front : front = <<tag>>
  OBVIOUS
<1>3. front \in Seq(Nat) /\ Len(front) = 1 /\ front[1] = tag
  BY <1>2
<1>4. PICK head : head = front \o lo
  OBVIOUS
<1>5. /\ head \in Seq(Nat) /\ Len(head) = Len(front) + Len(lo)
      /\ \A k \in 1..Len(front) : head[k] = front[k]
      /\ \A k \in 1..Len(lo) : head[Len(front) + k] = lo[k]
  <2>1. IsBoth(Nat, front, lo, head)
    BY <1>1, <1>3, <1>4, ElementsOfBoth
  <2> QED
    BY <2>1 DEF IsBoth
<1>6. item = head \o content
  BY <1>2, <1>4 DEF Item
<1>7. /\ \A k \in 1..Len(head) : item[k] = head[k]
      /\ \A k \in 1..Len(content) : item[Len(head) + k] = content[k]
  <2>1. IsBoth(Nat, head, content, item)
    BY <1>5, <1>6, ElementsOfBoth
  <2> QED
    BY <2>1 DEF IsBoth
<1>8. Len(head) = 1 + Len(lo) /\ \A k \in 1..Len(lo) : head[1 + k] = lo[k]
  BY <1>1, <1>3, <1>5
<1>9. 1 \in 1..Len(front) /\ 1 \in 1..Len(head) /\ \A k \in 1..Len(lo) : 1 + k \in 1..Len(head)
  BY <1>1, <1>3, <1>8
<1>10. item[1] = tag
  BY <1>3, <1>5, <1>7, <1>9
<1>11. \A k \in 1..Len(lo) : item[1 + k] = lo[k]
  BY <1>7, <1>8, <1>9
<1> QED
  BY <1>7, <1>8, <1>10, <1>11 DEF IsMadeOf

(* The first of the length octets tell where they end.                     *)
LengthRead(data, offset, size) ==
    /\ First(data, offset) # HighBit
    /\ IsLong(data, offset) => Minimal(LongBytes(data, offset))
    /\ ContentStart(data, offset) = offset + 1 + Len(LengthOctets(size))
    /\ ContentEnd(data, offset) = ContentStart(data, offset) + size

(* Length octets that stand in the data are read as that length.           *)
LEMMA LengthIsRead ==
    ASSUME NEW data \in Seq(Byte), NEW offset \in Nat, NEW size \in Nat,
           offset + 1 + Len(LengthOctets(size)) <= Len(data),
           \A k \in 1..Len(LengthOctets(size)) : data[offset + 1 + k] = LengthOctets(size)[k]
    PROVE  LengthRead(data, offset, size)
<1>1. PICK lo \in Seq(Nat) : lo = LengthOctets(size) /\ Len(lo) \in Nat /\ Len(lo) >= 1
  BY LengthIs
<1>2. First(data, offset) = lo[1]
  <2>1. 1 \in 1..Len(lo) /\ offset + 1 + 1 = offset + 2
    BY <1>1
  <2> QED
    BY <1>1, <2>1 DEF First
<1>3. CASE size < HighBit
  <2>1. lo = <<size>> /\ Len(<<size>>) = 1 /\ <<size>>[1] = size
    BY <1>1, <1>3 DEF LengthOctets
  <2>2. First(data, offset) = size /\ ~IsLong(data, offset)
    BY <1>2, <1>3, <2>1, BaseIs DEF IsLong
  <2>3. ContentStart(data, offset) = offset + 2 /\ ContentEnd(data, offset) = offset + 2 + size
    BY <2>2 DEF ContentStart, ContentEnd
  <2>4. size # HighBit /\ offset + 1 + Len(lo) = offset + 2
    BY <1>3, <2>1, BaseIs
  <2> QED
    BY <1>1, <2>2, <2>3, <2>4 DEF LengthRead
<1>4. CASE ~(size < HighBit)
  <2>1. PICK d \in Seq(Byte) : d = Digits[size] /\ d # <<>> /\ FromBytes(d) = size /\ d[1] # 0
    <3>1. size >= 1
      BY <1>4, BaseIs
    <3> QED
      BY <3>1, NumberOfDigits
  <2>2. PICK n \in Nat : n = Len(d) /\ n >= 1
    BY <2>1, EmptySeq
  <2>3. PICK first \in Nat : first = HighBit + n
    BY <2>2, BaseIs
  <2>4. lo = <<first>> \o d
    BY <1>1, <1>4, <2>1, <2>2, <2>3 DEF LengthOctets
  <2>5. Len(lo) = 1 + n /\ lo[1] = first /\ \A k \in 1..n : lo[1 + k] = d[k]
    <3>1. Byte \subseteq Nat
      BY BaseIs DEF Byte
    <3>2. d \in Seq(Nat)
      BY <3>1, SeqMonotonic
    <3>3. PICK front : front = <<first>>
      OBVIOUS
    <3>4. front \in Seq(Nat) /\ Len(front) = 1 /\ front[1] = first
      BY <3>3
    <3>5. lo = front \o d
      BY <2>4, <3>3
    <3>6. IsBoth(Nat, front, d, lo)
      BY <3>2, <3>4, <3>5, ElementsOfBoth
    <3>7. 1 \in 1..Len(front)
      BY <3>4
    <3> QED
      BY <2>2, <3>4, <3>6, <3>7 DEF IsBoth
  <2>6. /\ First(data, offset) = first /\ first # HighBit /\ first >= HighBit /\ first - HighBit = n
        /\ IsLong(data, offset)
    <3>1. First(data, offset) = first /\ first # HighBit /\ first >= HighBit /\ first - HighBit = n
      <4>1. First(data, offset) = first
        BY <1>2, <2>5
      <4>2. first # HighBit /\ first >= HighBit /\ first - HighBit = n
        BY <2>2, <2>3, BaseIs
      <4> QED
        BY <4>1, <4>2
    <3> QED
      BY <3>1 DEF IsLong
  <2>7. LongBytes(data, offset) = d
    <3>0. PICK i, j : i = offset + 2 /\ j = offset + 2 + n
      OBVIOUS
    <3>1. /\ i \in 0..Len(data) /\ j \in i..Len(data) /\ i \in Nat /\ j \in Nat
          /\ i = offset + 2 /\ j = offset + 2 + n
      BY <1>1, <2>2, <2>5, <3>0
    <3>2. Len(d) = j - i
      BY <2>2, <3>1
    <3>3. ASSUME NEW k \in 1..(j - i) PROVE data[i + k] = d[k]
      <4>1. k \in 1..n /\ 1 + k \in 1..Len(lo)
        BY <2>2, <2>5, <3>1
      <4>2. data[offset + 1 + (1 + k)] = lo[1 + k]
        BY <1>1, <4>1
      <4>3. offset + 1 + (1 + k) = i + k
        BY <3>1
      <4> QED
        BY <2>5, <4>1, <4>2, <4>3
    <3>4. IsPart(d, Byte, data, i, j)
      BY <2>1, <3>2, <3>3 DEF IsPart
    <3>5. SubSeq(data, i + 1, j) = d
      <4>1. i \in 0..Len(data) /\ j \in i..Len(data)
        BY <3>1
      <4> QED
        BY <3>4, <4>1, PartIsThat
    <3>6. i + 1 = offset + 3 /\ j = offset + 2 + first - HighBit
      BY <2>3, <3>1, BaseIs
    <3> QED
      BY <2>6, <3>5, <3>6 DEF LongBytes
  <2>8. Minimal(LongBytes(data, offset))
    BY <1>4, <2>1, <2>7, BaseIs DEF Minimal
  <2>9. ContentStart(data, offset) = offset + 2 + n
    BY <2>6 DEF ContentStart
  <2>10. ContentEnd(data, offset) = ContentStart(data, offset) + size
    BY <2>1, <2>6, <2>7 DEF ContentEnd
  <2>11. offset + 1 + Len(lo) = offset + 2 + n
    BY <2>2, <2>5
  <2> QED
    BY <1>1, <2>6, <2>8, <2>9, <2>10, <2>11 DEF LengthRead
<1> QED
  BY <1>3, <1>4

(* An item that stands in the data is read as that item.                   *)
ReadAs(data, offset, limit, tag, size, content, e) ==
    /\ HeaderOk(data, offset, limit) /\ Tag(data, offset) = tag
    /\ ContentStart(data, offset) = e - size /\ ContentEnd(data, offset) = e
    /\ offset + 2 <= e - size /\ SubSeq(data, e - size + 1, e) = content

LEMMA ItemIsRead ==
    ASSUME NEW data \in Seq(Byte), NEW offset \in 0..Len(data), NEW e \in offset..Len(data),
           NEW limit \in e..Len(data), NEW tag \in Byte \ BadTags, NEW size \in Nat,
           NEW content \in Seq(Nat), Len(content) = size,
           SubSeq(data, offset + 1, e) = Item(tag, size, content)
    PROVE  ReadAs(data, offset, limit, tag, size, content, e)
<1>1. tag \in Nat /\ offset \in Nat /\ e \in Nat /\ limit \in Nat /\ e <= limit
  BY BaseIs DEF Byte
<1>2. PICK n \in Nat : n = Len(LengthOctets(size)) /\ n >= 1
  BY LengthIs
<1>3. PICK item : item = Item(tag, size, content)
  OBVIOUS
<1>4. item \in Seq(Nat) /\ Len(item) = 1 + n + size
  <2>1. item \in Seq(Nat) /\ Len(item) = 1 + Len(LengthOctets(size)) + Len(content)
    BY <1>1, <1>3, ItemIs
  <2> QED
    BY <1>2, <2>1
<1>5. e - offset = 1 + n + size /\ \A k \in 1..(e - offset) : data[offset + k] = item[k]
  <2>1. IsPart(SubSeq(data, offset + 1, e), Byte, data, offset, e)
    BY PartIs
  <2>2. IsPart(item, Byte, data, offset, e)
    BY <1>3, <2>1
  <2> QED
    BY <1>4, <2>2 DEF IsPart
<1>6. /\ item[1] = tag /\ \A k \in 1..n : item[1 + k] = LengthOctets(size)[k]
      /\ \A k \in 1..size : item[1 + n + k] = content[k]
  <2>1. IsMadeOf(item, tag, LengthOctets(size), content)
    BY <1>1, <1>3, ItemParts
  <2> QED
    BY <1>2, <2>1 DEF IsMadeOf
<1>7. Tag(data, offset) = tag
  <2>1. 1 \in 1..(e - offset)
    BY <1>2, <1>5
  <2> QED
    BY <1>5, <1>6, <2>1 DEF Tag
<1>8. LengthRead(data, offset, size)
  <2>1. ASSUME NEW k \in 1..n PROVE data[offset + 1 + k] = LengthOctets(size)[k]
    <3>1. 1 + k \in 1..(e - offset) /\ offset + (1 + k) = offset + 1 + k
      BY <1>1, <1>5
    <3> QED
      BY <1>5, <1>6, <3>1
  <2>2. offset + 1 + n <= Len(data)
    BY <1>1, <1>2, <1>5
  <2> QED
    BY <1>1, <1>2, <2>1, <2>2, LengthIsRead
<1>9. ContentStart(data, offset) = e - size /\ ContentEnd(data, offset) = e /\ offset + 2 <= e - size
  <2>1. ContentStart(data, offset) = offset + 1 + n /\ ContentEnd(data, offset) = ContentStart(data, offset) + size
    BY <1>2, <1>8 DEF LengthRead
  <2> QED
    BY <1>1, <1>2, <1>5, <2>1
<1>10. HeaderOk(data, offset, limit)
  <2>1. offset + 2 <= limit /\ ContentStart(data, offset) <= limit
    BY <1>1, <1>9
  <2> QED
    BY <1>7, <1>8, <2>1 DEF HeaderOk, LengthRead
<1>11. SubSeq(data, e - size + 1, e) = content
  <2>0. PICK i : i = e - size
    OBVIOUS
  <2>1. i \in 0..Len(data) /\ i \in Nat /\ i = e - size /\ e \in i..Len(data) /\ i = offset + 1 + n
    <3>1. i = e - size /\ i = offset + 1 + n /\ e - offset = 1 + n + size /\ e <= Len(data)
      BY <1>1, <1>2, <1>5, <2>0
    <3> QED
      BY <1>1, <1>2, <3>1
  <2>2. Len(content) = e - i
    BY <1>1, <2>1
  <2>3. ASSUME NEW k \in 1..(e - i) PROVE data[i + k] = content[k]
    <3>1. k \in 1..size /\ 1 + n + k \in 1..(e - offset) /\ offset + (1 + n + k) = i + k
      BY <1>1, <1>2, <1>5, <2>1
    <3> QED
      BY <1>5, <1>6, <3>1
  <2>4. IsPart(content, Nat, data, i, e)
    BY <2>2, <2>3 DEF IsPart
  <2>5. SubSeq(data, i + 1, e) = content
    BY <2>1, <2>4, PartIsThat
  <2> QED
    BY <2>1, <2>5
<1> QED
  BY <1>7, <1>9, <1>10, <1>11 DEF ReadAs

(* What the traversal says of the bytes from an offset up to a limit, in   *)
(* terms of Encodings.                                                     *)
Part(data, from, to) == SubSeq(data, from + 1, to)

EndsItem(data, offset, limit, e) ==
    offset < e /\ e <= limit /\ Part(data, offset, e) \in Encodings[e - offset].item

FindsItem(data, offset, limit) ==
    \A e \in Places(data) : DerEnds(data)[<<offset, limit>>].item = e <=> EndsItem(data, offset, limit, e)

FindsItems(data, offset, limit) ==
    DerEnds(data)[<<offset, limit>>].items = limit <=> Part(data, offset, limit) \in Encodings[limit - offset].items

Exact(data, offset, limit) == FindsItem(data, offset, limit) /\ FindsItems(data, offset, limit)

ExactBelow(data, n) ==
    \A a, b \in Places(data) : a <= b /\ b - a < n => Exact(data, a, b)

(* One turn of the traversal, item by item.                                *)
LEMMA TurnIs ==
    ASSUME NEW data \in Seq(Byte), NEW offset \in Places(data), NEW limit \in Places(data)
    PROVE  /\ DerEnds(data)[<<offset, limit>>].item = ItemEnd(data, DerEnds(data), offset, limit)
           /\ DerEnds(data)[<<offset, limit>>].items = ItemsEnd(data, DerEnds(data), offset, limit)
<1>1. DerEnds(data)[<<offset, limit>>] = BothEnds(data, DerEnds(data), offset, limit)
  BY DerEndsAre
<1> QED
  BY <1>1 DEF BothEnds

(* An item that the traversal accepts is one of Encodings, if all that is  *)
(* within it is.                                                           *)
LEMMA ItemFoundIsOne ==
    ASSUME NEW data \in Seq(Byte), NEW offset \in Places(data), NEW limit \in Places(data),
           offset <= limit, ExactBelow(data, limit - offset),
           NEW e \in Places(data), DerEnds(data)[<<offset, limit>>].item = e
    PROVE  EndsItem(data, offset, limit, e)
<1>1. ItemEnd(data, DerEnds(data), offset, limit) = e /\ e # Invalid
  <2>1. e # Invalid
    BY DEF Places, Invalid
  <2> QED
    BY <2>1, TurnIs
<1>2. HeaderOk(data, offset, limit) /\ ContentEnd(data, offset) = e /\ offset < e /\ e <= limit
  BY <1>1, ItemEndIs
<1>3. Tag(data, offset) \in Constructed =>
         DerEnds(data)[<<ContentStart(data, offset), ContentEnd(data, offset)>>].items = ContentEnd(data, offset)
  BY <1>1 DEF ItemEnd
<1>4. offset \in 0..Len(data) /\ limit \in 0..Len(data) /\ offset \in Nat /\ limit \in Nat /\ e \in Nat
  BY DEF Places
<1>5. PICK start : start = ContentStart(data, offset)
  OBVIOUS
<1>6. start \in Nat /\ offset + 2 <= start /\ start <= e /\ Tag(data, offset) \in Byte \ BadTags
  BY <1>2, <1>4, <1>5, HeaderIs
<1>7. start \in Places(data) /\ start \in 0..Len(data) /\ e \in start..Len(data)
  BY <1>2, <1>4, <1>6 DEF Places
<1>8. PICK size : size = e - start
  OBVIOUS
<1>9. PICK content : content = Part(data, start, e)
  OBVIOUS
<1>10. /\ size \in Nat /\ Part(data, offset, e) = Item(Tag(data, offset), size, content)
       /\ Len(LengthOctets(size)) = start - offset - 1
  BY <1>2, <1>4, <1>5, <1>8, <1>9, ItemInData DEF Part
<1>11. content \in Contents(Encodings, Tag(data, offset), size)
  <2>1. CASE Tag(data, offset) \in Constructed
    <3>1. DerEnds(data)[<<start, e>>].items = e
      BY <1>2, <1>3, <1>5, <2>1
    <3>2. e - start < limit - offset
      BY <1>2, <1>4, <1>6
    <3>3. FindsItems(data, start, e)
      BY <1>6, <1>7, <3>2 DEF ExactBelow, Exact
    <3>4. content \in Encodings[size].items
      BY <1>8, <1>9, <3>1, <3>3 DEF FindsItems
    <3> QED
      BY <2>1, <3>4 DEF Contents
  <2>2. CASE Tag(data, offset) \notin Constructed
    <3>1. content \in Seq(Byte) /\ Len(content) = size
      BY <1>7, <1>8, <1>9, PartIs DEF IsPart, Part
    <3>2. content \in [1..size -> Byte]
      BY <1>10, <3>1
    <3> QED
      BY <2>2, <3>2 DEF Contents, Byte
  <2> QED
    BY <2>1, <2>2
<1>12. PICK n : n = e - offset
  OBVIOUS
<1>13. n \in Nat /\ size \in 0..(n - 1) /\ 1 + Len(LengthOctets(size)) + size = n
  <2>1. n \in Nat /\ size = e - start /\ n = e - offset /\ size < n
    BY <1>2, <1>4, <1>6, <1>8, <1>12
  <2>2. 1 + (start - offset - 1) + size = n
    BY <1>4, <1>6, <2>1
  <2> QED
    BY <1>10, <2>1, <2>2
<1>14. IsItem(Encodings, n, Part(data, offset, e))
  BY <1>6, <1>10, <1>11, <1>13 DEF IsItem
<1>15. Part(data, offset, e) \in Encodings[n].item
  BY <1>13, <1>14, InEncodings
<1> QED
  BY <1>2, <1>12, <1>15 DEF EndsItem

(* Contents are as long as is said of them.                                *)
LEMMA ContentsSized ==
    ASSUME NEW tag, NEW size \in Nat, NEW content \in Contents(Encodings, tag, size)
    PROVE  content \in Seq(Nat) /\ Len(content) = size
<1>1. CASE tag \in Constructed
  BY <1>1, EncodingsSized DEF Contents, Sized
<1>2. CASE tag \notin Constructed
  <2>1. content \in [1..size -> Nat]
    BY <1>2, BaseIs DEF Contents
  <2> QED
    BY <2>1
<1> QED
  BY <1>1, <1>2

(* An item of Encodings is accepted, if all that is within it is.          *)
LEMMA ItemIsFound ==
    ASSUME NEW data \in Seq(Byte), NEW offset \in Places(data), NEW limit \in Places(data),
           offset <= limit, ExactBelow(data, limit - offset),
           NEW e \in Places(data), EndsItem(data, offset, limit, e)
    PROVE  DerEnds(data)[<<offset, limit>>].item = e
<1>1. offset < e /\ e <= limit /\ Part(data, offset, e) \in Encodings[e - offset].item
  BY DEF EndsItem
<1>2. offset \in Nat /\ limit \in Nat /\ e \in Nat /\ limit <= Len(data)
  BY DEF Places
<1>3. PICK n : n = e - offset
  OBVIOUS
<1>4. n \in Nat
  BY <1>1, <1>2, <1>3
<1>5. IsItem(Encodings, n, Part(data, offset, e))
  BY <1>1, <1>3, <1>4, InEncodings
<1>6. PICK tag \in Byte \ BadTags, size \in 0..(n - 1) :
         /\ 1 + Len(LengthOctets(size)) + size = n
         /\ \E content \in Contents(Encodings, tag, size) : Part(data, offset, e) = Item(tag, size, content)
  BY <1>5 DEF IsItem
<1>7. PICK content \in Contents(Encodings, tag, size) : Part(data, offset, e) = Item(tag, size, content)
  BY <1>6
<1>8. size \in Nat /\ content \in Seq(Nat) /\ Len(content) = size
  <2>1. size \in Nat
    BY <1>4
  <2> QED
    BY <2>1, ContentsSized
<1>9. offset \in 0..Len(data) /\ e \in offset..Len(data) /\ limit \in e..Len(data)
  BY <1>1, <1>2
<1>10. /\ HeaderOk(data, offset, limit) /\ Tag(data, offset) = tag
       /\ ContentStart(data, offset) = e - size /\ ContentEnd(data, offset) = e
       /\ offset + 2 <= e - size /\ SubSeq(data, e - size + 1, e) = content
  <2>1. SubSeq(data, offset + 1, e) = Item(tag, size, content)
    BY <1>7 DEF Part
  <2>2. ReadAs(data, offset, limit, tag, size, content, e)
    BY <1>8, <1>9, <2>1, ItemIsRead
  <2> QED
    BY <2>2 DEF ReadAs
<1>11. PICK start : start = e - size
  OBVIOUS
<1>12. /\ start \in Places(data) /\ start <= e /\ e - start = size /\ size < limit - offset
  <2>1. e - start = size /\ start <= e /\ offset + 2 <= start
    BY <1>2, <1>8, <1>10, <1>11
  <2>2. start \in Nat /\ start <= Len(data) /\ size < limit - offset
    BY <1>1, <1>2, <1>8, <1>11, <2>1
  <2> QED
    BY <2>1, <2>2 DEF Places
<1>13. ASSUME tag \in Constructed PROVE DerEnds(data)[<<start, e>>].items = e
  <2>1. content \in Encodings[size].items
    BY <1>13 DEF Contents
  <2>2. FindsItems(data, start, e)
    BY <1>12 DEF ExactBelow, Exact
  <2>3. Part(data, start, e) \in Encodings[e - start].items
    BY <1>10, <1>11, <1>12, <2>1 DEF Part
  <2> QED
    BY <2>2, <2>3 DEF FindsItems
<1>14. ItemEnd(data, DerEnds(data), offset, limit) = e
  BY <1>1, <1>10, <1>11, <1>13 DEF ItemEnd
<1> QED
  BY <1>14, TurnIs

(* No bytes are no items.                                                  *)
LEMMA NoItems ==
    ASSUME NEW data \in Seq(Byte), NEW offset \in Places(data)
    PROVE  FindsItems(data, offset, offset)
<1>1. DerEnds(data)[<<offset, offset>>].items = offset
  <2>1. offset >= offset
    BY DEF Places
  <2> QED
    BY <2>1, TurnIs DEF ItemsEnd
<1>2. Part(data, offset, offset) = <<>>
  <2>1. offset \in 0..Len(data) /\ offset \in offset..Len(data) /\ offset - offset = 0
    BY DEF Places
  <2>2. Part(data, offset, offset) \in Seq(Byte) /\ Len(Part(data, offset, offset)) = 0
    BY <2>1, PartIs DEF IsPart, Part
  <2> QED
    BY <2>2, EmptySeq
<1>3. <<>> \in Encodings[0].items
  BY InEncodings
<1>4. offset - offset = 0
  BY DEF Places
<1> QED
  BY <1>1, <1>2, <1>3, <1>4 DEF FindsItems

(* Items that the traversal accepts are items of Encodings.                *)
LEMMA ItemsFound ==
    ASSUME NEW data \in Seq(Byte), NEW offset \in Places(data), NEW limit \in Places(data),
           offset < limit, ExactBelow(data, limit - offset), FindsItem(data, offset, limit),
           DerEnds(data)[<<offset, limit>>].items = limit
    PROVE  Part(data, offset, limit) \in Encodings[limit - offset].items
<1>1. offset \in Nat /\ limit \in Nat /\ limit <= Len(data)
  BY DEF Places
<1>2. PICK e : e = ItemEnd(data, DerEnds(data), offset, limit)
  OBVIOUS
<1>3. e # Invalid /\ DerEnds(data)[<<e, limit>>].items = limit
  <2>1. ~(offset >= limit) /\ limit # Invalid
    BY <1>1 DEF Invalid
  <2>2. ItemsEnd(data, DerEnds(data), offset, limit) = limit
    BY TurnIs
  <2> QED
    BY <1>2, <2>1, <2>2 DEF ItemsEnd
<1>4. e \in Places(data)
  BY <1>2, <1>3, ItemEndIs
<1>5. EndsItem(data, offset, limit, e)
  BY <1>2, <1>4, TurnIs DEF FindsItem
<1>6. PICK n : n = limit - offset
  OBVIOUS
<1>7. PICK k : k = e - offset
  OBVIOUS
<1>8. /\ e \in Nat /\ n \in Nat /\ n # 0 /\ k \in 1..n /\ limit - e = n - k /\ offset < e /\ e <= limit
      /\ limit - e < limit - offset
  BY <1>1, <1>4, <1>5, <1>6, <1>7 DEF EndsItem, Places
<1>9. Part(data, offset, e) \in Encodings[k].item
  BY <1>5, <1>7 DEF EndsItem
<1>10. CASE e = limit
  <2>1. k = n
    BY <1>6, <1>7, <1>10
  <2>2. IsItem(Encodings, n, Part(data, offset, limit))
    BY <1>8, <1>9, <1>10, <2>1, InEncodings
  <2> QED
    BY <1>6, <1>8, <2>2, InEncodings
<1>11. CASE e # limit
  <2>1. k \in 1..(n - 1)
    BY <1>1, <1>6, <1>7, <1>8, <1>11
  <2>2. Part(data, e, limit) \in Encodings[n - k].items
    <3>1. FindsItems(data, e, limit)
      BY <1>4, <1>8 DEF ExactBelow, Exact
    <3> QED
      BY <1>3, <1>8, <3>1 DEF FindsItems
  <2>3. Part(data, offset, limit) = Part(data, offset, e) \o Part(data, e, limit)
    <3>1. PICK i : i = offset + 1
      OBVIOUS
    <3>2. i \in 1..(Len(data) + 1) /\ e \in (i - 1)..Len(data) /\ limit \in e..Len(data)
      BY <1>1, <1>8, <3>1
    <3>3. SubSeq(data, i, e) \o SubSeq(data, e + 1, limit) = SubSeq(data, i, limit)
      BY <3>2, ConcatAdjacentSubSeq
    <3> QED
      BY <3>1, <3>3 DEF Part
  <2>4. IsMore(Encodings, n, Part(data, offset, limit))
    BY <1>9, <2>1, <2>2, <2>3 DEF IsMore
  <2> QED
    BY <1>6, <1>8, <2>4, InEncodings
<1> QED
  BY <1>10, <1>11

(* Items of Encodings are accepted.                                        *)
LEMMA ItemsAreFound ==
    ASSUME NEW data \in Seq(Byte), NEW offset \in Places(data), NEW limit \in Places(data),
           offset < limit, ExactBelow(data, limit - offset), FindsItem(data, offset, limit),
           Part(data, offset, limit) \in Encodings[limit - offset].items
    PROVE  DerEnds(data)[<<offset, limit>>].items = limit
<1>1. offset \in Nat /\ limit \in Nat /\ limit <= Len(data)
  BY DEF Places
<1>2. PICK n : n = limit - offset
  OBVIOUS
<1>3. n \in Nat /\ n # 0
  BY <1>1, <1>2
<1>4. \E e \in Places(data) :
          EndsItem(data, offset, limit, e) /\ DerEnds(data)[<<e, limit>>].items = limit
  <2>1. CASE IsItem(Encodings, n, Part(data, offset, limit))
    <3>1. EndsItem(data, offset, limit, limit)
      <4>1. Part(data, offset, limit) \in Encodings[n].item
        BY <1>3, <2>1, InEncodings
      <4>2. limit <= limit
        BY <1>1
      <4> QED
        BY <1>2, <4>1, <4>2 DEF EndsItem
    <3>2. DerEnds(data)[<<limit, limit>>].items = limit
      <4>1. limit >= limit
        BY <1>1
      <4> QED
        BY <4>1, TurnIs DEF ItemsEnd
    <3> QED
      BY <3>1, <3>2
  <2>2. CASE IsMore(Encodings, n, Part(data, offset, limit))
    <3>1. PICK k \in 1..(n - 1) :
             \E a \in Encodings[k].item : \E b \in Encodings[n - k].items : Part(data, offset, limit) = a \o b
      BY <2>2 DEF IsMore
    <3>2. PICK a \in Encodings[k].item, b \in Encodings[n - k].items : Part(data, offset, limit) = a \o b
      BY <3>1
    <3>3. a \in Seq(Nat) /\ Len(a) = k /\ b \in Seq(Nat) /\ Len(b) = n - k
      <4>1. k \in Nat /\ n - k \in Nat
        BY <1>3
      <4>2. Sized(k) /\ Sized(n - k)
        BY <4>1, EncodingsSized
      <4> QED
        BY <4>2 DEF Sized
    <3>4. PICK e : e = offset + k
      OBVIOUS
    <3>5. /\ e \in Places(data) /\ e \in Nat /\ offset < e /\ e <= limit /\ e - offset = k /\ limit - e = n - k
          /\ limit - e < limit - offset
      BY <1>1, <1>2, <1>3, <3>4 DEF Places
    <3>6. Part(data, offset, e) = a /\ Part(data, e, limit) = b
      <4>1. offset \in 0..Len(data) /\ limit \in offset..Len(data)
        BY <1>1
      <4>2. SubSeq(data, offset + 1, limit) = a \o b
        BY <3>2 DEF Part
      <4>3. InTwoParts(data, offset, limit, a, b)
        BY <3>3, <4>1, <4>2, PartsAreThese
      <4> QED
        BY <3>3, <3>4, <4>3 DEF InTwoParts, Part
    <3>7. EndsItem(data, offset, limit, e)
      BY <3>5, <3>6 DEF EndsItem
    <3>8. DerEnds(data)[<<e, limit>>].items = limit
      <4>1. FindsItems(data, e, limit)
        BY <3>5 DEF ExactBelow, Exact
      <4> QED
        BY <3>5, <3>6, <4>1 DEF FindsItems
    <3> QED
      BY <3>5, <3>7, <3>8
  <2> QED
    BY <1>2, <1>3, <2>1, <2>2, InEncodings
<1>5. PICK e \in Places(data) :
         EndsItem(data, offset, limit, e) /\ DerEnds(data)[<<e, limit>>].items = limit
  BY <1>4
<1>6. ItemEnd(data, DerEnds(data), offset, limit) = e
  BY <1>5, TurnIs DEF FindsItem
<1>7. e # Invalid /\ ~(offset >= limit)
  BY <1>1 DEF Places, Invalid
<1>8. ItemsEnd(data, DerEnds(data), offset, limit) = limit
  BY <1>5, <1>6, <1>7 DEF ItemsEnd
<1> QED
  BY <1>8, TurnIs

(* Induction on the width: the traversal of every span is exact.           *)
LEMMA TraversalIsExact ==
    ASSUME NEW data \in Seq(Byte), NEW offset \in Places(data), NEW limit \in Places(data), offset <= limit
    PROVE  Exact(data, offset, limit)
<1> DEFINE At(n) == \A a, b \in Places(data) : a <= b /\ b - a = n => Exact(data, a, b)
           S     == {n \in Nat : At(n)}
<1>1. ASSUME NEW n \in Nat, \A k \in 0..(n - 1) : k \in S PROVE n \in S
  <2>1. ExactBelow(data, n)
    <3>1. ASSUME NEW a \in Places(data), NEW b \in Places(data), a <= b, b - a < n PROVE Exact(data, a, b)
      <4>1. b - a \in 0..(n - 1)
        BY <3>1 DEF Places
      <4>2. At(b - a)
        BY <1>1, <4>1
      <4> QED
        BY <3>1, <4>2
    <3> QED
      BY <3>1 DEF ExactBelow
  <2>2. ASSUME NEW a \in Places(data), NEW b \in Places(data), a <= b, b - a = n PROVE Exact(data, a, b)
    <3>1. FindsItem(data, a, b)
      BY <2>1, <2>2, ItemFoundIsOne, ItemIsFound DEF FindsItem
    <3>2. FindsItems(data, a, b)
      <4>1. CASE a = b
        BY <4>1, NoItems
      <4>2. CASE a # b
        <5>1. a < b
          BY <2>2, <4>2 DEF Places
        <5> QED
          BY <2>1, <2>2, <3>1, <5>1, ItemsFound, ItemsAreFound DEF FindsItems
      <4> QED
        BY <4>1, <4>2
    <3> QED
      BY <3>1, <3>2 DEF Exact
  <2> QED
    BY <2>2
<1> HIDE DEF S
<1>2. Nat \subseteq S
  BY <1>1, StrongInduction
<1>3. limit - offset \in S
  <2>1. limit - offset \in Nat
    BY DEF Places
  <2> QED
    BY <1>2, <2>1
<1> QED
  BY <1>3 DEF S

(* And so is that of all the data.                                         *)
LEMMA DerIs ==
    ASSUME NEW data \in Seq(Byte)
    PROVE  IsDer(data) <=> data \in Encodings[Len(data)].item
<1>1. PICK n \in Nat : n = Len(data)
  OBVIOUS
<1>2. 0 \in Places(data) /\ n \in Places(data) /\ 0 <= n /\ n - 0 = n
  BY <1>1 DEF Places
<1>3. FindsItem(data, 0, n)
  BY <1>2, TraversalIsExact DEF Exact
<1>4. DerEnds(data)[<<0, n>>].item = n <=> 0 < n /\ n <= n /\ Part(data, 0, n) \in Encodings[n - 0].item
  BY <1>2, <1>3 DEF FindsItem, EndsItem
<1>5. Part(data, 0, n) = data
  <2>1. 0 + 1 = 1
    OBVIOUS
  <2> QED
    BY <1>1, <2>1, SubSeqFull DEF Part
<1>6. (data # <<>> <=> 0 < n) /\ n <= n
  BY <1>1, EmptySeq
<1>7. n = 0 => data \notin Encodings[n].item
  <2>1. n = 0 => ~IsItem(Encodings, n, data)
    BY DEF IsItem
  <2> QED
    BY <2>1, InEncodings
<1> QED
  BY <1>1, <1>2, <1>4, <1>5, <1>6, <1>7 DEF IsDer

(* The traversal accepts, of data of any length in any base, exactly the   *)
(* one item that fills them, with single-byte tags, shortest lengths and   *)
(* constructed contents that are whole items (trust.py:49-86).             *)
THEOREM DerAccepted ==
    ASSUME input.algorithm = "der" => input.value \in Seq(Byte) /\ Len(input.value) <= MaxData
    PROVE  DerIsExact
<1> SUFFICES ASSUME input.algorithm = "der"
             PROVE  IsDer(input.value) <=> input.value \in WellFormed[Len(input.value)]
  BY DEF DerIsExact
<1>1. input.value \in Seq(Byte) /\ Len(input.value) \in 0..MaxData
  BY AlgorithmsAssumption
<1>2. WellFormed[Len(input.value)] = Encodings[Len(input.value)].item
  BY <1>1 DEF WellFormed
<1> QED
  BY <1>1, <1>2, DerIs
-----------------------------------------------------------------------------
(* What to_jsonable makes of a value, and what can be found in it, is said *)
(* by recursion over the value, which is a finite tree of any depth. These *)
(* functions exist too, and by induction on the depth JSON has every atom. *)

IsAtom(v) == v.kind = "atom"
IsList(v) == v.kind = "list" /\ v.items \in Seq(Value)
IsMap(v)  == v.kind = "map" /\ v.entries \in Seq([key : Keys, value : Value])

(* The parts of a map, and of a list.                                      *)
LEMMA PartsAre ==
    ASSUME NEW v
    PROVE  /\ IsList(v) => Parts(v) = {v.items[i] : i \in DOMAIN v.items}
           /\ IsMap(v) => Parts(v) = {v.entries[i].value : i \in DOMAIN v.entries}
<1>1. IsList(v) => Parts(v) = {v.items[i] : i \in DOMAIN v.items}
  BY DEF IsList, Parts, ToSet
<1>2. IsMap(v) => Parts(v) = {e.value : e \in ToSet(v.entries)}
  BY DEF IsMap, Parts
<1>3. {e.value : e \in ToSet(v.entries)} = {v.entries[i].value : i \in DOMAIN v.entries}
  BY DEF ToSet
<1> QED
  BY <1>1, <1>2, <1>3

(* The values are finite trees.                                            *)
LEMMA ValuesAre ==
    /\ Depth \in [Value -> Nat]
    /\ \A v \in Value : IsAtom(v) \/ IsList(v) \/ IsMap(v)
    /\ \A v \in Value : \A p \in Parts(v) : p \in Value /\ Depth[p] < Depth[v]
<1>1. /\ Depth \in [Value -> Nat]
      /\ \A v \in Value : IsAtom(v) \/ IsList(v) \/ IsMap(v)
      /\ \A v \in Value : \A p \in Parts(v) : Depth[p] < Depth[v]
  BY JsonRenderAssumption DEF IsAtom, IsList, IsMap
<1>2. ASSUME NEW v \in Value, NEW p \in Parts(v) PROVE p \in Value
  <2>1. CASE IsAtom(v)
    BY <1>2, <2>1 DEF IsAtom, Parts
  <2>2. CASE IsList(v)
    <3>1. PICK i \in DOMAIN v.items : p = v.items[i]
      BY <1>2, <2>2, PartsAre
    <3> QED
      BY <2>2, <3>1 DEF IsList
  <2>3. CASE IsMap(v)
    <3>1. PICK i \in DOMAIN v.entries : p = v.entries[i].value
      BY <1>2, <2>3, PartsAre
    <3>2. PICK entries \in Seq([key : Keys, value : Value]) : entries = v.entries
      BY <2>3 DEF IsMap
    <3>3. i \in 1..Len(entries)
      BY <3>1, <3>2
    <3>4. entries[i] \in [key : Keys, value : Value]
      BY <3>2, <3>3, ElementOfSeq
    <3>5. entries[i].value \in Value
      BY <3>4
    <3> QED
      BY <3>1, <3>2, <3>5
  <2> QED
    BY <1>1, <2>1, <2>2, <2>3
<1> QED
  BY <1>1, <1>2

(* The last entry of a name is one of that name, and the only one when no  *)
(* names collide.                                                          *)
LEMMA LastOfIs ==
    ASSUME NEW v \in Value, IsMap(v), NEW name \in Named(v.entries)
    PROVE  /\ LastOf(v.entries, name) \in DOMAIN v.entries
           /\ ~NamesCollide(v.entries) =>
                 \A i \in DOMAIN v.entries : JsonKey(v.entries[i]) = name => LastOf(v.entries, name) = i
<1> PICK entries : entries = v.entries
  OBVIOUS
<1>1. entries \in Seq([key : Keys, value : Value]) /\ DOMAIN entries = 1..Len(entries) /\ Len(entries) \in Nat
  BY DEF IsMap
<1> DEFINE I == {i \in 1..Len(entries) : JsonKey(entries[i]) = name}
<1>2. I \in SUBSET (1..Len(entries)) /\ I # {}
  <2>1. PICK e \in ToSet(entries) : JsonKey(e) = name
    BY DEF Named
  <2>2. PICK i \in DOMAIN entries : e = entries[i]
    BY DEF ToSet
  <2> QED
    BY <1>1, <2>1, <2>2
<1>3. LastOf(entries, name) = IF I # {} THEN Max(I) ELSE 0
  BY DEF LastOf, SelectLastInSeq
<1>4. \A i \in I : JsonKey(entries[i]) = name
  OBVIOUS
<1>5. \A i \in DOMAIN entries : JsonKey(entries[i]) = name => i \in I
  BY <1>1
<1> HIDE DEF I
<1>6. LastOf(entries, name) \in I
  BY <1>1, <1>2, <1>3, GreatestOfFirst
<1>7. ASSUME ~NamesCollide(entries), NEW i \in DOMAIN entries, JsonKey(entries[i]) = name
      PROVE  LastOf(entries, name) = i
  <2>1. PICK k \in 1..Len(entries) : k = LastOf(entries, name) /\ JsonKey(entries[k]) = name
    BY <1>2, <1>4, <1>6
  <2>2. ~(i < k) /\ ~(k < i)
    BY <1>1, <1>7, <2>1 DEF NamesCollide
  <2> QED
    BY <1>1, <2>1, <2>2
<1> QED
  BY <1>1, <1>2, <1>6, <1>7

(* It takes nothing but the parts.                                         *)
LEMMA ShownLocal ==
    ASSUME NEW f, NEW g, NEW v \in Value, \A p \in Parts(v) : f[p] = g[p]
    PROVE  Shown(f, v) = Shown(g, v)
<1>1. CASE IsAtom(v)
  BY <1>1 DEF IsAtom, Shown
<1>2. CASE IsList(v)
  <2>1. \A i \in DOMAIN v.items : f[v.items[i]] = g[v.items[i]]
    BY <1>2, PartsAre
  <2>2. [i \in DOMAIN v.items |-> f[v.items[i]]] = [i \in DOMAIN v.items |-> g[v.items[i]]]
    BY <2>1
  <2> QED
    BY <1>2, <2>2 DEF IsList, Shown
<1>3. CASE IsMap(v)
  <2>1. \A i \in DOMAIN v.entries : f[v.entries[i].value] = g[v.entries[i].value]
    BY <1>3, PartsAre
  <2>2. CASE NamesCollide(v.entries)
    <3>1. [i \in DOMAIN v.entries |-> [key |-> KeyAsValue(v.entries[i].key), value |-> f[v.entries[i].value]]]
           = [i \in DOMAIN v.entries |-> [key |-> KeyAsValue(v.entries[i].key), value |-> g[v.entries[i].value]]]
      BY <2>1
    <3> QED
      BY <1>3, <2>2, <3>1 DEF IsMap, Shown
  <2>3. CASE ~NamesCollide(v.entries)
    <3>1. \A name \in Named(v.entries) :
             f[v.entries[LastOf(v.entries, name)].value] = g[v.entries[LastOf(v.entries, name)].value]
      BY <1>3, <2>1, LastOfIs
    <3>2. [name \in Named(v.entries) |-> f[v.entries[LastOf(v.entries, name)].value]]
           = [name \in Named(v.entries) |-> g[v.entries[LastOf(v.entries, name)].value]]
      BY <3>1
    <3> QED
      BY <1>3, <2>3, <3>2 DEF IsMap, Shown
  <2> QED
    BY <2>2, <2>3
<1> QED
  BY <1>1, <1>2, <1>3, ValuesAre

(* A function that shows the values less than n deep as ToJsonable would.  *)
ShowsBelow(g, n) ==
    /\ g = [v \in Value |-> g[v]]
    /\ \A v \in Value : Depth[v] < n => g[v] = Shown(g, v)

LEMMA ShownAgree ==
    ASSUME NEW g, NEW h, NEW n \in Nat, ShowsBelow(g, n), ShowsBelow(h, n)
    PROVE  \A v \in Value : Depth[v] < n => g[v] = h[v]
<1> DEFINE S == {d \in Nat : \A v \in Value : Depth[v] = d /\ d < n => g[v] = h[v]}
<1>1. ASSUME NEW d \in Nat, \A k \in 0..(d - 1) : k \in S PROVE d \in S
  <2>1. ASSUME NEW v \in Value, Depth[v] = d, d < n PROVE g[v] = h[v]
    <3>1. ASSUME NEW p \in Parts(v) PROVE g[p] = h[p]
      <4>1. p \in Value /\ Depth[p] \in Nat /\ Depth[p] < d
        BY <2>1, ValuesAre
      <4>2. Depth[p] \in 0..(d - 1) /\ Depth[p] < n
        BY <2>1, <4>1
      <4> QED
        BY <1>1, <4>1, <4>2
    <3>2. Shown(g, v) = Shown(h, v)
      BY <3>1, ShownLocal
    <3> QED
      BY <2>1, <3>2 DEF ShowsBelow
  <2> QED
    BY <2>1
<1> HIDE DEF S
<1>2. Nat \subseteq S
  BY <1>1, StrongInduction
<1>3. ASSUME NEW v \in Value, Depth[v] < n PROVE g[v] = h[v]
  <2>1. Depth[v] \in S
    BY <1>2, ValuesAre
  <2> QED
    BY <1>3, <2>1 DEF S
<1> QED
  BY <1>3

(* ToJsonable is what its recursion says.                                  *)
LEMMA ToJsonableIs == \A v \in Value : ToJsonable[v] = Shown(ToJsonable, v)
<1> DEFINE Of(g)    == [v \in Value |-> Shown(g, v)]
           below(n) == CHOOSE g : ShowsBelow(g, n)
           f        == [v \in Value |-> below(Depth[v] + 1)[v]]
<1>1. ToJsonable = CHOOSE g : g = Of(g)
  BY DEF ToJsonable
<1>2. ASSUME NEW g, NEW v \in Value PROVE Of(g)[v] = Shown(g, v)
  OBVIOUS
<1>3. ASSUME NEW g PROVE Of(g) = [v \in Value |-> Of(g)[v]]
  OBVIOUS
<1>4. ASSUME NEW n \in Nat PROVE \E g : ShowsBelow(g, n)
  <2> DEFINE S == {k \in Nat : \E g : ShowsBelow(g, k)}
  <2>1. 0 \in S
    <3>1. PICK g : g = Of(Depth)
      OBVIOUS
    <3>2. g = [v \in Value |-> g[v]]
      BY <1>3, <3>1
    <3>3. \A v \in Value : ~(Depth[v] < 0)
      BY ValuesAre
    <3> QED
      BY <3>2, <3>3 DEF ShowsBelow
  <2>2. ASSUME NEW k \in 0..(n - 1), k \in S PROVE k + 1 \in S
    <3>1. PICK g : ShowsBelow(g, k)
      BY <2>2
    <3>2. PICK h : h = Of(g)
      OBVIOUS
    <3>3. ASSUME NEW v \in Value, Depth[v] < k + 1 PROVE h[v] = Shown(h, v)
      <4>1. ASSUME NEW p \in Parts(v) PROVE h[p] = g[p]
        <5>1. p \in Value /\ Depth[p] \in Nat /\ Depth[v] \in Nat /\ Depth[p] < Depth[v]
          BY ValuesAre
        <5>2. Depth[p] < k
          BY <3>3, <5>1
        <5> QED
          BY <1>2, <3>1, <3>2, <5>1, <5>2 DEF ShowsBelow
      <4>2. Shown(h, v) = Shown(g, v)
        BY <4>1, ShownLocal
      <4> QED
        BY <1>2, <3>2, <4>2
    <3>4. h = [v \in Value |-> h[v]]
      BY <1>3, <3>2
    <3>5. ShowsBelow(h, k + 1)
      BY <3>3, <3>4 DEF ShowsBelow
    <3> QED
      BY <3>5
  <2> HIDE DEF S
  <2>3. n \in 0..n /\ 0..n \subseteq S
    BY <2>1, <2>2, Induction
  <2> QED
    BY <2>3 DEF S
<1>5. ASSUME NEW n \in Nat PROVE ShowsBelow(below(n), n)
  BY <1>4
<1> HIDE DEF below
<1>6. ASSUME NEW v \in Value PROVE f[v] = below(Depth[v] + 1)[v]
  OBVIOUS
<1>7. f = [v \in Value |-> f[v]]
  OBVIOUS
<1> HIDE DEF f
<1>8. ASSUME NEW v \in Value PROVE f[v] = Shown(f, v)
  <2>1. PICK n \in Nat : n = Depth[v] + 1
    BY ValuesAre
  <2>2. Depth[v] \in Nat /\ Depth[v] < n
    BY <2>1, ValuesAre
  <2>3. ASSUME NEW p \in Parts(v) PROVE f[p] = below(n)[p]
    <3>1. p \in Value /\ Depth[p] \in Nat /\ Depth[p] < Depth[v]
      BY ValuesAre
    <3>2. PICK k \in Nat : k = Depth[p] + 1
      BY <3>1
    <3>3. Depth[p] < k /\ k <= n
      BY <2>1, <2>2, <3>1, <3>2
    <3>4. ShowsBelow(below(n), k)
      <4>1. \A u \in Value : Depth[u] < k => Depth[u] < n
        BY <3>3, ValuesAre
      <4> QED
        BY <1>5, <4>1 DEF ShowsBelow
    <3>5. below(k)[p] = below(n)[p]
      BY <1>5, <3>1, <3>3, <3>4, ShownAgree
    <3> QED
      BY <1>6, <3>1, <3>2, <3>5
  <2>4. Shown(f, v) = Shown(below(n), v)
    BY <2>3, ShownLocal
  <2>5. below(n)[v] = Shown(below(n), v)
    BY <1>5, <2>2 DEF ShowsBelow
  <2> QED
    BY <1>6, <2>1, <2>4, <2>5
<1>9. f = Of(f)
  BY <1>7, <1>8
<1> HIDE DEF Of
<1>10. ToJsonable = Of(ToJsonable)
  BY <1>1, <1>9
<1> QED
  BY <1>2, <1>10

(* What is shown of a value is an atom just when the value is, and has for *)
(* parts what is shown of the value's parts: this is where colliding names *)
(* would matter.                                                           *)
LEMMA ShownParts ==
    ASSUME NEW v \in Value
    PROVE  /\ IsAtom(v) => ToJsonable[v] = v
           /\ ~IsAtom(v) => /\ ~IsAtom(ToJsonable[v])
                            /\ JsonParts(ToJsonable[v]) = {ToJsonable[p] : p \in Parts(v)}
<1> PICK f : f = ToJsonable
  OBVIOUS
<1> PICK json : json = Shown(f, v)
  OBVIOUS
<1>0. ToJsonable[v] = json
  BY ToJsonableIs
<1>1. CASE IsAtom(v)
  <2>1. json = v
    BY <1>1 DEF IsAtom, Shown
  <2> QED
    BY <1>0, <1>1, <2>1
<1>2. CASE IsList(v)
  <2>1. json = [kind |-> "list", items |-> [i \in DOMAIN v.items |-> f[v.items[i]]]]
    BY <1>2 DEF IsList, Shown
  <2>2. JsonParts(json) = ToSet(json.items) /\ ~IsAtom(json) /\ ~IsAtom(v)
    BY <1>2, <2>1 DEF JsonParts, IsAtom, IsList
  <2>3. ToSet(json.items) = {f[v.items[i]] : i \in DOMAIN v.items}
    BY <2>1 DEF ToSet
  <2>4. {f[v.items[i]] : i \in DOMAIN v.items} = {f[p] : p \in Parts(v)}
    BY <1>2, PartsAre
  <2> QED
    BY <1>0, <2>2, <2>3, <2>4
<1>3. CASE IsMap(v)
  <2>0. {f[v.entries[i].value] : i \in DOMAIN v.entries} = {f[p] : p \in Parts(v)}
    BY <1>3, PartsAre
  <2>1. CASE NamesCollide(v.entries)
    <3>1. json = [kind |-> "entries",
                  entries |-> [i \in DOMAIN v.entries |->
                                  [key |-> KeyAsValue(v.entries[i].key), value |-> f[v.entries[i].value]]]]
      BY <1>3, <2>1 DEF IsMap, Shown
    <3>2. JsonParts(json) = {e.value : e \in ToSet(json.entries)} /\ ~IsAtom(json) /\ ~IsAtom(v)
      BY <1>3, <3>1 DEF JsonParts, IsAtom, IsMap
    <3>3. {e.value : e \in ToSet(json.entries)} = {f[v.entries[i].value] : i \in DOMAIN v.entries}
      <4>1. DOMAIN json.entries = DOMAIN v.entries
        BY <3>1
      <4>2. \A i \in DOMAIN v.entries : json.entries[i].value = f[v.entries[i].value]
        BY <3>1
      <4>3. {e.value : e \in ToSet(json.entries)} = {json.entries[i].value : i \in DOMAIN json.entries}
        BY DEF ToSet
      <4> QED
        BY <4>1, <4>2, <4>3
    <3> QED
      BY <1>0, <2>0, <3>2, <3>3
  <2>2. CASE ~NamesCollide(v.entries)
    <3> DEFINE names == Named(v.entries)
               shown(name) == f[v.entries[LastOf(v.entries, name)].value]
    <3>1. json = [kind |-> "object", members |-> [name \in names |-> shown(name)]]
      BY <1>3, <2>2 DEF IsMap, Shown
    <3>2. ~IsAtom(json) /\ ~IsAtom(v) /\ JsonParts(json) = {json.members[name] : name \in DOMAIN json.members}
      BY <1>3, <3>1 DEF JsonParts, IsAtom, IsMap
    <3>3. {json.members[name] : name \in DOMAIN json.members} = {shown(name) : name \in names}
      BY <3>1
    <3>4. ASSUME NEW name \in names PROVE \E i \in DOMAIN v.entries : shown(name) = f[v.entries[i].value]
      BY <1>3, LastOfIs
    <3>5. ASSUME NEW i \in DOMAIN v.entries PROVE \E name \in names : shown(name) = f[v.entries[i].value]
      <4>1. PICK name : name = JsonKey(v.entries[i])
        OBVIOUS
      <4>2. name \in names
        BY <4>1 DEF Named, ToSet
      <4>3. LastOf(v.entries, name) = i
        BY <1>3, <2>2, <4>1, <4>2, LastOfIs
      <4> QED
        BY <4>2, <4>3
    <3> HIDE DEF names, shown
    <3>6. {shown(name) : name \in names} = {f[v.entries[i].value] : i \in DOMAIN v.entries}
      BY <3>4, <3>5
    <3> QED
      BY <1>0, <2>0, <3>2, <3>3, <3>6
  <2> QED
    BY <2>1, <2>2
<1> QED
  BY <1>1, <1>2, <1>3, ValuesAre

(* The atoms of a tree are gathered from its parts, and can be: parts are  *)
(* less deep.                                                              *)
Gathered(f, D, parts) ==
    \A x \in D : f[x] = IF IsAtom(x) THEN {x.atom} ELSE UNION {f[p] : p \in parts[x]}

Gathers(D, parts) == \E f : f = [x \in D |-> f[x]] /\ Gathered(f, D, parts)

LEMMA GatheredExists ==
    ASSUME NEW D, NEW measure \in [D -> Nat], NEW parts,
           \A x \in D : ~IsAtom(x) => \A p \in parts[x] : p \in D /\ measure[p] < measure[x]
    PROVE  Gathers(D, parts)
<1> DEFINE V       == SUBSET {x.atom : x \in D}
           turn(f, x) == IF IsAtom(x) THEN {x.atom} ELSE UNION {f[p] : p \in parts[x]}
           Of(f)   == [x \in D |-> turn(f, x)]
           G       == [f \in [D -> V] |-> Of(f)]
<1>1. ASSUME NEW f \in [D -> V], NEW x \in D PROVE turn(f, x) \in V
  <2>1. CASE IsAtom(x)
    BY <2>1
  <2>2. CASE ~IsAtom(x)
    <3>1. \A p \in parts[x] : f[p] \in V
      BY <2>2
    <3>2. UNION {f[p] : p \in parts[x]} \in V
      BY <3>1
    <3> QED
      BY <2>2, <3>2
  <2> QED
    BY <2>1, <2>2
<1>2. ASSUME NEW f, NEW g, NEW x \in D, \A p \in D : measure[p] < measure[x] => f[p] = g[p]
      PROVE  turn(f, x) = turn(g, x)
  <2>1. CASE IsAtom(x)
    BY <2>1
  <2>2. CASE ~IsAtom(x)
    <3>1. \A p \in parts[x] : f[p] = g[p]
      BY <1>2, <2>2
    <3>2. {f[p] : p \in parts[x]} = {g[p] : p \in parts[x]}
      BY <3>1
    <3> QED
      BY <2>2, <3>2
  <2> QED
    BY <2>1, <2>2
<1>3. V # {}
  OBVIOUS
<1> HIDE DEF V, turn
<1>4. ASSUME NEW f \in [D -> V] PROVE Of(f) \in [D -> V]
  BY <1>1
<1>5. ASSUME NEW f PROVE \A x \in D : Of(f)[x] = turn(f, x)
  OBVIOUS
<1>6. ASSUME NEW f PROVE Of(f) = [x \in D |-> Of(f)[x]]
  OBVIOUS
<1> HIDE DEF Of
<1>7. G \in [[D -> V] -> [D -> V]] /\ \A f \in [D -> V] : G[f] = Of(f)
  BY <1>4
<1> HIDE DEF G
<1>8. Contracts(G, D, V, measure)
  BY <1>2, <1>7, <1>5 DEF Contracts
<1>9. HasFixpoint(G, D, V)
  BY <1>3, <1>7, <1>8, FixpointExists DEF Recursive
<1>10. PICK f \in [D -> V] : G[f] = f
  BY <1>9 DEF HasFixpoint
<1>11. f = [x \in D |-> f[x]]
  BY <1>7, <1>10, <1>6
<1>12. \A x \in D : f[x] = turn(f, x)
  BY <1>7, <1>10, <1>5
<1> QED
  BY <1>11, <1>12 DEF turn, Gathered, Gathers

LEMMA AtomsAre ==
    \A v \in Value : Atoms[v] = IF IsAtom(v) THEN {v.atom} ELSE UNION {Atoms[p] : p \in Parts(v)}
<1> DEFINE Of(f) == [v \in Value |-> IF v.kind = "atom" THEN {v.atom} ELSE UNION {f[p] : p \in Parts(v)}]
           parts == [v \in Value |-> Parts(v)]
<1>1. Atoms = CHOOSE f : f = Of(f)
  BY DEF Atoms
<1>2. ASSUME NEW f, NEW v \in Value
      PROVE  Of(f)[v] = IF IsAtom(v) THEN {v.atom} ELSE UNION {f[p] : p \in Parts(v)}
  BY DEF IsAtom
<1>3. ASSUME NEW f PROVE Of(f) = [v \in Value |-> Of(f)[v]]
  OBVIOUS
<1> HIDE DEF Of
<1>4. \A v \in Value : parts[v] = Parts(v)
  OBVIOUS
<1> HIDE DEF parts
<1>5. Gathers(Value, parts)
  BY <1>4, ValuesAre, GatheredExists
<1>6. PICK f : f = [v \in Value |-> f[v]] /\ Gathered(f, Value, parts)
  BY <1>5 DEF Gathers
<1>7. ASSUME NEW v \in Value PROVE f[v] = Of(f)[v]
  <2>1. f[v] = IF IsAtom(v) THEN {v.atom} ELSE UNION {f[p] : p \in parts[v]}
    BY <1>6 DEF Gathered
  <2>2. parts[v] = Parts(v)
    BY <1>4
  <2> QED
    BY <1>2, <2>1, <2>2
<1>8. f = Of(f)
  BY <1>3, <1>6, <1>7
<1>9. Atoms = Of(Atoms)
  BY <1>1, <1>8
<1> QED
  BY <1>2, <1>9

(* JSON is no deeper than any value that it shows.                         *)
DepthsOf(json) == {Depth[v] : v \in {u \in Value : ToJsonable[u] = json}}

Shallow(json) == CHOOSE d \in DepthsOf(json) : \A n \in DepthsOf(json) : d <= n

LEMMA ShallowIs ==
    ASSUME NEW json \in Json
    PROVE  /\ Shallow(json) \in Nat
           /\ \E v \in Value : ToJsonable[v] = json /\ Depth[v] = Shallow(json)
           /\ \A v \in Value : ToJsonable[v] = json => Shallow(json) <= Depth[v]
<1>1. PICK v \in Value : ToJsonable[v] = json
  BY DEF Json
<1>2. DepthsOf(json) \subseteq Nat /\ DepthsOf(json) # {}
  BY <1>1, ValuesAre DEF DepthsOf
<1>3. \E d \in DepthsOf(json) : \A n \in DepthsOf(json) : d <= n
  BY <1>2, LeastNumber
<1>4. Shallow(json) \in DepthsOf(json) /\ \A n \in DepthsOf(json) : Shallow(json) <= n
  BY <1>3 DEF Shallow
<1> QED
  BY <1>2, <1>4 DEF DepthsOf

LEMMA JsonPartsAre ==
    ASSUME NEW json \in Json, ~IsAtom(json)
    PROVE  \A p \in JsonParts(json) : p \in Json /\ Shallow(p) < Shallow(json)
<1>1. PICK v \in Value : ToJsonable[v] = json /\ Depth[v] = Shallow(json)
  BY ShallowIs
<1>2. JsonParts(json) = {ToJsonable[u] : u \in Parts(v)}
  BY <1>1, ShownParts
<1>3. ASSUME NEW u \in Parts(v) PROVE ToJsonable[u] \in Json /\ Shallow(ToJsonable[u]) < Shallow(json)
  <2>1. u \in Value /\ Depth[u] \in Nat /\ Depth[v] \in Nat /\ Depth[u] < Depth[v]
    BY ValuesAre
  <2>2. PICK part \in Json : part = ToJsonable[u]
    BY <2>1 DEF Json
  <2>3. Shallow(part) \in Nat /\ Shallow(part) <= Depth[u]
    BY <2>1, <2>2, ShallowIs
  <2> QED
    BY <1>1, <2>1, <2>2, <2>3
<1> QED
  BY <1>2, <1>3

LEMMA JsonAtomsAre ==
    \A j \in Json : JsonAtoms[j] = IF IsAtom(j) THEN {j.atom} ELSE UNION {JsonAtoms[p] : p \in JsonParts(j)}
<1> DEFINE Of(f)   == [j \in Json |-> IF j.kind = "atom" THEN {j.atom} ELSE UNION {f[p] : p \in JsonParts(j)}]
           parts   == [j \in Json |-> JsonParts(j)]
           measure == [j \in Json |-> Shallow(j)]
<1>1. JsonAtoms = CHOOSE f : f = Of(f)
  BY DEF JsonAtoms
<1>2. ASSUME NEW f, NEW j \in Json
      PROVE  Of(f)[j] = IF IsAtom(j) THEN {j.atom} ELSE UNION {f[p] : p \in JsonParts(j)}
  BY DEF IsAtom
<1>3. ASSUME NEW f PROVE Of(f) = [j \in Json |-> Of(f)[j]]
  OBVIOUS
<1> HIDE DEF Of
<1>4. (\A j \in Json : parts[j] = JsonParts(j)) /\ (\A j \in Json : measure[j] = Shallow(j))
  OBVIOUS
<1>5. measure \in [Json -> Nat]
  BY ShallowIs
<1> HIDE DEF parts, measure
<1>6. Gathers(Json, parts)
  BY <1>4, <1>5, JsonPartsAre, GatheredExists
<1>7. PICK f : f = [j \in Json |-> f[j]] /\ Gathered(f, Json, parts)
  BY <1>6 DEF Gathers
<1>8. ASSUME NEW j \in Json PROVE f[j] = Of(f)[j]
  <2>1. f[j] = IF IsAtom(j) THEN {j.atom} ELSE UNION {f[p] : p \in parts[j]}
    BY <1>7 DEF Gathered
  <2>2. parts[j] = JsonParts(j)
    BY <1>4
  <2> QED
    BY <1>2, <2>1, <2>2
<1>9. f = Of(f)
  BY <1>3, <1>7, <1>8
<1>10. JsonAtoms = Of(JsonAtoms)
  BY <1>1, <1>9
<1> QED
  BY <1>2, <1>10

(* By induction on the depth: what JSON shows of a value has its atoms.    *)
LEMMA AtomsShown == \A v \in Value : JsonAtoms[ToJsonable[v]] = Atoms[v]
<1> DEFINE S == {d \in Nat : \A v \in Value : Depth[v] = d => JsonAtoms[ToJsonable[v]] = Atoms[v]}
<1>1. ASSUME NEW d \in Nat, \A k \in 0..(d - 1) : k \in S PROVE d \in S
  <2>1. ASSUME NEW v \in Value, Depth[v] = d PROVE JsonAtoms[ToJsonable[v]] = Atoms[v]
    <3>0. PICK json \in Json : json = ToJsonable[v]
      BY DEF Json
    <3>1. CASE IsAtom(v)
      <4>1. json = v
        BY <3>0, <3>1, ShownParts
      <4>2. JsonAtoms[json] = {json.atom} /\ Atoms[v] = {v.atom}
        BY <3>1, <4>1, AtomsAre, JsonAtomsAre
      <4> QED
        BY <3>0, <4>1, <4>2
    <3>2. CASE ~IsAtom(v)
      <4>1. ~IsAtom(json) /\ JsonParts(json) = {ToJsonable[p] : p \in Parts(v)}
        BY <3>0, <3>2, ShownParts
      <4>2. ASSUME NEW p \in Parts(v) PROVE JsonAtoms[ToJsonable[p]] = Atoms[p]
        <5>1. p \in Value /\ Depth[p] \in Nat /\ Depth[p] < d
          BY <2>1, ValuesAre
        <5>2. Depth[p] \in 0..(d - 1)
          BY <5>1
        <5> QED
          BY <1>1, <5>1, <5>2
      <4>3. UNION {JsonAtoms[q] : q \in JsonParts(json)} = UNION {Atoms[p] : p \in Parts(v)}
        <5>1. {JsonAtoms[q] : q \in JsonParts(json)} = {Atoms[p] : p \in Parts(v)}
          BY <4>1, <4>2
        <5> QED
          BY <5>1
      <4>4. JsonAtoms[json] = UNION {JsonAtoms[q] : q \in JsonParts(json)}
        BY <4>1, JsonAtomsAre
      <4>5. Atoms[v] = UNION {Atoms[p] : p \in Parts(v)}
        BY <3>2, AtomsAre
      <4> QED
        BY <3>0, <4>3, <4>4, <4>5
    <3> QED
      BY <3>1, <3>2
  <2> QED
    BY <2>1
<1> HIDE DEF S
<1>2. Nat \subseteq S
  BY <1>1, StrongInduction
<1>3. ASSUME NEW v \in Value PROVE JsonAtoms[ToJsonable[v]] = Atoms[v]
  <2>1. Depth[v] \in S
    BY <1>2, ValuesAre
  <2> QED
    BY <2>1 DEF S
<1> QED
  BY <1>3

(* However deep a decoded value is and whatever its keys, to_jsonable      *)
(* loses none of the values in it: where two keys of a map have one name,  *)
(* at any depth, the map is shown as a list of entries (display.py:82-97). *)
THEOREM NothingLost ==
    ASSUME input.algorithm = "json" => [kind |-> "map", entries |-> input.value] \in Value
    PROVE  NothingHidden
  BY AtomsShown DEF NothingHidden
-----------------------------------------------------------------------------
(* The scan: its state, and the cameras that were opened, which are        *)
(* different ones.                                                         *)
Scanned ==
    /\ pc \in {"open", "round", "poll", "release", "done"}
    /\ outcome \in {"open", "found", "not_found", "no_camera", "raised", "interrupted", "aborted"}
    /\ probed \in 0..Len(Indices) /\ left \in Int /\ at \in Nat
    /\ captures \in Seq(Int) /\ polls \in [ToSet(Indices) -> Nat]

Captured ==
    /\ \A i \in 1..Len(captures) : \E j \in 1..probed : captures[i] = Indices[j]
    /\ \A i, j \in 1..Len(captures) : captures[i] = captures[j] => i = j

(* The first k have been released.                                         *)
From(k) == {captures[i] : i \in (k + 1)..Len(captures)}

Holding ==
    \E k \in 0..Len(captures) :
        /\ held = From(k)
        /\ pc \in {"open", "round", "poll"} => k = 0
        /\ pc = "release" => k < Len(captures)
        /\ pc = "done" /\ outcome # "aborted" => k = Len(captures)

(* Every camera was read in each of r rounds, the first m once more.       *)
PolledTo(r, m) ==
    /\ \A i \in 1..Len(captures) : polls[captures[i]] = IF i <= m THEN r + 1 ELSE r
    /\ pc = "round" \/ outcome = "not_found" => m = 0
    /\ pc = "poll" => m = at - 1 /\ at <= Len(captures) /\ left > -(ReadTime * m)
    /\ r > 0 \/ m > 0 => left > -(ReadTime * Len(captures))

Polled ==
    /\ \E r \in Nat, m \in 0..Len(captures) : PolledTo(r, m)
    /\ pc = "open" => polls = [i \in ToSet(Indices) |-> 0]
    /\ pc \in {"open", "round", "poll"} => outcome = "open"
    /\ pc \in {"round", "poll"} => captures # <<>>

CameraInv == Scanned /\ Captured /\ Holding /\ Polled

(* Time that is left for a round is left for all of it.                    *)
LEMMA LessThanARound ==
    ASSUME NEW d \in Nat, NEW m \in Nat, NEW n \in Nat, m <= n
    PROVE  d * m \in Nat /\ d * n \in Nat /\ d * m <= d * n /\ d * (m + 1) = d * m + d
<1>1. PICK j \in Nat : n = m + j
  <2>1. n - m \in Nat /\ n = m + (n - m)
    OBVIOUS
  <2> QED
    BY <2>1
<1>2. d * m \in Nat /\ d * j \in Nat /\ d * (m + j) = d * m + d * j /\ d * (m + 1) = d * m + d
  OBVIOUS
<1> QED
  BY <1>1, <1>2

LEMMA OpenedAreIndices ==
    ASSUME Scanned, Captured
    PROVE  /\ Len(captures) \in Nat /\ Len(Indices) \in Nat
           /\ ToSet(Indices) = {Indices[j] : j \in 1..Len(Indices)}
           /\ \A i \in 1..Len(captures) : captures[i] \in ToSet(Indices)
           /\ \A i, j \in 1..Len(Indices) : Indices[i] = Indices[j] => i = j
<1>1. Len(Indices) \in Nat /\ DOMAIN Indices = 1..Len(Indices) /\ Len(captures) \in Nat
  BY CameraScanAssumption DEF Scanned
<1>2. ToSet(Indices) = {Indices[j] : j \in 1..Len(Indices)}
  BY <1>1 DEF ToSet
<1>3. \A j \in 1..probed : j \in 1..Len(Indices)
  BY <1>1 DEF Scanned
<1>4. \A i \in 1..Len(captures) : captures[i] \in ToSet(Indices)
  BY <1>2, <1>3 DEF Captured
<1> QED
  BY <1>1, <1>2, <1>4, CameraScanAssumption DEF IsInjective

(* How many are held, and which is released next.                          *)
LEMMA HeldAreTheLast ==
    ASSUME Scanned, Captured, NEW k \in 0..Len(captures)
    PROVE  Cardinality(From(k)) = Len(captures) - k
<1> DEFINE n == Len(captures)
           I == (k + 1)..n
           f == [i \in I |-> captures[i]]
<1>1. n \in Nat /\ k \in Nat /\ k <= n
  BY OpenedAreIndices
<1>2. \A i \in I : i \in 1..n
  BY <1>1
<1> HIDE DEF n
<1>3. IsFiniteSet(I) /\ Cardinality(I) = n - k
  <2>1. k + 1 \in Int /\ n \in Int
    BY <1>1
  <2>2. IsFiniteSet(I) /\ Cardinality(I) = IF k + 1 > n THEN 0 ELSE n - (k + 1) + 1
    BY <2>1, FS_Interval
  <2> HIDE DEF I
  <2> QED
    BY <1>1, <2>2
<1> HIDE DEF I
<1>4. From(k) = {f[i] : i \in I}
  <2>1. From(k) = {captures[i] : i \in I}
    BY DEF From, I, n
  <2>2. \A i \in I : f[i] = captures[i]
    OBVIOUS
  <2> HIDE DEF f
  <2> QED
    BY <2>1, <2>2
<1>5. \A i, j \in I : f[i] = f[j] => i = j
  BY <1>2 DEF Captured, n
<1>6. f \in [I -> From(k)] /\ \A y \in From(k) : \E i \in I : f[i] = y
  BY <1>4
<1> HIDE DEF f
<1>7. f \in Bijection(I, From(k))
  BY <1>5, <1>6 DEF Bijection, Injection, Surjection, IsInjective
<1>8. ExistsBijection(I, From(k))
  BY <1>7 DEF ExistsBijection
<1> QED
  BY <1>3, <1>8, FS_Bijection DEF n

(* The initial states satisfy the invariant.                               *)
LEMMA CameraInit == Init => CameraInv
<1> SUFFICES ASSUME Init PROVE CameraInv
  OBVIOUS
<1>1. Len(Indices) \in Nat /\ 0 \in 0..Len(Indices) /\ captures = <<>> /\ Len(captures) = 0
  BY CameraScanAssumption DEF Init
<1>2. polls \in [ToSet(Indices) -> Nat] /\ left \in Int
  BY CameraScanAssumption DEF Init
<1>3. Scanned
  BY <1>1, <1>2 DEF Init, Scanned
<1>4. Captured
  BY <1>1 DEF Captured
<1>5. Holding
  <2>1. From(0) = {} /\ 0 \in 0..Len(captures)
    BY <1>1 DEF From
  <2> QED
    BY <2>1 DEF Init, Holding
<1>6. PolledTo(0, 0) /\ 0 \in Nat /\ 0 \in 0..Len(captures)
  BY <1>1 DEF Init, PolledTo
<1>7. Polled
  BY <1>6 DEF Init, Polled
<1> QED
  BY <1>3, <1>4, <1>5, <1>7 DEF CameraInv

(* A step that changes none of these keeps what they say.                  *)
LEMMA SameCameras ==
    ASSUME CameraInv, UNCHANGED <<probed, captures>>
    PROVE  Captured' /\ \A k : From(k)' = From(k)
<1>1. Captured'
  BY DEF CameraInv, Captured
<1>2. ASSUME NEW k PROVE From(k)' = From(k)
  BY DEF From
<1> QED
  BY <1>1, <1>2

LEMMA SamePolls ==
    ASSUME CameraInv, UNCHANGED <<captures, left, polls>>, NEW r \in Nat, NEW m \in Nat, PolledTo(r, m),
           pc' = "round" \/ outcome' = "not_found" => m = 0,
           pc' = "poll" => m = at' - 1 /\ at' <= Len(captures) /\ left > -(ReadTime * m)
    PROVE  PolledTo(r, m)'
BY DEF PolledTo

LEMMA CameraProbe ==
    ASSUME CameraInv, Probe
    PROVE  CameraInv'
<1> DEFINE n == Len(captures)
           L == Len(Indices)
           c == Indices[probed + 1]
<1>1. /\ Scanned /\ Captured /\ Holding /\ Polled
      /\ n \in Nat /\ L \in Nat /\ probed \in Nat /\ probed + 1 \in 1..L
      /\ ToSet(Indices) = {Indices[j] : j \in 1..L}
      /\ \A i, j \in 1..L : Indices[i] = Indices[j] => i = j
  BY OpenedAreIndices DEF CameraInv, Probe, Scanned
<1>2. /\ pc = "open" /\ pc' = "open" /\ probed' = probed + 1 /\ UNCHANGED <<left, at, polls, outcome>>
      /\ \/ captures' = Append(captures, c) /\ held' = held \cup {c}
         \/ captures' = captures /\ held' = held
  BY DEF Probe
<1>3. c \in Int /\ c \in ToSet(Indices)
  BY <1>1, CameraScanAssumption
<1>4. /\ outcome = "open" /\ outcome' = "open" /\ polls = [i \in ToSet(Indices) |-> 0]
      /\ held = From(0)
  BY <1>1, <1>2 DEF Polled, Holding
<1>5. captures \in Seq(Int)
  BY <1>1 DEF Scanned
<1> HIDE DEF c, L, n
<1>6. CASE captures' = Append(captures, c) /\ held' = held \cup {c}
  <2>1. /\ captures' \in Seq(Int) /\ Len(captures') = n + 1 /\ captures'[n + 1] = c
        /\ \A i \in 1..n : captures'[i] = captures[i]
    BY <1>3, <1>5, <1>6, AppendProperties DEF n
  <2>2. \A i \in 1..(n + 1) : i \in 1..n \/ i = n + 1
    BY <1>1
  <2>3. \A i \in 1..n : i \in 1..(n + 1) /\ i # n + 1
    BY <1>1
  <2>4. n + 1 \in 1..(n + 1) /\ probed + 1 \in 1..(probed + 1) /\ \A j \in 1..probed : j \in 1..(probed + 1) /\ j \in 1..L /\ j # probed + 1
    BY <1>1
  <2>5. \A i \in 1..n : \E j \in 1..probed : captures[i] = Indices[j]
    BY <1>1 DEF Captured, n
  <2>6. \A i \in 1..n : captures[i] # c
    BY <1>1, <2>4, <2>5 DEF c
  <2>7. Captured'
    <3>1. \A i \in 1..(n + 1) : \E j \in 1..(probed + 1) : captures'[i] = Indices[j]
      BY <2>1, <2>2, <2>4, <2>5 DEF c
    <3>2. \A i, j \in 1..(n + 1) : captures'[i] = captures'[j] => i = j
      <4>1. \A i, j \in 1..n : captures[i] = captures[j] => i = j
        BY <1>1 DEF Captured, n
      <4> QED
        BY <2>1, <2>2, <2>6, <4>1
    <3> QED
      BY <1>2, <2>1, <3>1, <3>2 DEF Captured
  <2>8. held' = From(0)'
    <3>1. From(0) = {captures[i] : i \in 1..n}
      BY DEF From, n
    <3>2. From(0)' = {captures'[i] : i \in 1..(n + 1)}
      BY <2>1 DEF From
    <3>3. {captures'[i] : i \in 1..(n + 1)} = {captures[i] : i \in 1..n} \cup {c}
      BY <2>1, <2>2, <2>3, <2>4
    <3> QED
      BY <1>4, <1>6, <3>1, <3>2, <3>3
  <2>9. Scanned'
    BY <1>1, <1>2, <2>1 DEF Scanned, L
  <2>10. 0 \in 0..(n + 1) /\ 0 \in Nat
    BY <1>1
  <2>11. Holding'
    BY <1>2, <2>1, <2>8, <2>10 DEF Holding
  <2>12. \A i \in 1..(n + 1) : captures'[i] \in ToSet(Indices)
    BY <1>1, <1>3, <2>1, <2>2, OpenedAreIndices DEF n
  <2>13. PolledTo(0, 0)'
    BY <1>2, <1>4, <2>1, <2>12 DEF PolledTo
  <2>14. Polled'
    BY <1>2, <1>4, <2>1, <2>10, <2>13 DEF Polled
  <2> QED
    BY <2>7, <2>9, <2>11, <2>14 DEF CameraInv
<1>7. CASE captures' = captures /\ held' = held
  <2>1. Scanned'
    BY <1>1, <1>2, <1>7 DEF Scanned, L
  <2>2. \A j \in 1..probed : j \in 1..(probed + 1)
    BY <1>1
  <2>3. Captured'
    BY <1>1, <1>2, <1>7, <2>2 DEF Captured
  <2>4. Holding'
    BY <1>1, <1>2, <1>7 DEF Holding, From
  <2>5. Polled'
    BY <1>1, <1>2, <1>7 DEF Polled, PolledTo
  <2> QED
    BY <2>1, <2>3, <2>4, <2>5 DEF CameraInv
<1> QED
  BY <1>2, <1>6, <1>7

(* The steps between reads: time and cameras are as they were.             *)
LEMMA CameraTurns ==
    ASSUME CameraInv, NoCamera \/ StartPolling \/ StartRound \/ TimeIsUp \/ Interrupt
    PROVE  CameraInv'
<1>1. Scanned /\ Captured /\ Holding /\ Polled
  BY DEF CameraInv
<1>2. UNCHANGED <<probed, captures, held, left, polls>>
  BY DEF NoCamera, StartPolling, StartRound, TimeIsUp, Interrupt
<1>3. Scanned'
  BY <1>1, <1>2 DEF Scanned, NoCamera, StartPolling, StartRound, TimeIsUp, Interrupt, Go
<1>4. Captured' /\ \A k : From(k)' = From(k)
  BY <1>2, SameCameras
<1>5. captures \in Seq(Int) /\ Len(captures) \in Nat /\ (captures = <<>> <=> Len(captures) = 0)
  BY <1>1 DEF Scanned
<1>6. ReadTime \in Nat /\ left \in Int
  BY <1>1, CameraScanAssumption DEF Scanned
<1>7. PICK k \in 0..Len(captures) :
          /\ held = From(k)
          /\ pc \in {"open", "round", "poll"} => k = 0
          /\ pc = "release" => k < Len(captures)
          /\ pc = "done" /\ outcome # "aborted" => k = Len(captures)
  BY <1>1 DEF Holding
<1>8. PICK r \in Nat, m \in 0..Len(captures) : PolledTo(r, m)
  BY <1>1 DEF Polled
<1>9. m \in Nat /\ k \in Nat /\ k <= Len(captures)
  BY <1>5
<1>10. /\ pc = "open" => polls = [i \in ToSet(Indices) |-> 0]
       /\ pc \in {"open", "round", "poll"} => outcome = "open"
       /\ pc \in {"round", "poll"} => captures # <<>>
  BY <1>1 DEF Polled
<1>11. held' = From(k)' /\ Len(captures') = Len(captures) /\ k \in 0..Len(captures')
  BY <1>2, <1>4, <1>7
<1>12. r \in Nat /\ m \in 0..Len(captures')
  BY <1>2, <1>8
<1>13. CASE NoCamera
  <2>1. pc = "open" /\ captures = <<>> /\ pc' = "done" /\ outcome' = "no_camera"
    BY <1>13 DEF NoCamera, Go
  <2>2. k = Len(captures')
    BY <1>5, <1>7, <1>11, <2>1
  <2>3. Holding'
    BY <1>11, <2>1, <2>2 DEF Holding
  <2>4. PolledTo(r, m)'
    BY <1>2, <1>8, <1>9, <2>1, SamePolls
  <2> QED
    BY <1>3, <1>4, <1>12, <2>1, <2>3, <2>4 DEF CameraInv, Polled
<1>14. CASE StartPolling
  <2>1. pc = "open" /\ captures # <<>> /\ pc' = "round" /\ UNCHANGED outcome
    BY <1>14 DEF StartPolling
  <2>2. Holding'
    BY <1>7, <1>11, <2>1 DEF Holding
  <2>3. \A i \in 1..Len(captures) : polls[captures[i]] = 0
    BY <1>1, <1>10, <2>1, OpenedAreIndices
  <2>4. PolledTo(0, 0)
    BY <1>5, <1>10, <2>1, <2>3 DEF PolledTo
  <2>5. PolledTo(0, 0)'
    BY <1>2, <2>1, <2>4, SamePolls
  <2>6. 0 \in Nat /\ 0 \in 0..Len(captures')
    BY <1>5, <1>11
  <2> QED
    BY <1>2, <1>3, <1>4, <1>10, <2>1, <2>2, <2>5, <2>6 DEF CameraInv, Polled
<1>15. CASE StartRound
  <2>1. pc = "round" /\ left > 0 /\ pc' = "poll" /\ at' = 1 /\ UNCHANGED outcome
    BY <1>15 DEF StartRound, TimeIsLeft
  <2>2. Holding'
    BY <1>7, <1>11, <2>1 DEF Holding
  <2>3. m = 0 /\ captures # <<>> /\ 1 <= Len(captures)
    BY <1>5, <1>8, <1>10, <2>1 DEF PolledTo
  <2>4. left > -(ReadTime * m)
    BY <1>6, <2>1, <2>3
  <2>5. PolledTo(r, m)'
    BY <1>2, <1>8, <1>9, <2>1, <2>3, <2>4, SamePolls
  <2> QED
    BY <1>2, <1>3, <1>4, <1>10, <1>12, <2>1, <2>2, <2>3, <2>5 DEF CameraInv, Polled
<1>16. CASE TimeIsUp
  <2>1. pc = "round" /\ pc' = "release" /\ outcome' = "not_found"
    BY <1>16 DEF TimeIsUp, Go
  <2>2. m = 0 /\ captures # <<>> /\ k < Len(captures')
    BY <1>5, <1>7, <1>8, <1>10, <1>11, <2>1 DEF PolledTo
  <2>3. Holding'
    BY <1>11, <2>1, <2>2 DEF Holding
  <2>4. PolledTo(r, m)'
    BY <1>2, <1>8, <1>9, <2>1, <2>2, SamePolls
  <2> QED
    BY <1>3, <1>4, <1>12, <2>1, <2>3, <2>4 DEF CameraInv, Polled
<1>17. CASE Interrupt
  <2>1. \/ pc \in {"open", "release"} /\ pc' = "done" /\ outcome' = "aborted"
        \/ pc \in {"round", "poll"} /\ pc' = "release" /\ outcome' = "interrupted"
    BY <1>17 DEF Interrupt, Go
  <2>2. pc' = "release" => k < Len(captures')
    BY <1>5, <1>7, <1>10, <1>11, <2>1
  <2>3. Holding'
    BY <1>11, <2>1, <2>2 DEF Holding
  <2>4. PolledTo(r, m)'
    BY <1>2, <1>8, <1>9, <2>1, SamePolls
  <2> QED
    BY <1>3, <1>4, <1>12, <2>1, <2>3, <2>4 DEF CameraInv, Polled
<1> QED
  BY <1>13, <1>14, <1>15, <1>16, <1>17

LEMMA CameraRead ==
    ASSUME CameraInv, Read
    PROVE  CameraInv'
<1> DEFINE n == Len(captures)
           c == captures[at]
<1>1. Scanned /\ Captured /\ Holding /\ Polled
  BY DEF CameraInv
<1>2. /\ pc = "poll" /\ UNCHANGED <<probed, captures, held>>
      /\ polls' = [polls EXCEPT ![c] = @ + 1]
  BY DEF Read
<1>3. PICK t \in 1..ReadTime : left' = left - t
  BY DEF Read
<1>4. \/ AfterNothing /\ UNCHANGED outcome
      \/ pc' = "release" /\ outcome' \in {"found", "raised"} /\ UNCHANGED at
  BY DEF Read, Go
<1>5. PICK r \in Nat, m \in 0..n : PolledTo(r, m)
  BY <1>1 DEF Polled
<1>6. n \in Nat /\ captures \in Seq(Int) /\ left \in Int /\ at \in Nat /\ ReadTime \in Nat /\ t \in Nat /\ t <= ReadTime
  BY <1>1, CameraScanAssumption DEF Scanned
<1>7. m = at - 1 /\ at <= n /\ left > -(ReadTime * m) /\ outcome = "open" /\ captures # <<>>
  BY <1>1, <1>2, <1>5 DEF PolledTo, Polled
<1> HIDE DEF n
<1>8. at \in 1..n /\ m \in Nat /\ at = m + 1
  BY <1>5, <1>6, <1>7
<1>9. c \in ToSet(Indices)
  BY <1>1, <1>8, OpenedAreIndices DEF n
<1>10. polls' \in [ToSet(Indices) -> Nat]
  <2>1. polls \in [ToSet(Indices) -> Nat]
    BY <1>1 DEF Scanned
  <2>2. polls[c] + 1 \in Nat
    BY <1>9, <2>1
  <2> HIDE DEF c
  <2> QED
    BY <1>2, <1>9, <2>1, <2>2
<1>11. ASSUME NEW i \in 1..n
       PROVE  polls'[captures[i]] = IF i <= at THEN r + 1 ELSE r
  <2>1. polls \in [ToSet(Indices) -> Nat] /\ captures[i] \in ToSet(Indices)
    BY <1>1, OpenedAreIndices DEF Scanned, n
  <2>2. polls[captures[i]] = IF i <= m THEN r + 1 ELSE r
    BY <1>5 DEF PolledTo, n
  <2>3. captures[i] = c <=> i = at
    BY <1>1, <1>8 DEF Captured, n
  <2>4. polls'[captures[i]] = IF captures[i] = c THEN polls[c] + 1 ELSE polls[captures[i]]
    BY <1>2, <2>1
  <2>5. i = at => polls[c] = r
    BY <1>6, <1>8, <2>2, <2>3
  <2>6. i # at => (i <= at <=> i <= m)
    BY <1>6, <1>8
  <2> HIDE DEF c
  <2> QED
    BY <1>6, <2>2, <2>3, <2>4, <2>5, <2>6
<1>12. left' > -(ReadTime * at) /\ left' > -(ReadTime * n) /\ left' \in Int
  <2>1. ReadTime * at = ReadTime * m + ReadTime /\ ReadTime * m \in Nat
    BY <1>6, <1>8, LessThanARound
  <2>2. ReadTime * at <= ReadTime * n /\ ReadTime * at \in Nat /\ ReadTime * n \in Nat
    BY <1>6, <1>7, LessThanARound
  <2> QED
    BY <1>3, <1>6, <1>7, <2>1, <2>2
<1>13. Captured' /\ \A k : From(k)' = From(k)
  BY <1>2, SameCameras
<1>14. Len(captures') = n /\ (captures' = <<>> <=> captures = <<>>)
  BY <1>2 DEF n
<1>15. \A k \in 0..n : held = From(k) /\ k = 0 => held' = From(k)' /\ k < n
  BY <1>2, <1>6, <1>8, <1>13
<1>16. PICK k \in 0..n : held' = From(k)' /\ k = 0 /\ k < n
  BY <1>1, <1>2, <1>15 DEF Holding, n
<1>17. CASE at < n /\ at' = at + 1 /\ pc' = "poll" /\ outcome' = "open"
  <2>1. Scanned'
    BY <1>1, <1>2, <1>6, <1>10, <1>12, <1>17 DEF Scanned
  <2>2. Holding'
    BY <1>14, <1>16, <1>17 DEF Holding
  <2>3. m + 1 = at' - 1 /\ at' <= n /\ m + 1 \in 0..n
    BY <1>6, <1>8, <1>17
  <2>4. PolledTo(r, m + 1)'
    <3>1. \A i \in 1..Len(captures') : polls'[captures'[i]] = IF i <= m + 1 THEN r + 1 ELSE r
      BY <1>2, <1>8, <1>11, <1>14
    <3> QED
      BY <1>8, <1>12, <1>14, <1>17, <2>3, <3>1 DEF PolledTo
  <2>5. Polled'
    BY <1>7, <1>14, <1>17, <2>3, <2>4 DEF Polled
  <2> QED
    BY <1>13, <2>1, <2>2, <2>5 DEF CameraInv
<1>18. CASE at = n /\ at' = at /\ pc' = "round" /\ outcome' = "open"
  <2>1. Scanned'
    BY <1>1, <1>2, <1>6, <1>10, <1>12, <1>18 DEF Scanned
  <2>2. Holding'
    BY <1>14, <1>16, <1>18 DEF Holding
  <2>3. r + 1 \in Nat /\ 0 \in 0..n
    BY <1>6
  <2>4. PolledTo(r + 1, 0)'
    <3>1. \A i \in 1..n : i <= at /\ ~(i <= 0)
      BY <1>6, <1>18
    <3>2. \A i \in 1..Len(captures') : polls'[captures'[i]] = IF i <= 0 THEN (r + 1) + 1 ELSE r + 1
      BY <1>2, <1>11, <1>14, <3>1
    <3> QED
      BY <1>2, <1>12, <1>14, <1>18, <3>2 DEF PolledTo
  <2>5. Polled'
    BY <1>7, <1>14, <1>18, <2>3, <2>4 DEF Polled
  <2> QED
    BY <1>13, <2>1, <2>2, <2>5 DEF CameraInv
<1>19. CASE pc' = "release" /\ outcome' \in {"found", "raised"} /\ at' = at
  <2>1. Scanned'
    BY <1>1, <1>2, <1>6, <1>10, <1>12, <1>19 DEF Scanned
  <2>2. Holding'
    BY <1>14, <1>16, <1>19 DEF Holding
  <2>3. m + 1 \in 0..n
    BY <1>6, <1>8
  <2>4. PolledTo(r, m + 1)'
    <3>1. \A i \in 1..Len(captures') : polls'[captures'[i]] = IF i <= m + 1 THEN r + 1 ELSE r
      BY <1>2, <1>8, <1>11, <1>14
    <3> QED
      BY <1>2, <1>8, <1>12, <1>14, <1>19, <3>1 DEF PolledTo
  <2>5. Polled'
    BY <1>14, <1>19, <2>3, <2>4 DEF Polled
  <2> QED
    BY <1>13, <2>1, <2>2, <2>5 DEF CameraInv
<1>20. AfterNothing => \/ at < n /\ at' = at + 1 /\ pc' = pc
                       \/ at = n /\ at' = at /\ pc' = "round"
  BY <1>6, <1>7 DEF AfterNothing, n
<1> QED
  BY <1>2, <1>4, <1>7, <1>17, <1>18, <1>19, <1>20

(* The camera that is released is held, and is the first of those.         *)
LEMMA ReleasedIsHeld ==
    ASSUME Scanned, Captured, NEW k \in 0..Len(captures), k < Len(captures)
    PROVE  /\ captures[Len(captures) - Cardinality(From(k)) + 1] \in From(k)
           /\ From(k) \ {captures[Len(captures) - Cardinality(From(k)) + 1]} = From(k + 1)
<1> DEFINE n == Len(captures)
<1>1. n \in Nat /\ k \in Nat /\ k + 1 \in 1..n /\ k + 1 \in (k + 1)..n
  BY OpenedAreIndices
<1>2. n - Cardinality(From(k)) + 1 = k + 1
  <2>1. Cardinality(From(k)) = n - k
    BY HeldAreTheLast
  <2> HIDE DEF n
  <2> QED
    BY <1>1, <2>1
<1>3. captures[k + 1] \in From(k)
  BY <1>1 DEF From
<1>4. ASSUME NEW x PROVE x \in From(k) \ {captures[k + 1]} <=> x \in From(k + 1)
  <2>1. \A i \in (k + 1)..n : i = k + 1 \/ i \in ((k + 1) + 1)..n
    BY <1>1
  <2>2. \A i \in ((k + 1) + 1)..n : i \in (k + 1)..n /\ i \in 1..n /\ i # k + 1
    BY <1>1
  <2>3. \A i, j \in 1..n : captures[i] = captures[j] => i = j
    BY DEF Captured
  <2>4. x \in From(k) <=> \E i \in (k + 1)..n : x = captures[i]
    BY DEF From
  <2>5. x \in From(k + 1) <=> \E i \in ((k + 1) + 1)..n : x = captures[i]
    BY DEF From
  <2> HIDE DEF n
  <2> QED
    BY <1>1, <2>1, <2>2, <2>3, <2>4, <2>5
<1> QED
  BY <1>2, <1>3, <1>4

LEMMA CameraRelease ==
    ASSUME CameraInv, Release
    PROVE  CameraInv'
<1> DEFINE n == Len(captures)
<1>1. Scanned /\ Captured /\ Holding /\ Polled /\ n \in Nat
  BY OpenedAreIndices DEF CameraInv
<1>2. /\ pc = "release" /\ UNCHANGED <<probed, captures, left, at, polls, outcome>>
      /\ held' = held \ {captures[n - Cardinality(held) + 1]}
      /\ pc' = IF held' = {} THEN "done" ELSE "release"
  BY DEF Release
<1>3. PICK k \in 0..n : held = From(k) /\ k < n
  BY <1>1, <1>2 DEF Holding
<1>4. held' = From(k + 1)
  BY <1>1, <1>2, <1>3, ReleasedIsHeld
<1>5. k + 1 \in 0..n /\ Captured' /\ From(k + 1)' = From(k + 1) /\ Len(captures') = n
  BY <1>1, <1>2, <1>3, SameCameras
<1>6. held' = {} <=> k + 1 = n
  <2>1. k + 1 # n => n \in ((k + 1) + 1)..n
    BY <1>1, <1>3
  <2>2. k + 1 = n => ((k + 1) + 1)..n = {}
    BY <1>1, <1>3
  <2> QED
    BY <1>4, <2>1, <2>2 DEF From
<1>7. Scanned'
  BY <1>1, <1>2 DEF Scanned
<1>8. k + 1 < n \/ k + 1 = n
  BY <1>1, <1>3
<1>9. Holding'
  BY <1>2, <1>4, <1>5, <1>6, <1>8 DEF Holding
<1>10. Polled'
  BY <1>1, <1>2 DEF Polled, PolledTo
<1> QED
  BY <1>5, <1>7, <1>9, <1>10 DEF CameraInv

(* The cameras that are open, and how often each was read, in every state  *)
(* of the scan.                                                            *)
THEOREM CameraInvariant == Spec => []CameraInv
<1>1. ASSUME CameraInv, [Next]_vars PROVE CameraInv'
  <2>1. CASE UNCHANGED vars
    <3>1. UNCHANGED <<pc, probed, captures, held, left, at, polls, outcome>>
      BY <2>1 DEF vars
    <3>2. Scanned' /\ Captured'
      BY <1>1, <3>1 DEF CameraInv, Scanned, Captured
    <3>3. Holding'
      BY <1>1, <3>1 DEF CameraInv, Holding, From
    <3>4. Polled'
      BY <1>1, <3>1 DEF CameraInv, Polled, PolledTo
    <3> QED
      BY <3>2, <3>3, <3>4 DEF CameraInv
  <2> QED
    BY <1>1, <2>1, CameraProbe, CameraTurns, CameraRead, CameraRelease DEF Next
<1> QED
  BY <1>1, CameraInit, PTL DEF Spec

(* No camera stays open after the scan, of any number of cameras, unless   *)
(* Ctrl-C came while they were opened or released (qr.py:54-80).           *)
THEOREM ScanReleasesCameras == Spec => []CamerasReleased
<1>1. CameraInv => CamerasReleased
  <2> SUFFICES ASSUME CameraInv, pc = "done", outcome # "aborted" PROVE held = {}
    BY DEF CamerasReleased
  <2>1. held = From(Len(captures)) /\ Len(captures) \in Nat
    BY OpenedAreIndices DEF CameraInv, Holding
  <2>2. (Len(captures) + 1)..Len(captures) = {}
    BY <2>1
  <2> QED
    BY <2>1, <2>2 DEF From
<1> QED
  BY <1>1, CameraInvariant, PTL

(* The finally clause comes to every open camera: what it releases next is *)
(* held (qr.py:78-79).                                                     *)
THEOREM ReleaseFindsCamera ==
    Spec => [](pc = "release" => captures[Len(captures) - Cardinality(held) + 1] \in held)
<1>1. CameraInv => (pc = "release" => captures[Len(captures) - Cardinality(held) + 1] \in held)
  <2> SUFFICES ASSUME CameraInv, pc = "release"
               PROVE  captures[Len(captures) - Cardinality(held) + 1] \in held
    OBVIOUS
  <2>1. PICK k \in 0..Len(captures) : held = From(k) /\ k < Len(captures)
    BY DEF CameraInv, Holding
  <2> QED
    BY <2>1, ReleasedIsHeld DEF CameraInv
<1> QED
  BY <1>1, CameraInvariant, PTL

(* Of any number of cameras none is read twice before all are read once,   *)
(* and the scan overruns its timeout by less than a round                  *)
(* (qr.py:44-49, 67-77).                                                   *)
THEOREM ScanIsFair == Spec => []RoundsAreWhole
<1>1. CameraInv => RoundsAreWhole
  <2> SUFFICES ASSUME CameraInv PROVE RoundsAreWhole
    OBVIOUS
  <2>1. Len(captures) \in Nat /\ DOMAIN captures = 1..Len(captures)
    BY OpenedAreIndices DEF CameraInv, Scanned
  <2>2. PICK r \in Nat, m \in 0..Len(captures) : PolledTo(r, m)
    BY DEF CameraInv, Polled
  <2>3. /\ \A i \in 1..Len(captures) : polls[captures[i]] = IF i <= m THEN r + 1 ELSE r
        /\ outcome = "not_found" => m = 0
        /\ r > 0 \/ m > 0 => left > -(ReadTime * Len(captures))
    BY <2>2 DEF PolledTo
  <2>4. ASSUME NEW i \in 1..Len(captures), NEW j \in 1..Len(captures), i <= j
        PROVE  polls[captures[i]] - polls[captures[j]] \in (IF outcome = "not_found" THEN {0} ELSE {0, 1})
    <3>1. polls[captures[i]] = IF i <= m THEN r + 1 ELSE r
      BY <2>3
    <3>2. polls[captures[j]] = IF j <= m THEN r + 1 ELSE r
      BY <2>3
    <3>3. m = 0 => ~(i <= m) /\ ~(j <= m)
      OBVIOUS
    <3>4. j <= m => i <= m
      BY <2>1, <2>4
    <3> QED
      BY <2>2, <2>3, <3>1, <3>2, <3>3, <3>4
  <2>5. ASSUME NEW i \in 1..Len(captures), polls[captures[i]] > 0
        PROVE  left > -(ReadTime * Len(captures))
    <3>1. i <= m => m > 0
      BY <2>1
    <3>2. ~(i <= m) => r > 0
      BY <2>3, <2>5
    <3> QED
      BY <2>3, <3>1, <3>2
  <2> QED
    BY <2>1, <2>4, <2>5 DEF RoundsAreWhole
<1> QED
  BY <1>1, CameraInvariant, PTL
=============================================================================
