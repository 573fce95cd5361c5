------------------------- MODULE ReadAccessProofs -------------------------
(***************************************************************************)
(* What an agent gives away, and what it must not leave out, for any        *)
(* handlers, views, requests, clients and threads.                          *)
(*                                                                         *)
(* Of the registry (ReadDispatch): GETNEXT and GETBULK name nothing hidden, *)
(* a walk returns whatever was there and readable all the time, and a       *)
(* request that meets no change is answered with exactly what it is owed.   *)
(* Of the access control tables (Vacm): what their locks are worth. The     *)
(* decision that VACM is unconfigured, and every grant, is sound although   *)
(* it is put together from several lock acquisitions; and the communities   *)
(* of snmpd.conf are granted what their lines say, and nothing else.        *)
(* Of the tree the MIB modules register (MibWalk): a walk goes forward,     *)
(* names what GET finds, and passes over nothing but nested handlers.       *)
(***************************************************************************)
EXTENDS ReadDispatch, Vacm, MibWalk, FiniteSetTheorems, SequenceTheorems, TLAPS

---------------------------------------------------------------------------
(* The order of OIDs (oid.rs).                                             *)

\* An OID is a sequence of arcs.
LEMMA OidFacts ==
    ASSUME NEW a \in Oids
    PROVE  Len(a) \in Nat /\ \A i \in 1..Len(a) : a[i] \in Nat
BY DEF Oids

\* Oid::is_prefix_of, arc by arc.
LEMMA PrefixArcs ==
    ASSUME NEW a \in Oids, NEW b \in Oids
    PROVE  IsPrefix(a, b) <=> (Len(a) <= Len(b) /\ \A i \in 1..Len(a) : a[i] = b[i])
<1>. DEFINE p == SubSeq(a, 1, Len(a))
            q == SubSeq(b, 1, Len(a))
<1>1. ASSUME Len(a) <= Len(b)
      PROVE  p = q <=> \A i \in 1..Len(a) : a[i] = b[i]
  <2>1. /\ p \in Seq(Nat) /\ Len(p) = Len(a) /\ \A i \in 1..Len(a) : p[i] = a[i]
        /\ q \in Seq(Nat) /\ Len(q) = Len(a) /\ \A i \in 1..Len(a) : q[i] = b[i]
    BY <1>1 DEF Oids
  <2>. HIDE DEF p, q
  <2>2. ASSUME \A i \in 1..Len(a) : a[i] = b[i] PROVE p = q
    <3>1. Len(p) = Len(q) /\ \A i \in 1..Len(p) : p[i] = q[i]
      BY <2>1, <2>2
    <3>. QED  BY <2>1, <3>1
  <2>. QED  BY <2>1, <2>2
<1>. QED  BY <1>1 DEF IsPrefix

\* The order of OIDs is strict and total.
LEMMA LessIrreflexive ==
    ASSUME NEW a \in Oids
    PROVE  ~OidLess(a, a)
BY OidFacts DEF OidLess

\* Of three OIDs in a row the first comes before the last.
LEMMA LessTransitive ==
    ASSUME NEW a \in Oids, NEW b \in Oids, NEW c \in Oids, OidLess(a, b), OidLess(b, c)
    PROVE  OidLess(a, c)
<1>1. PICK i \in 1..Len(b) : /\ i <= Len(a) + 1
                             /\ \A j \in 1..(i - 1) : a[j] = b[j]
                             /\ i <= Len(a) => a[i] < b[i]
  BY DEF OidLess
<1>2. PICK k \in 1..Len(c) : /\ k <= Len(b) + 1
                             /\ \A j \in 1..(k - 1) : b[j] = c[j]
                             /\ k <= Len(b) => b[k] < c[k]
  BY DEF OidLess
<1>3. /\ Len(a) \in Nat /\ Len(b) \in Nat /\ Len(c) \in Nat
      /\ \A j \in 1..Len(a) : a[j] \in Nat
      /\ \A j \in 1..Len(b) : b[j] \in Nat
      /\ \A j \in 1..Len(c) : c[j] \in Nat
  BY OidFacts
<1>4. CASE i < k
  <2>1. /\ i \in 1..Len(c) /\ \A j \in 1..(i - 1) : a[j] = c[j]
        /\ i <= Len(a) => a[i] < c[i]
    BY <1>1, <1>2, <1>3, <1>4
  <2>. QED  BY <1>1, <2>1 DEF OidLess
<1>5. CASE i >= k
  <2>1. /\ k <= Len(a) + 1 /\ \A j \in 1..(k - 1) : a[j] = c[j]
    BY <1>1, <1>2, <1>3, <1>5
  <2>2. k <= Len(a) => a[k] < c[k]
    BY <1>1, <1>2, <1>3, <1>5
  <2>. QED  BY <1>2, <2>1, <2>2 DEF OidLess
<1>. QED  BY <1>1, <1>2, <1>3, <1>4, <1>5

\* A finite set has a first element in every total order.
LEMMA FirstElement ==
    ASSUME NEW S, IsFiniteSet(S), S # {}, NEW R,
           \A x, y \in S : <<x, y>> \in R \/ <<y, x>> \in R,
           \A x, y, z \in S : <<x, y>> \in R /\ <<y, z>> \in R => <<x, z>> \in R
    PROVE  \E x \in S : \A y \in S : <<x, y>> \in R
<1>. DEFINE HasFirst(X) == \E x \in X : \A y \in X : <<x, y>> \in R
            Bad == {X \in SUBSET S : X # {} /\ ~HasFirst(X)}
<1>1. SUBSET S = FiniteSubsetsOf(S)
  BY FS_FiniteSubsetsOfFinite
<1>2. IsWellFoundedOn(StrictSubsetOrdering(S), FiniteSubsetsOf(S))
  BY FS_StrictSubsetOrderingWellFounded
<1>3. ASSUME Bad # {} PROVE FALSE
  <2>1. PICK X \in Bad : \A Y \in Bad : <<Y, X>> \notin StrictSubsetOrdering(S)
    <3>. Bad \subseteq FiniteSubsetsOf(S)
      BY <1>1
    <3>. HIDE DEF Bad
    <3>. QED  BY <1>2, <1>3, WFMin
  <2>2. PICK x \in X : TRUE
    OBVIOUS
  <2>. DEFINE Y == X \ {x}
  <2>3. X \in SUBSET S /\ ~HasFirst(X) /\ x \in X /\ x \in S
    BY <2>2
  <2>4. <<Y, X>> \in StrictSubsetOrdering(S)
    BY <2>3 DEF StrictSubsetOrdering
  <2>5. Y \in SUBSET S /\ (Y = {} \/ HasFirst(Y))
    BY <2>1, <2>3, <2>4
  <2>6. CASE Y = {}
    <3>1. X = {x} /\ <<x, x>> \in R
      BY <2>3, <2>6
    <3>. QED  BY <2>3, <3>1
  <2>7. CASE HasFirst(Y)
    <3>1. PICK y \in Y : \A p \in Y : <<y, p>> \in R
      BY <2>7
    <3>2. y \in X /\ y \in S
      BY <2>3, <3>1
    <3>3. CASE <<y, x>> \in R
      <4>1. \A p \in X : <<y, p>> \in R
        BY <3>1, <3>3
      <4>. QED  BY <2>3, <3>2, <4>1
    <3>4. CASE <<x, y>> \in R
      <4>1. ASSUME NEW p \in X PROVE <<x, p>> \in R
        <5>1. p \in S
          BY <2>3
        <5>2. CASE p = x
          BY <2>3, <5>2
        <5>3. CASE p # x
          <6>1. <<y, p>> \in R
            BY <3>1, <5>3
          <6>. QED  BY <2>3, <3>2, <3>4, <5>1, <6>1
        <5>. QED  BY <5>2, <5>3
      <4>. QED  BY <2>3, <4>1
    <3>. QED  BY <2>3, <3>2, <3>3, <3>4
  <2>. QED  BY <2>5, <2>6, <2>7
<1>4. S \notin Bad
  BY <1>3
<1>. QED  BY <1>4

\* A non-empty set of numbers has a least.
LEMMA LeastNumber ==
    ASSUME NEW m \in Nat, NEW S \in SUBSET (1..m), S # {}
    PROVE  \E i \in S : \A j \in S : i <= j
<1>1. IsFiniteSet(S)
  <2>1. IsFiniteSet(1..m)
    BY FS_Interval
  <2>. QED  BY <2>1, FS_Subset
<1>2. PICK R : R = {r \in (1..m) \X (1..m) : r[1] <= r[2]}
  OBVIOUS
<1>3. \A i, j \in S : <<i, j>> \in R <=> i <= j
  BY <1>2
<1>4. /\ \A x, y \in S : <<x, y>> \in R \/ <<y, x>> \in R
      /\ \A x, y, z \in S : <<x, y>> \in R /\ <<y, z>> \in R => <<x, z>> \in R
  BY <1>3
<1>5. \E i \in S : \A j \in S : <<i, j>> \in R
  BY <1>1, <1>4, FirstElement
<1>. QED  BY <1>3, <1>5

\* Induction up to n, over a set of numbers in place of a predicate.
LEMMA UpTo ==
    ASSUME NEW n \in Nat, NEW S, 0 \in S, \A m \in 0..(n - 1) : m \in S => m + 1 \in S
    PROVE  \A m \in 0..n : m \in S
<1>. DEFINE Bad == {m \in 1..n : m \notin S}
<1>1. ASSUME Bad # {} PROVE FALSE
  <2>1. PICK m \in Bad : \A k \in Bad : m <= k
    <3>1. Bad \in SUBSET (1..n)
      OBVIOUS
    <3>. HIDE DEF Bad
    <3>. QED  BY <1>1, <3>1, LeastNumber
  <2>2. m \in 1..n /\ m \notin S /\ m - 1 \in 0..(n - 1) /\ (m - 1) + 1 = m
    BY <2>1
  <2>3. m - 1 \in S
    <3>1. CASE m = 1
      BY <3>1
    <3>2. CASE m # 1
      <4>1. m - 1 \in 1..n /\ m - 1 \notin Bad
        BY <2>1, <2>2, <3>2
      <4>. QED  BY <4>1
    <3>. QED  BY <3>1, <3>2
  <2>. QED  BY <2>2, <2>3
<1>2. ASSUME NEW m \in 0..n PROVE m \in S
  <2>1. CASE m = 0
    BY <2>1
  <2>2. CASE m # 0
    <3>1. m \in 1..n /\ m \notin Bad
      BY <1>1, <2>2
    <3>. QED  BY <3>1
  <2>. QED  BY <2>1, <2>2
<1>. QED  BY <1>2

\* Of two OIDs one comes first: at the first arc in which they differ.
LEMMA LessTotal ==
    ASSUME NEW a \in Oids, NEW b \in Oids, a # b
    PROVE  OidLess(a, b) \/ OidLess(b, a)
<1>. DEFINE D == {i \in 1..Len(a) : i <= Len(b) /\ a[i] # b[i]}
<1>1. /\ Len(a) \in Nat /\ Len(b) \in Nat
      /\ \A j \in 1..Len(a) : a[j] \in Nat
      /\ \A j \in 1..Len(b) : b[j] \in Nat
  BY OidFacts
<1>2. CASE D = {}
  <2>1. \A i \in 1..Len(a) : i <= Len(b) => a[i] = b[i]
    BY <1>2
  <2>2. Len(a) # Len(b)
    <3>1. ASSUME Len(a) = Len(b) PROVE FALSE
      <4>1. \A i \in 1..Len(a) : a[i] = b[i]
        BY <1>1, <2>1, <3>1
      <4>. QED  BY <3>1, <4>1 DEF Oids
    <3>. QED  BY <3>1
  <2>3. CASE Len(a) < Len(b)
    BY <1>1, <2>1, <2>3 DEF OidLess
  <2>4. CASE Len(b) < Len(a)
    BY <1>1, <2>1, <2>4 DEF OidLess
  <2>. QED  BY <1>1, <2>2, <2>3, <2>4
<1>3. CASE D # {}
  <2>1. D \in SUBSET (1..Len(a))
    OBVIOUS
  <2>2. PICK i \in D : \A j \in D : i <= j
    <3>. HIDE DEF D
    <3>. QED  BY <1>1, <1>3, <2>1, LeastNumber
  <2>3. \A j \in 1..(i - 1) : a[j] = b[j]
    BY <1>1, <2>2
  <2>4. a[i] < b[i] \/ b[i] < a[i]
    BY <1>1, <2>2
  <2>5. i \in 1..Len(a) /\ i \in 1..Len(b)
    BY <1>1, <2>2
  <2>. QED  BY <1>1, <2>3, <2>4, <2>5 DEF OidLess
<1>. QED  BY <1>2, <1>3

\* The order of OIDs, as the handlers compare them.
LEMMA LeqOrder ==
    ASSUME NEW a \in Oids, NEW b \in Oids
    PROVE  /\ OidLeq(a, b) \/ OidLess(b, a)
           /\ ~(OidLeq(a, b) /\ OidLess(b, a))
           /\ OidLeq(a, a)
           /\ \A c \in Oids : OidLeq(a, b) /\ OidLeq(b, c) => OidLeq(a, c)
           /\ \A c \in Oids : OidLeq(a, b) /\ OidLess(b, c) => OidLess(a, c)
           /\ \A c \in Oids : OidLess(a, b) /\ OidLeq(b, c) => OidLess(a, c)
BY LessTotal, LessTransitive, LessIrreflexive DEF OidLeq

\* A finite set of OIDs that is not empty has a least, and `Least` is it.
LEMMA LeastOid ==
    ASSUME NEW S \in SUBSET Oids, IsFiniteSet(S), S # {}
    PROVE  Least(S) \in S /\ \A o \in S : OidLeq(Least(S), o)
<1>1. PICK R : R = {r \in Oids \X Oids : OidLeq(r[1], r[2])}
  OBVIOUS
<1>2. \A o, p \in S : <<o, p>> \in R <=> OidLeq(o, p)
  BY <1>1
<1>3. \A x, y \in S : <<x, y>> \in R \/ <<y, x>> \in R
  BY <1>2, LeqOrder DEF OidLeq
<1>4. \A x, y, z \in S : <<x, y>> \in R /\ <<y, z>> \in R => <<x, z>> \in R
  BY <1>2, LeqOrder
<1>5. \E o \in S : \A p \in S : <<o, p>> \in R
  BY <1>3, <1>4, FirstElement
<1>. QED  BY <1>2, <1>5 DEF Least

\* What lies between two OIDs of a subtree lies in it.
LEMMA SubtreeConvex ==
    ASSUME NEW r \in Oids, NEW a \in Oids, NEW x \in Oids, NEW b \in Oids,
           IsPrefix(r, a), OidLess(a, x), OidLess(x, b), IsPrefix(r, b)
    PROVE  IsPrefix(r, x)
<1>0. /\ Len(a) \in Nat /\ Len(b) \in Nat /\ Len(x) \in Nat /\ Len(r) \in Nat
      /\ \A j \in 1..Len(a) : a[j] \in Nat
      /\ \A j \in 1..Len(b) : b[j] \in Nat
      /\ \A j \in 1..Len(x) : x[j] \in Nat
  BY OidFacts
<1>1. /\ Len(r) <= Len(a) /\ \A i \in 1..Len(r) : r[i] = a[i]
      /\ Len(r) <= Len(b) /\ \A i \in 1..Len(r) : r[i] = b[i]
  BY PrefixArcs
<1>2. PICK i \in 1..Len(x) : /\ i <= Len(a) + 1
                             /\ \A j \in 1..(i - 1) : a[j] = x[j]
                             /\ i <= Len(a) => a[i] < x[i]
  BY DEF OidLess
<1>3. PICK k \in 1..Len(b) : /\ k <= Len(x) + 1
                             /\ \A j \in 1..(k - 1) : x[j] = b[j]
                             /\ k <= Len(x) => x[k] < b[k]
  BY DEF OidLess
<1>4. CASE i > Len(r)
  <2>1. Len(r) <= Len(x) /\ \A j \in 1..Len(r) : r[j] = x[j]
    BY <1>0, <1>1, <1>2, <1>4
  <2>. QED  BY <2>1, PrefixArcs
<1>5. CASE k > Len(r)
  <2>1. Len(r) <= Len(x) /\ \A j \in 1..Len(r) : r[j] = x[j]
    BY <1>0, <1>1, <1>3, <1>5
  <2>. QED  BY <2>1, PrefixArcs
<1>6. CASE i <= Len(r) /\ k <= Len(r)
  <2>1. a[i] < x[i] /\ a[i] = b[i]
    BY <1>0, <1>1, <1>2, <1>6
  <2>2. k <= i
    BY <1>0, <1>2, <1>3, <1>6, <2>1
  <2>3. x[k] < b[k] /\ a[k] = b[k] /\ k \in 1..Len(x)
    BY <1>0, <1>1, <1>2, <1>3, <1>6, <2>2
  <2>4. k # i
    BY <1>0, <2>1, <2>3
  <2>5. a[k] = x[k]
    BY <1>0, <1>2, <1>3, <2>2, <2>4
  <2>. QED  BY <1>0, <1>3, <1>2, <2>3, <2>5
<1>. QED  BY <1>0, <1>2, <1>3, <1>4, <1>5, <1>6

\* A proper extension comes after.
LEMMA ExtensionLater ==
    ASSUME NEW r \in Oids, NEW o \in Oids, IsPrefix(r, o), o # r
    PROVE  OidLess(r, o)
<1>1. /\ Len(r) \in Nat /\ Len(o) \in Nat /\ Len(r) <= Len(o)
      /\ \A i \in 1..Len(r) : r[i] = o[i]
  BY OidFacts, PrefixArcs
<1>2. Len(r) # Len(o)
  <2>1. ASSUME Len(r) = Len(o) PROVE FALSE
    <3>1. \A i \in 1..Len(r) : r[i] = o[i]
      BY <1>1
    <3>. QED  BY <2>1, <3>1 DEF Oids
  <2>. QED  BY <2>1
<1>3. Len(r) + 1 \in 1..Len(o)
  BY <1>1, <1>2
<1>. QED  BY <1>1, <1>3 DEF OidLess

\* Subtrees whose roots do not contain each other are ordered like their roots.
LEMMA SubtreesOrdered ==
    ASSUME NEW r \in Oids, NEW q \in Oids, OidLess(r, q), ~IsPrefix(r, q),
           NEW a \in Oids, NEW b \in Oids, IsPrefix(r, a), IsPrefix(q, b)
    PROVE  OidLess(a, b)
<1>0. /\ Len(a) \in Nat /\ Len(b) \in Nat /\ Len(q) \in Nat /\ Len(r) \in Nat
  BY OidFacts
<1>1. /\ Len(r) <= Len(a) /\ \A i \in 1..Len(r) : r[i] = a[i]
      /\ Len(q) <= Len(b) /\ \A i \in 1..Len(q) : q[i] = b[i]
  BY PrefixArcs
<1>2. PICK i \in 1..Len(q) : /\ i <= Len(r) + 1
                             /\ \A j \in 1..(i - 1) : r[j] = q[j]
                             /\ i <= Len(r) => r[i] < q[i]
  BY DEF OidLess
<1>3. i <= Len(r)
  <2>1. ASSUME i = Len(r) + 1 PROVE FALSE
    <3>1. Len(r) <= Len(q) /\ \A j \in 1..Len(r) : r[j] = q[j]
      BY <1>0, <1>2, <2>1
    <3>. QED  BY <3>1, PrefixArcs
  <2>. QED  BY <1>0, <1>2, <2>1
<1>4. /\ i \in 1..Len(b) /\ i <= Len(a) + 1 /\ a[i] < b[i]
      /\ \A j \in 1..(i - 1) : a[j] = b[j]
  BY <1>0, <1>1, <1>2, <1>3
<1>. QED  BY <1>4 DEF OidLess

---------------------------------------------------------------------------
(* Types.                                                                  *)

Bindings == [oid : Oids, value : {"value", "noSuchInstance", "noSuchObject", "endOfMibView"}]

Queries == [kind : {"get", "next", "other"}, vars : Seq(Oids), nonRep : Nat, reps : Nat]

Serving == [kind : {"get", "next", "other"}, vars : Seq(Oids), nonRep : Nat, reps : Nat,
            status : {"noError", "noAccess", "genErr"}, out : Seq(Bindings),
            handler : H, denied : Oids]

Walks == [state : {"done", "walking", "polling"}, root : Oids, reps : Nat, current : Oids,
          seen : SUBSET Oids]

\* The types the model's TypeOK leaves open, that a cached handler holds cells of its
\* own subtree, and that an idle client's serve loop has nothing to answer.
TypeInv ==
    /\ data \in [H -> SUBSET Oids] /\ \A h \in H : data[h] \subseteq Handlers[h].space
    /\ snapshot \in [H -> SUBSET Oids]
    /\ \A h \in H : \/ snapshot[h] = None
                    \/ Kind(h) = "cached" /\ snapshot[h] \subseteq Handlers[h].space
    /\ readable \in Views
    /\ walk \in [Clients -> Walks]
    /\ serve \in [Clients -> Serving]
    /\ named \in [Clients -> SUBSET Oids] /\ stable \in [Clients -> SUBSET Oids]
    /\ quiet \in [Clients -> BOOLEAN] /\ foul \in [Clients -> BOOLEAN]
    /\ \A c \in Clients : walk[c].state = "done" => serve[c] = Idle
    /\ \A c \in Clients : serve[c].kind = "get" => Len(serve[c].out) <= Len(serve[c].vars)

\* The handlers, and the instances under them.
LEMMA HandlerFacts ==
    /\ H = 1..Len(Handlers) /\ Len(Handlers) \in Nat /\ 1 \in H
    /\ \A h \in H : /\ Handlers[h].root \in Oids
                    /\ Handlers[h].space \subseteq Oids /\ Absent \notin Handlers[h].space
                    /\ \A o \in Handlers[h].space : IsPrefix(Handlers[h].root, o)
                    /\ Kind(h) \in {"live", "cached", "foreign"}
<1>1. H = 1..Len(Handlers) /\ Len(Handlers) \in Nat /\ 1 \in H
  BY HandlersAssumption DEF H
<1>. DEFINE R == [root : Oids, kind : {"live", "cached", "foreign"}, space : SUBSET Oids]
<1>2. \A h \in H : Handlers[h] \in R
  <2>1. Handlers \in Seq(R)
    BY HandlersAssumption
  <2>. HIDE DEF R
  <2>. QED  BY <2>1 DEF H
<1>3. ASSUME NEW h \in H
      PROVE  /\ Handlers[h].root \in Oids
             /\ Handlers[h].space \subseteq Oids /\ Absent \notin Handlers[h].space
             /\ \A o \in Handlers[h].space : IsPrefix(Handlers[h].root, o)
             /\ Kind(h) \in {"live", "cached", "foreign"}
  BY <1>2, HandlersAssumption DEF Kind
<1>. QED  BY <1>1, <1>3

\* The value that stands for a handler's None is an OID no instance has.
LEMMA EmptyOid == Absent \in Oids
BY DEF Absent, Oids

\* The cells a handler works on are instances of its subtree.
LEMMA CellsInSpace ==
    ASSUME TypeInv, NEW h \in H
    PROVE  Cells(h) \subseteq Handlers[h].space
BY DEF TypeInv, Cells

\* What get_next may answer.
LEMMA GetNextAnswers ==
    ASSUME TypeInv, NEW h \in H, NEW at \in Oids, NEW answer \in GetNext(h, at)
    PROVE  /\ answer \in Oids
           /\ \/ Kind(h) = "foreign"
              \/ /\ Kind(h) # "foreign" /\ answer = Absent
                 /\ \A o \in Cells(h) : ~OidLess(at, o)
              \/ /\ Kind(h) # "foreign" /\ answer \in Cells(h) /\ OidLess(at, answer)
                 /\ \A o \in Cells(h) : OidLess(at, o) => OidLeq(answer, o)
<1>. DEFINE after == {o \in Cells(h) : OidLess(at, o)}
<1>1. CASE Kind(h) = "foreign"
  BY <1>1, EmptyOid, HandlersAssumption DEF GetNext
<1>2. CASE Kind(h) # "foreign"
  <2>1. Cells(h) \subseteq Handlers[h].space /\ Handlers[h].space \subseteq Oids
    BY CellsInSpace, HandlerFacts
  <2>2. IsFiniteSet(after)
    <3>1. after \subseteq UNION {Handlers[g].space : g \in H}
      BY <2>1
    <3>. QED  BY <3>1, HandlersAssumption, FS_Subset
  <2>3. CASE after = {}
    BY <1>2, <2>3, EmptyOid DEF GetNext
  <2>4. CASE after # {}
    <3>1. answer = Least(after)
      BY <1>2, <2>4 DEF GetNext
    <3>2. after \in SUBSET Oids
      BY <2>1
    <3>3. Least(after) \in after /\ \A o \in after : OidLeq(Least(after), o)
      <4>. HIDE DEF after
      <4>. QED  BY <2>2, <2>4, <3>2, LeastOid
    <3>. QED  BY <1>2, <2>1, <3>1, <3>3
  <2>. QED  BY <2>3, <2>4
<1>. QED  BY <1>1, <1>2

\* What min gives process_bulk for its non-repeaters.
LEMMA MinOfTwo ==
    ASSUME NEW a \in Nat, NEW b \in Nat
    PROVE  Min({a, b}) \in {a, b} /\ Min({a, b}) <= a /\ Min({a, b}) <= b
<1>1. \E x \in {a, b} : \A y \in {a, b} : x <= y
  BY a <= b \/ b <= a
<1>. QED  BY <1>1 DEF Min

\* A request is made of non-repeaters and repeaters.
LEMMA RequestShape ==
    ASSUME NEW q \in Serving
    PROVE  /\ NonRepeaters(q) \in Nat /\ Repeaters(q) \in Nat
           /\ NonRepeaters(q) + Repeaters(q) = Len(q.vars)
<1>1. q.nonRep \in Nat /\ Len(q.vars) \in Nat
  BY DEF Serving
<1>. QED  BY <1>1, MinOfTwo DEF NonRepeaters, Repeaters

\* The cursor of a request that is not done: a variable of the request, or an OID it
\* was answered with.
LEMMA CursorFrom ==
    ASSUME NEW q \in Serving, q.kind = "next", ~Done(q)
    PROVE  /\ \/ Cursor(q, q.out) \in Range(q.vars)
              \/ \E i \in DOMAIN q.out : Cursor(q, q.out) = q.out[i].oid
           /\ Cursor(q, q.out) \in Oids
<1>. DEFINE n == NonRepeaters(q)
            r == Repeaters(q)
            k == Len(q.out) + 1
<1>1. n \in Nat /\ r \in Nat /\ n + r = Len(q.vars)
  BY RequestShape
<1>2. Len(q.out) \in Nat /\ Len(q.vars) \in Nat /\ q.out \in Seq(Bindings) /\ q.vars \in Seq(Oids)
  BY DEF Serving
<1>3. ~Exhausted(q, q.out)
  BY DEF Done
<1>4. CASE k <= Len(q.vars)
  <2>1. Cursor(q, q.out) = q.vars[k] /\ k \in DOMAIN q.vars
    BY <1>2, <1>4 DEF Cursor
  <2>. QED  BY <1>2, <2>1 DEF Range
<1>5. CASE k > Len(q.vars)
  <2>1. r # 0
    BY <1>1, <1>2, <1>3, <1>5 DEF Exhausted
  <2>2. Cursor(q, q.out) = q.out[k - r].oid
    BY <1>2, <1>5 DEF Cursor
  <2>3. k - r \in DOMAIN q.out
    BY <1>1, <1>2, <1>5, <2>1
  <2>4. q.out[k - r] \in Bindings
    BY <1>2, <2>3
  <2>. QED  BY <2>2, <2>3, <2>4 DEF Bindings
<1>. QED  BY <1>2, <1>4, <1>5

\* The search goes on from an OID.
LEMMA AtType ==
    ASSUME NEW q \in Serving, q.kind = "next", ~Done(q)
    PROVE  At(q) \in Oids
BY CursorFrom DEF At, Serving

\* What appending a varbind makes of the request.
LEMMA AnsweredFields ==
    ASSUME NEW s \in Serving, NEW vb \in Bindings
    PROVE  /\ Answered(s, vb) \in Serving
           /\ Answered(s, vb).kind = s.kind /\ Answered(s, vb).vars = s.vars
           /\ Answered(s, vb).nonRep = s.nonRep /\ Answered(s, vb).reps = s.reps
           /\ Answered(s, vb).status = s.status
           /\ Answered(s, vb).out = Append(s.out, vb)
           /\ Answered(s, vb).handler = 1 /\ Answered(s, vb).denied = Absent
<1>1. s.out \in Seq(Bindings)
  BY DEF Serving
<1>2. Append(s.out, vb) \in Seq(Bindings) /\ 1 \in H /\ Absent \in Oids
  <2>. HIDE DEF Bindings
  <2>. QED  BY <1>1, HandlerFacts, EmptyOid
<1>. QED  BY <1>2 DEF Answered, Serving

\* The three things do_get_next_accessible does with an answer.
LEMMA AdvanceCases ==
    ASSUME NEW s \in Serving, s.kind = "next", ~Done(s), NEW answer \in Oids
    PROVE  \/ /\ answer = Absent /\ s.handler # Len(Handlers)
              /\ Advance(s, s.handler, answer) = [s EXCEPT !.handler = s.handler + 1]
           \/ /\ answer = Absent /\ s.handler = Len(Handlers)
              /\ Advance(s, s.handler, answer) = Answered(s, EndOfMibView(Cursor(s, s.out)))
           \/ /\ answer # Absent /\ answer \in readable
              /\ Advance(s, s.handler, answer) = Answered(s, VarBind(answer, "value"))
           \/ /\ answer # Absent /\ answer \notin readable /\ OidLeq(answer, At(s))
              /\ Advance(s, s.handler, answer) = Answered(s, EndOfMibView(Cursor(s, s.out)))
           \/ /\ answer # Absent /\ answer \notin readable /\ ~OidLeq(answer, At(s))
              /\ Advance(s, s.handler, answer) = [s EXCEPT !.handler = 1, !.denied = answer]
BY DEF Advance

\* Whatever do_get_next_accessible makes of an answer is a request again.
LEMMA AdvanceType ==
    ASSUME NEW s \in Serving, s.kind = "next", ~Done(s), NEW answer \in Oids
    PROVE  /\ Advance(s, s.handler, answer) \in Serving
           /\ Advance(s, s.handler, answer).kind = s.kind
           /\ Advance(s, s.handler, answer).vars = s.vars
<1>. DEFINE t == Advance(s, s.handler, answer)
            e == EndOfMibView(Cursor(s, s.out))
            v == VarBind(answer, "value")
<1>1. e \in Bindings /\ v \in Bindings
  BY CursorFrom DEF EndOfMibView, VarBind, Bindings
<1>. HIDE DEF e, v
<1>2. /\ Answered(s, e) \in Serving /\ Answered(s, e).kind = s.kind /\ Answered(s, e).vars = s.vars
      /\ Answered(s, v) \in Serving /\ Answered(s, v).kind = s.kind /\ Answered(s, v).vars = s.vars
  BY <1>1, AnsweredFields
<1>3. s.handler \in 1..Len(Handlers) /\ H = 1..Len(Handlers) /\ Len(Handlers) \in Nat /\ 1 \in H
  BY HandlerFacts DEF Serving
<1>4. s.handler # Len(Handlers) => s.handler + 1 \in H
  BY <1>3
<1>5. \/ s.handler # Len(Handlers) /\ t = [s EXCEPT !.handler = s.handler + 1]
      \/ t = Answered(s, e) \/ t = Answered(s, v)
      \/ t = [s EXCEPT !.handler = 1, !.denied = answer]
  BY AdvanceCases DEF e, v
<1>6. CASE s.handler # Len(Handlers) /\ t = [s EXCEPT !.handler = s.handler + 1]
  <2>1. s.handler + 1 \in H
    BY <1>4, <1>6
  <2>2. /\ [s EXCEPT !.handler = s.handler + 1] \in Serving
        /\ [s EXCEPT !.handler = s.handler + 1].kind = s.kind
        /\ [s EXCEPT !.handler = s.handler + 1].vars = s.vars
    BY <2>1 DEF Serving
  <2>. QED  BY <1>6, <2>2
<1>7. CASE t = [s EXCEPT !.handler = 1, !.denied = answer]
  <2>1. /\ [s EXCEPT !.handler = 1, !.denied = answer] \in Serving
        /\ [s EXCEPT !.handler = 1, !.denied = answer].kind = s.kind
        /\ [s EXCEPT !.handler = 1, !.denied = answer].vars = s.vars
    BY <1>3 DEF Serving
  <2>. QED  BY <1>7, <2>1
<1>. QED  BY <1>2, <1>5, <1>6, <1>7

\* A request begins unanswered.
LEMMA RequestType ==
    ASSUME NEW q \in Queries
    PROVE  /\ Request(q) \in Serving
           /\ Request(q).kind = q.kind /\ Request(q).vars = q.vars
           /\ Request(q).nonRep = q.nonRep /\ Request(q).reps = q.reps
           /\ Request(q).out = <<>> /\ Request(q).denied = Absent /\ Request(q).handler = 1
           /\ q.kind # "other" => Request(q).status = "noError"
<1>1. <<>> \in Seq(Bindings) /\ 1 \in H /\ Absent \in Oids
  BY HandlerFacts, EmptyOid
<1>. QED  BY <1>1 DEF Request, Serving, Queries

\* A serve loop without a request has nothing left to answer.
LEMMA IdleType == Idle \in Serving /\ Idle.kind = "get" /\ Idle.out = <<>> /\ Idle.vars = <<>>
                  /\ Idle.status = "noError" /\ Done(Idle)
<1>1. PICK q : q = [kind |-> "get", vars |-> <<>>, nonRep |-> 0, reps |-> 0]
  OBVIOUS
<1>2. q \in Queries /\ q.kind = "get" /\ q.vars = <<>>
  BY <1>1 DEF Queries
<1>3. /\ Request(q) \in Serving
      /\ Request(q).kind = q.kind /\ Request(q).vars = q.vars
      /\ Request(q).out = <<>> /\ Request(q).status = "noError"
  BY <1>2, RequestType
<1>4. Idle = Request(q)
  BY <1>1 DEF Idle
<1>. QED  BY <1>2, <1>3, <1>4 DEF Done

\* The request a walk sends.
LEMMA WalkRequestType ==
    ASSUME NEW w \in Walks
    PROVE  /\ WalkRequest(w) \in Queries
           /\ WalkRequest(w).kind = "next" /\ WalkRequest(w).vars = <<w.current>>
           /\ w.reps = 0 => WalkRequest(w).nonRep = 1 /\ WalkRequest(w).reps = 0
           /\ w.reps # 0 => WalkRequest(w).nonRep = 0 /\ WalkRequest(w).reps = w.reps
<1>1. w.current \in Oids /\ w.reps \in Nat
  BY DEF Walks
<1>2. <<w.current>> \in Seq(Oids) /\ Len(<<w.current>>) = 1
  BY <1>1
<1>3. CASE w.reps = 0
  BY <1>1, <1>2, <1>3 DEF WalkRequest, NextOf, Queries
<1>4. CASE w.reps # 0
  BY <1>1, <1>2, <1>4 DEF WalkRequest, BulkOf, Queries
<1>. QED  BY <1>3, <1>4

\* A client between two walks.
LEMMA NoWalkType ==
    /\ NoWalk \in Walks /\ [NoWalk EXCEPT !.state = "polling"] \in Walks
    /\ \A seen \in SUBSET Oids : [NoWalk EXCEPT !.seen = seen] \in Walks
BY EmptyOid DEF NoWalk, Walks, Absent

\* A handler call leaves its subtree's cells in the cache.
LEMMA SnapshotType ==
    ASSUME TypeInv, NEW h \in H, Snapshot(h)
    PROVE  /\ snapshot' \in [H -> SUBSET Oids]
           /\ \A g \in H : \/ snapshot'[g] = None
                           \/ Kind(g) = "cached" /\ snapshot'[g] \subseteq Handlers[g].space
<1>1. Cells(h) \subseteq Handlers[h].space /\ Handlers[h].space \subseteq Oids
  BY CellsInSpace, HandlerFacts
<1>2. snapshot \in [H -> SUBSET Oids]
  BY DEF TypeInv
<1>3. CASE Kind(h) = "cached"
  <2>1. snapshot' = [snapshot EXCEPT ![h] = Cells(h)]
    BY <1>3 DEF Snapshot
  <2>. QED  BY <1>1, <1>2, <1>3, <2>1 DEF TypeInv
<1>4. CASE Kind(h) # "cached"
  BY <1>4 DEF Snapshot, TypeInv
<1>. QED  BY <1>3, <1>4

\* The types, action by action.
LEMMA InitTypeInv == Init => TypeInv
<1>. SUFFICES ASSUME Init PROVE TypeInv
  OBVIOUS
<1>1. /\ data \in [H -> SUBSET Oids] /\ \A h \in H : data[h] \subseteq Handlers[h].space
  BY HandlerFacts DEF Init
<1>2. /\ snapshot \in [H -> SUBSET Oids] /\ \A h \in H : snapshot[h] = None
  BY EmptyOid DEF Init, None, Absent
<1>3. walk \in [Clients -> Walks] /\ serve \in [Clients -> Serving]
  BY NoWalkType, IdleType DEF Init
<1>4. \A c \in Clients : serve[c] = Idle
  BY DEF Init
<1>5. Len(Idle.out) <= Len(Idle.vars)
  BY IdleType
<1>. QED  BY <1>1, <1>2, <1>3, <1>4, <1>5 DEF Init, TypeInv

\* One client's request changes.
LEMMA ServeTypeInv ==
    ASSUME TypeInv, NEW c \in Clients, walk[c].state # "done", NEW t \in Serving,
           t.kind = "get" => Len(t.out) <= Len(t.vars),
           serve' = [serve EXCEPT ![c] = t],
           snapshot' \in [H -> SUBSET Oids],
           \A g \in H : \/ snapshot'[g] = None
                        \/ Kind(g) = "cached" /\ snapshot'[g] \subseteq Handlers[g].space,
           quiet' \in [Clients -> BOOLEAN], foul' \in [Clients -> BOOLEAN],
           UNCHANGED <<data, readable, walk, stable, named>>
    PROVE  TypeInv'
<1>1. serve' \in [Clients -> Serving]
  BY DEF TypeInv
<1>2. \A d \in Clients : d # c => serve'[d] = serve[d]
  BY DEF TypeInv
<1>3. serve'[c] = t
  BY DEF TypeInv
<1>4. \A d \in Clients : walk'[d].state = "done" => serve'[d] = Idle
  BY <1>2 DEF TypeInv
<1>5. \A d \in Clients : serve'[d].kind = "get" => Len(serve'[d].out) <= Len(serve'[d].vars)
  BY <1>2, <1>3 DEF TypeInv
<1>. QED  BY <1>1, <1>4, <1>5 DEF TypeInv, Kind

\* A client with nothing to be answered is idle.
LEMMA ServingBusy ==
    ASSUME TypeInv, NEW c \in Clients, ~Done(serve[c])
    PROVE  walk[c].state # "done"
BY IdleType DEF TypeInv

\* One get_next call.
LEMMA SearchNextTypeInv ==
    ASSUME TypeInv, NEW c \in Clients, SearchNext(c)
    PROVE  TypeInv'
<1>. DEFINE s == serve[c]
            h == serve[c].handler
<1>1. s \in Serving /\ h \in H
  BY DEF TypeInv, Serving
<1>2. /\ s.kind = "next" /\ ~Done(s) /\ Snapshot(h)
      /\ UNCHANGED <<data, readable, walk, stable, named>>
  BY DEF SearchNext
<1>3. PICK answer \in GetNext(h, At(s)) :
        /\ serve' = [serve EXCEPT ![c] = Advance(s, h, answer)]
        /\ foul' = [foul EXCEPT ![c] = foul[c] \/ Misleads(h, At(s), answer)]
        /\ quiet' = [quiet EXCEPT ![c] = quiet[c] /\ (Kind(h) = "foreign" => answer = Absent)]
  BY DEF SearchNext
<1>4. answer \in Oids
  BY <1>1, <1>2, AtType, GetNextAnswers
<1>5. Advance(s, h, answer) \in Serving /\ Advance(s, h, answer).kind = "next"
  BY <1>1, <1>2, <1>4, AdvanceType
<1>6. quiet' \in [Clients -> BOOLEAN] /\ foul' \in [Clients -> BOOLEAN]
  BY <1>3 DEF TypeInv
<1>7. /\ snapshot' \in [H -> SUBSET Oids]
      /\ \A g \in H : \/ snapshot'[g] = None
                      \/ Kind(g) = "cached" /\ snapshot'[g] \subseteq Handlers[g].space
  BY <1>1, <1>2, SnapshotType
<1>. QED  BY <1>2, <1>3, <1>5, <1>6, <1>7, ServingBusy, ServeTypeInv

\* What one variable of a GET becomes.
LEMMA GetOneCases ==
    ASSUME TypeInv, NEW c \in Clients, GetOne(c)
    PROVE  \E t \in Serving :
             /\ serve' = [serve EXCEPT ![c] = t]
             /\ t.kind = "get" /\ t.vars = serve[c].vars
             /\ \/ t.out = <<>>
                \/ \E v \in {"value", "noSuchInstance", "noSuchObject"} :
                     t.out = Append(serve[c].out,
                                    VarBind(serve[c].vars[Len(serve[c].out) + 1], v))
<1>. DEFINE s == serve[c]
            oid == s.vars[Len(s.out) + 1]
<1>1. s \in Serving /\ s.kind = "get" /\ ~Done(s) /\ Len(s.out) <= Len(s.vars)
  BY DEF TypeInv, GetOne
<1>2. /\ s.vars \in Seq(Oids) /\ Len(s.vars) \in Nat /\ Len(s.out) \in Nat
      /\ Len(s.out) # Len(s.vars)
  BY <1>1 DEF Serving, Done
<1>3. oid \in Oids
  BY <1>1, <1>2
<1>4. \/ serve' = [serve EXCEPT ![c].status = "noAccess", ![c].out = <<>>]
      \/ \E v \in {"value", "noSuchInstance", "noSuchObject"} :
           serve' = [serve EXCEPT ![c] = Answered(s, VarBind(oid, v))]
  BY DEF GetOne, Get
<1>5. CASE serve' = [serve EXCEPT ![c].status = "noAccess", ![c].out = <<>>]
  <2>1. PICK t : t = [s EXCEPT !.status = "noAccess", !.out = <<>>]
    OBVIOUS
  <2>2. t \in Serving /\ t.kind = "get" /\ t.vars = s.vars /\ t.out = <<>>
    <3>1. <<>> \in Seq(Bindings)
      OBVIOUS
    <3>. QED  BY <1>1, <2>1, <3>1 DEF Serving
  <2>3. serve' = [serve EXCEPT ![c] = t]
    BY <1>5, <2>1 DEF TypeInv
  <2>. QED  BY <2>2, <2>3
<1>6. ASSUME NEW v \in {"value", "noSuchInstance", "noSuchObject"},
             serve' = [serve EXCEPT ![c] = Answered(s, VarBind(oid, v))]
      PROVE  \E t \in Serving :
             /\ serve' = [serve EXCEPT ![c] = t]
             /\ t.kind = "get" /\ t.vars = s.vars
             /\ t.out = Append(s.out, VarBind(oid, v))
  <2>1. VarBind(oid, v) \in Bindings
    BY <1>3 DEF VarBind, Bindings
  <2>2. /\ Answered(s, VarBind(oid, v)) \in Serving
        /\ Answered(s, VarBind(oid, v)).kind = s.kind /\ Answered(s, VarBind(oid, v)).vars = s.vars
        /\ Answered(s, VarBind(oid, v)).out = Append(s.out, VarBind(oid, v))
    BY <1>1, <2>1, AnsweredFields
  <2>. QED  BY <1>1, <1>6, <2>2
<1>. QED  BY <1>4, <1>5, <1>6

\* One variable of a GET.
LEMMA GetOneTypeInv ==
    ASSUME TypeInv, NEW c \in Clients, GetOne(c)
    PROVE  TypeInv'
<1>1. PICK t \in Serving :
             /\ serve' = [serve EXCEPT ![c] = t]
             /\ t.kind = "get" /\ t.vars = serve[c].vars
             /\ \/ t.out = <<>>
                \/ \E v \in {"value", "noSuchInstance", "noSuchObject"} :
                     t.out = Append(serve[c].out,
                                    VarBind(serve[c].vars[Len(serve[c].out) + 1], v))
  BY GetOneCases
<1>2. /\ serve[c].out \in Seq(Bindings) /\ Len(serve[c].out) \in Nat
      /\ Len(serve[c].vars) \in Nat /\ Len(serve[c].out) <= Len(serve[c].vars)
      /\ Len(serve[c].out) # Len(serve[c].vars) /\ ~Done(serve[c])
  <2>1. serve[c] \in Serving /\ serve[c].kind = "get" /\ ~Done(serve[c])
    BY DEF TypeInv, GetOne
  <2>2. Len(serve[c].out) <= Len(serve[c].vars)
    BY <2>1 DEF TypeInv
  <2>3. /\ serve[c].out \in Seq(Bindings) /\ serve[c].vars \in Seq(Oids)
        /\ Len(serve[c].out) # Len(serve[c].vars)
    BY <2>1 DEF Serving, Done
  <2>. QED  BY <2>1, <2>2, <2>3
<1>3. Len(t.out) <= Len(t.vars)
  <2>1. CASE t.out = <<>>
    BY <1>1, <1>2, <2>1
  <2>2. ASSUME NEW vb, t.out = Append(serve[c].out, vb) PROVE Len(t.out) = Len(serve[c].out) + 1
    BY <1>2, <2>2
  <2>. QED  BY <1>1, <1>2, <2>1, <2>2
<1>4. /\ snapshot' \in [H -> SUBSET Oids]
      /\ \A g \in H : \/ snapshot'[g] = None
                      \/ Kind(g) = "cached" /\ snapshot'[g] \subseteq Handlers[g].space
  <2>1. \/ snapshot' = snapshot \/ \E h \in H : Snapshot(h)
    BY DEF GetOne, HandlerFor
  <2>2. CASE snapshot' = snapshot
    BY <2>2 DEF TypeInv
  <2>. QED  BY <2>1, <2>2, SnapshotType
<1>5. quiet' \in [Clients -> BOOLEAN] /\ foul' \in [Clients -> BOOLEAN]
  BY DEF GetOne, TypeInv
<1>6. UNCHANGED <<data, readable, walk, stable, named>>
  BY DEF GetOne
<1>. QED  BY <1>1, <1>2, <1>3, <1>4, <1>5, <1>6, ServingBusy, ServeTypeInv

\* A client sends a request, as part of the walk w.
LEMMA SendTypeInv ==
    ASSUME TypeInv, NEW c \in Clients, NEW q \in Queries, Send(c, q),
           NEW w \in Walks, w.state # "done", walk' = [walk EXCEPT ![c] = w],
           stable' \in [Clients -> SUBSET Oids], foul' = foul,
           UNCHANGED mib
    PROVE  TypeInv'
<1>1. serve' = [serve EXCEPT ![c] = Request(q)] /\ Request(q) \in Serving /\ Request(q).out = <<>>
  BY RequestType DEF Send
<1>2. /\ walk' \in [Clients -> Walks] /\ walk'[c] = w
      /\ \A d \in Clients : d # c => walk'[d] = walk[d]
  BY DEF TypeInv
<1>3. /\ serve' \in [Clients -> Serving] /\ serve'[c] = Request(q)
      /\ \A d \in Clients : d # c => serve'[d] = serve[d]
  BY <1>1 DEF TypeInv
<1>4. \A d \in Clients : walk'[d].state = "done" => serve'[d] = Idle
  BY <1>2, <1>3 DEF TypeInv
<1>5. \A d \in Clients : serve'[d].kind = "get" => Len(serve'[d].out) <= Len(serve'[d].vars)
  <2>1. Len(serve'[c].out) <= Len(serve'[c].vars)
    <3>1. serve'[c].vars \in Seq(Oids) /\ Len(serve'[c].out) = 0
      BY <1>1, <1>3 DEF Serving
    <3>. QED  BY <3>1
  <2>. QED  BY <1>3, <2>1 DEF TypeInv
<1>6. named' \in [Clients -> SUBSET Oids] /\ quiet' \in [Clients -> BOOLEAN]
  BY InputsAssumption DEF Send, TypeInv
<1>. QED  BY <1>2, <1>3, <1>4, <1>5, <1>6 DEF TypeInv, mib, Kind

\* A client is done with its request.
LEMMA FinishTypeInv ==
    ASSUME TypeInv, NEW c \in Clients, NEW w \in Walks, walk' = [walk EXCEPT ![c] = w],
           Finish(c), UNCHANGED mib
    PROVE  TypeInv'
<1>1. serve' = [serve EXCEPT ![c] = Idle] /\ Idle \in Serving /\ Len(Idle.out) <= Len(Idle.vars)
  BY IdleType DEF Finish
<1>2. /\ walk' \in [Clients -> Walks]
      /\ \A d \in Clients : d # c => walk'[d] = walk[d]
  BY DEF TypeInv
<1>3. /\ serve' \in [Clients -> Serving] /\ serve'[c] = Idle
      /\ \A d \in Clients : d # c => serve'[d] = serve[d]
  BY <1>1 DEF TypeInv
<1>4. \A d \in Clients : walk'[d].state = "done" => serve'[d] = Idle
  BY <1>2, <1>3 DEF TypeInv
<1>5. \A d \in Clients : serve'[d].kind = "get" => Len(serve'[d].out) <= Len(serve'[d].vars)
  BY <1>1, <1>3 DEF TypeInv
<1>6. /\ named' \in [Clients -> SUBSET Oids] /\ quiet' \in [Clients -> BOOLEAN]
      /\ stable' \in [Clients -> SUBSET Oids] /\ foul' \in [Clients -> BOOLEAN]
  BY DEF Finish, TypeInv
<1>. QED  BY <1>2, <1>3, <1>4, <1>5, <1>6 DEF TypeInv, mib, Kind

\* The walk a client starts.
LEMMA StartWalkStep ==
    ASSUME TypeInv, NEW c \in Clients, StartWalk(c)
    PROVE  \E w \in Walks :
             /\ w.state = "walking" /\ w.current = w.root /\ w.seen = {}
             /\ walk' = [walk EXCEPT ![c] = w]
             /\ Send(c, WalkRequest(w))
             /\ stable' = [stable EXCEPT ![c] =
                   {o \in Visible(data, snapshot, readable) : IsPrefix(w.root, o) /\ o # w.root}]
<1>1. PICK root \in WalkRoots, reps \in 0..MaxReps :
         LET w == [state |-> "walking", root |-> root, reps |-> reps,
                   current |-> root, seen |-> {}]
         IN  /\ walk' = [walk EXCEPT ![c] = w]
             /\ Send(c, WalkRequest(w))
             /\ stable' = [stable EXCEPT ![c] =
                   {o \in Visible(data, snapshot, readable) : IsPrefix(root, o) /\ o # root}]
  BY DEF StartWalk
<1>2. PICK w : w = [state |-> "walking", root |-> root, reps |-> reps,
                    current |-> root, seen |-> {}]
  OBVIOUS
<1>3. w \in Walks /\ w.state = "walking" /\ w.current = w.root /\ w.seen = {} /\ w.root = root
  BY <1>2, InputsAssumption DEF Walks
<1>. QED  BY <1>1, <1>2, <1>3

\* walk_each and bulk_walk_each begin.
LEMMA StartWalkTypeInv ==
    ASSUME TypeInv, NEW c \in Clients, StartWalk(c)
    PROVE  TypeInv'
<1>1. PICK w \in Walks :
             /\ w.state = "walking" /\ w.current = w.root /\ w.seen = {}
             /\ walk' = [walk EXCEPT ![c] = w]
             /\ Send(c, WalkRequest(w))
             /\ stable' = [stable EXCEPT ![c] =
                   {o \in Visible(data, snapshot, readable) : IsPrefix(w.root, o) /\ o # w.root}]
  BY StartWalkStep
<1>2. WalkRequest(w) \in Queries
  BY WalkRequestType
<1>3. stable' \in [Clients -> SUBSET Oids]
  <2>1. readable \subseteq Oids
    BY InputsAssumption DEF TypeInv
  <2>2. Visible(data, snapshot, readable) \subseteq Oids
    BY <2>1 DEF Visible
  <2>. QED  BY <1>1, <2>2 DEF TypeInv
<1>4. UNCHANGED mib /\ foul' = foul
  BY DEF StartWalk, mib
<1>. QED  BY <1>1, <1>2, <1>3, <1>4, SendTypeInv

\* A single request is sent.
LEMMA PollTypeInv ==
    ASSUME TypeInv, NEW c \in Clients, Poll(c)
    PROVE  TypeInv'
<1>1. PICK q \in Polls : Send(c, q)
  BY DEF Poll
<1>2. q \in Queries
  BY InputsAssumption DEF Queries
<1>3. PICK w : w = [NoWalk EXCEPT !.state = "polling"]
  OBVIOUS
<1>4. w \in Walks /\ w.state # "done"
  BY <1>3, NoWalkType DEF NoWalk
<1>5. /\ walk' = [walk EXCEPT ![c] = w] /\ stable' \in [Clients -> SUBSET Oids] /\ foul' = foul
      /\ UNCHANGED mib
  BY <1>3 DEF Poll, TypeInv, mib
<1>. QED  BY <1>1, <1>2, <1>4, <1>5, SendTypeInv

\* The three things a client does with an answer: a single request is over, a walk ends
\* with the first n varbinds of the answer, or it goes on from the last of them.
LEMMA ReplyCases ==
    ASSUME TypeInv, NEW c \in Clients, Reply(c)
    PROVE  /\ UNCHANGED mib /\ walk[c].state # "done" /\ Done(serve[c])
           /\ \/ /\ walk[c].state = "polling" /\ Finish(c)
                 /\ \E w \in Walks : walk' = [walk EXCEPT ![c] = w] /\ w.state = "done"
              \/ /\ walk[c].state = "walking"
                 /\ \E n \in 0..Len(serve[c].out), seen \in SUBSET Oids, w \in Walks :
                      /\ Takes(walk[c], serve[c].out, n)
                      /\ seen = walk[c].seen \cup {serve[c].out[i].oid : i \in 1..n}
                      /\ w.seen = seen /\ walk' = [walk EXCEPT ![c] = w]
                      /\ \/ /\ n < Len(serve[c].out) \/ n = 0
                            /\ w.state = "done" /\ Finish(c)
                         \/ /\ n = Len(serve[c].out) /\ n > 0
                            /\ w.state = "walking" /\ w.root = walk[c].root
                            /\ w.current = serve[c].out[n].oid /\ w.reps = walk[c].reps
                            /\ Send(c, WalkRequest(w)) /\ UNCHANGED <<stable, foul>>
<1>. DEFINE v == walk[c]
            out == serve[c].out
<1>1. UNCHANGED mib /\ v.state # "done" /\ Done(serve[c])
  BY DEF Reply
<1>2. v \in Walks /\ out \in Seq(Bindings)
  BY DEF TypeInv, Serving
<1>3. CASE v.state = "polling"
  <2>1. walk' = [walk EXCEPT ![c] = NoWalk] /\ Finish(c)
    BY <1>3 DEF Reply
  <2>. QED  BY <1>1, <1>3, <2>1, NoWalkType DEF NoWalk
<1>4. CASE v.state = "walking"
  <2>1. PICK n \in 0..Len(out) :
          /\ Takes(v, out, n)
          /\ LET seen == v.seen \cup {out[i].oid : i \in 1..n}
                 onward == [v EXCEPT !.seen = seen, !.current = out[n].oid]
             IN  \/ /\ n < Len(out) \/ n = 0
                    /\ walk' = [walk EXCEPT ![c] = [NoWalk EXCEPT !.seen = seen]]
                    /\ Finish(c)
                 \/ /\ n = Len(out) /\ n > 0
                    /\ walk' = [walk EXCEPT ![c] = onward]
                    /\ Send(c, WalkRequest(onward))
                    /\ UNCHANGED <<stable, foul>>
    BY <1>4 DEF Reply
  <2>2. PICK seen : seen = v.seen \cup {out[i].oid : i \in 1..n}
    OBVIOUS
  <2>3. \A i \in 1..n : out[i] \in Bindings
    <3>. HIDE DEF Bindings
    <3>. QED  BY <1>2, <2>1
  <2>4. seen \in SUBSET Oids
    BY <1>2, <2>2, <2>3 DEF Walks, Bindings
  <2>5. CASE /\ n < Len(out) \/ n = 0
             /\ walk' = [walk EXCEPT ![c] = [NoWalk EXCEPT !.seen = seen]] /\ Finish(c)
    <3>1. PICK w : w = [NoWalk EXCEPT !.seen = seen]
      OBVIOUS
    <3>2. w \in Walks /\ w.seen = seen /\ w.state = "done"
      BY <2>4, <3>1, NoWalkType DEF NoWalk
    <3>3. walk' = [walk EXCEPT ![c] = w]
      BY <2>5, <3>1
    <3>. QED  BY <1>1, <1>4, <2>1, <2>2, <2>4, <2>5, <3>2, <3>3
  <2>6. ASSUME NEW w, w = [v EXCEPT !.seen = seen, !.current = out[n].oid],
               n = Len(out), n > 0, walk' = [walk EXCEPT ![c] = w],
               Send(c, WalkRequest(w)), UNCHANGED <<stable, foul>>
        PROVE  /\ w \in Walks /\ w.seen = seen /\ w.state = "walking" /\ w.root = v.root
               /\ w.current = out[n].oid /\ w.reps = v.reps
    <3>1. out[n].oid \in Oids
      BY <2>3, <2>6 DEF Bindings
    <3>. QED  BY <1>2, <1>4, <2>4, <2>6, <3>1 DEF Walks
  <2>7. CASE ~ /\ n < Len(out) \/ n = 0
               /\ walk' = [walk EXCEPT ![c] = [NoWalk EXCEPT !.seen = seen]] /\ Finish(c)
    <3>1. PICK w : w = [v EXCEPT !.seen = seen, !.current = out[n].oid]
      OBVIOUS
    <3>2. /\ n = Len(out) /\ n > 0 /\ walk' = [walk EXCEPT ![c] = w]
          /\ Send(c, WalkRequest(w)) /\ UNCHANGED <<stable, foul>>
      BY <2>1, <2>2, <2>7, <3>1
    <3>3. /\ w \in Walks /\ w.seen = seen /\ w.state = "walking" /\ w.root = v.root
          /\ w.current = out[n].oid /\ w.reps = v.reps
      BY <2>6, <3>1, <3>2
    <3>. QED  BY <1>1, <1>4, <2>1, <2>2, <2>4, <3>2, <3>3
  <2>. QED  BY <2>5, <2>7
<1>. QED  BY <1>1, <1>2, <1>3, <1>4 DEF Walks

\* A client takes up an answer.
LEMMA ReplyTypeInv ==
    ASSUME TypeInv, NEW c \in Clients, Reply(c)
    PROVE  TypeInv'
<1>1. UNCHANGED mib
  BY ReplyCases
<1>2. CASE \E w \in Walks : walk' = [walk EXCEPT ![c] = w] /\ Finish(c)
  BY <1>1, <1>2, FinishTypeInv
<1>3. CASE \E w \in Walks : /\ w.state = "walking" /\ walk' = [walk EXCEPT ![c] = w]
                            /\ Send(c, WalkRequest(w)) /\ UNCHANGED <<stable, foul>>
  <2>1. PICK w \in Walks : /\ w.state = "walking" /\ walk' = [walk EXCEPT ![c] = w]
                           /\ Send(c, WalkRequest(w)) /\ UNCHANGED <<stable, foul>>
    BY <1>3
  <2>2. WalkRequest(w) \in Queries /\ stable' \in [Clients -> SUBSET Oids]
    BY <2>1, WalkRequestType DEF TypeInv
  <2>. QED  BY <1>1, <2>1, <2>2, SendTypeInv
<1>. QED  BY <1>2, <1>3, ReplyCases

\* What the MIB's own steps leave.
LEMMA ObserveTypeInv ==
    ASSUME TypeInv, Observe(data', snapshot', readable'), UNCHANGED <<walk, serve, foul>>,
           data' \in [H -> SUBSET Oids], \A h \in H : data'[h] \subseteq Handlers[h].space,
           snapshot' \in [H -> SUBSET Oids],
           \A g \in H : \/ snapshot'[g] = None
                        \/ Kind(g) = "cached" /\ snapshot'[g] \subseteq Handlers[g].space,
           readable' \in Views
    PROVE  TypeInv'
<1>1. readable' \subseteq Oids
  BY InputsAssumption
<1>2. stable' \in [Clients -> SUBSET Oids]
  BY DEF Observe, TypeInv
<1>3. named' \in [Clients -> SUBSET Oids]
  BY <1>1 DEF Observe, TypeInv
<1>4. quiet' \in [Clients -> BOOLEAN]
  BY DEF Observe
<1>. QED  BY <1>2, <1>3, <1>4 DEF TypeInv, Kind

\* A change of the MIB, of a cache or of the view leaves the requests alone.
LEMMA EnvironmentStep ==
    ASSUME TypeInv, \/ \E h \in H : Change(h) \/ Expire(h)
                    \/ Reconfigure
    PROVE  /\ Observe(data', snapshot', readable') /\ UNCHANGED <<walk, serve, foul>>
           /\ data' \in [H -> SUBSET Oids] /\ \A h \in H : data'[h] \subseteq Handlers[h].space
           /\ snapshot' \in [H -> SUBSET Oids]
           /\ \A g \in H : \/ snapshot'[g] = None
                           \/ Kind(g) = "cached" /\ snapshot'[g] \subseteq Handlers[g].space
           /\ readable' \in Views
<1>1. CASE \E h \in H : Change(h)
  <2>1. PICK h \in H : Change(h)
    BY <1>1
  <2>2. PICK o \in Handlers[h].space :
          data' = [data EXCEPT ![h] = IF o \in data[h] THEN data[h] \ {o} ELSE data[h] \cup {o}]
    BY <2>1 DEF Change
  <2>3. data' \in [H -> SUBSET Oids] /\ \A g \in H : data'[g] \subseteq Handlers[g].space
    <3>1. Handlers[h].space \subseteq Oids
      BY HandlerFacts
    <3>. QED  BY <2>2, <3>1 DEF TypeInv
  <2>4. Observe(data', snapshot', readable') /\ UNCHANGED <<snapshot, readable, walk, serve, foul>>
    BY <2>1 DEF Change
  <2>. QED  BY <2>3, <2>4 DEF TypeInv
<1>2. CASE \E h \in H : Expire(h)
  <2>1. PICK h \in H : Expire(h)
    BY <1>2
  <2>2. snapshot' = [snapshot EXCEPT ![h] = None] /\ None \in SUBSET Oids
    BY <2>1, EmptyOid DEF Expire, None, Absent
  <2>3. Observe(data', snapshot', readable') /\ UNCHANGED <<data, readable, walk, serve, foul>>
    BY <2>1 DEF Expire
  <2>. QED  BY <2>2, <2>3 DEF TypeInv
<1>3. CASE Reconfigure
  BY <1>3 DEF Reconfigure, TypeInv
<1>. QED  BY <1>1, <1>2, <1>3

\* Every step keeps the types.
LEMMA NextTypeInv == TypeInv /\ [Next]_vars => TypeInv'
<1>. SUFFICES ASSUME TypeInv, [Next]_vars PROVE TypeInv'
  OBVIOUS
<1>1. CASE UNCHANGED vars
  BY <1>1 DEF TypeInv, vars, Kind
<1>2. CASE \/ \E h \in H : Change(h) \/ Expire(h)
           \/ Reconfigure
  BY <1>2, EnvironmentStep, ObserveTypeInv
<1>. QED  BY <1>1, <1>2, SearchNextTypeInv, GetOneTypeInv, StartWalkTypeInv, PollTypeInv,
             ReplyTypeInv DEF Next

---------------------------------------------------------------------------
(* A request names only what the caller sent or could read.                *)

NamedInv ==
    \A c \in Clients :
      /\ walk[c].state # "done" => readable \subseteq named[c]
      /\ \A i \in DOMAIN serve[c].out :
           serve[c].out[i].oid \in named[c] \cup Range(serve[c].vars)

\* The client whose request, or whose answer, changes.
LEMMA NamedStep ==
    ASSUME TypeInv, NamedInv, NEW c \in Clients, walk[c].state # "done", NEW t \in Serving,
           serve' = [serve EXCEPT ![c] = t], t.vars = serve[c].vars,
           UNCHANGED <<readable, walk, named>>,
           \A i \in DOMAIN t.out : t.out[i].oid \in named[c] \cup Range(t.vars)
    PROVE  NamedInv'
<1>1. serve'[c] = t /\ \A d \in Clients : d # c => serve'[d] = serve[d]
  BY DEF TypeInv
<1>2. ASSUME NEW d \in Clients, d # c
      PROVE  \A i \in DOMAIN serve'[d].out :
               serve'[d].out[i].oid \in named'[d] \cup Range(serve'[d].vars)
  BY <1>1, <1>2 DEF NamedInv
<1>3. \A d \in Clients : walk'[d].state # "done" => readable' \subseteq named'[d]
  BY DEF NamedInv
<1>4. \A i \in DOMAIN serve'[c].out : serve'[c].out[i].oid \in named'[c] \cup Range(serve'[c].vars)
  BY <1>1
<1>. QED  BY <1>2, <1>3, <1>4 DEF NamedInv

\* One more varbind whose OID may be named.
LEMMA AppendNamed ==
    ASSUME NEW out \in Seq(Bindings), NEW vb \in Bindings, NEW S,
           \A i \in DOMAIN out : out[i].oid \in S, vb.oid \in S
    PROVE  \A i \in DOMAIN Append(out, vb) : Append(out, vb)[i].oid \in S
<1>. HIDE DEF Bindings
<1>1. Len(Append(out, vb)) = Len(out) + 1 /\ DOMAIN Append(out, vb) = 1..(Len(out) + 1)
  OBVIOUS
<1>2. ASSUME NEW i \in DOMAIN Append(out, vb) PROVE Append(out, vb)[i].oid \in S
  BY <1>1
<1>. QED  BY <1>2

\* A get_next call adds an OID that is readable now, or one the request had already.
LEMMA SearchNextNamed ==
    ASSUME TypeInv, NamedInv, NEW c \in Clients, SearchNext(c)
    PROVE  NamedInv'
<1>. DEFINE s == serve[c]
            h == serve[c].handler
            S == named[c] \cup Range(s.vars)
<1>1. s \in Serving /\ h \in H
  BY DEF TypeInv, Serving
<1>2. s.kind = "next" /\ ~Done(s) /\ UNCHANGED <<readable, walk, named>>
  BY DEF SearchNext
<1>3. PICK answer \in GetNext(h, At(s)) : serve' = [serve EXCEPT ![c] = Advance(s, h, answer)]
  BY DEF SearchNext
<1>4. answer \in Oids
  BY <1>1, <1>2, AtType, GetNextAnswers
<1>5. /\ Advance(s, h, answer) \in Serving /\ Advance(s, h, answer).vars = s.vars
  BY <1>1, <1>2, <1>4, AdvanceType
<1>6. walk[c].state # "done"
  BY <1>2, ServingBusy
<1>7. readable \subseteq S /\ \A i \in DOMAIN s.out : s.out[i].oid \in S
  BY <1>6 DEF NamedInv
<1>8. Cursor(s, s.out) \in S /\ Cursor(s, s.out) \in Oids
  BY <1>1, <1>2, <1>7, CursorFrom
<1>. DEFINE e == EndOfMibView(Cursor(s, s.out))
            v == VarBind(answer, "value")
            t == Advance(s, h, answer)
<1>9. /\ e \in Bindings /\ e.oid \in S
      /\ v \in Bindings /\ v.oid = answer
  BY <1>4, <1>8 DEF EndOfMibView, VarBind, Bindings
<1>10. /\ Answered(s, e).out = Append(s.out, e)
       /\ Answered(s, v).out = Append(s.out, v)
  BY <1>1, <1>9, AnsweredFields
<1>11. s.out \in Seq(Bindings)
  BY <1>1 DEF Serving
<1>12. \A i \in DOMAIN t.out : t.out[i].oid \in S
  <2>1. CASE t = Answered(s, e)
    <3>. HIDE DEF S, e, v, t
    <3>. QED  BY <1>7, <1>9, <1>10, <1>11, <2>1, AppendNamed
  <2>2. CASE t = Answered(s, v) /\ answer \in readable
    <3>1. v.oid \in S
      BY <1>7, <1>9, <2>2
    <3>. HIDE DEF S, e, v, t
    <3>. QED  BY <1>7, <1>9, <1>10, <1>11, <2>2, <3>1, AppendNamed
  <2>3. CASE t = [s EXCEPT !.handler = h + 1] \/ t = [s EXCEPT !.handler = 1, !.denied = answer]
    <3>1. t.out = s.out
      <4>. HIDE DEF t
      <4>. QED  BY <1>1, <2>3 DEF Serving
    <3>. QED  BY <1>7, <3>1
  <2>. QED  BY <1>1, <1>2, <1>4, <2>1, <2>2, <2>3, AdvanceCases
<1>. QED  BY <1>2, <1>3, <1>5, <1>6, <1>12, NamedStep

\* GET answers with the OIDs it was sent.
LEMMA GetOneNamed ==
    ASSUME TypeInv, NamedInv, NEW c \in Clients, GetOne(c)
    PROVE  NamedInv'
<1>. DEFINE s == serve[c]
            S == named[c] \cup Range(s.vars)
<1>1. PICK t \in Serving :
             /\ serve' = [serve EXCEPT ![c] = t]
             /\ t.kind = "get" /\ t.vars = s.vars
             /\ \/ t.out = <<>>
                \/ \E v \in {"value", "noSuchInstance", "noSuchObject"} :
                     t.out = Append(s.out, VarBind(s.vars[Len(s.out) + 1], v))
  BY GetOneCases
<1>2. s \in Serving /\ s.kind = "get" /\ ~Done(s)
  BY DEF TypeInv, GetOne
<1>3. Len(s.out) + 1 \in DOMAIN s.vars /\ s.vars \in Seq(Oids) /\ s.out \in Seq(Bindings)
  <2>1. Len(s.out) <= Len(s.vars)
    BY <1>2 DEF TypeInv
  <2>2. s.vars \in Seq(Oids) /\ s.out \in Seq(Bindings) /\ Len(s.out) # Len(s.vars)
    BY <1>2 DEF Serving, Done
  <2>. QED  BY <2>1, <2>2
<1>4. UNCHANGED <<readable, walk, named>> /\ walk[c].state # "done"
  BY <1>2, ServingBusy DEF GetOne
<1>5. \A i \in DOMAIN s.out : s.out[i].oid \in S
  BY DEF NamedInv
<1>6. \A i \in DOMAIN t.out : t.out[i].oid \in S
  <2>1. CASE t.out = <<>>
    BY <2>1
  <2>2. ASSUME NEW v \in {"value", "noSuchInstance", "noSuchObject"},
               t.out = Append(s.out, VarBind(s.vars[Len(s.out) + 1], v))
        PROVE  \A i \in DOMAIN t.out : t.out[i].oid \in S
    <3>1. PICK vb : vb = VarBind(s.vars[Len(s.out) + 1], v)
      OBVIOUS
    <3>2. vb \in Bindings /\ vb.oid \in S
      BY <1>3, <3>1 DEF VarBind, Bindings, Range
    <3>. HIDE DEF S
    <3>. QED  BY <1>3, <1>5, <2>2, <3>1, <3>2, AppendNamed
  <2>. QED  BY <1>1, <2>1, <2>2
<1>. QED  BY <1>1, <1>4, <1>6, NamedStep

\* A new request has named nothing.
LEMMA SendNamed ==
    ASSUME TypeInv, NamedInv, NEW c \in Clients, NEW q \in Queries, Send(c, q),
           NEW w \in Walks, walk' = [walk EXCEPT ![c] = w], UNCHANGED mib
    PROVE  NamedInv'
<1>1. /\ serve'[c] = Request(q) /\ Request(q).out = <<>>
      /\ named'[c] = readable /\ readable' = readable
      /\ \A d \in Clients : d # c => /\ serve'[d] = serve[d] /\ named'[d] = named[d]
                                     /\ walk'[d] = walk[d]
  BY RequestType DEF Send, TypeInv, mib
<1>2. DOMAIN serve'[c].out = {}
  BY <1>1
<1>. QED  BY <1>1, <1>2 DEF NamedInv

\* Neither has an idle client's.
LEMMA FinishNamed ==
    ASSUME TypeInv, NamedInv, NEW c \in Clients, Finish(c),
           NEW w \in Walks, w.state = "done", walk' = [walk EXCEPT ![c] = w], UNCHANGED mib
    PROVE  NamedInv'
<1>1. /\ serve'[c] = Idle /\ Idle.out = <<>> /\ walk'[c] = w /\ readable' = readable
      /\ \A d \in Clients : d # c => /\ serve'[d] = serve[d] /\ named'[d] = named[d]
                                     /\ walk'[d] = walk[d]
  BY IdleType DEF Finish, TypeInv, mib
<1>2. DOMAIN serve'[c].out = {}
  BY <1>1
<1>. QED  BY <1>1, <1>2 DEF NamedInv

\* The steps of the clients.
LEMMA ClientNamed ==
    ASSUME TypeInv, NamedInv, NEW c \in Clients, StartWalk(c) \/ Poll(c) \/ Reply(c)
    PROVE  NamedInv'
<1>1. CASE StartWalk(c)
  <2>1. UNCHANGED mib
    BY <1>1 DEF StartWalk, mib
  <2>. QED  BY <1>1, <2>1, StartWalkStep, WalkRequestType, SendNamed
<1>2. CASE Poll(c)
  <2>1. PICK q \in Polls : Send(c, q)
    BY <1>2 DEF Poll
  <2>2. q \in Queries
    BY InputsAssumption DEF Queries
  <2>3. UNCHANGED mib /\ walk' = [walk EXCEPT ![c] = [NoWalk EXCEPT !.state = "polling"]]
    BY <1>2 DEF Poll, mib
  <2>. QED  BY <2>1, <2>2, <2>3, NoWalkType, SendNamed
<1>3. CASE Reply(c)
  <2>1. UNCHANGED mib
    BY <1>3, ReplyCases
  <2>2. CASE \E w \in Walks : walk' = [walk EXCEPT ![c] = w] /\ w.state = "done" /\ Finish(c)
    BY <2>1, <2>2, FinishNamed
  <2>3. CASE \E w \in Walks : walk' = [walk EXCEPT ![c] = w] /\ Send(c, WalkRequest(w))
    BY <2>1, <2>3, WalkRequestType, SendNamed
  <2>. QED  BY <1>3, <2>2, <2>3, ReplyCases
<1>. QED  BY <1>1, <1>2, <1>3

\* What becomes readable during a request may be named by it.
LEMMA EnvironmentNamed ==
    ASSUME TypeInv, NamedInv, \/ \E h \in H : Change(h) \/ Expire(h)
                              \/ Reconfigure
    PROVE  NamedInv'
<1>1. Observe(data', snapshot', readable') /\ UNCHANGED <<walk, serve, foul>>
  BY EnvironmentStep
<1>2. ASSUME NEW c \in Clients
      PROVE  /\ walk'[c].state # "done" => readable' \subseteq named'[c]
             /\ \A i \in DOMAIN serve'[c].out :
                  serve'[c].out[i].oid \in named'[c] \cup Range(serve'[c].vars)
  <2>1. CASE walk[c].state = "done"
    <3>1. serve'[c] = Idle /\ DOMAIN Idle.out = {}
      BY <1>1, <2>1, IdleType DEF TypeInv
    <3>. QED  BY <1>1, <2>1, <3>1
  <2>2. CASE walk[c].state # "done"
    <3>1. named'[c] = named[c] \cup readable'
      BY <1>1, <2>2 DEF Observe
    <3>. QED  BY <1>1, <2>2, <3>1 DEF NamedInv
  <2>. QED  BY <2>1, <2>2
<1>. QED  BY <1>2 DEF NamedInv

\* Before the first request nothing is named.
LEMMA InitNamed == Init => NamedInv
<1>. SUFFICES ASSUME Init PROVE NamedInv
  OBVIOUS
<1>1. \A c \in Clients : walk[c].state = "done" /\ DOMAIN serve[c].out = {}
  BY IdleType DEF Init, NoWalk
<1>. QED  BY <1>1 DEF NamedInv

\* Every step keeps what is hidden unnamed.
LEMMA NextNamed == TypeInv /\ NamedInv /\ [Next]_vars => NamedInv'
<1>. SUFFICES ASSUME TypeInv, NamedInv, [Next]_vars PROVE NamedInv'
  OBVIOUS
<1>1. CASE UNCHANGED vars
  BY <1>1 DEF NamedInv, vars
<1>2. CASE \/ \E h \in H : Change(h) \/ Expire(h)
           \/ Reconfigure
  BY <1>2, EnvironmentNamed
<1>. QED  BY <1>1, <1>2, SearchNextNamed, GetOneNamed, ClientNamed DEF Next

\* registry.rs do_get_next_accessible: for any handlers, views and requests, GET, GETNEXT
\* and GETBULK name only OIDs the caller sent or could read while being served.
THEOREM NothingHiddenNamed == Spec => []OnlyReadableNamed
<1>1. Init => TypeInv /\ NamedInv
  BY InitTypeInv, InitNamed
<1>2. TypeInv /\ NamedInv /\ [Next]_vars => (TypeInv /\ NamedInv)'
  BY NextTypeInv, NextNamed
<1>3. NamedInv => OnlyReadableNamed
  BY DEF NamedInv, OnlyReadableNamed
<1>. QED  BY <1>1, <1>2, <1>3, PTL DEF Spec

---------------------------------------------------------------------------
(* A walk misses nothing that was there all the time.                      *)

\* The handlers serve their instances in the order they are asked in. It is so when no
\* root lies below another; where one does, do_get_next takes the first handler with an
\* answer and may pass over instances of the other.
InRootOrder ==
    \A g, h \in H : g < h =>
      \A o \in Handlers[g].space, p \in Handlers[h].space : OidLess(o, p)

\* No handler is registered inside the subtree of another.
RootsDisjoint ==
    \A g, h \in H : IsPrefix(Handlers[g].root, Handlers[h].root) => g = h

\* What the walk of c has come by: seen before, or in the answer under way.
Got(c) == walk[c].seen \cup {serve[c].out[i].oid : i \in DOMAIN serve[c].out}

\* Where the search for varbind i of an answer started.
Previous(w, out, i) == IF i = 1 THEN w.current ELSE out[i - 1].oid

\* A walk asks for one variable, by GETNEXT or by GETBULK with a repetition or more.
AsksOne(w, s) ==
    /\ s.kind = "next" /\ s.status = "noError" /\ s.vars = <<w.current>>
    /\ \/ s.nonRep = 1 /\ s.reps = 0
       \/ s.nonRep = 0 /\ s.reps > 0

\* A varbind of the answer: it comes after the one before it and passes over no stable
\* instance, or it is the end and there is none left.
Follows(w, out, S, i) ==
    \/ /\ out[i].value = "value" /\ OidLess(Previous(w, out, i), out[i].oid)
       /\ \A o \in S : OidLeq(o, out[i].oid) => o \in w.seen \cup {out[j].oid : j \in 1..i}
    \/ /\ out[i].value = "endOfMibView"
       /\ S \subseteq w.seen \cup {out[j].oid : j \in 1..(i - 1)}

\* The search under way: the stable instances not come by yet lie ahead, in the handlers
\* still to be asked.
Searching(s, S) ==
    /\ s.denied # Absent => OidLess(Cursor(s, s.out), s.denied)
    /\ \A o \in S : /\ OidLess(At(s), o)
                    /\ \A g \in H : o \in Handlers[g].space => g >= s.handler

Thorough(c) ==
    /\ \A o \in stable[c] : IsPrefix(walk[c].root, o)
    /\ IsPrefix(walk[c].root, walk[c].current)
    /\ AsksOne(walk[c], serve[c])
    /\ \A o \in stable[c] : OidLeq(o, walk[c].current) => o \in walk[c].seen
    /\ \A i \in DOMAIN serve[c].out : Follows(walk[c], serve[c].out, stable[c], i)
    /\ ~Done(serve[c]) => Searching(serve[c], stable[c] \ Got(c))

StableInv ==
    \A c \in Clients :
      /\ stable[c] \subseteq Visible(data, snapshot, readable)
      /\ walk[c].state = "walking" /\ ~foul[c] => Thorough(c)

\* Roots that do not contain each other put the instances in their order.
LEMMA DisjointRootsInOrder == RootsDisjoint => InRootOrder
<1>. SUFFICES ASSUME RootsDisjoint, NEW g \in H, NEW h \in H, g < h,
                     NEW o \in Handlers[g].space, NEW p \in Handlers[h].space
              PROVE  OidLess(o, p)
  BY DEF InRootOrder
<1>1. /\ Handlers[g].root \in Oids /\ Handlers[h].root \in Oids /\ o \in Oids /\ p \in Oids
      /\ IsPrefix(Handlers[g].root, o) /\ IsPrefix(Handlers[h].root, p)
      /\ H = 1..Len(Handlers) /\ Len(Handlers) \in Nat
  BY HandlerFacts
<1>2. ~IsPrefix(Handlers[g].root, Handlers[h].root)
  BY <1>1 DEF RootsDisjoint
<1>3. Handlers[g].root # Handlers[h].root
  <2>1. IsPrefix(Handlers[h].root, Handlers[h].root)
    BY <1>1, PrefixArcs, OidFacts
  <2>. QED  BY <1>2, <2>1
<1>4. OidLess(Handlers[g].root, Handlers[h].root)
  BY <1>3, HandlersAssumption DEF RootsSorted, OidLeq
<1>. QED  BY <1>1, <1>2, <1>4, SubtreesOrdered

\* An instance that is served is a cell of one handler.
LEMMA VisibleCell ==
    ASSUME TypeInv, NEW o \in Visible(data, snapshot, readable)
    PROVE  /\ o \in readable /\ o \in Oids
           /\ \E g \in H : o \in Cells(g) /\ o \in Handlers[g].space /\ Kind(g) # "foreign"
<1>1. PICK g \in H : o \in Served(data, snapshot, g)
  BY DEF Visible
<1>2. Kind(g) # "foreign" /\ o \in Cells(g)
  BY <1>1 DEF Served, Cells
<1>3. o \in Handlers[g].space /\ Handlers[g].space \subseteq Oids
  BY <1>2, CellsInSpace, HandlerFacts
<1>. QED  BY <1>2, <1>3 DEF Visible

\* Handlers in the order of their subtrees share no instance.
LEMMA OneHandler ==
    ASSUME InRootOrder, NEW g \in H, NEW h \in H,
           NEW o, o \in Handlers[g].space, o \in Handlers[h].space
    PROVE  g = h
<1>1. o \in Oids /\ H = 1..Len(Handlers) /\ Len(Handlers) \in Nat
  BY HandlerFacts
<1>2. ~(g < h) /\ ~(h < g)
  BY <1>1, LessIrreflexive DEF InRootOrder
<1>. QED  BY <1>1, <1>2

\* A handler call changes what is cached, and nothing of what is served.
LEMMA SnapshotVisible ==
    ASSUME TypeInv, NEW h \in H, Snapshot(h), data' = data, readable' = readable
    PROVE  Visible(data, snapshot, readable)' = Visible(data, snapshot, readable)
<1>1. \A g \in H : Served(data, snapshot, g)' = Served(data, snapshot, g)
  <2>. SUFFICES ASSUME NEW g \in H PROVE Served(data', snapshot', g) = Served(data, snapshot, g)
    BY DEF Served, Kind
  <2>1. CASE g = h /\ Kind(h) = "cached"
    <3>1. snapshot'[h] = Cells(h)
      BY <2>1 DEF Snapshot, TypeInv
    <3>2. Cells(h) # None
      <4>1. Cells(h) \subseteq Handlers[h].space /\ Absent \notin Handlers[h].space
        BY CellsInSpace, HandlerFacts
      <4>. QED  BY <4>1 DEF None, Absent
    <3>3. Served(data', snapshot', h) = data[h] \cap Cells(h)
      BY <2>1, <3>1, <3>2 DEF Served
    <3>4. Served(data, snapshot, h) = data[h] \cap Cells(h)
      BY <2>1 DEF Served, Cells
    <3>. QED  BY <2>1, <3>3, <3>4
  <2>2. CASE ~(g = h /\ Kind(h) = "cached")
    <3>1. snapshot'[g] = snapshot[g]
      BY <2>2 DEF Snapshot, TypeInv
    <3>. QED  BY <3>1 DEF Served
  <2>. QED  BY <2>1, <2>2
<1>. QED  BY <1>1 DEF Visible

\* The shape of a walk's request.
LEMMA AsksOneShape ==
    ASSUME NEW w \in Walks, NEW s \in Serving, AsksOne(w, s)
    PROVE  /\ ~Done(s) => Cursor(s, s.out) = Previous(w, s.out, Len(s.out) + 1)
           /\ Done(s) => Len(s.out) >= 1
<1>1. /\ Len(s.out) \in Nat /\ Len(s.vars) = 1 /\ s.vars[1] = w.current
      /\ s.nonRep \in Nat /\ s.reps \in Nat /\ s.kind = "next" /\ s.status = "noError"
  BY DEF AsksOne, Serving
<1>2. \/ NonRepeaters(s) = 1 /\ Repeaters(s) = 0 /\ s.reps = 0
      \/ NonRepeaters(s) = 0 /\ Repeaters(s) = 1 /\ s.reps > 0
  <2>1. CASE s.nonRep = 1 /\ s.reps = 0
    <3>1. NonRepeaters(s) = 1
      BY <1>1, <2>1, MinOfTwo DEF NonRepeaters
    <3>. QED  BY <1>1, <2>1, <3>1 DEF Repeaters
  <2>2. CASE s.nonRep = 0 /\ s.reps > 0
    <3>1. NonRepeaters(s) = 0
      BY <1>1, <2>2, MinOfTwo DEF NonRepeaters
    <3>. QED  BY <1>1, <2>2, <3>1 DEF Repeaters
  <2>. QED  BY <2>1, <2>2 DEF AsksOne
<1>3. Done(s) <=> Exhausted(s, s.out)
  BY <1>1 DEF Done
<1>4. ASSUME ~Done(s) PROVE Cursor(s, s.out) = Previous(w, s.out, Len(s.out) + 1)
  <2>1. CASE Len(s.out) = 0
    BY <1>1, <2>1 DEF Cursor, Previous
  <2>2. CASE Len(s.out) > 0
    <3>1. Repeaters(s) = 1
      BY <1>1, <1>2, <1>3, <1>4, <2>2 DEF Exhausted
    <3>. QED  BY <1>1, <2>2, <3>1 DEF Cursor, Previous
  <2>. QED  BY <1>1, <2>1, <2>2
<1>5. ASSUME Done(s) PROVE Len(s.out) >= 1
  <2>1. Exhausted(s, s.out)
    BY <1>3, <1>5
  <2>2. CASE NonRepeaters(s) = 1
    BY <1>1, <2>1, <2>2 DEF Exhausted
  <2>3. CASE NonRepeaters(s) = 0 /\ Repeaters(s) = 1 /\ s.reps > 0
    <3>. SUFFICES ASSUME Len(s.out) = 0 PROVE FALSE
      BY <1>1
    <3>1. Len(s.out) - NonRepeaters(s) = 0
      BY <2>3
    <3>2. (Len(s.out) - NonRepeaters(s)) \div Repeaters(s) = s.reps
      BY <2>1, <2>3, <3>1 DEF Exhausted
    <3>3. 0 \div 1 = s.reps
      BY <2>3, <3>1, <3>2
    <3>4. 0 \div 1 = 0
      OBVIOUS
    <3>. QED  BY <2>3, <3>3, <3>4
  <2>. QED  BY <1>2, <2>2, <2>3
<1>. QED  BY <1>4, <1>5

\* What get_next's answer means for the stable instances that lie ahead.
LEMMA SearchMeets ==
    ASSUME InRootOrder, TypeInv, NEW s \in Serving, s.kind = "next", ~Done(s),
           NEW S, S \subseteq Visible(data, snapshot, readable), Searching(s, S),
           NEW answer \in GetNext(s.handler, At(s)), ~Misleads(s.handler, At(s), answer)
    PROVE  /\ answer = Absent => \A o \in S, g \in H :
                                   o \in Handlers[g].space => g > s.handler
           /\ answer # Absent =>
                /\ OidLess(At(s), answer)
                /\ \A o \in S : OidLeq(answer, o)
<1>. DEFINE h == s.handler
            a == At(s)
<1>1. h \in H /\ a \in Oids /\ H = 1..Len(Handlers) /\ Len(Handlers) \in Nat
  BY AtType, HandlerFacts DEF Serving
<1>2. ASSUME NEW o \in S
      PROVE  \E g \in H : /\ o \in Cells(g) /\ o \in Handlers[g].space /\ Kind(g) # "foreign"
                          /\ g >= h
  <2>1. o \in Visible(data, snapshot, readable)
    OBVIOUS
  <2>. QED  BY <2>1, VisibleCell DEF Searching
<1>3. \A o \in S : OidLess(a, o)
  BY DEF Searching
<1>4. ASSUME answer = Absent, NEW o \in S, NEW g \in H, o \in Handlers[g].space
      PROVE  g > h
  <2>1. PICK k \in H : /\ o \in Cells(k) /\ o \in Handlers[k].space /\ Kind(k) # "foreign"
                       /\ k >= h
    BY <1>2
  <2>2. g = k
    BY <1>4, <2>1, OneHandler
  <2>3. k # h
    <3>1. ASSUME k = h PROVE FALSE
      <4>1. Kind(h) # "foreign" /\ o \in Cells(h)
        BY <2>1, <3>1
      <4>2. Absent \notin Cells(h)
        BY <1>1, CellsInSpace, HandlerFacts
      <4>. QED  BY <1>1, <1>3, <1>4, <4>1, <4>2, GetNextAnswers
    <3>. QED  BY <3>1
  <2>. QED  BY <1>1, <2>1, <2>2, <2>3
<1>5. ASSUME answer # Absent
      PROVE  OidLess(a, answer) /\ \A o \in S : OidLeq(answer, o)
  <2>1. answer \in Handlers[h].space /\ OidLess(a, answer)
    <3>1. CASE Kind(h) = "foreign"
      BY <1>5, <3>1 DEF Misleads
    <3>2. CASE Kind(h) # "foreign"
      BY <1>1, <1>5, <3>2, GetNextAnswers, CellsInSpace
    <3>. QED  BY <3>1, <3>2
  <2>2. ASSUME NEW o \in S PROVE OidLeq(answer, o)
    <3>1. PICK k \in H : /\ o \in Cells(k) /\ o \in Handlers[k].space /\ Kind(k) # "foreign"
                         /\ k >= h
      BY <1>2
    <3>2. CASE k = h
      BY <1>1, <1>3, <1>5, <3>1, <3>2, GetNextAnswers
    <3>3. CASE k # h
      <4>1. h < k
        BY <1>1, <3>1, <3>3
      <4>2. OidLess(answer, o)
        BY <1>1, <2>1, <3>1, <4>1 DEF InRootOrder
      <4>. QED  BY <4>2 DEF OidLeq
    <3>. QED  BY <3>2, <3>3
  <2>. QED  BY <2>1, <2>2
<1>. QED  BY <1>4, <1>5

\* A client that is left alone stays thorough, whatever of its stable instances goes.
LEMMA ThoroughFrame ==
    ASSUME NEW c \in Clients, Thorough(c), walk'[c] = walk[c], serve'[c] = serve[c],
           stable'[c] \subseteq stable[c]
    PROVE  Thorough(c)'
<1>1. Got(c)' = Got(c)
  BY DEF Got
<1>2. \A i \in DOMAIN serve[c].out : Follows(walk[c], serve[c].out, stable'[c], i)
  BY DEF Thorough, Follows
<1>3. ~Done(serve[c]) => Searching(serve[c], stable'[c] \ Got(c))
  BY DEF Thorough, Searching
<1>4. /\ \A o \in stable'[c] : IsPrefix(walk[c].root, o)
      /\ IsPrefix(walk[c].root, walk[c].current)
      /\ AsksOne(walk[c], serve[c])
      /\ \A o \in stable'[c] : OidLeq(o, walk[c].current) => o \in walk[c].seen
  BY DEF Thorough
<1>. QED  BY <1>1, <1>2, <1>3, <1>4 DEF Thorough

\* Appending a varbind leaves the earlier ones as they were.
LEMMA FollowsAppend ==
    ASSUME NEW w \in Walks, NEW out \in Seq(Bindings), NEW vb \in Bindings, NEW S,
           \A i \in DOMAIN out : Follows(w, out, S, i),
           Follows(w, Append(out, vb), S, Len(out) + 1)
    PROVE  \A i \in DOMAIN Append(out, vb) : Follows(w, Append(out, vb), S, i)
<1>. DEFINE all == Append(out, vb)
<1>1. /\ Len(out) \in Nat /\ DOMAIN out = 1..Len(out) /\ DOMAIN all = 1..(Len(out) + 1)
      /\ \A i \in 1..Len(out) : all[i] = out[i]
  <2>. HIDE DEF Bindings
  <2>. QED  OBVIOUS
<1>. HIDE DEF all
<1>2. ASSUME NEW i \in 1..Len(out) PROVE Follows(w, all, S, i)
  <2>1. Previous(w, all, i) = Previous(w, out, i)
    BY <1>1 DEF Previous
  <2>2. /\ {all[j].oid : j \in 1..i} = {out[j].oid : j \in 1..i}
        /\ {all[j].oid : j \in 1..(i - 1)} = {out[j].oid : j \in 1..(i - 1)}
    <3>1. \A j \in 1..i : all[j] = out[j]
      BY <1>1
    <3>. QED  BY <1>1, <3>1
  <2>3. Follows(w, out, S, i) /\ all[i] = out[i]
    BY <1>1
  <2>. QED  BY <2>1, <2>2, <2>3 DEF Follows
<1>. QED  BY <1>1, <1>2 DEF all

\* A get_next call takes the walk one handler, one hidden instance or one varbind on.
LEMMA SearchThorough ==
    ASSUME InRootOrder, TypeInv, NEW c \in Clients, SearchNext(c), Thorough(c),
           stable[c] \subseteq Visible(data, snapshot, readable), ~foul'[c]
    PROVE  Thorough(c)'
<1>. DEFINE s == serve[c]
            h == serve[c].handler
            w == walk[c]
            S == stable[c] \ Got(c)
<1>1. s \in Serving /\ h \in H /\ w \in Walks /\ s.out \in Seq(Bindings)
  BY DEF TypeInv, Serving
<1>2. s.kind = "next" /\ ~Done(s) /\ UNCHANGED <<walk, stable>>
  BY DEF SearchNext
<1>3. PICK answer \in GetNext(h, At(s)) :
        /\ serve' = [serve EXCEPT ![c] = Advance(s, h, answer)]
        /\ foul' = [foul EXCEPT ![c] = foul[c] \/ Misleads(h, At(s), answer)]
  BY DEF SearchNext
<1>4. answer \in Oids /\ At(s) \in Oids /\ Cursor(s, s.out) \in Oids
  BY <1>1, <1>2, AtType, GetNextAnswers, CursorFrom
<1>5. ~Misleads(h, At(s), answer)
  BY <1>3 DEF TypeInv
<1>6. Searching(s, S) /\ AsksOne(w, s) /\ S \subseteq Visible(data, snapshot, readable)
  BY <1>2 DEF Thorough
<1>7. /\ answer = Absent => \A o \in S, g \in H : o \in Handlers[g].space => g > h
      /\ answer # Absent => OidLess(At(s), answer) /\ \A o \in S : OidLeq(answer, o)
  BY <1>1, <1>2, <1>5, <1>6, SearchMeets
<1>8. PICK t : t = Advance(s, h, answer)
  OBVIOUS
<1>9. serve'[c] = t /\ t \in Serving
  BY <1>1, <1>2, <1>3, <1>4, <1>8, AdvanceType DEF TypeInv
<1>10. \A o \in S : o \in Oids /\ o \in readable /\ \E g \in H : o \in Handlers[g].space
  BY <1>6, VisibleCell
<1>11. H = 1..Len(Handlers) /\ Len(Handlers) \in Nat
  BY HandlerFacts
<1>12. Cursor(s, s.out) = Previous(w, s.out, Len(s.out) + 1)
  BY <1>1, <1>2, <1>6, AsksOneShape
<1>13. OidLeq(Cursor(s, s.out), At(s))
  BY <1>6 DEF Searching, At, OidLeq
\* The conjuncts that do not speak of the request under way.
<1>14. /\ \A o \in stable'[c] : IsPrefix(walk'[c].root, o)
       /\ IsPrefix(walk'[c].root, walk'[c].current)
       /\ \A o \in stable'[c] : OidLeq(o, walk'[c].current) => o \in walk'[c].seen
  BY <1>2 DEF Thorough
\* The request stays where it was in the answer.
<1>15. ASSUME t.out = s.out, t.kind = s.kind, t.vars = s.vars, t.nonRep = s.nonRep,
              t.reps = s.reps, t.status = s.status, Searching(t, S)
       PROVE  Thorough(c)'
  <2>1. Got(c)' = Got(c)
    BY <1>2, <1>9, <1>15 DEF Got
  <2>2. AsksOne(w, t)
    BY <1>6, <1>15 DEF AsksOne
  <2>3. \A i \in DOMAIN t.out : Follows(w, t.out, stable[c], i)
    BY <1>15 DEF Thorough
  <2>. QED  BY <1>2, <1>9, <1>14, <1>15, <2>1, <2>2, <2>3 DEF Thorough
\* The request is answered with one more varbind.
<1>16. ASSUME NEW vb \in Bindings, t = Answered(s, vb),
              Follows(w, Append(s.out, vb), stable[c], Len(s.out) + 1),
              \A o \in S : o # vb.oid => OidLess(vb.oid, o)
       PROVE  Thorough(c)'
  <2>1. /\ t.kind = s.kind /\ t.vars = s.vars /\ t.nonRep = s.nonRep /\ t.reps = s.reps
        /\ t.status = s.status /\ t.out = Append(s.out, vb) /\ t.handler = 1 /\ t.denied = Absent
    BY <1>1, <1>16, AnsweredFields
  <2>2. AsksOne(w, t)
    BY <1>6, <2>1 DEF AsksOne
  <2>3. \A i \in DOMAIN t.out : Follows(w, t.out, stable[c], i)
    <3>1. \A i \in DOMAIN s.out : Follows(w, s.out, stable[c], i)
      BY DEF Thorough
    <3>. QED  BY <1>1, <1>16, <2>1, <3>1, FollowsAppend
  <2>4. /\ Len(t.out) = Len(s.out) + 1 /\ t.out[Len(s.out) + 1] = vb /\ Len(s.out) \in Nat
        /\ \A i \in DOMAIN s.out : i \in DOMAIN t.out /\ t.out[i] = s.out[i]
        /\ Len(s.out) + 1 \in DOMAIN t.out
    <3>. HIDE DEF Bindings
    <3>. QED  BY <1>1, <1>16, <2>1
  <2>5. stable[c] \ Got(c)' \subseteq S \ {vb.oid}
    <3>1. \A i \in DOMAIN s.out : s.out[i].oid \in Got(c)'
      BY <1>9, <2>4 DEF Got
    <3>2. walk[c].seen \subseteq Got(c)'
      BY <1>2 DEF Got
    <3>3. Got(c) \subseteq Got(c)'
      BY <3>1, <3>2 DEF Got
    <3>4. vb.oid \in Got(c)'
      BY <1>9, <2>4 DEF Got
    <3>. QED  BY <3>3, <3>4
  <2>6. ~Done(t) => Searching(t, stable[c] \ Got(c)')
    <3>. SUFFICES ASSUME ~Done(t) PROVE Searching(t, stable[c] \ Got(c)')
      OBVIOUS
    <3>1. Cursor(t, t.out) = vb.oid
      <4>1. Cursor(t, t.out) = Previous(w, t.out, Len(t.out) + 1)
        BY <1>1, <1>9, <2>2, AsksOneShape
      <4>. QED  BY <2>4, <4>1 DEF Previous
    <3>2. At(t) = vb.oid
      BY <2>1, <3>1 DEF At
    <3>3. \A g \in H : g >= t.handler
      BY <1>11, <2>1
    <3>. QED  BY <1>16, <2>1, <2>5, <3>2, <3>3 DEF Searching
  <2>. QED  BY <1>2, <1>9, <1>14, <2>2, <2>3, <2>6 DEF Thorough
<1>17. CASE answer = Absent /\ h # Len(Handlers)
  <2>1. t = [s EXCEPT !.handler = h + 1]
    BY <1>8, <1>17 DEF Advance
  <2>2. /\ t.out = s.out /\ t.kind = s.kind /\ t.vars = s.vars /\ t.nonRep = s.nonRep
        /\ t.reps = s.reps /\ t.status = s.status /\ t.handler = h + 1 /\ t.denied = s.denied
    BY <1>1, <2>1 DEF Serving
  <2>3. Cursor(t, t.out) = Cursor(s, s.out) /\ At(t) = At(s)
    BY <2>2 DEF At, Cursor, Repeaters, NonRepeaters
  <2>4. Searching(t, S)
    BY <1>1, <1>6, <1>7, <1>11, <1>17, <2>2, <2>3 DEF Searching
  <2>. QED  BY <1>15, <2>2, <2>4
<1>18. CASE answer = Absent /\ h = Len(Handlers)
  <2>1. PICK vb : vb = EndOfMibView(Cursor(s, s.out))
    OBVIOUS
  <2>2. t = Answered(s, vb)
    BY <1>8, <1>18, <2>1 DEF Advance
  <2>3. vb \in Bindings /\ vb.value = "endOfMibView"
    BY <1>4, <2>1 DEF EndOfMibView, VarBind, Bindings
  <2>4. S = {}
    BY <1>7, <1>10, <1>11, <1>18
  <2>5. Follows(w, Append(s.out, vb), stable[c], Len(s.out) + 1)
    <3>1. /\ Append(s.out, vb)[Len(s.out) + 1] = vb /\ DOMAIN s.out = 1..Len(s.out)
          /\ \A j \in 1..Len(s.out) : Append(s.out, vb)[j] = s.out[j]
          /\ Len(s.out) \in Nat
      <4>. HIDE DEF Bindings
      <4>. QED  BY <1>1, <2>3
    <3>2. stable[c] \subseteq Got(c)
      BY <2>4
    <3>3. Got(c) \subseteq w.seen \cup {Append(s.out, vb)[j].oid : j \in 1..(Len(s.out) + 1 - 1)}
      <4>1. 1..(Len(s.out) + 1 - 1) = DOMAIN s.out
        BY <3>1
      <4>. QED  BY <3>1, <4>1 DEF Got
    <3>. QED  BY <2>3, <3>1, <3>2, <3>3 DEF Follows
  <2>. QED  BY <1>16, <2>2, <2>3, <2>4, <2>5
<1>19. CASE answer # Absent /\ answer \in readable
  <2>1. PICK vb : vb = VarBind(answer, "value")
    OBVIOUS
  <2>2. t = Answered(s, vb)
    BY <1>8, <1>19, <2>1 DEF Advance
  <2>3. vb \in Bindings /\ vb.value = "value" /\ vb.oid = answer
    BY <1>4, <2>1 DEF VarBind, Bindings
  <2>4. \A o \in S : o # vb.oid => OidLess(vb.oid, o)
    BY <1>7, <1>19, <2>3 DEF OidLeq
  <2>5. OidLess(Cursor(s, s.out), answer)
    BY <1>4, <1>7, <1>13, <1>19, LessTransitive DEF OidLeq
  <2>6. Follows(w, Append(s.out, vb), stable[c], Len(s.out) + 1)
    <3>1. /\ Append(s.out, vb)[Len(s.out) + 1] = vb /\ DOMAIN s.out = 1..Len(s.out)
          /\ \A j \in 1..Len(s.out) : Append(s.out, vb)[j] = s.out[j]
          /\ Len(s.out) \in Nat
      <4>. HIDE DEF Bindings
      <4>. QED  BY <1>1, <2>3
    <3>2. Previous(w, Append(s.out, vb), Len(s.out) + 1) = Previous(w, s.out, Len(s.out) + 1)
      <4>1. CASE Len(s.out) = 0
        BY <4>1 DEF Previous
      <4>2. CASE Len(s.out) # 0
        <5>1. Len(s.out) + 1 - 1 \in 1..Len(s.out) /\ Len(s.out) + 1 # 1
          BY <3>1, <4>2
        <5>. QED  BY <3>1, <5>1 DEF Previous
      <4>. QED  BY <4>1, <4>2
    <3>3. ASSUME NEW o \in stable[c], OidLeq(o, answer)
          PROVE  o \in w.seen \cup {Append(s.out, vb)[j].oid : j \in 1..(Len(s.out) + 1)}
      <4>1. CASE o \in Got(c)
        BY <3>1, <4>1 DEF Got
      <4>2. CASE o \notin Got(c)
        <5>1. o \in Oids /\ OidLeq(answer, o)
          BY <1>7, <1>10, <1>19, <4>2
        <5>2. o = answer
          BY <1>4, <3>3, <5>1, LessTransitive, LessIrreflexive DEF OidLeq
        <5>. QED  BY <2>3, <3>1, <5>2
      <4>. QED  BY <4>1, <4>2
    <3>. QED  BY <1>12, <2>3, <2>5, <3>1, <3>2, <3>3 DEF Follows
  <2>. QED  BY <1>16, <2>2, <2>3, <2>4, <2>6
<1>20. CASE answer # Absent /\ answer \notin readable
  <2>1. ~OidLeq(answer, At(s))
    BY <1>4, <1>7, <1>20, LessTransitive, LessIrreflexive DEF OidLeq
  <2>2. t = [s EXCEPT !.handler = 1, !.denied = answer]
    BY <1>8, <1>20, <2>1 DEF Advance
  <2>3. /\ t.out = s.out /\ t.kind = s.kind /\ t.vars = s.vars /\ t.nonRep = s.nonRep
        /\ t.reps = s.reps /\ t.status = s.status /\ t.handler = 1 /\ t.denied = answer
    BY <1>1, <2>2 DEF Serving
  <2>4. Cursor(t, t.out) = Cursor(s, s.out) /\ At(t) = answer
    BY <1>20, <2>3 DEF At, Cursor, Repeaters, NonRepeaters
  <2>5. OidLess(Cursor(s, s.out), answer)
    BY <1>4, <1>7, <1>13, <1>20, LessTransitive DEF OidLeq
  <2>6. \A o \in S : OidLess(answer, o)
    BY <1>7, <1>10, <1>20 DEF OidLeq
  <2>7. \A g \in H : g >= t.handler
    BY <1>11, <2>3
  <2>8. Searching(t, S)
    BY <2>3, <2>4, <2>5, <2>6, <2>7 DEF Searching
  <2>. QED  BY <1>15, <2>3, <2>8
<1>. QED  BY <1>17, <1>18, <1>19, <1>20

\* A walk that sends a request from where it has seen everything stable is thorough.
LEMMA RequestThorough ==
    ASSUME NEW c \in Clients, NEW w \in Walks, NEW S \in SUBSET Oids,
           walk'[c] = w, serve'[c] = Request(WalkRequest(w)), stable'[c] = S,
           \A o \in S : IsPrefix(w.root, o),
           IsPrefix(w.root, w.current),
           \A o \in S : OidLeq(o, w.current) => o \in w.seen
    PROVE  Thorough(c)'
<1>. DEFINE s == Request(WalkRequest(w))
<1>1. /\ s \in Serving /\ s.kind = "next" /\ s.vars = <<w.current>> /\ s.status = "noError"
      /\ s.out = <<>> /\ s.denied = Absent /\ s.handler = 1
      /\ s.nonRep = WalkRequest(w).nonRep /\ s.reps = WalkRequest(w).reps
  BY WalkRequestType, RequestType
<1>2. w.reps \in Nat /\ w.current \in Oids
  BY DEF Walks
<1>3. AsksOne(w, s)
  <2>1. CASE w.reps = 0
    BY <1>1, <2>1, WalkRequestType DEF AsksOne
  <2>2. CASE w.reps # 0
    <3>1. s.nonRep = 0 /\ s.reps > 0
      BY <1>1, <1>2, <2>2, WalkRequestType
    <3>. QED  BY <1>1, <3>1 DEF AsksOne
  <2>. QED  BY <2>1, <2>2
<1>4. DOMAIN s.out = {} /\ Len(s.out) = 0 /\ Len(s.vars) = 1 /\ s.vars[1] = w.current
  BY <1>1
<1>5. Cursor(s, s.out) = w.current
  BY <1>4 DEF Cursor
<1>6. At(s) = w.current
  BY <1>1, <1>5 DEF At
<1>7. Searching(s, S \ w.seen)
  <2>1. ASSUME NEW o \in S \ w.seen PROVE OidLess(w.current, o)
    BY <1>2, LessTotal DEF OidLeq
  <2>2. \A g \in H : g >= s.handler
    BY <1>1, HandlerFacts
  <2>. QED  BY <1>1, <1>6, <2>1, <2>2 DEF Searching
<1>8. Got(c)' = w.seen
  BY <1>4 DEF Got
<1>9. \A i \in DOMAIN s.out : Follows(w, s.out, S, i)
  BY <1>4
<1>. HIDE DEF s
<1>10. serve'[c] = s
  BY DEF s
<1>. QED  BY <1>3, <1>7, <1>8, <1>9, <1>10 DEF Thorough

\* The instances in stable are served while no step of the MIB's own takes them away.
LEMMA StableFrame ==
    ASSUME StableInv, NEW c \in Clients,
           Visible(data, snapshot, readable)' = Visible(data, snapshot, readable),
           \A d \in Clients : d # c => /\ walk'[d] = walk[d] /\ serve'[d] = serve[d]
                                       /\ stable'[d] = stable[d] /\ foul'[d] = foul[d],
           stable'[c] \subseteq Visible(data, snapshot, readable),
           walk'[c].state = "walking" /\ ~foul'[c] => Thorough(c)'
    PROVE  StableInv'
<1>. SUFFICES ASSUME NEW d \in Clients
              PROVE  /\ stable'[d] \subseteq Visible(data, snapshot, readable)'
                     /\ walk'[d].state = "walking" /\ ~foul'[d] => Thorough(d)'
  BY DEF StableInv
<1>1. CASE d = c
  BY <1>1
<1>2. CASE d # c
  <2>1. /\ walk'[d] = walk[d] /\ serve'[d] = serve[d] /\ stable'[d] = stable[d]
        /\ foul'[d] = foul[d]
    BY <1>2
  <2>2. stable[d] \subseteq Visible(data, snapshot, readable)
    BY DEF StableInv
  <2>3. ASSUME walk[d].state = "walking", ~foul[d] PROVE Thorough(d)'
    <3>1. Thorough(d)
      BY <2>3 DEF StableInv
    <3>. QED  BY <2>1, <3>1, ThoroughFrame
  <2>. QED  BY <2>1, <2>2, <2>3
<1>. QED  BY <1>1, <1>2

\* A get_next call moves its own client on and no other.
LEMMA SearchNextStable ==
    ASSUME InRootOrder, TypeInv, StableInv, NEW c \in Clients, SearchNext(c)
    PROVE  StableInv'
<1>1. /\ UNCHANGED <<data, readable, walk, stable>>
      /\ Snapshot(serve[c].handler) /\ serve[c].handler \in H
  BY DEF SearchNext, TypeInv, Serving
<1>2. Visible(data, snapshot, readable)' = Visible(data, snapshot, readable)
  BY <1>1, SnapshotVisible
<1>3. /\ \A d \in Clients : d # c => serve'[d] = serve[d] /\ foul'[d] = foul[d]
      /\ foul[c] => foul'[c]
  BY DEF SearchNext, TypeInv
<1>4. stable[c] \subseteq Visible(data, snapshot, readable)
  BY DEF StableInv
<1>5. ASSUME walk'[c].state = "walking", ~foul'[c] PROVE Thorough(c)'
  <2>1. Thorough(c)
    BY <1>1, <1>3, <1>5 DEF StableInv
  <2>. QED  BY <1>4, <1>5, <2>1, SearchThorough
<1>. QED  BY <1>1, <1>2, <1>3, <1>4, <1>5, StableFrame

\* A GET is never part of a walk.
LEMMA GetOneStable ==
    ASSUME TypeInv, StableInv, NEW c \in Clients, GetOne(c)
    PROVE  StableInv'
<1>1. UNCHANGED <<data, readable, walk, stable, foul>> /\ serve[c].kind = "get"
  BY DEF GetOne
<1>2. \A d \in Clients : d # c => serve'[d] = serve[d]
  <2>1. PICK t \in Serving : serve' = [serve EXCEPT ![c] = t]
    BY GetOneCases
  <2>. QED  BY <2>1 DEF TypeInv
<1>3. snapshot' = snapshot \/ \E h \in H : Snapshot(h)
  BY DEF GetOne, HandlerFor
<1>4. Visible(data, snapshot, readable)' = Visible(data, snapshot, readable)
  <2>1. CASE snapshot' = snapshot
    BY <1>1, <2>1 DEF Visible, Served, Kind
  <2>2. CASE \E h \in H : Snapshot(h)
    BY <1>1, <2>2, SnapshotVisible
  <2>. QED  BY <1>3, <2>1, <2>2
<1>5. stable[c] \subseteq Visible(data, snapshot, readable)
  BY DEF StableInv
<1>6. ~(walk[c].state = "walking" /\ ~foul[c])
  BY <1>1 DEF StableInv, Thorough, AsksOne
<1>. QED  BY <1>1, <1>2, <1>4, <1>5, <1>6, StableFrame

\* At its root a walk has every instance of the subtree ahead.
LEMMA StartWalkStable ==
    ASSUME TypeInv, StableInv, NEW c \in Clients, StartWalk(c)
    PROVE  StableInv'
<1>1. PICK w \in Walks :
             /\ w.state = "walking" /\ w.current = w.root /\ w.seen = {}
             /\ walk' = [walk EXCEPT ![c] = w]
             /\ Send(c, WalkRequest(w))
             /\ stable' = [stable EXCEPT ![c] =
                   {o \in Visible(data, snapshot, readable) : IsPrefix(w.root, o) /\ o # w.root}]
  BY StartWalkStep
<1>2. UNCHANGED <<data, snapshot, readable, foul>>
  BY DEF StartWalk
<1>3. Visible(data, snapshot, readable)' = Visible(data, snapshot, readable)
  BY <1>2 DEF Visible, Served, Kind
<1>4. /\ walk'[c] = w /\ serve'[c] = Request(WalkRequest(w))
      /\ stable'[c] = {o \in Visible(data, snapshot, readable) : IsPrefix(w.root, o) /\ o # w.root}
      /\ \A d \in Clients : d # c => /\ walk'[d] = walk[d] /\ serve'[d] = serve[d]
                                     /\ stable'[d] = stable[d]
  BY <1>1 DEF TypeInv, Send
<1>5. PICK S : S = stable'[c]
  OBVIOUS
<1>6. Visible(data, snapshot, readable) \subseteq Oids
  BY InputsAssumption DEF Visible, TypeInv
<1>7. S \in SUBSET Oids /\ \A o \in S : IsPrefix(w.root, o) /\ o # w.root
  BY <1>4, <1>5, <1>6
<1>8. w.root \in Oids
  BY DEF Walks
<1>9. IsPrefix(w.root, w.current)
  BY <1>1, <1>8, PrefixArcs, OidFacts
<1>10. \A o \in S : ~OidLeq(o, w.current)
  BY <1>1, <1>7, <1>8, ExtensionLater, LessTransitive, LessIrreflexive DEF OidLeq
<1>11. Thorough(c)'
  BY <1>4, <1>5, <1>7, <1>9, <1>10, RequestThorough
<1>. QED  BY <1>2, <1>3, <1>4, <1>11, StableFrame

\* A single request is no walk.
LEMMA PollStable ==
    ASSUME TypeInv, StableInv, NEW c \in Clients, Poll(c)
    PROVE  StableInv'
<1>1. /\ UNCHANGED <<data, snapshot, readable, stable, foul>>
      /\ walk' = [walk EXCEPT ![c] = [NoWalk EXCEPT !.state = "polling"]]
  BY DEF Poll
<1>2. PICK q \in Polls : Send(c, q)
  BY DEF Poll
<1>3. \A d \in Clients : d # c => walk'[d] = walk[d] /\ serve'[d] = serve[d]
  BY <1>1, <1>2 DEF TypeInv, Send
<1>4. walk'[c].state # "walking"
  BY <1>1 DEF TypeInv, NoWalk
<1>5. Visible(data, snapshot, readable)' = Visible(data, snapshot, readable)
  BY <1>1 DEF Visible, Served, Kind
<1>6. stable'[c] \subseteq Visible(data, snapshot, readable)
  BY <1>1 DEF StableInv
<1>. QED  BY <1>1, <1>3, <1>4, <1>5, <1>6, StableFrame

\* The answer is over: the client is at the end of its walk, or asks on from the last
\* varbind, and has seen every stable instance up to there.
LEMMA ReplyStable ==
    ASSUME TypeInv, StableInv, NEW c \in Clients, Reply(c)
    PROVE  StableInv'
<1>1. UNCHANGED mib
  BY ReplyCases
<1>2. Visible(data, snapshot, readable)' = Visible(data, snapshot, readable)
  BY <1>1 DEF Visible, Served, Kind, mib
<1>3. CASE \E w \in Walks : walk' = [walk EXCEPT ![c] = w] /\ w.state = "done" /\ Finish(c)
  <2>1. PICK w \in Walks : walk' = [walk EXCEPT ![c] = w] /\ w.state = "done" /\ Finish(c)
    BY <1>3
  <2>2. /\ walk'[c] = w /\ stable'[c] = {}
        /\ \A d \in Clients : d # c => /\ walk'[d] = walk[d] /\ serve'[d] = serve[d]
                                       /\ stable'[d] = stable[d] /\ foul'[d] = foul[d]
    BY <2>1 DEF Finish, TypeInv
  <2>3. stable'[c] \subseteq Visible(data, snapshot, readable) /\ walk'[c].state # "walking"
    BY <2>1, <2>2
  <2>. QED  BY <1>2, <2>2, <2>3, StableFrame
<1>4. CASE /\ walk[c].state = "walking"
           /\ \E n \in 0..Len(serve[c].out), w \in Walks :
                /\ Takes(walk[c], serve[c].out, n)
                /\ w.seen = walk[c].seen \cup {serve[c].out[i].oid : i \in 1..n}
                /\ walk' = [walk EXCEPT ![c] = w]
                /\ n = Len(serve[c].out) /\ n > 0
                /\ w.state = "walking" /\ w.root = walk[c].root
                /\ w.current = serve[c].out[n].oid
                /\ Send(c, WalkRequest(w)) /\ UNCHANGED <<stable, foul>>
  <2>. DEFINE v == walk[c]
              out == serve[c].out
  <2>1. PICK n \in 0..Len(out), w \in Walks :
                /\ Takes(v, out, n)
                /\ w.seen = v.seen \cup {out[i].oid : i \in 1..n}
                /\ walk' = [walk EXCEPT ![c] = w]
                /\ n = Len(out) /\ n > 0
                /\ w.state = "walking" /\ w.root = v.root /\ w.current = out[n].oid
                /\ Send(c, WalkRequest(w)) /\ UNCHANGED <<stable, foul>>
    BY <1>4
  <2>2. /\ walk'[c] = w /\ serve'[c] = Request(WalkRequest(w))
        /\ \A d \in Clients : d # c => walk'[d] = walk[d] /\ serve'[d] = serve[d]
    BY <2>1 DEF TypeInv, Send
  <2>3. stable[c] \subseteq Visible(data, snapshot, readable) /\ stable[c] \in SUBSET Oids
    BY DEF StableInv, TypeInv
  <2>4. ASSUME ~foul[c] PROVE Thorough(c)'
    <3>1. Thorough(c)
      BY <1>4, <2>4 DEF StableInv
    <3>2. n \in 1..n /\ n \in Nat /\ n \in DOMAIN out
      <4>1. out \in Seq(Bindings)
        BY DEF TypeInv, Serving
      <4>. HIDE DEF Bindings
      <4>. QED  BY <2>1, <4>1
    <3>3. out[n].value = "value" /\ IsPrefix(v.root, out[n].oid)
      BY <2>1, <3>2 DEF Takes, Progress
    <3>4. Follows(v, out, stable[c], n)
      BY <3>1, <3>2 DEF Thorough
    <3>5. \A o \in stable[c] : OidLeq(o, w.current) => o \in w.seen
      BY <2>1, <3>3, <3>4 DEF Follows
    <3>6. \A o \in stable[c] : IsPrefix(w.root, o)
      BY <2>1, <3>1 DEF Thorough
    <3>7. PICK S : S = stable[c]
      OBVIOUS
    <3>8. IsPrefix(w.root, w.current)
      BY <2>1, <3>3
    <3>. QED  BY <2>1, <2>2, <2>3, <3>5, <3>6, <3>7, <3>8, RequestThorough
  <2>. QED  BY <1>2, <2>1, <2>2, <2>3, <2>4, StableFrame
<1>. QED  BY <1>3, <1>4, ReplyCases

\* What a change takes away is not stable any more; the rest still lies ahead.
LEMMA EnvironmentStable ==
    ASSUME TypeInv, StableInv, \/ \E h \in H : Change(h) \/ Expire(h)
                               \/ Reconfigure
    PROVE  StableInv'
<1>1. Observe(data', snapshot', readable') /\ UNCHANGED <<walk, serve, foul>>
  BY EnvironmentStep
<1>2. ASSUME NEW c \in Clients
      PROVE  /\ stable'[c] \subseteq Visible(data', snapshot', readable')
             /\ stable'[c] \subseteq stable[c]
  BY <1>1 DEF Observe
<1>3. ASSUME NEW c \in Clients, walk[c].state = "walking", ~foul[c] PROVE Thorough(c)'
  <2>1. Thorough(c)
    BY <1>3 DEF StableInv
  <2>. QED  BY <1>1, <1>2, <2>1, ThoroughFrame
<1>4. Visible(data, snapshot, readable)' = Visible(data', snapshot', readable')
  BY DEF Visible, Served, Kind
<1>. QED  BY <1>1, <1>2, <1>3, <1>4 DEF StableInv

\* Before the first walk nothing is owed.
LEMMA InitStable == Init => StableInv
<1>. SUFFICES ASSUME Init PROVE StableInv
  OBVIOUS
<1>1. \A c \in Clients : walk[c].state = "done" /\ stable[c] = {}
  BY DEF Init, NoWalk
<1>. QED  BY <1>1 DEF StableInv

\* Nothing happens.
LEMMA StutterStable == StableInv /\ UNCHANGED vars => StableInv'
<1>. SUFFICES ASSUME StableInv, UNCHANGED vars PROVE StableInv'
  OBVIOUS
<1>1. Visible(data, snapshot, readable)' = Visible(data, snapshot, readable)
  BY DEF Visible, Served, Kind, vars
<1>2. UNCHANGED <<walk, serve, stable, foul>>
  BY DEF vars
<1>3. ASSUME NEW c \in Clients, walk[c].state = "walking", ~foul[c] PROVE Thorough(c)'
  <2>1. Thorough(c)
    BY <1>3 DEF StableInv
  <2>. QED  BY <1>2, <2>1, ThoroughFrame
<1>. QED  BY <1>1, <1>2, <1>3 DEF StableInv

\* Every step keeps the walks thorough.
LEMMA NextStable ==
    ASSUME InRootOrder, TypeInv, StableInv, [Next]_vars
    PROVE  StableInv'
<1>1. CASE UNCHANGED vars
  BY <1>1, StutterStable
<1>2. CASE \/ \E h \in H : Change(h) \/ Expire(h)
           \/ Reconfigure
  BY <1>2, EnvironmentStable
<1>. QED  BY <1>1, <1>2, SearchNextStable, GetOneStable, StartWalkStable, PollStable,
             ReplyStable DEF Next

\* The client ends a walk only behind the last stable instance.
LEMMA EndOfWalk ==
    ASSUME InRootOrder, TypeInv, StableInv, [Next]_vars, NEW c \in Clients,
           walk[c].state = "walking", walk'[c].state = "done", ~foul[c]
    PROVE  stable[c] \subseteq walk'[c].seen
<1>. DEFINE v == walk[c]
            out == serve[c].out
            S == stable[c]
<1>1. Reply(c)
  <2>1. walk'[c] # walk[c]
    OBVIOUS
  <2>2. ASSUME UNCHANGED walk PROVE FALSE
    BY <2>1, <2>2
  <2>3. ASSUME NEW d \in Clients, d # c, StartWalk(d) \/ Poll(d) \/ Reply(d) PROVE FALSE
    <3>1. \E w \in Walks : walk' = [walk EXCEPT ![d] = w]
      BY <2>3, StartWalkStep, ReplyCases, NoWalkType DEF Poll
    <3>. QED  BY <2>1, <2>3, <3>1 DEF TypeInv
  <2>4. ASSUME StartWalk(c) \/ Poll(c) PROVE FALSE
    BY <2>4 DEF StartWalk, Poll
  <2>5. CASE UNCHANGED vars
    BY <2>2, <2>5 DEF vars
  <2>6. CASE \/ \E h \in H : Change(h) \/ Expire(h)
             \/ Reconfigure
    BY <2>2, <2>6, EnvironmentStep
  <2>7. ASSUME NEW d \in Clients, SearchNext(d) \/ GetOne(d) PROVE FALSE
    BY <2>2, <2>7 DEF SearchNext, GetOne
  <2>. QED  BY <2>3, <2>4, <2>5, <2>6, <2>7 DEF Next
<1>2. PICK n \in 0..Len(out), w \in Walks :
        /\ Takes(v, out, n)
        /\ w.seen = v.seen \cup {out[i].oid : i \in 1..n}
        /\ walk' = [walk EXCEPT ![c] = w]
        /\ n < Len(out) \/ n = 0
  <2>1. PICK n \in 0..Len(out), seen \in SUBSET Oids, w \in Walks :
          /\ Takes(v, out, n)
          /\ seen = v.seen \cup {out[i].oid : i \in 1..n}
          /\ w.seen = seen /\ walk' = [walk EXCEPT ![c] = w]
          /\ \/ /\ n < Len(out) \/ n = 0
                /\ w.state = "done" /\ Finish(c)
             \/ /\ n = Len(out) /\ n > 0
                /\ w.state = "walking" /\ w.root = v.root
                /\ w.current = out[n].oid /\ w.reps = v.reps
                /\ Send(c, WalkRequest(w)) /\ UNCHANGED <<stable, foul>>
    <3>1. v.state # "polling"
      OBVIOUS
    <3>. QED  BY <1>1, <3>1, ReplyCases
  <2>2. w.state # "walking"
    BY <2>1 DEF TypeInv
  <2>3. n < Len(out) \/ n = 0
    BY <2>1, <2>2
  <2>4. w.seen = v.seen \cup {out[i].oid : i \in 1..n}
    BY <2>1
  <2>. QED  BY <2>1, <2>3, <2>4
<1>3. walk'[c] = w
  BY <1>2 DEF TypeInv
<1>4. Thorough(c) /\ Done(serve[c])
  BY <1>1, ReplyCases DEF StableInv
<1>5. v \in Walks /\ serve[c] \in Serving /\ out \in Seq(Bindings) /\ S \in SUBSET Oids
  BY DEF TypeInv, Serving
<1>6. Len(out) >= 1 /\ Len(out) \in Nat
  BY <1>4, <1>5, AsksOneShape DEF Thorough
<1>7. /\ n \in Nat /\ n + 1 \in DOMAIN out
      /\ \A i \in 1..(n + 1) : i \in DOMAIN out /\ out[i] \in Bindings
  <2>. HIDE DEF Bindings
  <2>. QED  BY <1>2, <1>5, <1>6
<1>8. Follows(v, out, S, n + 1)
  BY <1>4, <1>7 DEF Thorough
<1>9. PICK p : p = Previous(v, out, n + 1)
  OBVIOUS
<1>10. ~Progress(v, p, out[n + 1])
  <2>1. n < Len(out)
    BY <1>2, <1>6
  <2>. QED  BY <1>2, <1>7, <1>9, <2>1 DEF Takes, Previous
<1>11. CASE out[n + 1].value = "endOfMibView"
  <2>1. S \subseteq v.seen \cup {out[j].oid : j \in 1..(n + 1 - 1)}
    BY <1>8, <1>11 DEF Follows
  <2>2. n + 1 - 1 = n
    BY <1>7
  <2>. QED  BY <1>2, <1>3, <2>1, <2>2
<1>12. CASE out[n + 1].value # "endOfMibView"
  <2>. DEFINE x == out[n + 1].oid
  <2>1. /\ out[n + 1].value = "value" /\ OidLess(p, x) /\ x \in Oids
        /\ \A o \in S : OidLeq(o, x) => o \in v.seen \cup {out[j].oid : j \in 1..(n + 1)}
    BY <1>7, <1>8, <1>9, <1>12 DEF Follows, Bindings
  <2>2. ~IsPrefix(v.root, x)
    BY <1>10, <2>1 DEF Progress
  <2>3. p \in Oids /\ IsPrefix(v.root, p) /\ v.root \in Oids
    <3>1. CASE n = 0
      BY <1>4, <1>5, <1>9, <3>1 DEF Previous, Thorough, Walks
    <3>2. CASE n # 0
      <4>1. n \in 1..n /\ n + 1 # 1 /\ n + 1 - 1 = n /\ n \in 1..(n + 1)
        BY <1>7, <3>2
      <4>2. p = out[n].oid
        BY <1>9, <4>1 DEF Previous
      <4>3. IsPrefix(v.root, out[n].oid)
        BY <1>2, <4>1 DEF Takes, Progress
      <4>. QED  BY <1>5, <1>7, <4>1, <4>2, <4>3 DEF Bindings, Walks
    <3>. QED  BY <3>1, <3>2
  <2>4. ASSUME NEW o \in S PROVE o \in w.seen
    <3>1. o \in Oids /\ IsPrefix(v.root, o)
      BY <1>4, <1>5 DEF Thorough
    <3>2. o # x
      BY <2>2, <3>1
    <3>3. ~OidLess(x, o)
      BY <2>1, <2>2, <2>3, <3>1, SubtreeConvex
    <3>4. OidLeq(o, x)
      BY <2>1, <3>1, <3>2, <3>3, LessTotal DEF OidLeq
    <3>5. o \in v.seen \cup {out[j].oid : j \in 1..(n + 1)}
      BY <2>1, <3>4
    <3>6. \A j \in 1..(n + 1) : j = n + 1 \/ j \in 1..n
      BY <1>7
    <3>. QED  BY <1>2, <3>2, <3>5, <3>6
  <2>. QED  BY <1>3, <2>4
<1>. QED  BY <1>11, <1>12

\* walk_each and bulk_walk_each over do_get_next_accessible: for any handlers in the order
\* of their subtrees, any number of clients and repetitions, a walk no foreign handler
\* misled returns every instance of its subtree that was there and readable throughout.
THEOREM WalksAreComplete == InRootOrder => (Spec => StableVisited)
<1>. SUFFICES ASSUME InRootOrder PROVE Spec => StableVisited
  OBVIOUS
<1>1. Init => TypeInv /\ StableInv
  BY InitTypeInv, InitStable
<1>2. TypeInv /\ StableInv /\ [Next]_vars => (TypeInv /\ StableInv)'
  BY NextTypeInv, NextStable
<1>3. TypeInv /\ StableInv /\ [Next]_vars =>
        [\A c \in Clients :
           walk[c].state = "walking" /\ walk'[c].state = "done" /\ ~foul[c]
             => stable[c] \subseteq walk'[c].seen]_vars
  BY EndOfWalk
<1>. QED  BY <1>1, <1>2, <1>3, PTL DEF Spec, StableVisited

---------------------------------------------------------------------------
(* What GETNEXT and GETBULK owe: the instances after an OID, counted.      *)

\* A finite set of OIDs that is not empty has a last.
LEMMA GreatestOid ==
    ASSUME NEW S \in SUBSET Oids, IsFiniteSet(S), S # {}
    PROVE  \E o \in S : \A p \in S : OidLeq(p, o)
<1>1. PICK R : R = {r \in Oids \X Oids : OidLeq(r[2], r[1])}
  OBVIOUS
<1>2. \A o, p \in S : <<o, p>> \in R <=> OidLeq(p, o)
  BY <1>1
<1>3. \A x, y \in S : <<x, y>> \in R \/ <<y, x>> \in R
  BY <1>2, LeqOrder DEF OidLeq
<1>4. \A x, y, z \in S : <<x, y>> \in R /\ <<y, z>> \in R => <<x, z>> \in R
  BY <1>2, LeqOrder
<1>5. \E o \in S : \A p \in S : <<o, p>> \in R
  BY <1>3, <1>4, FirstElement
<1>. QED  BY <1>2, <1>5

\* The place of o among the OIDs of S.
Rank(S, o) == Cardinality({p \in S : OidLeq(p, o)})

\* A place is a number from one to the number of OIDs.
LEMMA RankType ==
    ASSUME NEW S \in SUBSET Oids, IsFiniteSet(S), NEW o \in S
    PROVE  Rank(S, o) \in 1..Cardinality(S) /\ Cardinality(S) \in Nat
<1>. DEFINE T == {p \in S : OidLeq(p, o)}
<1>1. T \in SUBSET S /\ o \in T
  BY LeqOrder
<1>2. /\ IsFiniteSet(T) /\ Cardinality(T) <= Cardinality(S)
  <2>. HIDE DEF T
  <2>. QED  BY <1>1, FS_Subset
<1>3. Cardinality(T) \in Nat /\ Cardinality(S) \in Nat
  <2>. HIDE DEF T
  <2>. QED  BY <1>2, FS_CardinalityType
<1>4. Cardinality(T) # 0
  <2>. HIDE DEF T
  <2>. QED  BY <1>1, <1>2, FS_EmptySet
<1>5. Rank(S, o) = Cardinality(T)
  BY DEF Rank
<1>. HIDE DEF T
<1>. QED  BY <1>2, <1>3, <1>4, <1>5

\* A later OID has a higher place.
LEMMA RankRises ==
    ASSUME NEW S \in SUBSET Oids, IsFiniteSet(S), NEW a \in S, NEW b \in S, OidLess(a, b)
    PROVE  Rank(S, a) < Rank(S, b)
<1>. DEFINE T == {p \in S : OidLeq(p, a)}
            U == {p \in S : OidLeq(p, b)}
<1>1. T \subseteq U /\ b \in U /\ b \notin T /\ U \in SUBSET S
  <2>1. \A p \in T : OidLeq(p, b)
    BY LeqOrder DEF OidLeq
  <2>. QED  BY <2>1, LeqOrder
<1>. HIDE DEF T, U
<1>2. IsFiniteSet(U)
  BY <1>1, FS_Subset
<1>3. /\ IsFiniteSet(T) /\ Cardinality(T) <= Cardinality(U) /\ Cardinality(U) # Cardinality(T)
  BY <1>1, <1>2, FS_Subset
<1>4. Cardinality(T) \in Nat /\ Cardinality(U) \in Nat
  BY <1>2, <1>3, FS_CardinalityType
<1>5. Rank(S, a) = Cardinality(T) /\ Rank(S, b) = Cardinality(U)
  BY DEF Rank, T, U
<1>. QED  BY <1>3, <1>4, <1>5

\* Every place is taken.
LEMMA RankTaken ==
    ASSUME NEW S \in SUBSET Oids, IsFiniteSet(S), NEW k \in 1..Cardinality(S)
    PROVE  \E o \in S : Rank(S, o) = k
<1>. DEFINE T == {o \in S : Rank(S, o) >= k}
<1>1. Cardinality(S) \in Nat /\ \A o \in S : Rank(S, o) \in 1..Cardinality(S)
  BY FS_CardinalityType, RankType
<1>2. k \in Nat /\ k >= 1 /\ k <= Cardinality(S)
  BY <1>1
<1>3. S # {}
  BY <1>1, <1>2, FS_EmptySet
<1>4. T # {}
  <2>1. PICK g \in S : \A p \in S : OidLeq(p, g)
    BY <1>3, GreatestOid
  <2>2. {p \in S : OidLeq(p, g)} = S
    BY <2>1
  <2>3. Rank(S, g) = Cardinality(S)
    BY <2>2 DEF Rank
  <2>. QED  BY <1>2, <2>3
<1>5. T \in SUBSET S /\ IsFiniteSet(T)
  <2>1. T \in SUBSET S
    OBVIOUS
  <2>. HIDE DEF T
  <2>. QED  BY <2>1, FS_Subset
<1>6. PICK y \in T : \A o \in T : OidLeq(y, o)
  <2>. HIDE DEF T
  <2>. QED  BY <1>4, <1>5, LeastOid
<1>7. y \in S /\ y \in Oids /\ Rank(S, y) >= k
  BY <1>6
<1>. DEFINE B == {p \in S : OidLess(p, y)}
<1>8. B \in SUBSET S /\ y \notin B /\ B \cup {y} = {p \in S : OidLeq(p, y)}
  BY <1>7, LessIrreflexive DEF OidLeq
<1>9. IsFiniteSet(B)
  <2>. HIDE DEF B
  <2>. QED  BY <1>8, FS_Subset
<1>10. Rank(S, y) = Cardinality(B) + 1
  <2>1. Rank(S, y) = Cardinality(B \cup {y})
    BY <1>8 DEF Rank
  <2>. HIDE DEF B
  <2>. QED  BY <1>8, <1>9, <2>1, FS_AddElement
<1>11. Cardinality(B) < k
  <2>1. CASE B = {}
    <3>1. Cardinality(B) = 0
      <4>. HIDE DEF B
      <4>. QED  BY <2>1, FS_EmptySet
    <3>. HIDE DEF B
    <3>. QED  BY <1>2, <3>1
  <2>2. CASE B # {}
    <3>1. PICK z \in B : \A p \in B : OidLeq(p, z)
      <4>. HIDE DEF B
      <4>. QED  BY <1>8, <1>9, <2>2, GreatestOid
    <3>2. z \in S /\ z \in Oids /\ OidLess(z, y)
      BY <3>1
    <3>3. {p \in S : OidLeq(p, z)} = B
      <4>1. ASSUME NEW p \in S, OidLeq(p, z) PROVE OidLess(p, y)
        BY <1>7, <3>2, <4>1, LeqOrder
      <4>. QED  BY <3>1, <4>1
    <3>4. Rank(S, z) = Cardinality(B)
      BY <3>3 DEF Rank
    <3>5. z \notin T
      BY <1>6, <1>7, <3>2, LeqOrder
    <3>6. Rank(S, z) < k
      BY <1>1, <1>2, <3>2, <3>5
    <3>. QED  BY <3>4, <3>6
  <2>. QED  BY <2>1, <2>2
<1>12. Cardinality(B) \in Nat
  <2>. HIDE DEF B
  <2>. QED  BY <1>9, FS_CardinalityType
<1>13. Rank(S, y) = k
  <2>. HIDE DEF B
  <2>. QED  BY <1>2, <1>7, <1>10, <1>11, <1>12
<1>. QED  BY <1>7, <1>13

\* What follows an OID among those of S: the first one after it, or the end.
NextEntry(S, oid) ==
    IF Ahead(S, oid) = {} THEN EndOfMibView(oid) ELSE VarBind(Least(Ahead(S, oid)), "value")

\* The k-th instance after an OID.
Nth(S, oid, k) == CHOOSE o \in Ahead(S, oid) : Rank(Ahead(S, oid), o) = k

\* What lies after an OID is a finite set of OIDs.
LEMMA AheadType ==
    ASSUME NEW S \in SUBSET Oids, IsFiniteSet(S), NEW v \in Oids
    PROVE  /\ Ahead(S, v) \in SUBSET Oids /\ IsFiniteSet(Ahead(S, v))
           /\ Cardinality(Ahead(S, v)) \in Nat
           /\ Ahead(S, v) = {} <=> Cardinality(Ahead(S, v)) = 0
<1>1. Ahead(S, v) \in SUBSET S
  BY DEF Ahead
<1>2. IsFiniteSet(Ahead(S, v))
  BY <1>1, FS_Subset
<1>. QED  BY <1>1, <1>2, FS_CardinalityType, FS_EmptySet

\* The operator NthNext of the model, with its local definitions named.
LEMMA NthNextCases ==
    ASSUME NEW S, NEW v, NEW k
    PROVE  NthNext(S, v, k) =
             IF k <= Cardinality(Ahead(S, v)) THEN VarBind(Nth(S, v, k), "value")
             ELSE EndOfMibView(IF Cardinality(Ahead(S, v)) = 0 THEN v
                               ELSE Nth(S, v, Cardinality(Ahead(S, v))))
BY DEF NthNext, Nth, Rank

\* The k-th instance after an OID is there, and is the k-th.
LEMMA NthRank ==
    ASSUME NEW S \in SUBSET Oids, IsFiniteSet(S), NEW v \in Oids,
           NEW k \in 1..Cardinality(Ahead(S, v))
    PROVE  Nth(S, v, k) \in Ahead(S, v) /\ Rank(Ahead(S, v), Nth(S, v, k)) = k
<1>1. \E o \in Ahead(S, v) : Rank(Ahead(S, v), o) = k
  BY AheadType, RankTaken
<1>. QED  BY <1>1 DEF Nth

\* Instances after the k-th are those with a higher place.
LEMMA AfterNth ==
    ASSUME NEW S \in SUBSET Oids, IsFiniteSet(S), NEW v \in Oids,
           NEW k \in 1..Cardinality(Ahead(S, v)), NEW o \in Oids
    PROVE  o \in Ahead(S, Nth(S, v, k)) <=>
             o \in Ahead(S, v) /\ Rank(Ahead(S, v), o) > k
<1>. DEFINE A == Ahead(S, v)
            x == Nth(S, v, k)
<1>1. A \in SUBSET Oids /\ IsFiniteSet(A)
  BY AheadType
<1>2. x \in A /\ Rank(A, x) = k /\ x \in Oids /\ OidLess(v, x)
  BY <1>1, NthRank DEF Ahead
<1>3. \A p \in A : Rank(A, p) \in Nat
  <2>. HIDE DEF A
  <2>1. ASSUME NEW p \in A PROVE Rank(A, p) \in Nat
    BY <1>1, RankType
  <2>. QED  BY <2>1
<1>4. ASSUME o \in Ahead(S, x) PROVE o \in A /\ Rank(A, o) > k
  <2>1. o \in S /\ OidLess(x, o)
    BY <1>4 DEF Ahead
  <2>2. o \in A
    BY <1>2, <2>1, LessTransitive DEF Ahead
  <2>. HIDE DEF A, x
  <2>3. Rank(A, x) < Rank(A, o)
    BY <1>1, <1>2, <2>1, <2>2, RankRises
  <2>. QED  BY <1>2, <1>3, <2>2, <2>3
<1>5. ASSUME o \in A, Rank(A, o) > k PROVE o \in Ahead(S, x)
  <2>1. o \in S
    BY <1>5 DEF Ahead
  <2>2. OidLess(x, o)
    <3>. HIDE DEF A, x
    <3>1. ~OidLess(o, x)
      <4>. SUFFICES ASSUME OidLess(o, x) PROVE FALSE
        OBVIOUS
      <4>1. Rank(A, o) < Rank(A, x)
        BY <1>1, <1>2, <1>5, RankRises
      <4>. QED  BY <1>2, <1>3, <1>5, <4>1
    <3>2. o # x
      BY <1>2, <1>3, <1>5
    <3>. QED  BY <1>2, <3>1, <3>2, LessTotal
  <2>. QED  BY <2>1, <2>2 DEF Ahead
<1>. QED  BY <1>4, <1>5

\* The first element of a set is the one that is not after another.
LEMMA LeastIs ==
    ASSUME NEW S \in SUBSET Oids, IsFiniteSet(S), NEW x \in S, \A o \in S : OidLeq(x, o)
    PROVE  Least(S) = x
<1>1. Least(S) \in S /\ \A o \in S : OidLeq(Least(S), o)
  BY LeastOid
<1>. QED  BY <1>1, LeqOrder DEF OidLeq

\* The first repetition of GETBULK, and GETNEXT.
LEMMA NthNextFirst ==
    ASSUME NEW S \in SUBSET Oids, IsFiniteSet(S), NEW v \in Oids
    PROVE  NthNext(S, v, 1) = NextEntry(S, v)
<1>. DEFINE A == Ahead(S, v)
            size == Cardinality(A)
<1>1. A \in SUBSET Oids /\ IsFiniteSet(A) /\ size \in Nat /\ (A = {} <=> size = 0)
  BY AheadType
<1>2. CASE size = 0
  <2>1. ~(1 <= size)
    BY <1>2
  <2>. QED  BY <1>1, <1>2, <2>1, NthNextCases DEF NextEntry
<1>3. CASE size # 0
  <2>1. 1 <= size /\ 1 \in 1..size
    BY <1>1, <1>3
  <2>2. NthNext(S, v, 1) = VarBind(Nth(S, v, 1), "value")
    BY <2>1, NthNextCases
  <2>. DEFINE x == Nth(S, v, 1)
  <2>3. x \in A /\ Rank(A, x) = 1
    BY <2>1, NthRank
  <2>4. ASSUME NEW o \in A PROVE OidLeq(x, o)
    <3>. HIDE DEF A, x
    <3>1. ~OidLess(o, x)
      <4>. SUFFICES ASSUME OidLess(o, x) PROVE FALSE
        OBVIOUS
      <4>1. Rank(A, o) < Rank(A, x) /\ Rank(A, o) \in 1..Cardinality(A)
        BY <1>1, <2>3, RankRises, RankType
      <4>. QED  BY <2>3, <4>1
    <3>. QED  BY <1>1, <2>3, <3>1, LessTotal DEF OidLeq
  <2>5. Least(A) = x
    <3>. HIDE DEF A, x
    <3>. QED  BY <1>1, <2>3, <2>4, LeastIs
  <2>. QED  BY <1>1, <1>3, <2>2, <2>5 DEF NextEntry
<1>. QED  BY <1>2, <1>3

\* The next repetition goes on from where the one before it arrived.
LEMMA NthNextStep ==
    ASSUME NEW S \in SUBSET Oids, IsFiniteSet(S), NEW v \in Oids, NEW k \in Nat, k >= 1
    PROVE  NthNext(S, v, k + 1) = NextEntry(S, NthNext(S, v, k).oid)
<1>. DEFINE A == Ahead(S, v)
            size == Cardinality(A)
<1>1. A \in SUBSET Oids /\ IsFiniteSet(A) /\ size \in Nat /\ (A = {} <=> size = 0)
  BY AheadType
<1>2. CASE k + 1 <= size
  <2>1. k <= size /\ k \in 1..size /\ k + 1 \in 1..size
    BY <1>1, <1>2
  <2>. DEFINE x == Nth(S, v, k)
              y == Nth(S, v, k + 1)
  <2>2. NthNext(S, v, k + 1) = VarBind(y, "value") /\ NthNext(S, v, k).oid = x
    BY <1>2, <2>1, NthNextCases DEF VarBind
  <2>3. y \in A /\ Rank(A, y) = k + 1 /\ x \in A /\ y \in Oids /\ x \in Oids
    BY <1>1, <2>1, NthRank
  <2>4. y \in Ahead(S, x)
    <3>1. Rank(A, y) > k
      <4>. HIDE DEF A, x, y
      <4>. QED  BY <2>3
    <3>. QED  BY <2>1, <2>3, <3>1, AfterNth
  <2>5. ASSUME NEW o \in Ahead(S, x) PROVE OidLeq(y, o)
    <3>1. o \in Oids
      BY DEF Ahead
    <3>2. o \in A /\ Rank(A, o) > k
      BY <2>1, <3>1, AfterNth
    <3>. HIDE DEF A, x, y
    <3>3. ~OidLess(o, y)
      <4>. SUFFICES ASSUME OidLess(o, y) PROVE FALSE
        OBVIOUS
      <4>1. Rank(A, o) < Rank(A, y) /\ Rank(A, o) \in 1..Cardinality(A)
        BY <1>1, <2>3, <3>2, RankRises, RankType
      <4>. QED  BY <2>3, <3>2, <4>1
    <3>. QED  BY <2>3, <3>1, <3>3, LessTotal DEF OidLeq
  <2>6. Least(Ahead(S, x)) = y
    <3>1. Ahead(S, x) \in SUBSET Oids /\ IsFiniteSet(Ahead(S, x))
      BY <2>3, AheadType
    <3>. HIDE DEF x, y
    <3>. QED  BY <2>4, <2>5, <3>1, LeastIs
  <2>. QED  BY <2>2, <2>4, <2>6 DEF NextEntry
<1>3. CASE k = size
  <2>1. k <= size /\ k \in 1..size /\ ~(k + 1 <= size) /\ size # 0
    BY <1>1, <1>3
  <2>. DEFINE x == Nth(S, v, k)
  <2>2. NthNext(S, v, k + 1) = EndOfMibView(x) /\ NthNext(S, v, k).oid = x
    BY <1>3, <2>1, NthNextCases DEF VarBind
  <2>3. Ahead(S, x) = {}
    <3>. SUFFICES ASSUME NEW o \in Ahead(S, x) PROVE FALSE
      OBVIOUS
    <3>1. o \in Oids
      BY DEF Ahead
    <3>2. o \in A /\ Rank(A, o) > k
      BY <2>1, <3>1, AfterNth
    <3>3. Rank(A, o) \in 1..size
      BY <1>1, <3>2, RankType
    <3>. HIDE DEF A
    <3>. QED  BY <1>1, <1>3, <3>2, <3>3
  <2>. QED  BY <2>2, <2>3 DEF NextEntry
<1>4. CASE k > size
  <2>1. ~(k <= size) /\ ~(k + 1 <= size)
    BY <1>1, <1>4
  <2>2. PICK x : x = IF size = 0 THEN v ELSE Nth(S, v, size)
    OBVIOUS
  <2>3. NthNext(S, v, k + 1) = EndOfMibView(x) /\ NthNext(S, v, k).oid = x
    BY <2>1, <2>2, NthNextCases DEF EndOfMibView, VarBind
  <2>4. Ahead(S, x) = {}
    <3>1. CASE size = 0
      BY <1>1, <2>2, <3>1
    <3>2. CASE size # 0
      <4>. SUFFICES ASSUME NEW o \in Ahead(S, x) PROVE FALSE
        OBVIOUS
      <4>1. o \in Oids /\ size \in 1..size /\ x = Nth(S, v, size)
        BY <1>1, <2>2, <3>2 DEF Ahead
      <4>2. o \in A /\ Rank(A, o) > size
        BY <4>1, AfterNth
      <4>3. Rank(A, o) \in 1..size
        BY <1>1, <4>2, RankType
      <4>. HIDE DEF A
      <4>. QED  BY <1>1, <4>2, <4>3
    <3>. QED  BY <3>1, <3>2
  <2>. QED  BY <2>3, <2>4 DEF NextEntry
<1>. QED  BY <1>1, <1>2, <1>3, <1>4

\* An answer is an OID, and the end from the repetition after the last instance on.
LEMMA NthNextType ==
    ASSUME NEW S \in SUBSET Oids, IsFiniteSet(S), NEW v \in Oids, NEW k \in Nat, k >= 1
    PROVE  /\ NthNext(S, v, k) \in Bindings
           /\ IsEnd(NthNext(S, v, k)) <=> k > Cardinality(Ahead(S, v))
<1>. DEFINE A == Ahead(S, v)
            size == Cardinality(A)
<1>1. A \in SUBSET Oids /\ IsFiniteSet(A) /\ size \in Nat
  BY AheadType
<1>2. \A j \in 1..size : Nth(S, v, j) \in Oids
  BY <1>1, NthRank
<1>3. CASE k <= size
  <2>1. k \in 1..size /\ ~(k > size)
    BY <1>1, <1>3
  <2>. QED  BY <1>2, <1>3, <2>1, NthNextCases DEF VarBind, Bindings, IsEnd
<1>4. CASE ~(k <= size)
  <2>1. k > size /\ (size # 0 => size \in 1..size)
    BY <1>1, <1>4
  <2>2. (IF size = 0 THEN v ELSE Nth(S, v, size)) \in Oids
    BY <1>2, <2>1
  <2>. QED  BY <1>4, <2>1, <2>2, NthNextCases DEF VarBind, EndOfMibView, Bindings, IsEnd
<1>. QED  BY <1>3, <1>4

\* Division with remainder, as the loops of process_bulk count rows and columns.
LEMMA DivMod ==
    ASSUME NEW r \in Nat, r >= 1, NEW m \in Nat
    PROVE  /\ m \div r \in Nat /\ m % r \in 0..(r - 1)
           /\ m = r * (m \div r) + (m % r)
<1>. DEFINE e == m \div r
            b == m % r
<1>1. e \in Int
  OBVIOUS
<1>2. b \in 0..(r - 1)
  OBVIOUS
<1>3. m = r * e + b
  OBVIOUS
<1>4. e \in Nat
  <2>. SUFFICES ASSUME e < 0 PROVE FALSE
    BY <1>1
  <2>. HIDE DEF e, b
  <2>1. r * e <= r * (-1)
    BY <1>1
  <2>. QED  BY <1>1, <1>2, <1>3, <2>1
<1>. QED  BY <1>2, <1>3, <1>4

\* Quotient and remainder are the only numbers of their kind.
LEMMA DivModIs ==
    ASSUME NEW r \in Nat, r >= 1, NEW d \in Nat, NEW c \in 0..(r - 1)
    PROVE  (r * d + c) \div r = d /\ (r * d + c) % r = c
<1>. DEFINE m == r * d + c
            e == m \div r
            b == m % r
<1>1. m \in Nat
  OBVIOUS
<1>2. e \in Nat /\ b \in 0..(r - 1) /\ m = r * e + b
  <2>. HIDE DEF m
  <2>. QED  BY <1>1, DivMod
<1>3. r * d + c = r * e + b
  BY <1>2
<1>. HIDE DEF e, b
<1>4. e = d
  <2>1. ~(e > d)
    <3>. SUFFICES ASSUME e > d PROVE FALSE
      OBVIOUS
    <3>1. r * e >= r * (d + 1)
      BY <1>2
    <3>2. r * (d + 1) = r * d + r
      OBVIOUS
    <3>. QED  BY <1>2, <1>3, <3>1, <3>2
  <2>2. ~(e < d)
    <3>. SUFFICES ASSUME e < d PROVE FALSE
      OBVIOUS
    <3>1. r * d >= r * (e + 1)
      BY <1>2
    <3>2. r * (e + 1) = r * e + r
      BY <1>2
    <3>. QED  BY <1>2, <1>3, <3>1, <3>2
  <2>. QED  BY <1>2, <2>1, <2>2
<1>5. b = c
  BY <1>2, <1>3, <1>4
<1>. QED  BY <1>4, <1>5 DEF e, b, m

\* The variable that column of varbind k belongs to, and its repetition.
Column(q, k) == LET n == NonRepeaters(q)
                IN  IF k <= n THEN k ELSE n + 1 + ((k - n - 1) % Repeaters(q))
Repetition(q, k) == LET n == NonRepeaters(q)
                    IN  IF k <= n THEN 1 ELSE 1 + (k - n - 1) \div Repeaters(q)
Entry(q, S, k) == NthNext(S, q.vars[Column(q, k)], Repetition(q, k))

\* The repetitions after which every column is at its end, and the length of the answer.
Rounds(q, S) ==
    LET n == NonRepeaters(q)
    IN  Max({0} \cup {Cardinality(Ahead(S, q.vars[i])) + 1 : i \in n + 1 .. n + Repeaters(q)})
Length(q, S) == NonRepeaters(q) + Repeaters(q) * Min({q.reps, Rounds(q, S)})

\* The operator Bulk of the model, with its local definitions named.
LEMMA BulkEntries ==
    ASSUME NEW q, NEW S
    PROVE  Bulk(q, S) = [k \in 1..Length(q, S) |-> Entry(q, S, k)]
<1>1. ASSUME NEW k
      PROVE  Entry(q, S, k) =
               IF k <= NonRepeaters(q) THEN NthNext(S, q.vars[k], 1)
               ELSE NthNext(S, q.vars[NonRepeaters(q) + 1
                                        + ((k - NonRepeaters(q) - 1) % Repeaters(q))],
                            1 + (k - NonRepeaters(q) - 1) \div Repeaters(q))
  BY DEF Entry, Column, Repetition
<1>. QED  BY <1>1 DEF Bulk, Length, Rounds

\* Where varbind k lies when the answer is cut into rows.
LEMMA Place ==
    ASSUME NEW q \in Serving, NEW d \in Nat, NEW i \in 1..Repeaters(q)
    PROVE  /\ Column(q, NonRepeaters(q) + Repeaters(q) * d + i) = NonRepeaters(q) + i
           /\ Repetition(q, NonRepeaters(q) + Repeaters(q) * d + i) = 1 + d
<1>. DEFINE n == NonRepeaters(q)
            r == Repeaters(q)
            k == n + r * d + i
<1>1. n \in Nat /\ r \in Nat /\ r >= 1 /\ i \in Nat /\ i >= 1 /\ i <= r
  BY RequestShape
<1>2. i - 1 \in 0..(r - 1)
  BY <1>1
<1>. HIDE DEF n, r
<1>3. r * d \in Nat
  BY <1>1
<1>4. k - n - 1 = r * d + (i - 1) /\ ~(k <= n)
  BY <1>1, <1>3
<1>5. (k - n - 1) \div r = d /\ (k - n - 1) % r = i - 1
  <2>1. (r * d + (i - 1)) \div r = d /\ (r * d + (i - 1)) % r = i - 1
    BY <1>1, <1>2, DivModIs
  <2>. QED  BY <1>4, <2>1
<1>6. n + 1 + (i - 1) = n + i
  BY <1>1
<1>. HIDE DEF k
<1>7. Column(q, k) = n + 1 + ((k - n - 1) % r) /\ Repetition(q, k) = 1 + (k - n - 1) \div r
  BY <1>4 DEF Column, Repetition, n, r
<1>. QED  BY <1>5, <1>6, <1>7 DEF k, n, r

\* Every varbind after the non-repeaters has a row and a column.
LEMMA Placed ==
    ASSUME NEW q \in Serving, Repeaters(q) # 0, NEW k \in Nat, k > NonRepeaters(q)
    PROVE  \E d \in Nat, i \in 1..Repeaters(q) : k = NonRepeaters(q) + Repeaters(q) * d + i
<1>. DEFINE n == NonRepeaters(q)
            r == Repeaters(q)
            m == k - n - 1
<1>1. n \in Nat /\ r \in Nat /\ r >= 1
  BY RequestShape
<1>. HIDE DEF n, r
<1>2. m \in Nat
  BY <1>1 DEF n
<1>3. m \div r \in Nat /\ m % r \in 0..(r - 1) /\ m = r * (m \div r) + (m % r)
  <2>. HIDE DEF m
  <2>. QED  BY <1>1, <1>2, DivMod
<1>4. PICK d, c : d = m \div r /\ c = m % r
  OBVIOUS
<1>5. d \in Nat /\ c \in 0..(r - 1) /\ k - n - 1 = r * d + c
  BY <1>3, <1>4
<1>6. c + 1 \in 1..r /\ r * d \in Nat
  BY <1>1, <1>5
<1>7. k = n + r * d + (c + 1)
  BY <1>1, <1>5, <1>6
<1>. QED  BY <1>5, <1>6, <1>7 DEF n, r

\* The column of a varbind is a variable of the request.
LEMMA EntryType ==
    ASSUME NEW q \in Serving, NEW S \in SUBSET Oids, IsFiniteSet(S), NEW k \in Nat, k >= 1,
           k <= NonRepeaters(q) \/ Repeaters(q) # 0
    PROVE  /\ q.vars[Column(q, k)] \in Oids /\ Repetition(q, k) \in Nat /\ Repetition(q, k) >= 1
           /\ Entry(q, S, k) \in Bindings
<1>. DEFINE n == NonRepeaters(q)
            r == Repeaters(q)
<1>1. n \in Nat /\ r \in Nat /\ n + r = Len(q.vars) /\ q.vars \in Seq(Oids)
  BY RequestShape DEF Serving
<1>2. \A j \in 1..(n + r) : q.vars[j] \in Oids
  BY <1>1
<1>3. /\ q.vars[Column(q, k)] \in Oids /\ Repetition(q, k) \in Nat /\ Repetition(q, k) >= 1
  <2>1. CASE k <= n
    <3>1. k \in 1..(n + r)
      BY <1>1, <2>1
    <3>. QED  BY <1>2, <2>1, <3>1 DEF Column, Repetition
  <2>2. CASE ~(k <= n)
    <3>1. PICK d \in Nat, i \in 1..r : k = n + r * d + i
      <4>1. r # 0 /\ k > n
        BY <1>1, <2>2
      <4>. QED  BY <4>1, Placed
    <3>2. Column(q, k) = n + i /\ Repetition(q, k) = 1 + d
      BY <3>1, Place
    <3>3. n + i \in 1..(n + r)
      BY <1>1
    <3>. QED  BY <1>2, <3>2, <3>3
  <2>. QED  BY <2>1, <2>2
<1>. QED  BY <1>3, NthNextType DEF Entry

\* The loops of process_bulk go on, column by column, from the answers of the row before.
LEMMA EntryStep ==
    ASSUME NEW q \in Serving, NEW S \in SUBSET Oids, IsFiniteSet(S), ~Exhausted(q, q.out),
           \A k \in DOMAIN q.out : q.out[k] = Entry(q, S, k)
    PROVE  Entry(q, S, Len(q.out) + 1) = NextEntry(S, Cursor(q, q.out))
<1>. DEFINE n == NonRepeaters(q)
            r == Repeaters(q)
            k == Len(q.out) + 1
<1>1. /\ n \in Nat /\ r \in Nat /\ n + r = Len(q.vars) /\ q.vars \in Seq(Oids)
      /\ Len(q.out) \in Nat /\ DOMAIN q.out = 1..Len(q.out) /\ k \in Nat /\ k >= 1
  <2>1. q.vars \in Seq(Oids) /\ q.out \in Seq(Bindings)
    BY DEF Serving
  <2>. HIDE DEF Bindings
  <2>. QED  BY <2>1, RequestShape
<1>2. k > n + r => r # 0
  BY <1>1 DEF Exhausted
<1>3. q.vars[Column(q, k)] \in Oids /\ Repetition(q, k) \in Nat /\ Repetition(q, k) >= 1
  <2>1. k <= n \/ r # 0
    BY <1>1, <1>2
  <2>. HIDE DEF k
  <2>. QED  BY <1>1, <2>1, EntryType
<1>4. CASE k <= n + r
  <2>1. Cursor(q, q.out) = q.vars[k]
    BY <1>1, <1>4 DEF Cursor
  <2>2. Column(q, k) = k /\ Repetition(q, k) = 1
    <3>1. CASE k <= n
      BY <3>1 DEF Column, Repetition
    <3>2. CASE ~(k <= n)
      <4>1. k - n \in 1..r /\ r # 0 /\ r * 0 = 0
        BY <1>1, <1>4, <3>2
      <4>2. n + r * 0 + (k - n) = k /\ n + (k - n) = k
        BY <1>1, <4>1
      <4>3. /\ Column(q, n + r * 0 + (k - n)) = n + (k - n)
            /\ Repetition(q, n + r * 0 + (k - n)) = 1 + 0
        <5>. HIDE DEF k
        <5>. QED  BY <4>1, Place
      <4>. QED  BY <4>2, <4>3
    <3>. QED  BY <3>1, <3>2
  <2>3. q.vars[k] \in Oids
    BY <1>3, <2>2
  <2>. QED  BY <2>1, <2>2, <2>3, NthNextFirst DEF Entry
<1>5. CASE ~(k <= n + r)
  <2>1. r # 0 /\ k - r \in DOMAIN q.out /\ k - r > n /\ k - r \in Nat
    BY <1>1, <1>2, <1>5
  <2>2. Cursor(q, q.out) = q.out[k - r].oid
    BY <1>1, <1>5 DEF Cursor
  <2>3. PICK d \in Nat, i \in 1..r : k - r = n + r * d + i
    <3>. HIDE DEF k
    <3>. QED  BY <2>1, Placed
  <2>4. Column(q, k - r) = n + i /\ Repetition(q, k - r) = 1 + d
    BY <2>3, Place
  <2>5. k = n + r * (d + 1) + i
    <3>1. r * (d + 1) = r * d + r /\ r * d \in Nat
      BY <1>1
    <3>. HIDE DEF k, r, n
    <3>. QED  BY <1>1, <2>3, <3>1
  <2>6. Column(q, k) = n + i /\ Repetition(q, k) = 1 + (d + 1)
    BY <2>5, Place
  <2>7. q.out[k - r] = NthNext(S, q.vars[n + i], 1 + d)
    BY <2>1, <2>4 DEF Entry
  <2>8. Entry(q, S, k) = NthNext(S, q.vars[n + i], (1 + d) + 1)
    <3>1. 1 + (d + 1) = (1 + d) + 1
      OBVIOUS
    <3>. QED  BY <2>6, <3>1 DEF Entry
  <2>9. q.vars[n + i] \in Oids /\ 1 + d \in Nat /\ 1 + d >= 1
    BY <1>3, <2>6
  <2>. QED  BY <2>2, <2>7, <2>8, <2>9, NthNextStep
<1>. QED  BY <1>4, <1>5

\* Rounds is one more than the longest column has instances.
LEMMA RoundsLongest ==
    ASSUME NEW q \in Serving, NEW S \in SUBSET Oids, IsFiniteSet(S)
    PROVE  /\ Rounds(q, S) \in Nat
           /\ \A d \in Nat : d >= 1 /\ Repeaters(q) # 0 =>
                (d >= Rounds(q, S) <=>
                   \A i \in 1..Repeaters(q) :
                     d > Cardinality(Ahead(S, q.vars[NonRepeaters(q) + i])))
           /\ Repeaters(q) # 0 => Rounds(q, S) >= 1
<1>. DEFINE n == NonRepeaters(q)
            r == Repeaters(q)
            C(j) == Cardinality(Ahead(S, q.vars[j]))
            I == (n + 1)..(n + r)
            M == {0} \cup {C(i) + 1 : i \in I}
<1>1. n \in Nat /\ r \in Nat /\ n + r = Len(q.vars) /\ q.vars \in Seq(Oids)
  BY RequestShape DEF Serving
<1>2. \A j \in I : C(j) \in Nat
  <2>1. ASSUME NEW j \in I PROVE C(j) \in Nat
    <3>1. q.vars[j] \in Oids
      BY <1>1
    <3>. QED  BY <3>1, AheadType
  <2>. QED  BY <2>1
<1>3. Rounds(q, S) = Max(M)
  BY DEF Rounds
<1>4. \E x \in M : \A y \in M : x >= y
  <2>1. CASE I = {}
    <3>1. M = {0}
      BY <2>1
    <3>. QED  BY <3>1
  <2>2. CASE I # {}
    <3>1. PICK R : R = {p \in I \X I : C(p[1]) >= C(p[2])}
      OBVIOUS
    <3>2. \A x, y \in I : <<x, y>> \in R <=> C(x) >= C(y)
      BY <3>1
    <3>. HIDE DEF C
    <3>3. IsFiniteSet(I)
      BY <1>1, FS_Interval
    <3>4. /\ \A x, y \in I : <<x, y>> \in R \/ <<y, x>> \in R
          /\ \A x, y, z \in I : <<x, y>> \in R /\ <<y, z>> \in R => <<x, z>> \in R
      BY <1>2, <3>2
    <3>5. PICK x \in I : \A y \in I : <<x, y>> \in R
      <4>. HIDE DEF I
      <4>. QED  BY <2>2, <3>3, <3>4, FirstElement
    <3>6. ASSUME NEW y \in I PROVE C(x) + 1 >= C(y) + 1
      <4>1. C(x) >= C(y)
        BY <3>2, <3>5
      <4>2. C(x) \in Nat /\ C(y) \in Nat
        BY <1>2, <3>5
      <4>. QED  BY <4>1, <4>2
    <3>7. C(x) + 1 >= 0
      BY <1>2, <3>5
    <3>8. C(x) + 1 \in M
      BY <3>5
    <3>9. \A y \in M : C(x) + 1 >= y
      BY <3>6, <3>7
    <3>. QED  BY <3>8, <3>9
  <2>. QED  BY <2>1, <2>2
<1>5. Max(M) \in M /\ \A y \in M : Max(M) >= y
  <2>. HIDE DEF M
  <2>. QED  BY <1>4 DEF Max
<1>. DEFINE top == Max(M)
<1>6. top \in Nat
  BY <1>2, <1>5
<1>. HIDE DEF top, C
<1>7. \A j \in I : top >= C(j) + 1
  BY <1>5 DEF top
<1>8. r # 0 => \E j \in I : top = C(j) + 1
  <2>. SUFFICES ASSUME r # 0 PROVE \E j \in I : top = C(j) + 1
    OBVIOUS
  <2>1. n + 1 \in I
    BY <1>1
  <2>2. top # 0
    BY <1>2, <1>6, <1>7, <2>1
  <2>. QED  BY <1>5, <2>2 DEF top
<1>9. ASSUME NEW d \in Nat, d >= 1, r # 0
      PROVE  d >= top <=> \A i \in 1..r : d > C(n + i)
  <2>1. ASSUME d >= top, NEW i \in 1..r PROVE d > C(n + i)
    <3>1. n + i \in I
      BY <1>1
    <3>. QED  BY <1>2, <1>6, <1>7, <2>1, <3>1
  <2>2. ASSUME \A i \in 1..r : d > C(n + i) PROVE d >= top
    <3>1. PICK j \in I : top = C(j) + 1
      BY <1>8, <1>9
    <3>2. j - n \in 1..r /\ n + (j - n) = j
      BY <1>1
    <3>3. d > C(j)
      BY <2>2, <3>2
    <3>. QED  BY <1>2, <3>1, <3>3
  <2>. QED  BY <2>1, <2>2
<1>10. r # 0 => top >= 1
  BY <1>2, <1>6, <1>8
<1>11. Rounds(q, S) = top
  BY <1>3 DEF top
<1>. QED  BY <1>6, <1>9, <1>10, <1>11 DEF C

\* A whole row meets the end exactly in repetition Rounds and after.
LEMMA RowEnds ==
    ASSUME NEW q \in Serving, NEW S \in SUBSET Oids, IsFiniteSet(S), Repeaters(q) # 0,
           NEW d \in Nat, d >= 1, Len(q.out) = NonRepeaters(q) + Repeaters(q) * d,
           \A k \in DOMAIN q.out : q.out[k] = Entry(q, S, k)
    PROVE  (\A i \in 1..Repeaters(q) : IsEnd(q.out[Len(q.out) + 1 - i])) <=> d >= Rounds(q, S)
<1>. DEFINE n == NonRepeaters(q)
            r == Repeaters(q)
            C(j) == Cardinality(Ahead(S, q.vars[j]))
<1>1. /\ n \in Nat /\ r \in Nat /\ n + r = Len(q.vars) /\ q.vars \in Seq(Oids)
      /\ Len(q.out) \in Nat /\ DOMAIN q.out = 1..Len(q.out)
  <2>1. q.vars \in Seq(Oids) /\ q.out \in Seq(Bindings)
    BY DEF Serving
  <2>. HIDE DEF Bindings
  <2>. QED  BY <2>1, RequestShape
<1>2. ASSUME NEW j \in 1..r
      PROVE  /\ Len(q.out) + 1 - j \in DOMAIN q.out
             /\ IsEnd(q.out[Len(q.out) + 1 - j]) <=> d > C(n + (r + 1 - j))
  <2>. DEFINE i == r + 1 - j
              k == Len(q.out) + 1 - j
  <2>1. i \in 1..r
    BY <1>1
  <2>2. r * d = r * (d - 1) + r /\ r * (d - 1) \in Nat /\ d - 1 \in Nat
    <3>1. PICK e \in Nat : d = e + 1
      BY d - 1 \in Nat
    <3>2. r * (e + 1) = r * e + r /\ r * e \in Nat /\ d - 1 = e
      BY <1>1, <3>1
    <3>. QED  BY <3>1, <3>2
  <2>3. k = n + r * (d - 1) + i /\ k \in DOMAIN q.out
    <3>1. PICK a, b : a = r * d /\ b = r * (d - 1)
      OBVIOUS
    <3>2. a = b + r /\ b \in Nat /\ Len(q.out) = n + a
      BY <2>2, <3>1
    <3>3. k = n + b + i /\ k \in DOMAIN q.out
      <4>. HIDE DEF n, r
      <4>. QED  BY <1>1, <3>2
    <3>. QED  BY <3>1, <3>3
  <2>4. Column(q, k) = n + i /\ Repetition(q, k) = 1 + (d - 1)
    <3>. HIDE DEF i
    <3>. QED  BY <2>1, <2>2, <2>3, Place
  <2>5. 1 + (d - 1) = d
    OBVIOUS
  <2>6. q.out[k] = NthNext(S, q.vars[n + i], d)
    BY <2>3, <2>4, <2>5 DEF Entry
  <2>7. q.vars[n + i] \in Oids
    <3>1. n + i \in 1..Len(q.vars)
      BY <1>1, <2>1
    <3>. QED  BY <1>1, <3>1
  <2>8. IsEnd(q.out[k]) <=> d > C(n + i)
    BY <2>6, <2>7, NthNextType
  <2>. QED  BY <2>3, <2>8
<1>3. (\A j \in 1..r : d > C(n + (r + 1 - j))) <=> (\A i \in 1..r : d > C(n + i))
  <2>1. \A j \in 1..r : r + 1 - j \in 1..r /\ r + 1 - (r + 1 - j) = j
    BY <1>1
  <2>. HIDE DEF C
  <2>. QED  BY <2>1
<1>4. d >= Rounds(q, S) <=> \A i \in 1..r : d > C(n + i)
  BY RoundsLongest
<1>. QED  BY <1>2, <1>3, <1>4

\* The least of the repetitions asked for and the repetitions needed.
LEMMA LengthType ==
    ASSUME NEW q \in Serving, NEW S \in SUBSET Oids, IsFiniteSet(S)
    PROVE  /\ Min({q.reps, Rounds(q, S)}) \in Nat /\ Length(q, S) \in Nat
           /\ Min({q.reps, Rounds(q, S)}) \in {q.reps, Rounds(q, S)}
           /\ Min({q.reps, Rounds(q, S)}) <= q.reps
           /\ Min({q.reps, Rounds(q, S)}) <= Rounds(q, S)
           /\ q.reps \in Nat /\ Rounds(q, S) \in Nat
<1>1. q.reps \in Nat /\ Rounds(q, S) \in Nat
  BY RoundsLongest DEF Serving
<1>2. PICK m : m = Min({q.reps, Rounds(q, S)})
  OBVIOUS
<1>3. m \in {q.reps, Rounds(q, S)} /\ m <= q.reps /\ m <= Rounds(q, S)
  BY <1>1, <1>2, MinOfTwo
<1>4. m \in Nat
  BY <1>1, <1>3
<1>5. Repeaters(q) * m \in Nat /\ NonRepeaters(q) \in Nat
  BY <1>4, RequestShape
<1>. QED  BY <1>1, <1>2, <1>3, <1>4, <1>5 DEF Length

\* The loops end when the answer has its length, and not before.
LEMMA ExhaustedAtLength ==
    ASSUME NEW q \in Serving, NEW S \in SUBSET Oids, IsFiniteSet(S),
           Len(q.out) <= Length(q, S),
           \A k \in DOMAIN q.out : q.out[k] = Entry(q, S, k)
    PROVE  Exhausted(q, q.out) <=> Len(q.out) = Length(q, S)
<1>. DEFINE n == NonRepeaters(q)
            r == Repeaters(q)
            len == Len(q.out)
            m == Min({q.reps, Rounds(q, S)})
            ends == \A i \in 1..r : IsEnd(q.out[len + 1 - i])
<1>1. n \in Nat /\ r \in Nat /\ len \in Nat /\ m \in Nat /\ q.reps \in Nat /\ Rounds(q, S) \in Nat
  <2>1. q.out \in Seq(Bindings)
    BY DEF Serving
  <2>2. len \in Nat
    <3>. HIDE DEF Bindings
    <3>. QED  BY <2>1
  <2>3. m \in Nat /\ q.reps \in Nat /\ Rounds(q, S) \in Nat
    BY LengthType
  <2>. QED  BY <2>2, <2>3, RequestShape
<1>2. /\ m \in {q.reps, Rounds(q, S)} /\ m <= q.reps /\ m <= Rounds(q, S)
      /\ r # 0 => Rounds(q, S) >= 1
  BY LengthType, RoundsLongest
<1>3. Length(q, S) = n + r * m
  BY DEF Length
<1>4. Exhausted(q, q.out) <=> /\ len - n >= 0
                              /\ r # 0 => /\ (len - n) % r = 0
                                          /\ \/ (len - n) \div r = q.reps
                                             \/ len - n > 0 /\ ends
  BY DEF Exhausted
<1>5. ASSUME NEW d \in Nat, d >= 1, len = n + r * d, r # 0 PROVE ends <=> d >= Rounds(q, S)
  BY <1>5, RowEnds
<1>. HIDE DEF ends, m, r, n, len
<1>6. len <= n + r * m
  BY <1>3 DEF len
<1>7. CASE r = 0
  <2>1. r * m = 0
    BY <1>1, <1>7
  <2>. QED  BY <1>1, <1>3, <1>4, <1>6, <1>7, <2>1 DEF len
<1>8. CASE r # 0
  <2>1. r >= 1
    BY <1>1, <1>8
  <2>2. ASSUME Exhausted(q, q.out) PROVE len = n + r * m
    <3>1. /\ len - n \in Nat /\ (len - n) % r = 0
          /\ \/ (len - n) \div r = q.reps
             \/ len - n > 0 /\ ends
      BY <1>1, <1>4, <1>8, <2>2
    <3>2. PICK d : d = (len - n) \div r
      OBVIOUS
    <3>3. d \in Nat /\ len - n = r * d + 0
      <4>. DEFINE z == len - n
      <4>1. z \in Nat /\ z % r = 0 /\ d = z \div r
        BY <3>1, <3>2
      <4>. HIDE DEF z
      <4>2. z \div r \in Nat /\ z = r * (z \div r) + (z % r)
        BY <1>1, <2>1, <4>1, DivMod
      <4>3. d \in Nat /\ z = r * d + 0
        BY <4>1, <4>2
      <4>. QED  BY <4>3 DEF z
    <3>4. len = n + r * d
      BY <1>1, <3>3
    <3>5. d <= m
      <4>. SUFFICES ASSUME d > m PROVE FALSE
        BY <1>1, <3>3
      <4>1. r * d >= r * (m + 1)
        BY <1>1, <3>3
      <4>2. r * (m + 1) = r * m + r /\ r * m \in Nat /\ r * d \in Nat
        BY <1>1, <3>3
      <4>. QED  BY <1>1, <1>6, <2>1, <3>4, <4>1, <4>2
    <3>6. d >= m
      <4>1. CASE d = q.reps
        BY <1>2, <4>1
      <4>2. CASE len - n > 0 /\ ends
        <5>1. d # 0
          <6>. SUFFICES ASSUME d = 0 PROVE FALSE
            OBVIOUS
          <6>1. r * d = 0
            BY <1>1
          <6>. QED  BY <3>3, <4>2, <6>1
        <5>2. d >= Rounds(q, S)
          BY <1>5, <1>8, <3>3, <3>4, <4>2, <5>1
        <5>. QED  BY <1>1, <1>2, <3>3, <5>2
      <4>. QED  BY <3>1, <3>2, <4>1, <4>2
    <3>7. d = m
      BY <1>1, <3>3, <3>5, <3>6
    <3>. QED  BY <3>4, <3>7
  <2>3. ASSUME len = n + r * m PROVE Exhausted(q, q.out)
    <3>1. r * m \in Nat /\ len - n = r * m /\ len - n >= 0
      BY <1>1, <2>3
    <3>2. 0 \in 0..(r - 1) /\ r * m + 0 = r * m
      BY <2>1, <1>1, <3>1
    <3>3. (len - n) \div r = m /\ (len - n) % r = 0
      <4>1. (r * m + 0) \div r = m /\ (r * m + 0) % r = 0
        BY <1>1, <2>1, <3>2, DivModIs
      <4>. QED  BY <3>1, <3>2, <4>1
    <3>4. CASE m = q.reps
      BY <1>4, <3>1, <3>3, <3>4
    <3>5. CASE m = Rounds(q, S)
      <4>1. m >= 1 /\ m >= Rounds(q, S)
        BY <1>1, <1>2, <1>8, <3>5
      <4>2. ends
        BY <1>1, <1>5, <1>8, <2>3, <4>1
      <4>3. r * m > 0
        BY <1>1, <2>1, <4>1
      <4>. QED  BY <1>4, <3>1, <3>3, <4>2, <4>3
    <3>. QED  BY <1>2, <3>4, <3>5
  <2>. QED  BY <1>3, <2>2, <2>3 DEF len
<1>. QED  BY <1>7, <1>8

---------------------------------------------------------------------------
(* An undisturbed request is answered with what the MIB and the view hold. *)

\* The search for the next varbind has passed over nothing in S.
Ranging(s, S) ==
    /\ Ahead(S, At(s)) = Ahead(S, Cursor(s, s.out))
    /\ \A o \in Ahead(S, At(s)) : \A g \in H : o \in Handlers[g].space => g >= s.handler

\* A GETNEXT or GETBULK has its varbinds so far from the OIDs of S.
NextMatches(s, S) ==
    /\ s.status = "noError"
    /\ Len(s.out) <= Length(s, S)
    /\ \A k \in DOMAIN s.out : s.out[k] = Entry(s, S, k)
    /\ ~Done(s) => Ranging(s, S)

\* What GET owes for one variable when the instances are those of M.
SingleEntry(M, oid) ==
    VarBind(oid, IF HandlerFor(oid) = {} THEN "noSuchObject"
                 ELSE IF oid \in M THEN "value" ELSE "noSuchInstance")

\* A GET has all its varbinds so far from the instances of M and the view r, or is refused.
GetMatches(s, M, r) ==
    \/ /\ s.status = "noAccess" /\ s.out = <<>>
       /\ \E k \in DOMAIN s.vars : s.vars[k] \notin r
    \/ /\ s.status = "noError"
       /\ \A k \in DOMAIN s.out : s.vars[k] \in r /\ s.out[k] = SingleEntry(M, s.vars[k])

Matching(s, M, r) ==
    /\ s.kind = "next" => NextMatches(s, M \cap r)
    /\ s.kind = "get" => GetMatches(s, M, r)

\* A foreign handler's instances are not the agent's.
MatchInv ==
    /\ \A h \in H : Kind(h) = "foreign" => data[h] = {}
    /\ \A c \in Clients : quiet[c] => Matching(serve[c], Mib, readable)

\* What the caller can be given is finite, and each of it a cell of some handler.
LEMMA GivenCells ==
    ASSUME TypeInv
    PROVE  /\ Mib \cap readable \in SUBSET Oids /\ IsFiniteSet(Mib \cap readable)
           /\ \A o \in Mib : \E g \in H : o \in Cells(g) /\ o \in Handlers[g].space
<1>1. \A g \in H : Cells(g) \subseteq Handlers[g].space /\ Handlers[g].space \subseteq Oids
  BY CellsInSpace, HandlerFacts
<1>2. \A o \in Mib : \E g \in H : o \in Cells(g) /\ o \in Handlers[g].space
  BY <1>1 DEF Mib
<1>3. Mib \cap readable \in SUBSET UNION {Handlers[h].space : h \in H}
  BY <1>2
<1>4. IsFiniteSet(UNION {Handlers[h].space : h \in H})
  BY HandlersAssumption
<1>5. IsFiniteSet(Mib \cap readable)
  BY <1>3, <1>4, FS_Subset
<1>. QED  BY <1>1, <1>2, <1>5

\* A handler call fills a cache with what it serves anyway.
LEMMA SnapshotMib ==
    ASSUME TypeInv, NEW h \in H, Snapshot(h), data' = data
    PROVE  Mib' = Mib
<1>1. ASSUME NEW g \in H PROVE Cells(g)' = Cells(g)
  <2>1. CASE g = h /\ Kind(h) = "cached"
    <3>1. snapshot'[h] = Cells(h)
      BY <2>1 DEF Snapshot, TypeInv
    <3>2. Cells(h) # None
      <4>1. Cells(h) \subseteq Handlers[h].space /\ Absent \notin Handlers[h].space
        BY CellsInSpace, HandlerFacts
      <4>. QED  BY <4>1 DEF None, Absent
    <3>3. Cells(h)' = snapshot'[h]
      BY <2>1, <3>1, <3>2 DEF Cells, Kind
    <3>. QED  BY <2>1, <3>1, <3>3
  <2>2. CASE ~(g = h /\ Kind(h) = "cached")
    <3>1. snapshot'[g] = snapshot[g]
      BY <2>2 DEF Snapshot, TypeInv
    <3>. QED  BY <3>1 DEF Cells, Kind
  <2>. QED  BY <2>1, <2>2
<1>. QED  BY <1>1 DEF Mib

\* A new request has nothing to match yet.
LEMMA RequestMatches ==
    ASSUME NEW q \in Queries, NEW M, NEW r, M \cap r \in SUBSET Oids, IsFiniteSet(M \cap r)
    PROVE  Matching(Request(q), M, r)
<1>1. PICK s : s = Request(q)
  OBVIOUS
<1>2. /\ s \in Serving /\ s.kind = q.kind /\ s.out = <<>> /\ s.denied = Absent /\ s.handler = 1
      /\ q.kind # "other" => s.status = "noError"
  BY <1>1, RequestType
<1>3. DOMAIN s.out = {} /\ Len(s.out) = 0
  BY <1>2
<1>4. ASSUME s.kind = "next" PROVE NextMatches(s, M \cap r)
  <2>1. Length(s, M \cap r) \in Nat
    BY <1>2, LengthType
  <2>2. At(s) = Cursor(s, s.out)
    BY <1>2 DEF At
  <2>3. \A g \in H : g >= s.handler
    BY <1>2, HandlerFacts
  <2>. QED  BY <1>2, <1>3, <1>4, <2>1, <2>2, <2>3 DEF NextMatches, Ranging
<1>5. ASSUME s.kind = "get" PROVE GetMatches(s, M, r)
  BY <1>2, <1>3, <1>5 DEF GetMatches
<1>. QED  BY <1>1, <1>4, <1>5 DEF Matching

\* A client without a request has nothing to match.
LEMMA IdleMatches ==
    ASSUME NEW M, NEW r
    PROVE  Matching(Idle, M, r)
<1>1. Idle.kind = "get" /\ Idle.status = "noError" /\ DOMAIN Idle.out = {}
  BY IdleType
<1>. QED  BY <1>1 DEF Matching, GetMatches

\* A varbind more.
LEMMA NextAppended ==
    ASSUME NEW s \in Serving, s.kind = "next", ~Done(s),
           NEW S \in SUBSET Oids, IsFiniteSet(S), NextMatches(s, S),
           NEW vb \in Bindings, vb = NextEntry(S, Cursor(s, s.out))
    PROVE  NextMatches(Answered(s, vb), S)
<1>1. PICK t : t = Answered(s, vb)
  OBVIOUS
<1>2. /\ t \in Serving /\ t.kind = s.kind /\ t.vars = s.vars /\ t.nonRep = s.nonRep
      /\ t.reps = s.reps /\ t.status = s.status /\ t.out = Append(s.out, vb)
      /\ t.handler = 1 /\ t.denied = Absent
  BY <1>1, AnsweredFields
<1>3. /\ Length(t, S) = Length(s, S)
      /\ \A k \in Nat : Entry(t, S, k) = Entry(s, S, k)
  BY <1>2 DEF Length, Rounds, Entry, Column, Repetition, Repeaters, NonRepeaters
<1>4. ~Exhausted(s, s.out) /\ s.status = "noError"
  BY DEF Done
<1>5. vb = Entry(s, S, Len(s.out) + 1)
  BY <1>4, EntryStep DEF NextMatches
<1>6. /\ Len(s.out) \in Nat /\ Len(t.out) = Len(s.out) + 1
      /\ DOMAIN t.out = 1..(Len(s.out) + 1) /\ DOMAIN s.out = 1..Len(s.out)
      /\ t.out[Len(s.out) + 1] = vb
      /\ \A k \in 1..Len(s.out) : t.out[k] = s.out[k]
  <2>1. s.out \in Seq(Bindings)
    BY DEF Serving
  <2>. HIDE DEF Bindings
  <2>. QED  BY <1>2, <2>1
<1>7. Len(t.out) <= Length(t, S)
  <2>1. Length(s, S) \in Nat /\ Len(s.out) <= Length(s, S)
    BY LengthType DEF NextMatches
  <2>2. Len(s.out) # Length(s, S)
    BY <1>4, <2>1, ExhaustedAtLength DEF NextMatches
  <2>. QED  BY <1>3, <1>6, <2>1, <2>2
<1>8. ASSUME NEW k \in DOMAIN t.out PROVE t.out[k] = Entry(t, S, k)
  <2>1. k \in Nat /\ (k = Len(s.out) + 1 \/ k \in 1..Len(s.out))
    BY <1>6
  <2>2. CASE k = Len(s.out) + 1
    BY <1>3, <1>5, <1>6, <2>1, <2>2
  <2>3. CASE k \in 1..Len(s.out)
    BY <1>3, <1>6, <2>1, <2>3 DEF NextMatches
  <2>. QED  BY <2>1, <2>2, <2>3
<1>9. Ranging(t, S)
  <2>1. At(t) = Cursor(t, t.out)
    BY <1>2 DEF At
  <2>2. \A g \in H : g >= t.handler
    BY <1>2, HandlerFacts
  <2>. QED  BY <2>1, <2>2 DEF Ranging
<1>. QED  BY <1>1, <1>2, <1>4, <1>7, <1>8, <1>9 DEF NextMatches

\* The search moves on without a varbind.
LEMMA NextMoved ==
    ASSUME NEW s \in Serving, NEW S, NextMatches(s, S), NEW t \in Serving,
           t.out = s.out, t.vars = s.vars, t.nonRep = s.nonRep, t.reps = s.reps,
           t.status = s.status, Ranging(t, S)
    PROVE  NextMatches(t, S)
<1>1. /\ Length(t, S) = Length(s, S)
      /\ \A k \in DOMAIN s.out : Entry(t, S, k) = Entry(s, S, k)
  BY DEF Length, Rounds, Entry, Column, Repetition, Repeaters, NonRepeaters
<1>. QED  BY <1>1 DEF NextMatches

\* The answers of the handlers, for what lies ahead.
LEMMA AnswerMeets ==
    ASSUME InRootOrder, TypeInv, MatchInv, NEW s \in Serving, s.kind = "next", ~Done(s),
           Ranging(s, Mib \cap readable), NEW answer \in GetNext(s.handler, At(s)),
           Kind(s.handler) = "foreign" => answer = Absent
    PROVE  /\ answer = Absent => \A o \in Ahead(Mib \cap readable, At(s)), g \in H :
                                   o \in Handlers[g].space => g > s.handler
           /\ answer # Absent =>
                /\ answer \in Cells(s.handler) /\ OidLess(At(s), answer)
                /\ \A o \in Ahead(Mib \cap readable, At(s)) : OidLeq(answer, o)
<1>. DEFINE h == s.handler
            a == At(s)
            A == Ahead(Mib \cap readable, At(s))
<1>1. h \in H /\ a \in Oids /\ H = 1..Len(Handlers) /\ Len(Handlers) \in Nat
  BY AtType, HandlerFacts DEF Serving
<1>2. \A g \in H : Kind(g) = "foreign" => Cells(g) = {}
  BY DEF MatchInv, Cells
<1>3. ASSUME NEW o \in A
      PROVE  /\ OidLess(a, o)
             /\ \E g \in H : /\ o \in Cells(g) /\ o \in Handlers[g].space
                             /\ Kind(g) # "foreign" /\ g >= h
  <2>1. o \in Mib /\ OidLess(a, o)
    BY DEF Ahead
  <2>2. PICK g \in H : o \in Cells(g) /\ o \in Handlers[g].space
    BY <2>1, GivenCells
  <2>3. g >= h
    BY <2>2 DEF Ranging
  <2>. QED  BY <1>2, <2>1, <2>2, <2>3
<1>4. ASSUME answer = Absent, NEW o \in A, NEW g \in H, o \in Handlers[g].space
      PROVE  g > h
  <2>1. PICK k \in H : /\ o \in Cells(k) /\ o \in Handlers[k].space /\ Kind(k) # "foreign"
                       /\ k >= h
    BY <1>3
  <2>2. g = k
    BY <1>4, <2>1, OneHandler
  <2>3. k # h
    <3>1. ASSUME k = h PROVE FALSE
      <4>1. Kind(h) # "foreign" /\ o \in Cells(h) /\ OidLess(a, o)
        BY <1>3, <2>1, <3>1
      <4>2. Absent \notin Cells(h)
        BY <1>1, CellsInSpace, HandlerFacts
      <4>. QED  BY <1>1, <1>4, <4>1, <4>2, GetNextAnswers
    <3>. QED  BY <3>1
  <2>. QED  BY <1>1, <2>1, <2>2, <2>3
<1>5. ASSUME answer # Absent
      PROVE  /\ answer \in Cells(h) /\ OidLess(a, answer)
             /\ \A o \in A : OidLeq(answer, o)
  <2>0. Kind(h) # "foreign"
    BY <1>5
  <2>1. answer \in Cells(h) /\ answer \in Handlers[h].space /\ OidLess(a, answer)
    BY <1>1, <1>5, <2>0, GetNextAnswers, CellsInSpace
  <2>2. ASSUME NEW o \in A PROVE OidLeq(answer, o)
    <3>1. PICK k \in H : /\ o \in Cells(k) /\ o \in Handlers[k].space /\ Kind(k) # "foreign"
                         /\ k >= h
      BY <1>3
    <3>2. CASE k = h
      <4>1. o \in Cells(h) /\ OidLess(a, o)
        BY <1>3, <3>1, <3>2
      <4>. QED  BY <1>1, <1>5, <2>0, <4>1, GetNextAnswers
    <3>3. CASE k # h
      <4>1. h < k
        BY <1>1, <3>1, <3>3
      <4>2. OidLess(answer, o)
        BY <1>1, <2>1, <3>1, <4>1 DEF InRootOrder
      <4>. QED  BY <4>2 DEF OidLeq
    <3>. QED  BY <3>2, <3>3
  <2>. QED  BY <2>1, <2>2
<1>. QED  BY <1>4, <1>5

\* One get_next call of an undisturbed request.
LEMMA AdvanceMatches ==
    ASSUME InRootOrder, TypeInv, MatchInv, NEW s \in Serving, s.kind = "next", ~Done(s),
           NextMatches(s, Mib \cap readable), NEW answer \in GetNext(s.handler, At(s)),
           Kind(s.handler) = "foreign" => answer = Absent
    PROVE  NextMatches(Advance(s, s.handler, answer), Mib \cap readable)
<1>. DEFINE h == s.handler
            a == At(s)
            S == Mib \cap readable
            A == Ahead(S, a)
            from == Cursor(s, s.out)
<1>1. /\ S \in SUBSET Oids /\ IsFiniteSet(S)
      /\ h \in H /\ H = 1..Len(Handlers) /\ Len(Handlers) \in Nat
  BY GivenCells, HandlerFacts DEF Serving
<1>2. a \in Oids /\ from \in Oids /\ answer \in Oids
  <2>1. a \in Oids /\ from \in Oids
    BY AtType, CursorFrom
  <2>. QED  BY <1>1, <2>1, GetNextAnswers
<1>3. Ranging(s, S) /\ A = Ahead(S, from)
  BY DEF NextMatches, Ranging
<1>4. /\ answer = Absent => \A o \in A, g \in H : o \in Handlers[g].space => g > h
      /\ answer # Absent => /\ answer \in Cells(h) /\ OidLess(a, answer)
                            /\ \A o \in A : OidLeq(answer, o)
  BY <1>3, AnswerMeets
<1>5. PICK t : t = Advance(s, h, answer)
  OBVIOUS
<1>6. t \in Serving
  BY <1>2, <1>5, AdvanceType
<1>7. A \in SUBSET Oids /\ IsFiniteSet(A)
  BY <1>1, <1>2, AheadType
<1>8. \A o \in A : OidLess(a, o) /\ o \in S
  BY DEF Ahead
<1>9. \A o \in S : \E g \in H : o \in Handlers[g].space
  BY GivenCells
<1>10. CASE answer = Absent /\ h # Len(Handlers)
  <2>1. t = [s EXCEPT !.handler = h + 1]
    BY <1>5, <1>10 DEF Advance
  <2>2. /\ t.out = s.out /\ t.kind = s.kind /\ t.vars = s.vars /\ t.nonRep = s.nonRep
        /\ t.reps = s.reps /\ t.status = s.status /\ t.handler = h + 1 /\ t.denied = s.denied
    BY <2>1 DEF Serving
  <2>3. Cursor(t, t.out) = from /\ At(t) = a
    BY <2>2 DEF At, Cursor, Repeaters, NonRepeaters
  <2>4. ASSUME NEW o \in A, NEW g \in H, o \in Handlers[g].space PROVE g >= h + 1
    <3>1. g > h
      BY <1>4, <1>10, <2>4
    <3>. QED  BY <1>1, <3>1
  <2>5. Ranging(t, S)
    BY <1>3, <2>2, <2>3, <2>4 DEF Ranging
  <2>. QED  BY <1>5, <1>6, <2>2, <2>5, NextMoved
<1>11. CASE answer = Absent /\ h = Len(Handlers)
  <2>1. PICK vb : vb = EndOfMibView(from)
    OBVIOUS
  <2>2. t = Answered(s, vb)
    BY <1>5, <1>11, <2>1 DEF Advance
  <2>3. vb \in Bindings
    BY <1>2, <2>1 DEF EndOfMibView, VarBind, Bindings
  <2>4. A = {}
    <3>. SUFFICES ASSUME NEW o \in A PROVE FALSE
      OBVIOUS
    <3>1. PICK g \in H : o \in Handlers[g].space
      BY <1>8, <1>9
    <3>2. g > h
      BY <1>4, <1>11, <3>1
    <3>. QED  BY <1>1, <1>11, <3>2
  <2>5. vb = NextEntry(S, from)
    BY <1>3, <2>1, <2>4 DEF NextEntry
  <2>. QED  BY <1>1, <1>5, <2>2, <2>3, <2>5, NextAppended
<1>12. CASE answer # Absent /\ answer \in readable
  <2>1. PICK vb : vb = VarBind(answer, "value")
    OBVIOUS
  <2>2. t = Answered(s, vb)
    BY <1>5, <1>12, <2>1 DEF Advance
  <2>3. vb \in Bindings
    BY <1>2, <2>1 DEF VarBind, Bindings
  <2>4. answer \in A
    BY <1>1, <1>4, <1>12 DEF Ahead, Mib
  <2>5. Least(A) = answer
    <3>. HIDE DEF A
    <3>. QED  BY <1>4, <1>7, <1>12, <2>4, LeastIs
  <2>6. vb = NextEntry(S, from)
    BY <1>3, <2>1, <2>4, <2>5 DEF NextEntry
  <2>. QED  BY <1>1, <1>5, <2>2, <2>3, <2>6, NextAppended
<1>13. CASE answer # Absent /\ answer \notin readable
  <2>1. ~OidLeq(answer, a)
    BY <1>2, <1>4, <1>13, LeqOrder
  <2>2. t = [s EXCEPT !.handler = 1, !.denied = answer]
    BY <1>5, <1>13, <2>1 DEF Advance
  <2>3. /\ t.out = s.out /\ t.kind = s.kind /\ t.vars = s.vars /\ t.nonRep = s.nonRep
        /\ t.reps = s.reps /\ t.status = s.status /\ t.handler = 1 /\ t.denied = answer
    BY <2>2 DEF Serving
  <2>4. Cursor(t, t.out) = from /\ At(t) = answer
    BY <1>13, <2>3 DEF At, Cursor, Repeaters, NonRepeaters
  <2>5. Ahead(S, answer) = A
    <3>1. ASSUME NEW o \in A PROVE o \in Ahead(S, answer)
      <4>1. OidLeq(answer, o) /\ o \in S /\ o # answer
        BY <1>4, <1>8, <1>13
      <4>. QED  BY <4>1 DEF Ahead, OidLeq
    <3>2. ASSUME NEW o \in Ahead(S, answer) PROVE o \in A
      <4>1. o \in S /\ OidLess(answer, o) /\ o \in Oids
        BY <1>1 DEF Ahead
      <4>2. OidLess(a, o)
        BY <1>2, <1>4, <1>13, <4>1, LessTransitive
      <4>. QED  BY <4>1, <4>2 DEF Ahead
    <3>. QED  BY <3>1, <3>2
  <2>6. \A g \in H : g >= t.handler
    BY <1>1, <2>3
  <2>7. Ranging(t, S)
    BY <1>3, <2>4, <2>5, <2>6 DEF Ranging
  <2>. QED  BY <1>5, <1>6, <2>3, <2>7, NextMoved
<1>. QED  BY <1>10, <1>11, <1>12, <1>13

\* What has to be shown of a step of one client.
LEMMA MatchFrame ==
    ASSUME MatchInv, NEW c \in Clients, data' = data, Mib' = Mib, readable' = readable,
           \A d \in Clients : d # c => serve'[d] = serve[d] /\ (quiet'[d] => quiet[d]),
           quiet'[c] => Matching(serve'[c], Mib, readable)
    PROVE  MatchInv'
<1>1. \A h \in H : Kind(h)' = Kind(h)
  BY DEF Kind
<1>2. ASSUME NEW d \in Clients, quiet'[d] PROVE Matching(serve'[d], Mib', readable')
  BY <1>2 DEF MatchInv
<1>. QED  BY <1>1, <1>2 DEF MatchInv

\* One get_next call.
LEMMA SearchNextMatch ==
    ASSUME InRootOrder, TypeInv, MatchInv, NEW c \in Clients, SearchNext(c)
    PROVE  MatchInv'
<1>. DEFINE s == serve[c]
            h == serve[c].handler
<1>1. /\ s \in Serving /\ h \in H /\ s.kind = "next" /\ ~Done(s) /\ Snapshot(h)
      /\ UNCHANGED <<data, readable>>
  BY DEF TypeInv, Serving, SearchNext
<1>2. Mib' = Mib
  BY <1>1, SnapshotMib
<1>3. PICK answer \in GetNext(h, At(s)) :
        /\ serve' = [serve EXCEPT ![c] = Advance(s, h, answer)]
        /\ quiet' = [quiet EXCEPT ![c] = quiet[c] /\ (Kind(h) = "foreign" => answer = Absent)]
  BY DEF SearchNext
<1>4. /\ serve'[c] = Advance(s, h, answer)
      /\ \A d \in Clients : d # c => serve'[d] = serve[d] /\ (quiet'[d] => quiet[d])
  BY <1>3 DEF TypeInv
<1>5. quiet'[c] => quiet[c] /\ (Kind(h) = "foreign" => answer = Absent)
  BY <1>3 DEF TypeInv
<1>6. ASSUME quiet'[c] PROVE Matching(serve'[c], Mib, readable)
  <2>1. NextMatches(s, Mib \cap readable)
    BY <1>1, <1>5, <1>6 DEF MatchInv, Matching
  <2>2. NextMatches(serve'[c], Mib \cap readable)
    BY <1>1, <1>4, <1>5, <1>6, <2>1, AdvanceMatches
  <2>3. answer \in Oids
    BY <1>1, AtType, GetNextAnswers
  <2>4. serve'[c].kind = "next"
    BY <1>1, <1>4, <2>3, AdvanceType
  <2>. QED  BY <2>2, <2>4 DEF Matching
<1>. QED  BY <1>1, <1>2, <1>4, <1>6, MatchFrame

\* Of two prefixes of one OID the shorter is a prefix of the longer.
LEMMA PrefixesNest ==
    ASSUME NEW a \in Oids, NEW b \in Oids, NEW o \in Oids, IsPrefix(a, o), IsPrefix(b, o)
    PROVE  IsPrefix(a, b) \/ IsPrefix(b, a)
<1>1. Len(a) \in Nat /\ Len(b) \in Nat /\ Len(o) \in Nat
  BY OidFacts
<1>2. /\ Len(a) <= Len(o) /\ \A i \in 1..Len(a) : a[i] = o[i]
      /\ Len(b) <= Len(o) /\ \A i \in 1..Len(b) : b[i] = o[i]
  BY PrefixArcs
<1>3. CASE Len(a) <= Len(b)
  <2>1. \A i \in 1..Len(a) : a[i] = b[i]
    BY <1>1, <1>2, <1>3
  <2>. QED  BY <1>3, <2>1, PrefixArcs
<1>4. CASE Len(b) <= Len(a)
  <2>1. \A i \in 1..Len(b) : b[i] = a[i]
    BY <1>1, <1>2, <1>4
  <2>. QED  BY <1>4, <2>1, PrefixArcs
<1>. QED  BY <1>1, <1>3, <1>4

\* The handler a GET is passed to is the one that may hold the instance.
LEMMA HandlerHolds ==
    ASSUME RootsDisjoint, TypeInv, NEW oid \in Oids, NEW h \in HandlerFor(oid)
    PROVE  h \in H /\ (oid \in Mib <=> oid \in Cells(h))
<1>1. h \in H /\ IsPrefix(Handlers[h].root, oid)
  BY DEF HandlerFor
<1>2. oid \in Cells(h) => oid \in Mib
  BY <1>1 DEF Mib
<1>3. ASSUME oid \in Mib PROVE oid \in Cells(h)
  <2>1. PICK g \in H : oid \in Cells(g) /\ oid \in Handlers[g].space
    BY <1>3, GivenCells
  <2>2. /\ IsPrefix(Handlers[g].root, oid)
        /\ Handlers[g].root \in Oids /\ Handlers[h].root \in Oids
    BY <1>1, <2>1, HandlerFacts
  <2>3. g = h
    BY <1>1, <2>1, <2>2, PrefixesNest DEF RootsDisjoint
  <2>. QED  BY <2>1, <2>3
<1>. QED  BY <1>1, <1>2, <1>3

\* A GET has one more of its variables answered.
LEMMA GetAppended ==
    ASSUME NEW s \in Serving, s.kind = "get", s.status = "noError", NEW M, NEW r,
           Len(s.out) < Len(s.vars), GetMatches(s, M, r),
           s.vars[Len(s.out) + 1] \in r,
           NEW vb \in Bindings, vb = SingleEntry(M, s.vars[Len(s.out) + 1])
    PROVE  GetMatches(Answered(s, vb), M, r) /\ Answered(s, vb).kind = "get"
<1>1. PICK t : t = Answered(s, vb)
  OBVIOUS
<1>2. /\ t.kind = "get" /\ t.vars = s.vars /\ t.status = "noError"
      /\ t.out = Append(s.out, vb)
  BY <1>1, AnsweredFields
<1>3. /\ Len(s.out) \in Nat /\ DOMAIN t.out = 1..(Len(s.out) + 1)
      /\ DOMAIN s.out = 1..Len(s.out)
      /\ t.out[Len(s.out) + 1] = vb
      /\ \A k \in 1..Len(s.out) : t.out[k] = s.out[k]
  <2>1. s.out \in Seq(Bindings)
    BY DEF Serving
  <2>. HIDE DEF Bindings
  <2>. QED  BY <1>2, <2>1
<1>4. \A k \in DOMAIN s.out : s.vars[k] \in r /\ s.out[k] = SingleEntry(M, s.vars[k])
  BY DEF GetMatches
<1>5. ASSUME NEW k \in DOMAIN t.out
      PROVE  t.vars[k] \in r /\ t.out[k] = SingleEntry(M, t.vars[k])
  <2>1. k = Len(s.out) + 1 \/ k \in DOMAIN s.out
    BY <1>3
  <2>2. CASE k = Len(s.out) + 1
    BY <1>2, <1>3, <2>2
  <2>3. CASE k \in DOMAIN s.out
    BY <1>2, <1>3, <1>4, <2>3
  <2>. QED  BY <2>1, <2>2, <2>3
<1>. QED  BY <1>1, <1>2, <1>5 DEF GetMatches

\* One variable of a GET.
LEMMA GetOneMatch ==
    ASSUME RootsDisjoint, TypeInv, MatchInv, NEW c \in Clients, GetOne(c)
    PROVE  MatchInv'
<1>. DEFINE s == serve[c]
            oid == s.vars[Len(s.out) + 1]
<1>1. /\ s \in Serving /\ s.kind = "get" /\ ~Done(s) /\ Len(s.out) <= Len(s.vars)
      /\ s.status = "noError" /\ UNCHANGED <<data, readable>>
  BY DEF TypeInv, GetOne, Done
<1>2. /\ s.vars \in Seq(Oids) /\ Len(s.vars) \in Nat /\ Len(s.out) \in Nat
      /\ Len(s.out) < Len(s.vars) /\ Len(s.out) + 1 \in DOMAIN s.vars
  <2>1. s.vars \in Seq(Oids) /\ s.out \in Seq(Bindings) /\ Len(s.out) # Len(s.vars)
    BY <1>1 DEF Serving, Done
  <2>. HIDE DEF Bindings
  <2>. QED  BY <1>1, <2>1
<1>3. oid \in Oids
  BY <1>2
<1>4. quiet[c] => GetMatches(s, Mib, readable)
  BY <1>1 DEF MatchInv, Matching
<1>5. CASE /\ oid \notin readable
           /\ serve' = [serve EXCEPT ![c].status = "noAccess", ![c].out = <<>>]
           /\ UNCHANGED <<snapshot, quiet>>
  <2>1. Mib' = Mib
    BY <1>1, <1>5 DEF Mib, Cells
  <2>2. /\ \A d \in Clients : d # c => serve'[d] = serve[d] /\ (quiet'[d] => quiet[d])
        /\ serve'[c] = [s EXCEPT !.status = "noAccess", !.out = <<>>]
    BY <1>5 DEF TypeInv
  <2>3. /\ serve'[c].kind = "get" /\ serve'[c].status = "noAccess" /\ serve'[c].out = <<>>
        /\ serve'[c].vars = s.vars
    BY <1>1, <2>2 DEF Serving
  <2>4. Matching(serve'[c], Mib, readable)
    BY <1>2, <1>5, <2>3 DEF Matching, GetMatches
  <2>. QED  BY <1>1, <2>1, <2>2, <2>4, MatchFrame
<1>6. CASE /\ oid \in readable /\ HandlerFor(oid) = {}
           /\ serve' = [serve EXCEPT ![c] = Answered(s, VarBind(oid, "noSuchObject"))]
           /\ UNCHANGED <<snapshot, quiet>>
  <2>1. Mib' = Mib
    BY <1>1, <1>6 DEF Mib, Cells
  <2>2. PICK vb : vb = VarBind(oid, "noSuchObject")
    OBVIOUS
  <2>3. /\ \A d \in Clients : d # c => serve'[d] = serve[d] /\ (quiet'[d] => quiet[d])
        /\ serve'[c] = Answered(s, vb)
    BY <1>6, <2>2 DEF TypeInv
  <2>4. vb \in Bindings /\ vb = SingleEntry(Mib, oid)
    BY <1>3, <1>6, <2>2 DEF VarBind, Bindings, SingleEntry
  <2>5. quiet'[c] => Matching(serve'[c], Mib, readable)
    BY <1>1, <1>2, <1>4, <1>6, <2>3, <2>4, GetAppended DEF Matching
  <2>. QED  BY <1>1, <2>1, <2>3, <2>5, MatchFrame
<1>7. ASSUME oid \in readable, NEW h \in HandlerFor(oid), NEW v \in Get(h, oid),
             serve' = [serve EXCEPT ![c] = Answered(s, VarBind(oid, v))], Snapshot(h),
             quiet' = [quiet EXCEPT ![c] = @ /\ Kind(h) # "foreign"]
      PROVE  MatchInv'
  <2>1. h \in H /\ (oid \in Mib <=> oid \in Cells(h)) /\ HandlerFor(oid) # {}
    BY <1>3, HandlerHolds
  <2>2. Mib' = Mib
    BY <1>1, <1>7, <2>1, SnapshotMib
  <2>3. PICK vb : vb = VarBind(oid, v)
    OBVIOUS
  <2>4. /\ \A d \in Clients : d # c => serve'[d] = serve[d] /\ (quiet'[d] => quiet[d])
        /\ serve'[c] = Answered(s, vb) /\ (quiet'[c] => quiet[c] /\ Kind(h) # "foreign")
    BY <1>7, <2>3 DEF TypeInv
  <2>5. ASSUME quiet'[c] PROVE Matching(serve'[c], Mib, readable)
    <3>1. v = IF oid \in Mib THEN "value" ELSE "noSuchInstance"
      BY <2>1, <2>4, <2>5 DEF Get
    <3>2. vb \in Bindings
      BY <1>3, <2>3, <3>1 DEF VarBind, Bindings
    <3>3. vb = SingleEntry(Mib, oid)
      BY <2>1, <2>3, <3>1 DEF SingleEntry
    <3>. QED  BY <1>1, <1>2, <1>4, <1>7, <2>4, <2>5, <3>2, <3>3, GetAppended DEF Matching
  <2>. QED  BY <1>1, <2>2, <2>4, <2>5, MatchFrame
<1>. QED  BY <1>5, <1>6, <1>7 DEF GetOne

\* A request is sent, or the client is done with the last one.
LEMMA TurnMatch ==
    ASSUME TypeInv, MatchInv, NEW c \in Clients, UNCHANGED mib,
           Finish(c) \/ \E q \in Queries : Send(c, q)
    PROVE  MatchInv'
<1>1. data' = data /\ readable' = readable /\ Mib' = Mib
  BY DEF mib, Mib, Cells
<1>2. \A d \in Clients : d # c => serve'[d] = serve[d] /\ (quiet'[d] => quiet[d])
  BY DEF Finish, Send, TypeInv
<1>3. CASE Finish(c)
  <2>1. serve'[c] = Idle
    BY <1>3 DEF Finish, TypeInv
  <2>. QED  BY <1>1, <1>2, <2>1, IdleMatches, MatchFrame
<1>4. CASE \E q \in Queries : Send(c, q)
  <2>1. PICK q \in Queries : serve'[c] = Request(q)
    BY <1>4 DEF Send, TypeInv
  <2>2. Matching(serve'[c], Mib, readable)
    BY <2>1, GivenCells, RequestMatches
  <2>. QED  BY <1>1, <1>2, <2>2, MatchFrame
<1>. QED  BY <1>3, <1>4

\* The steps of the clients.
LEMMA ClientMatch ==
    ASSUME TypeInv, MatchInv, NEW c \in Clients, StartWalk(c) \/ Poll(c) \/ Reply(c)
    PROVE  MatchInv'
<1>1. CASE StartWalk(c)
  <2>1. UNCHANGED mib
    BY <1>1 DEF StartWalk, mib
  <2>2. \E q \in Queries : Send(c, q)
    BY <1>1, StartWalkStep, WalkRequestType
  <2>. QED  BY <2>1, <2>2, TurnMatch
<1>2. CASE Poll(c)
  <2>1. UNCHANGED mib /\ \E q \in Polls : Send(c, q)
    BY <1>2 DEF Poll, mib
  <2>2. Polls \subseteq Queries
    BY InputsAssumption DEF Queries
  <2>. QED  BY <2>1, <2>2, TurnMatch
<1>3. CASE Reply(c)
  <2>1. UNCHANGED mib
    BY <1>3, ReplyCases
  <2>2. Finish(c) \/ \E w \in Walks : Send(c, WalkRequest(w))
    BY <1>3, ReplyCases
  <2>. QED  BY <2>1, <2>2, WalkRequestType, TurnMatch
<1>. QED  BY <1>1, <1>2, <1>3

\* After a change only the clients with no request have met none.
LEMMA EnvironmentMatch ==
    ASSUME TypeInv, MatchInv, \/ \E h \in H : Change(h) \/ Expire(h)
                              \/ Reconfigure
    PROVE  MatchInv'
<1>1. Observe(data', snapshot', readable') /\ UNCHANGED <<walk, serve, foul>>
  BY EnvironmentStep
<1>2. ASSUME NEW c \in Clients, quiet'[c] PROVE Matching(serve'[c], Mib', readable')
  <2>1. walk[c].state = "done"
    BY <1>1, <1>2 DEF Observe
  <2>2. serve'[c] = Idle
    BY <1>1, <2>1 DEF TypeInv
  <2>. QED  BY <2>2, IdleMatches
<1>3. ASSUME NEW h \in H, Kind(h) = "foreign" PROVE data'[h] = {}
  <2>1. data[h] = {}
    BY <1>3 DEF MatchInv
  <2>2. CASE \E g \in H : Change(g)
    <3>1. PICK g \in H : Change(g)
      BY <2>2
    <3>2. g # h /\ \E o \in Handlers[g].space :
            data' = [data EXCEPT ![g] = IF o \in @ THEN @ \ {o} ELSE @ \cup {o}]
      BY <1>3, <3>1 DEF Change
    <3>. QED  BY <2>1, <3>2 DEF TypeInv
  <2>3. CASE data' = data
    BY <2>1, <2>3
  <2>. QED  BY <2>2, <2>3 DEF Expire, Reconfigure
<1>4. \A h \in H : Kind(h)' = Kind(h)
  BY DEF Kind
<1>. QED  BY <1>2, <1>3, <1>4 DEF MatchInv

\* Before the first request there is nothing to match.
LEMMA InitMatch == Init => MatchInv
<1>. SUFFICES ASSUME Init PROVE MatchInv
  OBVIOUS
<1>1. \A c \in Clients : serve[c] = Idle
  BY DEF Init
<1>2. \A h \in H : Kind(h) = "foreign" => data[h] = {}
  BY DEF Init
<1>. QED  BY <1>1, <1>2, IdleMatches DEF MatchInv

\* Every step keeps the answers of undisturbed requests in step with the MIB.
LEMMA NextMatch == RootsDisjoint /\ TypeInv /\ MatchInv /\ [Next]_vars => MatchInv'
<1>. SUFFICES ASSUME RootsDisjoint, TypeInv, MatchInv, [Next]_vars PROVE MatchInv'
  OBVIOUS
<1>0. InRootOrder
  BY DisjointRootsInOrder DEF RootsDisjoint
<1>1. CASE UNCHANGED vars
  <2>1. /\ serve' = serve /\ quiet' = quiet /\ readable' = readable /\ data' = data
        /\ Mib' = Mib /\ \A h \in H : Kind(h)' = Kind(h)
    BY <1>1 DEF vars, Mib, Cells, Kind
  <2>. QED  BY <2>1 DEF MatchInv
<1>2. CASE \/ \E h \in H : Change(h) \/ Expire(h)
           \/ Reconfigure
  BY <1>2, EnvironmentMatch
<1>. QED  BY <1>0, <1>1, <1>2, SearchNextMatch, GetOneMatch, ClientMatch DEF Next

\* A finished answer that matches is the whole of what the request is owed.
LEMMA MatchIsWhole == TypeInv /\ MatchInv => AnswersMatchMib
<1>. SUFFICES ASSUME TypeInv, MatchInv, NEW c \in Clients, Done(serve[c]), quiet[c],
                     serve[c].kind # "other"
              PROVE  LET s == serve[c]
                     IN  IF s.kind = "next" THEN s.out = Bulk(s, Mib \cap readable)
                         ELSE IF Range(s.vars) \subseteq readable THEN s.out = Single(s)
                         ELSE s.status = "noAccess" /\ s.out = <<>>
  BY DEF AnswersMatchMib
<1>. DEFINE s == serve[c]
            S == Mib \cap readable
<1>1. /\ s \in Serving /\ s.kind \in {"get", "next"} /\ Matching(s, Mib, readable)
      /\ S \in SUBSET Oids /\ IsFiniteSet(S)
  BY GivenCells DEF TypeInv, MatchInv, Serving
<1>2. /\ s.out \in Seq(Bindings) /\ Len(s.out) \in Nat /\ DOMAIN s.out = 1..Len(s.out)
      /\ s.vars \in Seq(Oids) /\ Len(s.vars) \in Nat /\ DOMAIN s.vars = 1..Len(s.vars)
  <2>1. s.out \in Seq(Bindings) /\ s.vars \in Seq(Oids)
    BY <1>1 DEF Serving
  <2>. HIDE DEF Bindings
  <2>. QED  BY <2>1
<1>3. CASE s.kind = "next"
  <2>1. NextMatches(s, S)
    BY <1>1, <1>3 DEF Matching
  <2>2. Exhausted(s, s.out)
    BY <1>3, <2>1 DEF Done, NextMatches
  <2>3. Len(s.out) = Length(s, S) /\ \A k \in DOMAIN s.out : s.out[k] = Entry(s, S, k)
    BY <1>1, <2>1, <2>2, ExhaustedAtLength DEF NextMatches
  <2>4. Bulk(s, S) = [k \in 1..Length(s, S) |-> Entry(s, S, k)]
    BY BulkEntries
  <2>5. s.out = [k \in DOMAIN s.out |-> s.out[k]]
    <3>. HIDE DEF Bindings
    <3>. QED  BY <1>2
  <2>. QED  BY <1>2, <1>3, <2>3, <2>4, <2>5
<1>4. CASE s.kind = "get" /\ s.status = "noError"
  <2>1. Len(s.out) = Len(s.vars)
    BY <1>4 DEF Done
  <2>2. \A k \in DOMAIN s.out : s.vars[k] \in readable /\ s.out[k] = SingleEntry(Mib, s.vars[k])
    BY <1>1, <1>4 DEF Matching, GetMatches
  <2>3. Range(s.vars) \subseteq readable
    BY <1>2, <2>1, <2>2 DEF Range
  <2>4. Single(s) = [k \in DOMAIN s.vars |-> SingleEntry(Mib, s.vars[k])]
    BY DEF Single, SingleEntry
  <2>5. s.out = [k \in DOMAIN s.out |-> s.out[k]]
    <3>. HIDE DEF Bindings
    <3>. QED  BY <1>2
  <2>6. s.out = Single(s)
    BY <1>2, <2>1, <2>2, <2>4, <2>5
  <2>. QED  BY <1>4, <2>3, <2>6
<1>5. CASE s.kind = "get" /\ s.status # "noError"
  <2>1. /\ s.status = "noAccess" /\ s.out = <<>>
        /\ \E k \in DOMAIN s.vars : s.vars[k] \notin readable
    BY <1>1, <1>5 DEF Matching, GetMatches
  <2>2. ~(Range(s.vars) \subseteq readable)
    BY <2>1 DEF Range
  <2>. QED  BY <1>5, <2>1, <2>2
<1>. QED  BY <1>1, <1>3, <1>4, <1>5

\* registry.rs process_with_access: where no handler is registered inside another's subtree,
\* a request that meets no change and that no foreign handler contributes to is answered with
\* exactly what the MIB and the view hold: GETBULK's rows and columns in their order, length
\* and end, GET's values and exceptions, or its refusal.
THEOREM AnswersAreExact == RootsDisjoint => (Spec => []AnswersMatchMib)
<1>. SUFFICES ASSUME RootsDisjoint PROVE Spec => []AnswersMatchMib
  OBVIOUS
<1>1. Init => TypeInv /\ MatchInv
  BY InitTypeInv, InitMatch
<1>2. TypeInv /\ MatchInv /\ [Next]_vars => (TypeInv /\ MatchInv)'
  BY NextTypeInv, NextMatch
<1>3. TypeInv /\ MatchInv => AnswersMatchMib
  BY MatchIsWhole
<1>. QED  BY <1>1, <1>2, <1>3, PTL DEF Spec

---------------------------------------------------------------------------
(* The access control tables.                                              *)

Domains == /\ DOMAIN check = Checkers
           /\ DOMAIN held = Checkers
           /\ DOMAIN mapped = Checkers

(* The view rests on an access row of a group the caller had.               *)
RestsOn(view, t) ==
    \E g \in mapped[t] : \E row \in SelectAccess(access, g, check[t].req) :
      view = row.views[check[t].req.type]

(* A stage of a check keeps locked what it has found.                       *)
EmptyLocked(t) ==
    /\ AtStage(t, "access") => "groups" \in held[t] /\ groups = {}
    /\ AtStage(t, "views") => /\ {"groups", "access"} \subseteq held[t]
                         /\ groups = {} /\ access = <<>>

GroupKnown(t) ==
    /\ ~AtStage(t, "idle") => GroupFor(groups, check[t].req) \subseteq mapped[t]
    /\ AtStage(t, "select") => check[t].group \subseteq mapped[t]

ViewLocked(t) ==
    AtStage(t, "match") => /\ "access" \in held[t]
                      /\ \A view \in check[t].view : RestsOn(view, t)

IInv == /\ Domains
        /\ \A t \in Checkers : EmptyLocked(t) /\ GroupKnown(t) /\ ViewLocked(t)

(* Before the first request nothing is locked and nobody decides.           *)
LEMMA InitIInv == VacmInit => IInv
  BY DEF VacmInit, IInv, Domains, EmptyLocked, GroupKnown, ViewLocked, AtStage, NoCheck

(* A step of one check leaves the tables and the other checks alone.        *)
Alone(t) ==
    /\ Domains'
    /\ UNCHANGED <<groups, access>>
    /\ \A u \in Checkers \ {t} :
         check'[u] = check[u] /\ held'[u] = held[u] /\ mapped'[u] = mapped[u]

\* What has to be shown of a step of one check.
LEMMA Frame ==
  ASSUME IInv, NEW t \in Checkers, Alone(t),
         EmptyLocked(t)', GroupKnown(t)', ViewLocked(t)'
  PROVE  IInv'
  <1>1. ASSUME NEW u \in Checkers PROVE (EmptyLocked(u) /\ GroupKnown(u) /\ ViewLocked(u))'
    <2>1. CASE u = t
      BY <2>1
    <2>2. CASE u # t
      <3>1. check'[u] = check[u] /\ mapped'[u] = mapped[u] /\ held'[u] = held[u]
        BY <2>2 DEF Alone
      <3> QED BY <3>1 DEF Alone, IInv, EmptyLocked, GroupKnown, ViewLocked, RestsOn, AtStage
    <2> QED BY <2>1, <2>2
  <1> QED BY <1>1 DEF Alone, IInv

(* Nothing is claimed of a check at a stage where it holds no lock and has  *)
(* found nothing, except that it knows its caller's group.                  *)
LEMMA Restart ==
  ASSUME IInv, NEW t \in Checkers, Alone(t),
         check'[t].pc \notin {"access", "views", "select", "match"},
         check'[t].pc # "idle" => GroupFor(groups, check'[t].req) \subseteq mapped'[t]
  PROVE  IInv'
  <1>1. EmptyLocked(t)' /\ GroupKnown(t)' /\ ViewLocked(t)'
    BY DEF EmptyLocked, GroupKnown, ViewLocked, AtStage, Alone
  <1> QED BY <1>1, Frame

(* A check that begins knows the group its caller has now.                  *)
LEMMA BeginIInv == ASSUME IInv, NEW t \in Checkers, Begin(t) PROVE IInv'
  <1>1. PICK q \in Requests : /\ check' = [check EXCEPT ![t] = Stage("groups", q)]
                              /\ mapped' = [mapped EXCEPT ![t] = GroupFor(groups, q)]
    BY DEF Begin, Go
  <1>2. Alone(t)
    BY <1>1 DEF Alone, Begin, IInv, Domains
  <1>3. check'[t].pc = "groups" /\ check'[t].req = q /\ mapped'[t] = GroupFor(groups, q)
    BY <1>1 DEF IInv, Domains, Stage
  <1> QED BY <1>2, <1>3, Restart

(* is_empty keeps locked the tables it has found empty.                     *)
LEMMA LookIInv ==
  ASSUME IInv, NEW t \in Checkers, IsEmpty(t) PROVE IInv'
  <1>1. Alone(t)
    BY DEF Alone, IsEmpty, Look, Go, IInv, Domains
  <1>2. /\ mapped'[t] = mapped[t] /\ check'[t].req = check[t].req
        /\ UNCHANGED <<groups, access>>
    BY DEF IsEmpty, Look, Go, Stage, IInv, Domains
  <1>3. ~AtStage(t, "idle")
    BY DEF IsEmpty, Look, AtStage
  <1>4. GroupFor(groups, check'[t].req) \subseteq mapped'[t]
    BY <1>2, <1>3 DEF IInv, GroupKnown
  <1>5. \/ check'[t].pc \in {"map", "open"}
        \/ check'[t].pc = "access" /\ groups = {} /\ held'[t] = held[t] \cup {"groups"}
        \/ /\ AtStage(t, "access") /\ access = <<>>
           /\ check'[t].pc = "views" /\ held'[t] = held[t] \cup {"access"}
    BY DEF IsEmpty, Look, Go, Stage, IInv, Domains
  <1>6. CASE check'[t].pc \in {"map", "open"}
    BY <1>1, <1>4, <1>6, Restart
  <1>7. CASE check'[t].pc = "access" /\ groups = {} /\ held'[t] = held[t] \cup {"groups"}
    <2>1. EmptyLocked(t)' /\ GroupKnown(t)' /\ ViewLocked(t)'
      BY <1>2, <1>4, <1>7 DEF EmptyLocked, GroupKnown, ViewLocked, AtStage
    <2> QED BY <1>1, <2>1, Frame
  <1>8. CASE /\ AtStage(t, "access") /\ access = <<>>
             /\ check'[t].pc = "views" /\ held'[t] = held[t] \cup {"access"}
    <2>1. "groups" \in held[t] /\ groups = {}
      BY <1>8 DEF IInv, EmptyLocked
    <2>2. EmptyLocked(t)' /\ GroupKnown(t)' /\ ViewLocked(t)'
      BY <1>2, <1>4, <1>8, <2>1 DEF EmptyLocked, GroupKnown, ViewLocked, AtStage
    <2> QED BY <1>1, <2>2, Frame
  <1> QED BY <1>5, <1>6, <1>7, <1>8

(* group_for finds a group the caller has now.                              *)
LEMMA MapIInv == ASSUME IInv, NEW t \in Checkers, Map(t) PROVE IInv'
  <1> DEFINE q == check[t].req
  <1>1. Alone(t)
    BY DEF Alone, Map, Go, IInv, Domains
  <1>2. GroupFor(groups, q) \subseteq mapped[t] /\ mapped'[t] = mapped[t]
        /\ UNCHANGED groups
    BY DEF Map, AtStage, IInv, GroupKnown
  <1>3. \/ check'[t].pc = "denied" /\ check'[t].req = q
        \/ /\ check'[t].pc = "select" /\ check'[t].req = q
           /\ check'[t].group = GroupFor(groups, q)
    BY DEF Map, Go, Stage, IInv, Domains
  <1>4. CASE check'[t].pc = "denied" /\ check'[t].req = q
    BY <1>1, <1>2, <1>4, Restart
  <1>5. CASE /\ check'[t].pc = "select" /\ check'[t].req = q
             /\ check'[t].group = GroupFor(groups, q)
    <2>1. EmptyLocked(t)' /\ GroupKnown(t)' /\ ViewLocked(t)'
      BY <1>2, <1>5 DEF EmptyLocked, GroupKnown, ViewLocked, AtStage
    <2> QED BY <1>1, <2>1, Frame
  <1> QED BY <1>3, <1>4, <1>5

(* The view that Select finds rests on the access table, which it locks.    *)
LEMMA SelectIInv == ASSUME IInv, NEW t \in Checkers, Select(t) PROVE IInv'
  <1> DEFINE q == check[t].req
             rows == UNION {SelectAccess(access, g, q) : g \in check[t].group}
             view == {row.views[q.type] : row \in rows} \ {NoView}
  <1>1. Alone(t)
    BY DEF Alone, Select, Go, IInv, Domains
  <1>2. /\ GroupFor(groups, q) \subseteq mapped[t] /\ check[t].group \subseteq mapped[t]
        /\ mapped'[t] = mapped[t] /\ UNCHANGED <<groups, access>>
    BY DEF Select, AtStage, IInv, GroupKnown
  <1>3. \/ check'[t].pc = "denied" /\ check'[t].req = q
        \/ /\ check'[t].pc = "match" /\ check'[t].req = q
           /\ check'[t].view = view /\ held'[t] = {"access"}
    BY DEF Select, Go, Stage, IInv, Domains
  <1>4. CASE check'[t].pc = "denied" /\ check'[t].req = q
    BY <1>1, <1>2, <1>4, Restart
  <1>5. CASE /\ check'[t].pc = "match" /\ check'[t].req = q
             /\ check'[t].view = view /\ held'[t] = {"access"}
    <2>1. ASSUME NEW v \in view
          PROVE \E g \in mapped[t] : \E row \in SelectAccess(access, g, q) : v = row.views[q.type]
      BY <1>2
    <2>2. \A v \in check'[t].view : RestsOn(v, t)'
      BY <1>2, <1>5, <2>1 DEF RestsOn
    <2>3. EmptyLocked(t)' /\ GroupKnown(t)' /\ ViewLocked(t)'
      BY <1>2, <1>5, <2>2 DEF EmptyLocked, GroupKnown, ViewLocked, AtStage
    <2> QED BY <1>1, <2>3, Frame
  <1> QED BY <1>3, <1>4, <1>5

\* The view is matched and the locks are given back.
LEMMA MatchIInv == ASSUME IInv, NEW t \in Checkers, Match(t) PROVE IInv'
  <1>1. Alone(t)
    BY DEF Alone, Match, Go, IInv, Domains
  <1>2. /\ check'[t].pc \in {"granted", "denied"} /\ check'[t].req = check[t].req
        /\ GroupFor(groups, check[t].req) \subseteq mapped'[t]
    BY DEF Match, Go, Stage, AtStage, IInv, Domains, GroupKnown
  <1> QED BY <1>1, <1>2, Restart

\* The check is over.
LEMMA ReturnIInv == ASSUME IInv, NEW t \in Checkers, Return(t) PROVE IInv'
  <1>1. Alone(t)
    BY DEF Alone, Return, Go, IInv, Domains
  <1>2. check'[t].pc = "idle"
    BY DEF Return, Go, NoCheck, IInv, Domains
  <1> QED BY <1>1, <1>2, Restart

(* A table is written only while nobody holds its lock, so an edit disturbs *)
(* nothing a check relies on.                                               *)
LEMMA EditIInv ==
  ASSUME IInv, UNCHANGED <<check, held>>,
         groups' = groups \/ Lockable("groups"),
         access' = access \/ Lockable("access"),
         Remap \/ UNCHANGED <<groups, mapped>>
  PROVE  IInv'
  <1>1. Domains'
    BY DEF IInv, Domains, Remap
  <1>2. ASSUME NEW t \in Checkers PROVE (EmptyLocked(t) /\ GroupKnown(t) /\ ViewLocked(t))'
    <2>1. check'[t] = check[t] /\ held'[t] = held[t]
      OBVIOUS
    <2>2. EmptyLocked(t) /\ GroupKnown(t) /\ ViewLocked(t)
      BY DEF IInv
    <2>3. EmptyLocked(t)'
      BY <2>1, <2>2 DEF EmptyLocked, AtStage, Lockable
    <2>4. ~AtStage(t, "idle") => /\ mapped[t] \subseteq mapped'[t]
                            /\ GroupFor(groups', check[t].req) \subseteq mapped'[t]
      BY <2>2 DEF Remap, GroupKnown
    <2>5. GroupKnown(t)'
      BY <2>1, <2>2, <2>4 DEF GroupKnown, AtStage
    <2>6. ViewLocked(t)'
      <3>1. CASE AtStage(t, "match")
        <4>1. "access" \in held[t] /\ \A view \in check[t].view : RestsOn(view, t)
          BY <2>2, <3>1 DEF ViewLocked
        <4>2. access' = access
          BY <4>1 DEF Lockable
        <4>3. mapped[t] \subseteq mapped'[t]
          BY <2>4, <3>1 DEF AtStage
        <4>4. \A view \in check[t].view : RestsOn(view, t)'
          BY <2>1, <4>1, <4>2, <4>3 DEF RestsOn
        <4> QED BY <2>1, <4>1, <4>4 DEF ViewLocked
      <3>2. CASE ~AtStage(t, "match")
        BY <2>1, <3>2 DEF ViewLocked, AtStage
      <3> QED BY <3>1, <3>2
    <2> QED BY <2>3, <2>5, <2>6
  <1> QED BY <1>1, <1>2 DEF IInv

\* The edits of the tables, each under its lock.
LEMMA AdminIInv ==
  ASSUME IInv, NEW a \in Admins,
         \/ WriteGroup(a) \/ WriteAccess(a) \/ WriteView(a)
         \/ WriteContext(a) \/ StartClear(a) \/ ClearNext(a)
  PROVE  IInv'
  <1>1. CASE WriteGroup(a)
    BY <1>1, EditIInv DEF WriteGroup, Ready
  <1>2. CASE WriteAccess(a)
    BY <1>2, EditIInv DEF WriteAccess, Ready
  <1>3. CASE WriteView(a) \/ WriteContext(a) \/ StartClear(a)
    BY <1>3, EditIInv DEF WriteView, WriteContext, StartClear
  <1>4. CASE ClearNext(a)
    BY <1>4, EditIInv DEF ClearNext
  <1> QED BY <1>1, <1>2, <1>3, <1>4

\* Every step keeps what the checks rely on.
LEMMA NextIInv == IInv /\ [VacmNext]_vacmVars => IInv'
  <1> SUFFICES ASSUME IInv, [VacmNext]_vacmVars PROVE IInv'
    OBVIOUS
  <1>1. ASSUME NEW t \in Checkers, Begin(t) \/ CheckStep(t) PROVE IInv'
    BY <1>1, BeginIInv, LookIInv, MapIInv, SelectIInv, MatchIInv, ReturnIInv DEF CheckStep
  <1>2. CASE UNCHANGED vacmVars
    BY <1>2 DEF vacmVars, IInv, Domains, EmptyLocked, GroupKnown, ViewLocked, RestsOn, AtStage
  <1> QED BY <1>1, <1>2, AdminIInv DEF VacmNext

\* So they rely on it for ever.
LEMMA Invariance == VacmSpec => []IInv
  BY InitIInv, NextIInv, PTL DEF VacmSpec

(* Only the third look of is_empty leads to "open".                         *)
LEMMA OpenStep ==
  ASSUME IInv, [VacmNext]_vacmVars, NEW t \in Checkers, AtStage(t, "views"), check'[t].pc = "open"
  PROVE  AllEmpty
  <1>1. groups = {} /\ access = <<>>
    BY DEF IInv, EmptyLocked
  <1>2. check[t].pc = "views"
    BY DEF AtStage
  <1>3. check'[t] # check[t]
    BY <1>2
  <1>4. PICK u \in Checkers : Begin(u) \/ CheckStep(u)
    BY <1>3 DEF VacmNext, vacmVars, WriteGroup, WriteAccess, WriteView, WriteContext,
                StartClear, ClearNext
  <1>5. \A w \in Checkers \ {u} : check'[w] = check[w]
    BY <1>4 DEF Begin, CheckStep, IsEmpty, Look, Map, Select, Match, Return, Go, IInv, Domains
  <1>6. u = t
    BY <1>3, <1>5
  <1>7. Look(t, "views", views = {}, "open")
    BY <1>2, <1>4, <1>6 DEF Begin, CheckStep, IsEmpty, Look, Map, Select, Match, Return, AtStage
  <1>8. views = {}
    BY <1>7 DEF Look, Go, Stage, IInv, Domains
  <1> QED BY <1>1, <1>8 DEF AllEmpty

(* A check finds VACM unconfigured only at a moment when it is, for any     *)
(* number of serve loops and editing threads (the guards Vacm::is_empty     *)
(* holds while it looks at the next table).                                 *)
THEOREM OpenIsSound == VacmSpec => OpenOnlyWhenEmpty
  <1>1. IInv /\ [VacmNext]_vacmVars =>
          [\A t \in Checkers : AtStage(t, "views") /\ check'[t].pc = "open" => AllEmpty]_vacmVars
    BY OpenStep
  <1> QED BY <1>1, Invariance, PTL DEF VacmSpec, OpenOnlyWhenEmpty

(* Only Match leads to "granted", and the view it finds rests on the access *)
(* table.                                                                   *)
LEMMA GrantStep ==
  ASSUME IInv, [VacmNext]_vacmVars, NEW t \in Checkers, AtStage(t, "match"),
         check'[t].pc = "granted"
  PROVE  \E g \in mapped[t] : \E row \in SelectAccess(access, g, check[t].req) :
           InView(views, row.views[check[t].req.type], check[t].req.oid)
  <1>1. check[t].pc = "match"
    BY DEF AtStage
  <1>2. check'[t] # check[t]
    BY <1>1
  <1>3. PICK u \in Checkers : Begin(u) \/ CheckStep(u)
    BY <1>2 DEF VacmNext, vacmVars, WriteGroup, WriteAccess, WriteView, WriteContext,
                StartClear, ClearNext
  <1>4. \A w \in Checkers \ {u} : check'[w] = check[w]
    BY <1>3 DEF Begin, CheckStep, IsEmpty, Look, Map, Select, Match, Return, Go, IInv, Domains
  <1>5. u = t
    BY <1>2, <1>4
  <1>6. Match(t)
    BY <1>1, <1>3, <1>5 DEF Begin, CheckStep, IsEmpty, Look, Map, Select, Match, Return, AtStage
  <1>7. PICK view \in check[t].view : InView(views, view, check[t].req.oid)
    BY <1>6 DEF Match, Go, Stage, IInv, Domains
  <1>8. RestsOn(view, t)
    BY DEF IInv, ViewLocked
  <1> QED BY <1>7, <1>8 DEF RestsOn

(* A grant rests on the access table and the view of the moment it is given *)
(* and on a group its caller had during the check, whoever edits the tables *)
(* meanwhile (the guard of the access table is_view_accessible holds while  *)
(* it matches the view).                                                    *)
THEOREM GrantsAreSound == VacmSpec => GrantsAreCurrent
  <1>1. IInv /\ [VacmNext]_vacmVars =>
          [\A t \in Checkers : AtStage(t, "match") /\ check'[t].pc = "granted" =>
             \E g \in mapped[t] : \E row \in SelectAccess(access, g, check[t].req) :
               InView(views, row.views[check[t].req.type], check[t].req.oid)]_vacmVars
    BY GrantStep
  <1> QED BY <1>1, Invariance, PTL DEF VacmSpec, GrantsAreCurrent

---------------------------------------------------------------------------
(* The tables a configuration file leaves: a fold over its lines.          *)

\* Tables before the first line.
NoTables == [groups |-> {}, access |-> <<>>, views |-> {}]

\* The function inside FoldLeft, on the sets of the first n lines.
Folds(g, ds, n) ==
    g = [s \in SUBSET (1..n) |-> IF s = {} THEN NoTables
                                 ELSE Apply(g[s \ {Max(s)}], ds[Max(s)])]

\* The last of some lines.
LEMMA LastLine ==
    ASSUME NEW n \in Nat, NEW s \in SUBSET (1..n)
    PROVE  /\ n + 1 \notin s
           /\ Max(s \cup {n + 1}) = n + 1
<1>1. PICK T : T = s \cup {n + 1}
  OBVIOUS
<1>2. n + 1 \notin s /\ n + 1 \in T /\ \A y \in T : y \in Nat /\ n + 1 >= y
  BY <1>1
<1>3. Max(T) \in T /\ \A y \in T : Max(T) >= y
  BY <1>2 DEF Max
<1>4. PICK x : x = Max(T)
  OBVIOUS
<1>5. x \in Nat /\ n + 1 >= x /\ x >= n + 1
  BY <1>2, <1>3, <1>4
<1>6. x = n + 1
  BY <1>5
<1>. QED  BY <1>1, <1>2, <1>4, <1>6

\* There is such a function.
LEMMA FoldExists ==
    ASSUME NEW n \in Nat, NEW ds
    PROVE  \E g : Folds(g, ds, n)
<1>. DEFINE S == {m \in 0..n : \E g : Folds(g, ds, m)}
<1>1. 0 \in S
  <2>1. PICK g : g = [s \in SUBSET (1..0) |-> NoTables]
    OBVIOUS
  <2>2. \A s \in SUBSET (1..0) : s = {}
    OBVIOUS
  <2>3. Folds(g, ds, 0)
    BY <2>1, <2>2 DEF Folds
  <2>. QED  BY <2>3
<1>2. ASSUME NEW m \in 0..(n - 1), m \in S PROVE m + 1 \in S
  <2>1. PICK g : Folds(g, ds, m)
    BY <1>2
  <2>2. PICK f : f = [s \in SUBSET (1..(m + 1)) |->
                        IF m + 1 \in s THEN Apply(g[s \ {m + 1}], ds[m + 1]) ELSE g[s]]
    OBVIOUS
  <2>3. ASSUME NEW s \in SUBSET (1..(m + 1))
        PROVE  f[s] = IF s = {} THEN NoTables ELSE Apply(f[s \ {Max(s)}], ds[Max(s)])
    <3>1. CASE m + 1 \in s
      <4>1. PICK t : t = s \ {m + 1}
        OBVIOUS
      <4>2. t \in SUBSET (1..m) /\ t \in SUBSET (1..(m + 1)) /\ s = t \cup {m + 1} /\ m + 1 \notin t
        BY <3>1, <4>1
      <4>3. Max(s) = m + 1
        BY <4>2, LastLine
      <4>4. f[t] = g[t]
        BY <2>2, <4>2
      <4>5. f[s] = Apply(g[t], ds[m + 1])
        BY <2>2, <3>1, <4>1
      <4>. QED  BY <3>1, <4>1, <4>3, <4>4, <4>5
    <3>2. CASE m + 1 \notin s
      <4>1. s \in SUBSET (1..m)
        BY <3>2
      <4>2. f[s] = g[s]
        BY <2>2, <3>2
      <4>3. g[s] = IF s = {} THEN NoTables ELSE Apply(g[s \ {Max(s)}], ds[Max(s)])
        BY <2>1, <4>1 DEF Folds
      <4>4. f[s \ {Max(s)}] = g[s \ {Max(s)}]
        <5>1. PICK t : t = s \ {Max(s)}
          OBVIOUS
        <5>2. t \in SUBSET (1..(m + 1)) /\ m + 1 \notin t
          BY <3>2, <5>1
        <5>3. f[t] = g[t]
          BY <2>2, <5>2
        <5>. QED  BY <5>1, <5>3
      <4>. QED  BY <4>2, <4>3, <4>4
    <3>. QED  BY <3>1, <3>2
  <2>4. Folds(f, ds, m + 1)
    BY <2>2, <2>3 DEF Folds
  <2>. QED  BY <2>4
<1>3. \A m \in 0..n : m \in S
  <2>. HIDE DEF S
  <2>. QED  BY <1>1, <1>2, UpTo
<1>. QED  BY <1>3

\* from_config_directives goes through the file line by line.
LEMMA LoadSteps ==
    ASSUME NEW n \in Nat, NEW ds, DOMAIN ds = 1..n
    PROVE  \E r : /\ r[0] = NoTables /\ r[n] = Load(ds)
                  /\ \A m \in 0..(n - 1) : r[m + 1] = Apply(r[m], ds[m + 1])
<1>1. PICK g : g = CHOOSE f : Folds(f, ds, n)
  OBVIOUS
<1>2. Folds(g, ds, n)
  BY <1>1, FoldExists
<1>3. Load(ds) = g[1..n]
  <2>1. Load(ds) = (CHOOSE f : f = [s \in SUBSET DOMAIN ds |->
                       IF s = {} THEN NoTables
                       ELSE Apply(f[s \ {Max(s)}], ds[Max(s)])])[DOMAIN ds]
    BY DEF Load, FoldLeft, MapThenFoldSet, NoTables
  <2>. QED  BY <1>1, <2>1 DEF Folds
<1>4. PICK r : r = [m \in 0..n |-> g[1..m]]
  OBVIOUS
<1>5. r[0] = NoTables /\ r[n] = Load(ds)
  <2>1. 1..0 = {} /\ {} \in SUBSET (1..n)
    OBVIOUS
  <2>2. g[{}] = NoTables
    BY <1>2, <2>1 DEF Folds
  <2>. QED  BY <1>3, <1>4, <2>1, <2>2
<1>6. ASSUME NEW m \in 0..(n - 1) PROVE r[m + 1] = Apply(r[m], ds[m + 1])
  <2>1. /\ 1..(m + 1) \in SUBSET (1..n) /\ 1..(m + 1) # {}
        /\ 1..(m + 1) = (1..m) \cup {m + 1} /\ m + 1 \notin 1..m
        /\ m \in 0..n /\ m + 1 \in 0..n
    <3>1. m \in Nat /\ m + 1 <= n
      OBVIOUS
    <3>2. 1..(m + 1) = (1..m) \cup {m + 1}
      BY <3>1
    <3>. QED  BY <3>1, <3>2
  <2>2. Max(1..(m + 1)) = m + 1
    <3>1. m \in Nat /\ 1..m \in SUBSET (1..m)
      OBVIOUS
    <3>. QED  BY <2>1, <3>1, LastLine
  <2>3. (1..(m + 1)) \ {m + 1} = 1..m
    BY <2>1
  <2>4. g[1..(m + 1)] = Apply(g[1..m], ds[m + 1])
    BY <1>2, <2>1, <2>2, <2>3 DEF Folds
  <2>. QED  BY <1>4, <2>1, <2>4
<1>. QED  BY <1>5, <1>6

---------------------------------------------------------------------------
(* The tables a file of community lines leaves.                            *)

CommunityGroup(d) == <<"community", d.name>>

CommunityView(d) == <<IF d.kind = "rocommunity" THEN "ro" ELSE "rw", d.name>>

CommunityGrant(d) ==
    Grant(CommunityGroup(d), CommunityView(d),
          IF d.kind = "rocommunity" THEN NoView ELSE CommunityView(d))

CommunitySubtree(d) ==
    [view |-> CommunityView(d), subtree |-> d.oid, mask |-> <<>>, typ |-> "included"]

\* Line i is the last of the first m lines for its community.
LastOf(ds, m, i) == \A j \in (i + 1)..m : ds[j].name # ds[i].name

\* Two groups for every community, the subtrees of all lines, and one access row for every
\* community: that of its last line.
CommunityTables(T, ds, m) ==
    /\ T.groups = {[model |-> k, name |-> ds[i].name, group |-> CommunityGroup(ds[i])] :
                     k \in {1, 2}, i \in 1..m}
    /\ T.views = {CommunitySubtree(ds[i]) : i \in 1..m}
    /\ Len(T.access) \in Nat /\ DOMAIN T.access = 1..Len(T.access)
    /\ \A p \in DOMAIN T.access : \E i \in 1..m :
         T.access[p] = CommunityGrant(ds[i]) /\ LastOf(ds, m, i)
    /\ \A i \in 1..m : \E p \in DOMAIN T.access : T.access[p].group = CommunityGroup(ds[i])
    /\ \A p, q \in DOMAIN T.access : T.access[p].group = T.access[q].group => p = q

\* One line more.
LEMMA CommunityStep ==
    ASSUME NEW ds, NEW n \in Nat, DOMAIN ds = 1..n, NEW m \in 0..(n - 1), NEW T,
           CommunityLine(ds[m + 1]), CommunityTables(T, ds, m)
    PROVE  CommunityTables(Apply(T, ds[m + 1]), ds, m + 1)
<1>1. PICK d : d = ds[m + 1]
  OBVIOUS
<1>2. PICK U : U = Apply(T, d)
  OBVIOUS
<1>3. /\ U.groups = AddCommunity(T.groups, d.name, CommunityGroup(d))
      /\ U.access = AddAccess(T.access, CommunityGrant(d))
      /\ U.views = AddView(T.views, CommunitySubtree(d))
  <2>1. CASE d.kind = "rocommunity"
    BY <1>2, <2>1 DEF Apply, ApplyCommunity, CommunityGroup, CommunityGrant, CommunitySubtree,
                      CommunityView
  <2>2. CASE d.kind = "rwcommunity"
    BY <1>2, <2>2 DEF Apply, ApplyCommunity, CommunityGroup, CommunityGrant, CommunitySubtree,
                      CommunityView
  <2>. QED  BY <1>1, <2>1, <2>2 DEF CommunityLine
<1>4. m \in Nat /\ 1..(m + 1) = (1..m) \cup {m + 1} /\ m + 1 \notin 1..m
  OBVIOUS
<1>. DEFINE row(k, x) == [model |-> k, name |-> x.name, group |-> CommunityGroup(x)]
<1>5. U.groups = {row(k, ds[i]) : k \in {1, 2}, i \in 1..(m + 1)}
  <2>. DEFINE G == {row(k, ds[i]) : k \in {1, 2}, i \in 1..m}
  <2>1. T.groups = G
    BY DEF CommunityTables
  <2>2. \A g \in G, k \in {1, 2} : SameGroup(g, row(k, d)) => g = row(k, d)
    BY DEF SameGroup, CommunityGroup
  <2>3. U.groups = {g \in {h \in G : ~SameGroup(h, row(1, d))} \cup {row(1, d)} :
                      ~SameGroup(g, row(2, d))} \cup {row(2, d)}
    BY <1>3, <2>1 DEF AddCommunity, AddGroup
  <2>4. ~SameGroup(row(1, d), row(2, d))
    BY DEF SameGroup
  <2>5. U.groups = G \cup {row(1, d), row(2, d)}
    BY <2>2, <2>3, <2>4
  <2>. QED  BY <1>1, <1>4, <2>5
<1>6. U.views = {CommunitySubtree(ds[i]) : i \in 1..(m + 1)}
  <2>1. \A i \in 1..m : SameView(CommunitySubtree(ds[i]), CommunitySubtree(d)) =>
                          CommunitySubtree(ds[i]) = CommunitySubtree(d)
    BY DEF SameView, CommunitySubtree
  <2>2. U.views = T.views \cup {CommunitySubtree(d)}
    BY <1>3, <2>1 DEF AddView, CommunityTables
  <2>. QED  BY <1>1, <1>4, <2>2 DEF CommunityTables
<1>. DEFINE as == T.access
            new == CommunityGrant(d)
<1>7. /\ Len(as) \in Nat /\ DOMAIN as = 1..Len(as)
      /\ \A p \in DOMAIN as : \E i \in 1..m : as[p] = CommunityGrant(ds[i]) /\ LastOf(ds, m, i)
      /\ \A i \in 1..m : \E p \in DOMAIN as : as[p].group = CommunityGroup(ds[i])
      /\ \A p, q \in DOMAIN as : as[p].group = as[q].group => p = q
  BY DEF CommunityTables
<1>8. \A x : CommunityGrant(x).group = CommunityGroup(x)
  BY DEF CommunityGrant, Grant
<1>9. ASSUME NEW p \in DOMAIN as
      PROVE  SameAccess(as[p], new) <=> as[p].group = CommunityGroup(d)
  <2>1. PICK i \in 1..m : as[p] = CommunityGrant(ds[i])
    BY <1>7
  <2>2. \A x : /\ CommunityGrant(x).prefix = <<>> /\ CommunityGrant(x).model = 0
               /\ CommunityGrant(x).level = 0
    BY DEF CommunityGrant, Grant
  <2>3. SameAccess(CommunityGrant(ds[i]), CommunityGrant(d)) <=>
          CommunityGrant(ds[i]).group = CommunityGroup(d)
    BY <1>8, <2>2 DEF SameAccess
  <2>. QED  BY <2>1, <2>3
<1>10. \A i, j \in 1..(m + 1) : CommunityGroup(ds[i]) = CommunityGroup(ds[j]) <=>
                                  ds[i].name = ds[j].name
  BY DEF CommunityGroup
<1>11. LastOf(ds, m + 1, m + 1)
  BY <1>4 DEF LastOf
<1>12. ASSUME NEW i \in 1..m, LastOf(ds, m, i), ds[i].name # d.name PROVE LastOf(ds, m + 1, i)
  <2>1. ASSUME NEW j \in (i + 1)..(m + 1) PROVE ds[j].name # ds[i].name
    <3>1. j = m + 1 \/ j \in (i + 1)..m
      BY <1>4
    <3>. QED  BY <1>1, <1>12, <3>1 DEF LastOf
  <2>. QED  BY <2>1 DEF LastOf
<1>13. CASE \E p \in DOMAIN as : as[p].group = CommunityGroup(d)
  <2>1. U.access = [p \in DOMAIN as |-> IF as[p].group = CommunityGroup(d) THEN new ELSE as[p]]
    BY <1>3, <1>9, <1>13 DEF AddAccess, Range
  <2>2. DOMAIN U.access = 1..Len(as) /\ Len(U.access) = Len(as)
    BY <1>7, <2>1
  <2>3. \A p \in DOMAIN as : U.access[p].group = as[p].group
    BY <1>8, <2>1
  <2>4. ASSUME NEW p \in DOMAIN as
        PROVE  \E i \in 1..(m + 1) : U.access[p] = CommunityGrant(ds[i]) /\ LastOf(ds, m + 1, i)
    <3>1. CASE as[p].group = CommunityGroup(d)
      BY <1>1, <1>4, <1>11, <2>1, <3>1
    <3>2. CASE as[p].group # CommunityGroup(d)
      <4>1. PICK i \in 1..m : as[p] = CommunityGrant(ds[i]) /\ LastOf(ds, m, i)
        BY <1>7
      <4>2. ds[i].name # d.name
        BY <1>8, <3>2, <4>1 DEF CommunityGroup
      <4>. QED  BY <1>4, <1>12, <2>1, <3>2, <4>1, <4>2
    <3>. QED  BY <3>1, <3>2
  <2>5. \A i \in 1..(m + 1) : \E p \in DOMAIN as : U.access[p].group = CommunityGroup(ds[i])
    BY <1>1, <1>4, <1>7, <1>13, <2>3
  <2>6. \A p, q \in DOMAIN as : U.access[p].group = U.access[q].group => p = q
    BY <1>7, <2>3
  <2>. QED  BY <1>1, <1>2, <1>5, <1>6, <1>7, <2>2, <2>4, <2>5, <2>6 DEF CommunityTables
<1>14. CASE ~\E p \in DOMAIN as : as[p].group = CommunityGroup(d)
  <2>1. U.access = Append(as, new)
    BY <1>3, <1>9, <1>14 DEF AddAccess, Range
  <2>2. /\ DOMAIN U.access = 1..(Len(as) + 1) /\ Len(U.access) = Len(as) + 1
        /\ U.access[Len(as) + 1] = new /\ \A p \in DOMAIN as : U.access[p] = as[p]
    BY <1>7, <2>1
  <2>3. ASSUME NEW p \in DOMAIN U.access PROVE p = Len(as) + 1 \/ p \in DOMAIN as
    BY <1>7, <2>2
  <2>4. ASSUME NEW p \in DOMAIN U.access
        PROVE  \E i \in 1..(m + 1) : U.access[p] = CommunityGrant(ds[i]) /\ LastOf(ds, m + 1, i)
    <3>1. CASE p = Len(as) + 1
      BY <1>1, <1>4, <1>11, <2>2, <3>1
    <3>2. CASE p \in DOMAIN as
      <4>1. PICK i \in 1..m : as[p] = CommunityGrant(ds[i]) /\ LastOf(ds, m, i)
        BY <1>7, <3>2
      <4>2. ds[i].name # d.name
        BY <1>8, <1>14, <3>2, <4>1 DEF CommunityGroup
      <4>. QED  BY <1>4, <1>12, <2>2, <3>2, <4>1, <4>2
    <3>. QED  BY <2>3, <3>1, <3>2
  <2>5. ASSUME NEW i \in 1..(m + 1)
        PROVE  \E p \in DOMAIN U.access : U.access[p].group = CommunityGroup(ds[i])
    <3>1. CASE i = m + 1
      <4>1. Len(as) + 1 \in DOMAIN U.access
        BY <1>7, <2>2
      <4>2. U.access[Len(as) + 1].group = CommunityGroup(d)
        BY <1>8, <2>2
      <4>. QED  BY <1>1, <3>1, <4>1, <4>2
    <3>2. CASE i \in 1..m
      <4>1. PICK p \in DOMAIN as : as[p].group = CommunityGroup(ds[i])
        BY <1>7, <3>2
      <4>2. p \in DOMAIN U.access
        BY <1>7, <2>2
      <4>. QED  BY <2>2, <4>1, <4>2
    <3>. QED  BY <1>4, <3>1, <3>2
  <2>6. ASSUME NEW p \in DOMAIN U.access, NEW q \in DOMAIN U.access,
               U.access[p].group = U.access[q].group
        PROVE  p = q
    BY <1>7, <1>8, <1>14, <2>2, <2>3, <2>6
  <2>7. Len(U.access) \in Nat
    BY <1>7, <2>2
  <2>. QED  BY <1>1, <1>2, <1>5, <1>6, <2>2, <2>4, <2>5, <2>6, <2>7 DEF CommunityTables
<1>. QED  BY <1>13, <1>14

\* The whole file.
LEMMA CommunityLoad ==
    ASSUME NEW ds, NEW n \in Nat, DOMAIN ds = 1..n, \A i \in 1..n : CommunityLine(ds[i])
    PROVE  CommunityTables(Load(ds), ds, n)
<1>1. PICK r : /\ r[0] = NoTables /\ r[n] = Load(ds)
               /\ \A m \in 0..(n - 1) : r[m + 1] = Apply(r[m], ds[m + 1])
  BY LoadSteps
<1>. DEFINE S == {m \in 0..n : CommunityTables(r[m], ds, m)}
<1>2. 0 \in S
  <2>1. 1..0 = {} /\ DOMAIN <<>> = {} /\ Len(<<>>) = 0
    OBVIOUS
  <2>2. CommunityTables(NoTables, ds, 0)
    BY <2>1 DEF CommunityTables, NoTables
  <2>. QED  BY <1>1, <2>2
<1>3. ASSUME NEW m \in 0..(n - 1), m \in S PROVE m + 1 \in S
  <2>1. CommunityLine(ds[m + 1])
    OBVIOUS
  <2>2. CommunityTables(Apply(r[m], ds[m + 1]), ds, m + 1)
    BY <1>3, <2>1, CommunityStep
  <2>. QED  BY <1>1, <2>2
<1>4. \A m \in 0..n : m \in S
  <2>. HIDE DEF S
  <2>. QED  BY <1>2, <1>3, UpTo
<1>5. n \in S
  BY <1>4
<1>. QED  BY <1>1, <1>5

---------------------------------------------------------------------------
(* What those tables allow.                                                *)

\* A subtree that a community line gives is matched arc by arc.
LEMMA CommunityMatches ==
    ASSUME NEW d, d.oid \in Oids, NEW oid
    PROVE  Matches(CommunitySubtree(d), oid) <=> IsPrefix(d.oid, oid)
<1>1. PICK row : row = CommunitySubtree(d)
  OBVIOUS
<1>2. row.mask = <<>> /\ row.subtree = d.oid
  BY <1>1 DEF CommunitySubtree
<1>3. Matches(row, oid) <=> IsPrefix(SubSeq(row.subtree, 1, Len(row.subtree)), oid)
  BY <1>2 DEF Matches
<1>4. SubSeq(d.oid, 1, Len(d.oid)) = d.oid
  BY DEF Oids
<1>. QED  BY <1>1, <1>2, <1>3, <1>4

\* A view holds the subtrees of the lines that name it.
LEMMA CommunityInView ==
    ASSUME NEW ds, NEW n \in Nat, \A i \in 1..n : ds[i].oid \in Oids,
           NEW T, CommunityTables(T, ds, n), NEW l \in 1..n, NEW oid
    PROVE  InView(T.views, CommunityView(ds[l]), oid) <=>
             \E i \in 1..n : CommunityView(ds[i]) = CommunityView(ds[l]) /\ IsPrefix(ds[i].oid, oid)
<1>1. PICK view : view = CommunityView(ds[l])
  OBVIOUS
<1>2. view # NoView
  BY <1>1 DEF CommunityView, NoView
<1>3. PICK hits : hits = {row \in T.views : row.view = view /\ Matches(row, oid)}
  OBVIOUS
<1>4. InView(T.views, view, oid) <=> hits # {} /\ \A row \in hits : row.typ = "included"
  BY <1>2, <1>3 DEF InView
<1>5. \A i \in 1..n : /\ CommunitySubtree(ds[i]) \in T.views
                      /\ CommunitySubtree(ds[i]).view = CommunityView(ds[i])
                      /\ CommunitySubtree(ds[i]).typ = "included"
                      /\ Matches(CommunitySubtree(ds[i]), oid) <=> IsPrefix(ds[i].oid, oid)
  <2>1. \A i \in 1..n : CommunitySubtree(ds[i]) \in T.views
    BY DEF CommunityTables
  <2>2. \A i \in 1..n : Matches(CommunitySubtree(ds[i]), oid) <=> IsPrefix(ds[i].oid, oid)
    BY CommunityMatches
  <2>3. \A i \in 1..n : /\ CommunitySubtree(ds[i]).view = CommunityView(ds[i])
                        /\ CommunitySubtree(ds[i]).typ = "included"
    BY DEF CommunitySubtree
  <2>. QED  BY <2>1, <2>2, <2>3
<1>6. \A row \in T.views : \E i \in 1..n : row = CommunitySubtree(ds[i])
  BY DEF CommunityTables
<1>7. \A row \in hits : row.typ = "included"
  BY <1>3, <1>5, <1>6
<1>8. hits # {} <=> \E i \in 1..n : CommunityView(ds[i]) = view /\ IsPrefix(ds[i].oid, oid)
  <2>1. ASSUME NEW row \in hits
        PROVE  \E i \in 1..n : CommunityView(ds[i]) = view /\ IsPrefix(ds[i].oid, oid)
    <3>1. row \in T.views /\ row.view = view /\ Matches(row, oid)
      BY <1>3
    <3>2. PICK i \in 1..n : row = CommunitySubtree(ds[i])
      BY <1>6, <3>1
    <3>. QED  BY <1>5, <3>1, <3>2
  <2>2. ASSUME NEW i \in 1..n, CommunityView(ds[i]) = view, IsPrefix(ds[i].oid, oid)
        PROVE  hits # {}
    BY <1>3, <1>5, <2>2
  <2>. QED  BY <2>1, <2>2
<1>. QED  BY <1>1, <1>4, <1>7, <1>8

\* A community has its own group, if a line names it.
LEMMA CommunityGroupFor ==
    ASSUME NEW ds, NEW n \in Nat, NEW T, CommunityTables(T, ds, n),
           NEW q, Community(q)
    PROVE  GroupFor(T.groups, q) =
             {CommunityGroup(ds[i]) : i \in {j \in 1..n : ds[j].name = q.name}}
<1>. DEFINE row(k, x) == [model |-> k, name |-> x.name, group |-> CommunityGroup(x)]
            of(m) == {g.group : g \in {h \in T.groups : h.model = m /\ h.name = q.name}}
<1>1. T.groups = {row(k, ds[i]) : k \in {1, 2}, i \in 1..n}
  BY DEF CommunityTables
<1>2. of(0) = {}
  BY <1>1
<1>3. of(q.model) = {CommunityGroup(ds[i]) : i \in {j \in 1..n : ds[j].name = q.name}}
  <2>1. q.model \in {1, 2}
    BY DEF Community
  <2>2. ASSUME NEW i \in 1..n, ds[i].name = q.name PROVE CommunityGroup(ds[i]) \in of(q.model)
    <3>1. row(q.model, ds[i]) \in T.groups
      BY <1>1, <2>1
    <3>2. /\ row(q.model, ds[i]).model = q.model /\ row(q.model, ds[i]).name = q.name
          /\ row(q.model, ds[i]).group = CommunityGroup(ds[i])
      BY <2>2
    <3>. QED  BY <3>1, <3>2
  <2>3. ASSUME NEW x \in of(q.model)
        PROVE  \E i \in 1..n : ds[i].name = q.name /\ x = CommunityGroup(ds[i])
    <3>1. PICK h \in T.groups : h.model = q.model /\ h.name = q.name /\ x = h.group
      OBVIOUS
    <3>2. PICK k \in {1, 2}, i \in 1..n : h = row(k, ds[i])
      BY <1>1
    <3>. QED  BY <3>1, <3>2
  <2>. QED  BY <2>2, <2>3
<1>4. GroupFor(T.groups, q) = IF of(q.model) # {} THEN of(q.model) ELSE of(0)
  BY DEF GroupFor
<1>. QED  BY <1>2, <1>3, <1>4

\* The access row of line i's community is that of its last line.
LastGrants(T, ds, n, q, i) ==
    \E l \in 1..n :
      /\ ds[l].name = ds[i].name /\ LastOf(ds, n, l)
      /\ SelectAccess(T.access, CommunityGroup(ds[i]), q) = {CommunityGrant(ds[l])}

\* It is, for every line.
LEMMA CommunitySelect ==
    ASSUME NEW ds, NEW n \in Nat, NEW T, CommunityTables(T, ds, n),
           NEW q, Community(q), IsPrefix(<<>>, q.context), NEW i \in 1..n
    PROVE  LastGrants(T, ds, n, q, i)
<1>. DEFINE as == T.access
<1>1. PICK p \in DOMAIN as : as[p].group = CommunityGroup(ds[i])
  BY DEF CommunityTables
<1>2. PICK l \in 1..n : as[p] = CommunityGrant(ds[l]) /\ LastOf(ds, n, l)
  BY DEF CommunityTables
<1>3. \A x : /\ CommunityGrant(x).group = CommunityGroup(x) /\ CommunityGrant(x).prefix = <<>>
             /\ CommunityGrant(x).model = 0 /\ CommunityGrant(x).level = 0
             /\ CommunityGrant(x).match = "prefix"
  BY DEF CommunityGrant, Grant
<1>4. ds[l].name = ds[i].name
  BY <1>1, <1>2, <1>3 DEF CommunityGroup
<1>6. Applies(as[p], CommunityGroup(ds[i]), q)
  BY <1>1, <1>2, <1>3 DEF Applies, ContextMatches, Community
<1>7. \A k \in DOMAIN as : Applies(as[k], CommunityGroup(ds[i]), q) => k = p
  BY <1>1 DEF Applies, CommunityTables
<1>8. p \in Nat
  BY DEF CommunityTables
<1>. DEFINE exact(a) == IF a.model = 0 THEN 0 ELSE 1
            below(a, b) == \/ Len(a.prefix) < Len(b.prefix)
                           \/ Len(a.prefix) = Len(b.prefix) /\ exact(a) < exact(b)
            matching == {k \in DOMAIN as : Applies(as[k], CommunityGroup(ds[i]), q)}
<1>9. matching = {p}
  BY <1>6, <1>7
<1>10. ~below(as[p], as[p])
  BY <1>2, <1>3
<1>11. SelectAccess(as, CommunityGroup(ds[i]), q) =
         {as[k] : k \in {j \in matching :
            \A h \in matching : below(as[h], as[j]) \/ (~below(as[j], as[h]) /\ h <= j)}}
  BY DEF SelectAccess
<1>12. {j \in matching : \A h \in matching :
          below(as[h], as[j]) \/ (~below(as[j], as[h]) /\ h <= j)} = {p}
  <2>. HIDE DEF below, matching
  <2>. QED  BY <1>8, <1>9, <1>10
<1>13. SelectAccess(as, CommunityGroup(ds[i]), q) = {as[p]}
  <2>. HIDE DEF below, matching
  <2>. QED  BY <1>11, <1>12
<1>. QED  BY <1>2, <1>4, <1>13 DEF LastGrants

\* There is one last line for a community.
LEMMA OneLast ==
    ASSUME NEW ds, NEW n \in Nat, NEW k \in 1..n, NEW l \in 1..n,
           LastOf(ds, n, k), LastOf(ds, n, l), ds[k].name = ds[l].name
    PROVE  k = l
<1>1. CASE k < l
  <2>1. l \in (k + 1)..n
    BY <1>1
  <2>. QED  BY <2>1 DEF LastOf
<1>2. CASE l < k
  <2>1. k \in (l + 1)..n
    BY <1>2
  <2>. QED  BY <2>1 DEF LastOf
<1>. QED  BY <1>1, <1>2

\* A file of community lines allows what its lines say.
LEMMA CommunityDecision ==
    ASSUME NEW c \in Configs \ {<<>>}, \A i \in DOMAIN c : CommunityLine(c[i]),
           NEW q \in Requests, Community(q)
    PROVE  Accessible(Load(c), q) <=>
             \E i \in DOMAIN c :
               /\ LineGrants(c, i, q)
               /\ \/ q.type = "read"
                  \/ q.type = "write" /\ c[i].kind = "rwcommunity"
<1>1. PICK n : n = Len(c)
  OBVIOUS
<1>2. n \in Nat /\ DOMAIN c = 1..n /\ n # 0
  BY <1>1, VacmAssumption
<1>3. PICK T : T = Load(c)
  OBVIOUS
<1>4. CommunityTables(T, c, n)
  BY <1>2, <1>3, CommunityLoad
<1>5. \A i \in 1..n : c[i].oid \in Oids
  BY <1>2, VacmAssumption
<1>6. /\ q.type \in {"read", "write", "notify"} /\ q.context \in Seq(STRING)
  BY VacmAssumption
<1>7. ASSUME NEW i \in 1..n
      PROVE  LastGrants(T, c, n, q, i)
  <2>1. PICK x : x = q.context
    OBVIOUS
  <2>2. x \in Seq(STRING)
    BY <1>6, <2>1
  <2>3. IsPrefix(<<>>, x)
    <3>1. Len(<<>>) = 0 /\ Len(x) \in Nat
      BY <2>2
    <3>2. SubSeq(<<>>, 1, 0) = <<>>
      OBVIOUS
    <3>3. SubSeq(x, 1, 0) = <<>>
      BY <2>2
    <3>. QED  BY <3>1, <3>2, <3>3 DEF IsPrefix
  <2>4. IsPrefix(<<>>, q.context)
    BY <2>1, <2>3
  <2>. QED  BY <1>2, <1>4, <2>4, CommunitySelect
<1>8. T.groups # {}
  <2>1. 1 \in 1..n
    BY <1>2
  <2>2. [model |-> 1, name |-> c[1].name, group |-> CommunityGroup(c[1])] \in T.groups
    BY <1>4, <2>1 DEF CommunityTables
  <2>. QED  BY <2>2
<1>9. Accessible(T, q) <=> \E i \in 1..n : /\ c[i].name = q.name
        /\ \E row \in SelectAccess(T.access, CommunityGroup(c[i]), q) :
             InView(T.views, row.views[q.type], q.oid)
  <2>1. GroupFor(T.groups, q) = {CommunityGroup(c[i]) : i \in {j \in 1..n : c[j].name = q.name}}
    BY <1>2, <1>4, CommunityGroupFor
  <2>. QED  BY <1>8, <2>1 DEF Accessible
<1>10. ASSUME NEW l \in 1..n
      PROVE  InView(T.views, CommunityGrant(c[l]).views[q.type], q.oid) <=>
               \E i \in 1..n : /\ c[i].name = c[l].name /\ c[i].kind = c[l].kind
                               /\ IsPrefix(c[i].oid, q.oid)
                               /\ \/ q.type = "read"
                                  \/ q.type = "write" /\ c[i].kind = "rwcommunity"
  <2>1. \A i \in 1..n : CommunityView(c[i]) = CommunityView(c[l]) <=>
                          c[i].name = c[l].name /\ c[i].kind = c[l].kind
    BY <1>2 DEF CommunityLine, CommunityView
  <2>2. InView(T.views, CommunityView(c[l]), q.oid) <=>
          \E i \in 1..n : CommunityView(c[i]) = CommunityView(c[l]) /\ IsPrefix(c[i].oid, q.oid)
    BY <1>2, <1>4, <1>5, CommunityInView
  <2>3. ~InView(T.views, NoView, q.oid)
    BY DEF InView
  <2>4. CommunityGrant(c[l]).views[q.type] =
          IF q.type = "read" \/ (q.type = "write" /\ c[l].kind = "rwcommunity")
          THEN CommunityView(c[l]) ELSE NoView
    BY <1>2, <1>6 DEF CommunityGrant, Grant, CommunityLine
  <2>. QED  BY <2>1, <2>2, <2>3, <2>4
<1>11. ASSUME NEW i \in 1..n PROVE LineGrants(c, i, q) <=>
         /\ c[i].name = q.name /\ IsPrefix(c[i].oid, q.oid)
         /\ \E l \in 1..n : c[l].name = c[i].name /\ c[l].kind = c[i].kind /\ LastOf(c, n, l)
  BY <1>1, <1>2 DEF LineGrants, LastOf
<1>12. ASSUME Accessible(T, q)
       PROVE  \E i \in 1..n : /\ LineGrants(c, i, q)
                              /\ \/ q.type = "read"
                                 \/ q.type = "write" /\ c[i].kind = "rwcommunity"
  <2>1. PICK i \in 1..n : /\ c[i].name = q.name
          /\ \E row \in SelectAccess(T.access, CommunityGroup(c[i]), q) :
               InView(T.views, row.views[q.type], q.oid)
    BY <1>9, <1>12
  <2>2. PICK l \in 1..n : /\ c[l].name = c[i].name /\ LastOf(c, n, l)
          /\ SelectAccess(T.access, CommunityGroup(c[i]), q) = {CommunityGrant(c[l])}
    BY <1>7 DEF LastGrants
  <2>3. InView(T.views, CommunityGrant(c[l]).views[q.type], q.oid)
    BY <2>1, <2>2
  <2>4. PICK j \in 1..n : /\ c[j].name = c[l].name /\ c[j].kind = c[l].kind
                          /\ IsPrefix(c[j].oid, q.oid)
                          /\ \/ q.type = "read"
                             \/ q.type = "write" /\ c[j].kind = "rwcommunity"
    BY <1>10, <2>3
  <2>5. LineGrants(c, j, q)
    BY <1>11, <2>1, <2>2, <2>4
  <2>. QED  BY <2>4, <2>5
<1>13. ASSUME NEW i \in 1..n, LineGrants(c, i, q),
              \/ q.type = "read"
              \/ q.type = "write" /\ c[i].kind = "rwcommunity"
       PROVE  Accessible(T, q)
  <2>1. PICK l \in 1..n : c[l].name = c[i].name /\ c[l].kind = c[i].kind /\ LastOf(c, n, l)
    BY <1>11, <1>13
  <2>2. c[i].name = q.name /\ IsPrefix(c[i].oid, q.oid)
    BY <1>11, <1>13
  <2>3. PICK k \in 1..n : /\ c[k].name = c[i].name /\ LastOf(c, n, k)
          /\ SelectAccess(T.access, CommunityGroup(c[i]), q) = {CommunityGrant(c[k])}
    BY <1>7 DEF LastGrants
  <2>4. k = l
    BY <1>2, <2>1, <2>3, OneLast
  <2>5. InView(T.views, CommunityGrant(c[l]).views[q.type], q.oid)
    BY <1>10, <1>13, <2>1, <2>2
  <2>. QED  BY <1>9, <2>2, <2>3, <2>4, <2>5
<1>. QED  BY <1>2, <1>3, <1>12, <1>13

\* With the tables of a file of community lines, in every state of every execution.
THEOREM CommunitiesAreExact == VacmSpec => []CommunitiesAsConfigured
<1>1. CommunitiesAsConfigured
  <2>1. ASSUME NEW c \in Configs \ {<<>>}, \A i \in DOMAIN c : CommunityLine(c[i]),
               Loaded = Load(c), NEW q \in Requests, Community(q)
        PROVE  Accessible(Loaded, q) <=>
                 \E i \in DOMAIN c :
                   /\ LineGrants(c, i, q)
                   /\ \/ q.type = "read"
                      \/ q.type = "write" /\ c[i].kind = "rwcommunity"
    BY <2>1, CommunityDecision
  <2>. QED  BY <2>1 DEF CommunitiesAsConfigured
<1>. QED  BY <1>1, PTL

---------------------------------------------------------------------------
(* A walk of the tree the MIB modules make (registry.rs, mibgroup/mod.rs). *)

\* Cells in the order of their OIDs.
Ascending(cells) == \A i, j \in DOMAIN cells : i < j => OidLess(cells[i], cells[j])

\* What `sort_by` makes of the cells.
LEMMA InOrderAscends ==
    ASSUME NEW S \in SUBSET Oids, IsFiniteSet(S), NEW s, s = InOrder(S)
    PROVE  s \in Seq(Oids) /\ Ascending(s)
<1>1. PICK n \in Nat : n = Cardinality(S)
  BY FS_CardinalityType
<1>2. /\ s \in [1..n -> Oids]
      /\ \A i \in 1..n : s[i] \in S /\ Rank(S, s[i]) = i
  <2>1. PICK place : place = [c \in S |-> Cardinality({d \in S : OidLeq(d, c)})]
    OBVIOUS
  <2>2. s = [i \in 1..n |-> CHOOSE c \in S : place[c] = i]
    BY <1>1, <2>1 DEF InOrder
  <2>3. \A c \in S : place[c] = Rank(S, c)
    BY <2>1 DEF Rank
  <2>4. ASSUME NEW i \in 1..n PROVE s[i] \in S /\ Rank(S, s[i]) = i
    <3>1. \E c \in S : Rank(S, c) = i
      BY <1>1, RankTaken
    <3>2. \E c \in S : place[c] = i
      BY <2>3, <3>1
    <3>3. (CHOOSE c \in S : place[c] = i) \in S /\ place[CHOOSE c \in S : place[c] = i] = i
      BY <3>2
    <3>4. s[i] = CHOOSE c \in S : place[c] = i
      BY <2>2
    <3>5. s[i] \in S /\ place[s[i]] = i
      BY <3>3, <3>4
    <3>. QED  BY <2>3, <3>5
  <2>5. \A i \in 1..n : s[i] \in Oids
    BY <2>4
  <2>. QED  BY <2>2, <2>4, <2>5
<1>3. s \in Seq(Oids) /\ DOMAIN s = 1..n
  BY <1>2
<1>4. ASSUME NEW i \in 1..n, NEW j \in 1..n, i < j PROVE OidLess(s[i], s[j])
  <2>1. PICK a \in S, b \in S : a = s[i] /\ b = s[j] /\ Rank(S, a) = i /\ Rank(S, b) = j
    BY <1>2
  <2>2. a # b
    BY <1>4, <2>1
  <2>3. ~OidLess(b, a)
    <3>1. ASSUME OidLess(b, a) PROVE FALSE
      <4>1. Rank(S, b) < Rank(S, a)
        BY <3>1, RankRises
      <4>. QED  BY <1>4, <2>1, <4>1
    <3>. QED  BY <3>1
  <2>. QED  BY <2>1, <2>2, <2>3, LessTotal
<1>. QED  BY <1>3, <1>4 DEF Ascending

\* A set of first numbers.
LEMMA FirstOnes ==
    ASSUME NEW n \in Nat, NEW J \in SUBSET (1..n), \A j \in J : \A i \in 1..n : i < j => i \in J
    PROVE  \E k \in 0..n : J = 1..k /\ Cardinality(J) = k
<1>. DEFINE G == {i \in 1..n : i \notin J}
<1>1. ASSUME NEW k \in 0..n PROVE Cardinality(1..k) = k
  BY FS_Interval
<1>2. CASE G = {}
  <2>1. n \in 0..n /\ \A i \in 1..n : i \in J
    BY <1>2
  <2>2. J = 1..n
    BY <2>1
  <2>. QED  BY <1>1, <2>1, <2>2
<1>3. CASE G # {}
  <2>1. PICK m \in G : \A i \in G : m <= i
    <3>1. G \in SUBSET (1..n)
      OBVIOUS
    <3>. HIDE DEF G
    <3>. QED  BY <1>3, <3>1, LeastNumber
  <2>2. m \in 1..n /\ m \notin J /\ m - 1 \in 0..n
    BY <2>1
  <2>3. ASSUME NEW i \in J PROVE i \in 1..(m - 1)
    <3>1. i # m /\ ~(m < i)
      BY <2>2, <2>3
    <3>. QED  BY <2>2, <3>1
  <2>4. ASSUME NEW i \in 1..(m - 1) PROVE i \in J
    <3>1. i \in 1..n /\ ~(m <= i)
      BY <2>2
    <3>. QED  BY <2>1, <3>1
  <2>5. J = 1..(m - 1)
    BY <2>3, <2>4
  <2>. QED  BY <1>1, <2>2, <2>5
<1>. QED  BY <1>2, <1>3

\* What `partition_point` finds.
ComesNext(s, oid, r) ==
    \/ r = <<>> /\ \A i \in DOMAIN s : ~OidLess(oid, s[i])
    \/ \E i \in DOMAIN s : /\ r = <<s[i]>> /\ OidLess(oid, s[i])
                           /\ \A j \in DOMAIN s : OidLess(oid, s[j]) => s[j] = s[i] \/ OidLess(s[i], s[j])

LEMMA SuccessorFollows ==
    ASSUME NEW s \in Seq(Oids), Ascending(s), NEW oid \in Oids
    PROVE  ComesNext(s, oid, Successor(s, oid))
<1>1. PICK n \in Nat : n = Len(s) /\ DOMAIN s = 1..n
  OBVIOUS
<1>2. \A i \in 1..n : s[i] \in Oids
  BY <1>1
<1>. DEFINE J == {j \in DOMAIN s : OidLeq(s[j], oid)}
<1>3. J \in SUBSET (1..n)
  BY <1>1
<1>4. ASSUME NEW j \in J, NEW i \in 1..n, i < j PROVE i \in J
  <2>1. j \in 1..n /\ OidLeq(s[j], oid) /\ OidLess(s[i], s[j])
    BY <1>1, <1>4 DEF Ascending
  <2>2. OidLeq(s[i], oid)
    BY <1>2, <2>1, LeqOrder DEF OidLeq
  <2>. QED  BY <1>1, <2>2
<1>5. PICK k \in 0..n : J = 1..k /\ Cardinality(J) = k
  <2>. HIDE DEF J
  <2>. QED  BY <1>3, <1>4, FirstOnes
<1>6. Successor(s, oid) = IF k + 1 <= n THEN <<s[k + 1]>> ELSE <<>>
  BY <1>1, <1>5 DEF Successor
<1>7. ASSUME NEW i \in 1..n PROVE OidLess(oid, s[i]) <=> i > k
  <2>1. i \in J <=> OidLeq(s[i], oid)
    BY <1>1
  <2>2. i \in J <=> i <= k
    BY <1>5
  <2>3. OidLess(oid, s[i]) <=> ~OidLeq(s[i], oid)
    BY <1>2, LeqOrder
  <2>. QED  BY <2>1, <2>2, <2>3
<1>8. CASE k + 1 <= n
  <2>1. k + 1 \in 1..n /\ Successor(s, oid) = <<s[k + 1]>> /\ OidLess(oid, s[k + 1])
    BY <1>6, <1>7, <1>8
  <2>2. ASSUME NEW j \in 1..n, OidLess(oid, s[j]) PROVE s[j] = s[k + 1] \/ OidLess(s[k + 1], s[j])
    <3>1. j > k
      BY <1>7, <2>2
    <3>2. j = k + 1 \/ k + 1 < j
      BY <3>1
    <3>. QED  BY <1>1, <2>1, <3>2 DEF Ascending
  <2>. QED  BY <1>1, <2>1, <2>2 DEF ComesNext
<1>9. CASE ~(k + 1 <= n)
  <2>1. \A i \in 1..n : ~OidLess(oid, s[i])
    BY <1>7, <1>9
  <2>. QED  BY <1>1, <1>6, <1>9, <2>1 DEF ComesNext
<1>. QED  BY <1>8, <1>9

\* One more element among those of a sequence.
LEMMA InsertAtIs ==
    ASSUME NEW T, NEW s \in Seq(T), NEW h \in T, NEW k \in 0..Len(s), NEW r, r = InsertAt(s, k + 1, h)
    PROVE  /\ r \in Seq(T) /\ Len(r) = Len(s) + 1
           /\ \A i \in 1..k : r[i] = s[i]
           /\ r[k + 1] = h
           /\ \A i \in (k + 2)..(Len(s) + 1) : r[i] = s[i - 1]
<1>1. PICK n \in Nat : n = Len(s)
  OBVIOUS
<1>2. PICK a, b, x : a = SubSeq(s, 1, k) /\ b = SubSeq(s, k + 1, n) /\ x = <<h>>
  OBVIOUS
<1>3. r = (a \o x) \o b
  <2>1. (k + 1) - 1 = k
    BY <1>1
  <2>. QED  BY <1>1, <1>2, <2>1 DEF InsertAt
<1>4. a \in Seq(T) /\ Len(a) = k /\ \A i \in 1..k : a[i] = s[i]
  BY <1>1, <1>2
<1>5. b \in Seq(T) /\ Len(b) = n - k /\ \A i \in 1..(n - k) : b[i] = s[k + i]
  BY <1>1, <1>2
<1>6. x \in Seq(T) /\ Len(x) = 1 /\ x[1] = h
  <2>1. <<h>> \in Seq(T)
    OBVIOUS
  <2>. QED  BY <1>2, <2>1
<1>7. PICK y : y = a \o x
  OBVIOUS
<1>8. y \in Seq(T) /\ Len(y) = k + 1 /\ y[k + 1] = h /\ \A i \in 1..k : y[i] = a[i]
  <2>1. /\ y \in Seq(T) /\ Len(y) = Len(a) + Len(x)
        /\ \A i \in 1..(Len(a) + Len(x)) : y[i] = IF i <= Len(a) THEN a[i] ELSE x[i - Len(a)]
    BY <1>4, <1>6, <1>7, ConcatProperties
  <2>2. Len(y) = k + 1 /\ \A i \in 1..(k + 1) : y[i] = IF i <= k THEN a[i] ELSE x[i - k]
    BY <1>4, <1>6, <2>1
  <2>3. k + 1 \in 1..(k + 1) /\ ~(k + 1 <= k) /\ (k + 1) - k = 1
    BY <1>1
  <2>4. y[k + 1] = h
    BY <1>6, <2>2, <2>3
  <2>5. \A i \in 1..k : i \in 1..(k + 1) /\ i <= k
    BY <1>1
  <2>. QED  BY <2>1, <2>2, <2>4, <2>5
<1>9. /\ r \in Seq(T) /\ Len(r) = n + 1
      /\ \A i \in 1..(n + 1) : r[i] = IF i <= k + 1 THEN y[i] ELSE b[i - (k + 1)]
  <2>1. /\ y \o b \in Seq(T) /\ Len(y \o b) = Len(y) + Len(b)
        /\ \A i \in 1..(Len(y) + Len(b)) : (y \o b)[i] = IF i <= Len(y) THEN y[i] ELSE b[i - Len(y)]
    BY <1>5, <1>8, ConcatProperties
  <2>2. (k + 1) + (n - k) = n + 1
    BY <1>1
  <2>3. r = y \o b
    BY <1>3, <1>7
  <2>. QED  BY <1>5, <1>8, <2>1, <2>2, <2>3
<1>10. ASSUME NEW i \in 1..k PROVE r[i] = s[i]
  <2>1. i \in 1..(n + 1) /\ i <= k + 1
    BY <1>1
  <2>. QED  BY <1>4, <1>8, <1>9, <2>1
<1>11. r[k + 1] = h
  <2>1. k + 1 \in 1..(n + 1) /\ k + 1 <= k + 1
    BY <1>1
  <2>. QED  BY <1>8, <1>9, <2>1
<1>12. ASSUME NEW i \in (k + 2)..(n + 1) PROVE r[i] = s[i - 1]
  <2>1. /\ i \in 1..(n + 1) /\ ~(i <= k + 1) /\ i - (k + 1) \in 1..(n - k) /\ k + (i - (k + 1)) = i - 1
    BY <1>1
  <2>. QED  BY <1>5, <1>9, <2>1
<1>. QED  BY <1>1, <1>9, <1>10, <1>11, <1>12

\* The handlers a plan registers, as a set of records with OIDs for roots.
Planned(m, plan, T) ==
    /\ m \in Machines /\ plan \in Plans /\ T = PlanHandlers(m, plan)

LEMMA PlannedFacts ==
    ASSUME NEW m, NEW plan, NEW T, Planned(m, plan, T)
    PROVE  /\ plan \in Seq(ToSet(plan))
           /\ \A name \in ToSet(plan) : Group(name, m) \in Seq(T)
           /\ \A h \in T : BelowRoot(h)
           /\ \A h, other \in T : Covers(h, other)
BY WalkAssumption DEF Planned

\* A planned handler has its cells in order, below its root.
LEMMA HandlerCells ==
    ASSUME NEW h, BelowRoot(h)
    PROVE  /\ h.root \in Oids /\ h.cells \in Seq(Oids) /\ Ascending(h.cells)
           /\ \A i \in DOMAIN h.cells : IsPrefix(h.root, h.cells[i]) /\ h.cells[i] \in ToSet(h.cells)
<1>1. PICK S : S = ToSet(h.cells)
  OBVIOUS
<1>2. h.root \in Oids /\ S \in SUBSET Oids /\ IsFiniteSet(S) /\ h = FnHandler(h.root, S)
  BY <1>1 DEF BelowRoot
<1>3. h.cells = InOrder(S)
  BY <1>2 DEF FnHandler
<1>4. h.cells \in Seq(Oids) /\ Ascending(h.cells)
  BY <1>2, <1>3, InOrderAscends
<1>5. ASSUME NEW i \in DOMAIN h.cells PROVE IsPrefix(h.root, h.cells[i]) /\ h.cells[i] \in ToSet(h.cells)
  <2>1. h.cells[i] \in ToSet(h.cells)
    BY DEF ToSet
  <2>. QED  BY <2>1 DEF BelowRoot
<1>. QED  BY <1>2, <1>4, <1>5

\* The registry in the order of its roots.
RootsAscend(registry) ==
    \A i, j \in DOMAIN registry : i < j => OidLeq(registry[i].root, registry[j].root)

\* `register` keeps it so.
LEMMA RegisterAscends ==
    ASSUME NEW T, \A h \in T : h.root \in Oids, NEW s \in Seq(T), RootsAscend(s), NEW h \in T,
           NEW r, r = Register(s, h)
    PROVE  r \in Seq(T) /\ RootsAscend(r)
<1>1. PICK n \in Nat : n = Len(s) /\ DOMAIN s = 1..n
  OBVIOUS
<1>2. h.root \in Oids /\ \A i \in 1..n : s[i] \in T /\ s[i].root \in Oids
  BY <1>1
<1>. DEFINE J == {i \in DOMAIN s : OidLeq(s[i].root, h.root)}
<1>3. J \in SUBSET (1..n)
  BY <1>1
<1>4. ASSUME NEW j \in J, NEW i \in 1..n, i < j PROVE i \in J
  <2>1. j \in 1..n /\ OidLeq(s[j].root, h.root) /\ OidLeq(s[i].root, s[j].root)
    BY <1>1, <1>4 DEF RootsAscend
  <2>2. OidLeq(s[i].root, h.root)
    BY <1>2, <2>1, LeqOrder
  <2>. QED  BY <1>1, <2>2
<1>5. PICK k \in 0..n : J = 1..k /\ Cardinality(J) = k
  <2>. HIDE DEF J
  <2>. QED  BY <1>3, <1>4, FirstOnes
<1>6. r = InsertAt(s, k + 1, h)
  BY <1>5 DEF Register
<1>7. ASSUME NEW i \in 1..n PROVE i <= k => OidLeq(s[i].root, h.root)
  BY <1>1, <1>5
<1>8. ASSUME NEW i \in 1..n PROVE i > k => OidLeq(h.root, s[i].root)
  <2>1. ASSUME i > k PROVE OidLeq(h.root, s[i].root)
    <3>1. i \notin J
      BY <1>5, <2>1
    <3>2. ~OidLeq(s[i].root, h.root)
      BY <1>1, <3>1
    <3>. QED  BY <1>2, <3>2, LeqOrder DEF OidLeq
  <2>. QED  BY <2>1
<1>9. /\ r \in Seq(T) /\ Len(r) = n + 1 /\ r[k + 1] = h
      /\ \A i \in 1..k : r[i] = s[i]
      /\ \A i \in (k + 2)..(n + 1) : r[i] = s[i - 1]
  <2>1. k \in 0..Len(s)
    BY <1>1
  <2>2. PICK q : q = InsertAt(s, k + 1, h)
    OBVIOUS
  <2>3. q \in Seq(T) /\ Len(q) = Len(s) + 1 /\ \A i \in 1..k : q[i] = s[i]
    BY <2>1, <2>2, InsertAtIs
  <2>4. q[k + 1] = h
    BY <2>1, <2>2, InsertAtIs
  <2>5. \A i \in (k + 2)..(Len(s) + 1) : q[i] = s[i - 1]
    BY <2>1, <2>2, InsertAtIs
  <2>6. r = q
    BY <1>6, <2>2
  <2>. QED  BY <1>1, <2>3, <2>4, <2>5, <2>6
<1>10. DOMAIN r = 1..(n + 1)
  BY <1>9
<1>11. ASSUME NEW i \in 1..(n + 1), NEW j \in 1..(n + 1), i < j PROVE OidLeq(r[i].root, r[j].root)
  <2>1. CASE j <= k
    <3>1. i \in 1..k /\ j \in 1..k /\ i \in 1..n /\ j \in 1..n
      BY <1>1, <1>11, <2>1
    <3>2. OidLeq(s[i].root, s[j].root)
      BY <1>1, <1>11, <3>1 DEF RootsAscend
    <3>. QED  BY <1>9, <3>1, <3>2
  <2>2. CASE j = k + 1
    <3>1. i \in 1..k /\ i \in 1..n /\ i <= k
      BY <1>1, <1>11, <2>2
    <3>. QED  BY <1>7, <1>9, <2>2, <3>1
  <2>3. CASE j > k + 1
    <3>1. j \in (k + 2)..(n + 1) /\ j - 1 \in 1..n /\ j - 1 > k
      BY <1>1, <2>3
    <3>2. r[j] = s[j - 1]
      BY <1>9, <3>1
    <3>3. CASE i <= k
      <4>1. i \in 1..k /\ i \in 1..n /\ i < j - 1
        BY <1>1, <3>1, <3>3
      <4>2. OidLeq(s[i].root, s[j - 1].root)
        BY <1>1, <3>1, <4>1 DEF RootsAscend
      <4>. QED  BY <1>9, <3>2, <4>1, <4>2
    <3>4. CASE i = k + 1
      BY <1>8, <1>9, <3>1, <3>2, <3>4
    <3>5. CASE i > k + 1
      <4>1. i \in (k + 2)..(n + 1) /\ i - 1 \in 1..n /\ i - 1 < j - 1
        BY <1>1, <1>11, <3>5
      <4>2. OidLeq(s[i - 1].root, s[j - 1].root)
        BY <1>1, <3>1, <4>1 DEF RootsAscend
      <4>. QED  BY <1>9, <3>2, <4>1, <4>2
    <3>. QED  BY <1>1, <3>3, <3>4, <3>5
  <2>. QED  BY <1>1, <2>1, <2>2, <2>3
<1>. QED  BY <1>9, <1>10, <1>11 DEF RootsAscend

\* handler_for finds one, and none below it matches.
LEMMA LongestHandler ==
    ASSUME handlers \in Seq({handlers[i] : i \in DOMAIN handlers}),
           \A i \in DOMAIN handlers : handlers[i].root \in Oids,
           NEW oid, NEW h \in DOMAIN handlers, IsPrefix(handlers[h].root, oid)
    PROVE  /\ handler_for(oid) \in DOMAIN handlers
           /\ IsPrefix(handlers[handler_for(oid)].root, oid)
           /\ Len(handlers[handler_for(oid)].root) >= Len(handlers[h].root)
<1>1. PICK n \in Nat : n = Len(handlers) /\ DOMAIN handlers = 1..n
  OBVIOUS
<1>2. PICK M : M = {i \in DOMAIN handlers : IsPrefix(handlers[i].root, oid)}
  OBVIOUS
<1>3. M \in SUBSET (1..n) /\ h \in M
  BY <1>1, <1>2
<1>4. IsFiniteSet(M)
  <2>1. IsFiniteSet(1..n)
    BY FS_Interval
  <2>. QED  BY <1>3, <2>1, FS_Subset
<1>5. PICK len : len = [i \in 1..n |-> Len(handlers[i].root)]
  OBVIOUS
<1>6. \A i \in 1..n : len[i] \in Nat /\ len[i] = Len(handlers[i].root)
  BY <1>1, <1>5, OidFacts
<1>7. PICK R : R = {r \in (1..n) \X (1..n) : len[r[2]] < len[r[1]] \/ (len[r[2]] = len[r[1]] /\ r[2] <= r[1])}
  OBVIOUS
<1>8. \A i, j \in M : <<i, j>> \in R <=> (len[j] < len[i] \/ (len[j] = len[i] /\ j <= i))
  BY <1>3, <1>7
<1>9. \A i, j \in M : <<i, j>> \in R \/ <<j, i>> \in R
  <2>1. ASSUME NEW i \in M, NEW j \in M PROVE <<i, j>> \in R \/ <<j, i>> \in R
    <3>1. i \in Nat /\ j \in Nat /\ len[i] \in Nat /\ len[j] \in Nat
      BY <1>3, <1>6
    <3>. QED  BY <1>8, <3>1
  <2>. QED  BY <2>1
<1>10. \A x, y, z \in M : <<x, y>> \in R /\ <<y, z>> \in R => <<x, z>> \in R
  <2>1. ASSUME NEW x \in M, NEW y \in M, NEW z \in M, <<x, y>> \in R, <<y, z>> \in R PROVE <<x, z>> \in R
    <3>1. /\ x \in Nat /\ y \in Nat /\ z \in Nat
          /\ len[x] \in Nat /\ len[y] \in Nat /\ len[z] \in Nat
      BY <1>3, <1>6
    <3>2. /\ len[y] < len[x] \/ (len[y] = len[x] /\ y <= x)
          /\ len[z] < len[y] \/ (len[z] = len[y] /\ z <= y)
      BY <1>8, <2>1
    <3>3. len[z] < len[x] \/ (len[z] = len[x] /\ z <= x)
      BY <3>1, <3>2
    <3>. QED  BY <1>8, <3>3
  <2>. QED  BY <2>1
<1>11. \E i \in M : \A j \in M : <<i, j>> \in R
  BY <1>3, <1>4, <1>9, <1>10, FirstElement
<1>12. \E i \in M : \A j \in M : \/ Len(handlers[j].root) < Len(handlers[i].root)
                                 \/ Len(handlers[j].root) = Len(handlers[i].root) /\ j <= i
  <2>1. PICK i \in M : \A j \in M : <<i, j>> \in R
    BY <1>11
  <2>2. ASSUME NEW j \in M
        PROVE  \/ Len(handlers[j].root) < Len(handlers[i].root)
               \/ Len(handlers[j].root) = Len(handlers[i].root) /\ j <= i
    BY <1>3, <1>6, <1>8, <2>1
  <2>. QED  BY <2>1, <2>2
<1>13. PICK f : f = handler_for(oid)
  OBVIOUS
<1>14. f = CHOOSE i \in M : \A j \in M : \/ Len(handlers[j].root) < Len(handlers[i].root)
                                         \/ Len(handlers[j].root) = Len(handlers[i].root) /\ j <= i
  BY <1>2, <1>13 DEF handler_for
<1>15. f \in M /\ \A j \in M : \/ Len(handlers[j].root) < Len(handlers[f].root)
                               \/ Len(handlers[j].root) = Len(handlers[f].root) /\ j <= f
  BY <1>12, <1>14
<1>16. Len(handlers[f].root) >= Len(handlers[h].root)
  <2>1. f \in 1..n /\ h \in 1..n
    BY <1>3, <1>15
  <2>2. Len(handlers[f].root) \in Nat /\ Len(handlers[h].root) \in Nat
    BY <1>6, <2>1
  <2>3. Len(handlers[h].root) < Len(handlers[f].root) \/ Len(handlers[h].root) = Len(handlers[f].root)
    BY <1>3, <1>15
  <2>. QED  BY <2>2, <2>3
<1>. QED  BY <1>2, <1>13, <1>15, <1>16

\* The walk's state, of some plan on the machine.
WalkInv ==
    \E plan, T : /\ Planned(machine, plan, T)
                 /\ todo \in Seq(ToSet(plan)) /\ pending \in Seq(T)
                 /\ handlers \in Seq(T) /\ RootsAscend(handlers) /\ cursor \in Oids

\* The handlers that a step of the walk asks.
LEMMA AskedHandlers ==
    ASSUME NEW T, \A h \in T : BelowRoot(h), handlers \in Seq(T), cursor \in Oids, NEW i \in DOMAIN handlers
    PROVE  /\ handlers[i] \in T /\ handlers[i].root \in Oids
           /\ handlers[i].cells \in Seq(Oids) /\ Ascending(handlers[i].cells)
           /\ \A j \in DOMAIN handlers[i].cells :
                IsPrefix(handlers[i].root, handlers[i].cells[j]) /\ handlers[i].cells[j] \in ToSet(handlers[i].cells)
           /\ ComesNext(handlers[i].cells, cursor, Successor(handlers[i].cells, cursor))
<1>1. handlers[i] \in T
  OBVIOUS
<1>2. BelowRoot(handlers[i])
  BY <1>1
<1>3. /\ handlers[i].root \in Oids /\ handlers[i].cells \in Seq(Oids) /\ Ascending(handlers[i].cells)
      /\ \A j \in DOMAIN handlers[i].cells :
           IsPrefix(handlers[i].root, handlers[i].cells[j]) /\ handlers[i].cells[j] \in ToSet(handlers[i].cells)
  BY <1>2, HandlerCells
<1>4. ComesNext(handlers[i].cells, cursor, Successor(handlers[i].cells, cursor))
  BY <1>3, SuccessorFollows
<1>. QED  BY <1>1, <1>3, <1>4

\* The handler that answers, and with which cell; or none has a cell left.
NextFound(r) ==
    \/ /\ r = EndOfMib
       /\ \A i \in DOMAIN handlers : \A j \in DOMAIN handlers[i].cells : ~OidLess(cursor, handlers[i].cells[j])
    \/ \E i \in DOMAIN handlers : \E j \in DOMAIN handlers[i].cells :
         /\ r = handlers[i].cells[j] /\ OidLess(cursor, r)
         /\ \A l \in DOMAIN handlers[i].cells :
              OidLess(cursor, handlers[i].cells[l]) => handlers[i].cells[l] = r \/ OidLess(r, handlers[i].cells[l])
         /\ \A g \in DOMAIN handlers : \A l \in DOMAIN handlers[g].cells :
              OidLess(cursor, handlers[g].cells[l]) => i <= g

LEMMA GetNextAnswered ==
    ASSUME NEW T, \A h \in T : BelowRoot(h), handlers \in Seq(T), cursor \in Oids
    PROVE  NextFound(DoGetNext(cursor))
<1>1. PICK n \in Nat : n = Len(handlers) /\ DOMAIN handlers = 1..n
  OBVIOUS
<1>2. PICK able : able = {i \in DOMAIN handlers : Successor(handlers[i].cells, cursor) # <<>>}
  OBVIOUS
<1>3. ASSUME NEW g \in DOMAIN handlers, NEW l \in DOMAIN handlers[g].cells, OidLess(cursor, handlers[g].cells[l])
      PROVE  g \in able
  <2>1. ComesNext(handlers[g].cells, cursor, Successor(handlers[g].cells, cursor))
    BY AskedHandlers
  <2>2. Successor(handlers[g].cells, cursor) # <<>>
    <3>1. PICK s, r : s = handlers[g].cells /\ r = Successor(s, cursor)
      OBVIOUS
    <3>2. ComesNext(s, cursor, r) /\ l \in DOMAIN s /\ OidLess(cursor, s[l])
      BY <1>3, <2>1, <3>1
    <3>3. PICK x : r = <<x>>
      BY <3>2 DEF ComesNext
    <3>4. <<x>> # <<>>
      OBVIOUS
    <3>. QED  BY <3>1, <3>3, <3>4
  <2>. QED  BY <1>2, <2>2
<1>4. CASE able = {}
  <2>1. DoGetNext(cursor) = EndOfMib
    BY <1>2, <1>4 DEF DoGetNext
  <2>. QED  BY <1>3, <1>4, <2>1 DEF NextFound
<1>5. CASE able # {}
  <2>1. PICK f : f = CHOOSE i \in able : \A j \in able : i <= j
    OBVIOUS
  <2>2. f \in able /\ \A j \in able : f <= j
    <3>1. able \in SUBSET (1..n)
      BY <1>1, <1>2
    <3>2. \E i \in able : \A j \in able : i <= j
      BY <1>5, <3>1, LeastNumber
    <3>. QED  BY <2>1, <3>2
  <2>3. DoGetNext(cursor) = Successor(handlers[f].cells, cursor)[1]
    BY <1>2, <1>5, <2>1 DEF DoGetNext
  <2>4. PICK s, r : s = handlers[f].cells /\ r = Successor(s, cursor)
    OBVIOUS
  <2>5. f \in DOMAIN handlers /\ r # <<>>
    BY <1>2, <2>2, <2>4
  <2>6. ComesNext(s, cursor, r)
    BY <2>4, <2>5, AskedHandlers
  <2>7. PICK i \in DOMAIN s : /\ r = <<s[i]>> /\ OidLess(cursor, s[i])
                              /\ \A j \in DOMAIN s : OidLess(cursor, s[j]) => s[j] = s[i] \/ OidLess(s[i], s[j])
    BY <2>5, <2>6 DEF ComesNext
  <2>8. DoGetNext(cursor) = s[i]
    <3>1. PICK x : x = s[i]
      OBVIOUS
    <3>2. <<x>>[1] = x
      OBVIOUS
    <3>. QED  BY <2>3, <2>4, <2>7, <3>1, <3>2
  <2>9. \A g \in DOMAIN handlers : \A l \in DOMAIN handlers[g].cells : OidLess(cursor, handlers[g].cells[l]) => f <= g
    BY <1>3, <2>2
  <2>. QED  BY <2>4, <2>5, <2>7, <2>8, <2>9 DEF NextFound
<1>. QED  BY <1>4, <1>5

\* What lies after a root and before an OID below it lies below it.
LEMMA RootConvex ==
    ASSUME NEW r \in Oids, NEW x \in Oids, NEW b \in Oids, OidLeq(r, x), OidLess(x, b), IsPrefix(r, b)
    PROVE  IsPrefix(r, x)
<1>1. IsPrefix(r, r)
  BY PrefixArcs, OidFacts
<1>2. CASE r = x
  BY <1>1, <1>2
<1>3. CASE OidLess(r, x)
  BY <1>1, <1>3, SubtreeConvex
<1>. QED  BY <1>2, <1>3 DEF OidLeq

LEMMA PrefixLeq ==
    ASSUME NEW r \in Oids, NEW x \in Oids, IsPrefix(r, x)
    PROVE  OidLeq(r, x)
BY ExtensionLater DEF OidLeq

\* A step of the walk.
LEMMA WalkStep ==
    ASSUME WalkInv, WalkOn
    PROVE  /\ cursor' \in Oids
           /\ cursor' # EndOfMib =>
                /\ OidLess(cursor, cursor')
                /\ cursor' \in ToSet(handlers[handler_for(cursor')].cells)
           /\ \A c \in Skipped : cursor' # EndOfMib /\ Shadowed(c, cursor')
<1>1. PICK plan, T : /\ Planned(machine, plan, T) /\ handlers \in Seq(T) /\ RootsAscend(handlers) /\ cursor \in Oids
  BY DEF WalkInv
<1>2. (\A h \in T : BelowRoot(h)) /\ (\A h, other \in T : Covers(h, other))
  BY <1>1, PlannedFacts
<1>3. NextFound(cursor')
  BY <1>1, <1>2, GetNextAnswered DEF WalkOn
<1>4. PICK r : r = cursor'
  OBVIOUS
<1>5. ASSUME NEW c \in Skipped
      PROVE  \E g \in DOMAIN handlers : \E l \in DOMAIN handlers[g].cells :
               /\ c = handlers[g].cells[l] /\ OidLess(cursor, c) /\ (r # EndOfMib => OidLess(c, r))
  BY <1>4, <1>5 DEF Skipped, AllCells, ToSet
<1>6. CASE r = EndOfMib /\ \A i \in DOMAIN handlers : \A j \in DOMAIN handlers[i].cells : ~OidLess(cursor, handlers[i].cells[j])
  <2>1. Skipped = {}
    BY <1>5, <1>6
  <2>2. EndOfMib \in Oids
    BY DEF EndOfMib, Oids
  <2>. QED  BY <1>4, <1>6, <2>1, <2>2
<1>7. ASSUME NEW i \in DOMAIN handlers, NEW j \in DOMAIN handlers[i].cells,
             r = handlers[i].cells[j], OidLess(cursor, r),
             \A l \in DOMAIN handlers[i].cells :
               OidLess(cursor, handlers[i].cells[l]) => handlers[i].cells[l] = r \/ OidLess(r, handlers[i].cells[l]),
             \A g \in DOMAIN handlers : \A l \in DOMAIN handlers[g].cells :
               OidLess(cursor, handlers[g].cells[l]) => i <= g
      PROVE  /\ r \in Oids /\ r # EndOfMib /\ r \in ToSet(handlers[handler_for(r)].cells)
             /\ \A c \in Skipped : Shadowed(c, r)
  <2>1. /\ handlers[i] \in T /\ handlers[i].root \in Oids /\ handlers[i].cells \in Seq(Oids)
        /\ \A k \in DOMAIN handlers[i].cells :
             IsPrefix(handlers[i].root, handlers[i].cells[k]) /\ handlers[i].cells[k] \in ToSet(handlers[i].cells)
    BY <1>1, <1>2, AskedHandlers
  <2>2. r \in Oids /\ IsPrefix(handlers[i].root, r) /\ r \in ToSet(handlers[i].cells)
    BY <1>7, <2>1
  <2>3. r # EndOfMib
    <3>1. Len(EndOfMib) = 0
      BY DEF EndOfMib
    <3>2. Len(r) # 0
      BY <1>7 DEF OidLess
    <3>. QED  BY <3>1, <3>2
  <2>4. r \in ToSet(handlers[handler_for(r)].cells)
    <3>1. PICK f : f = handler_for(r)
      OBVIOUS
    <3>2. handlers \in Seq({handlers[k] : k \in DOMAIN handlers})
      BY <1>1
    <3>3. \A k \in DOMAIN handlers : handlers[k] \in T /\ handlers[k].root \in Oids
      BY <1>1, <1>2, AskedHandlers
    <3>4. f \in DOMAIN handlers /\ IsPrefix(handlers[f].root, r) /\ Len(handlers[f].root) >= Len(handlers[i].root)
      BY <2>2, <3>1, <3>2, <3>3, LongestHandler
    <3>5. PICK a \in Oids, b \in Oids : a = handlers[i].root /\ b = handlers[f].root
      BY <2>1, <3>3, <3>4
    <3>6. IsPrefix(a, b)
      <4>1. IsPrefix(a, r) /\ IsPrefix(b, r) /\ Len(b) >= Len(a)
        BY <2>2, <3>4, <3>5
      <4>2. /\ Len(a) \in Nat /\ Len(b) \in Nat
            /\ Len(a) <= Len(r) /\ \A k \in 1..Len(a) : a[k] = r[k]
            /\ Len(b) <= Len(r) /\ \A k \in 1..Len(b) : b[k] = r[k]
        BY <2>2, <4>1, OidFacts, PrefixArcs
      <4>3. Len(a) <= Len(b) /\ \A k \in 1..Len(a) : a[k] = b[k]
        BY <4>1, <4>2
      <4>. QED  BY <4>3, PrefixArcs
    <3>7. Covers(handlers[f], handlers[i])
      BY <1>2, <2>1, <3>3, <3>4
    <3>. QED  BY <2>2, <3>1, <3>4, <3>5, <3>6, <3>7 DEF Covers
  <2>5. ASSUME NEW c \in Skipped PROVE Shadowed(c, r)
    <3>1. PICK g \in DOMAIN handlers : \E l \in DOMAIN handlers[g].cells :
            /\ c = handlers[g].cells[l] /\ OidLess(cursor, c) /\ (r # EndOfMib => OidLess(c, r))
      BY <1>5
    <3>2. PICK l \in DOMAIN handlers[g].cells :
            /\ c = handlers[g].cells[l] /\ OidLess(cursor, c) /\ OidLess(c, r)
      BY <2>3, <3>1
    <3>3. /\ handlers[g].root \in Oids /\ handlers[g].cells \in Seq(Oids)
          /\ \A k \in DOMAIN handlers[g].cells : IsPrefix(handlers[g].root, handlers[g].cells[k])
      BY <1>1, <1>2, AskedHandlers
    <3>4. c \in Oids /\ IsPrefix(handlers[g].root, c)
      BY <3>2, <3>3
    <3>5. c \notin ToSet(handlers[i].cells)
      <4>1. ASSUME c \in ToSet(handlers[i].cells) PROVE FALSE
        <5>1. PICK k \in DOMAIN handlers[i].cells : c = handlers[i].cells[k]
          BY <4>1 DEF ToSet
        <5>2. c = r \/ OidLess(r, c)
          BY <1>7, <3>2, <5>1
        <5>. QED  BY <2>2, <3>2, <3>4, <5>2, LessIrreflexive, LessTransitive
      <4>. QED  BY <4>1
    <3>6. i <= g
      BY <1>7, <3>2
    <3>7. OidLeq(handlers[i].root, handlers[g].root)
      <4>1. i \in Nat /\ g \in Nat
        BY <1>1
      <4>2. CASE i = g
        BY <4>2 DEF OidLeq
      <4>3. CASE i # g
        <5>1. i < g
          BY <3>6, <4>1, <4>3
        <5>. QED  BY <1>1, <5>1 DEF RootsAscend
      <4>. QED  BY <4>2, <4>3
    <3>8. OidLeq(handlers[i].root, c)
      BY <2>1, <3>3, <3>4, <3>7, PrefixLeq, LeqOrder
    <3>9. IsPrefix(handlers[i].root, c)
      BY <2>1, <2>2, <3>2, <3>4, <3>8, RootConvex
    <3>. QED  BY <2>2, <3>5, <3>9 DEF Shadowed
  <2>. QED  BY <2>2, <2>3, <2>4, <2>5
<1>8. CASE \E i \in DOMAIN handlers : \E j \in DOMAIN handlers[i].cells :
         /\ r = handlers[i].cells[j] /\ OidLess(cursor, r)
         /\ \A l \in DOMAIN handlers[i].cells :
              OidLess(cursor, handlers[i].cells[l]) => handlers[i].cells[l] = r \/ OidLess(r, handlers[i].cells[l])
         /\ \A g \in DOMAIN handlers : \A l \in DOMAIN handlers[g].cells :
              OidLess(cursor, handlers[g].cells[l]) => i <= g
  <2>1. r \in Oids /\ r # EndOfMib /\ r \in ToSet(handlers[handler_for(r)].cells) /\ OidLess(cursor, r)
    BY <1>7, <1>8
  <2>2. \A c \in Skipped : Shadowed(c, r)
    BY <1>7, <1>8
  <2>. QED  BY <1>4, <2>1, <2>2
<1>. QED  BY <1>3, <1>4, <1>6, <1>8 DEF NextFound

LEMMA WalkStart == WalkInit => WalkInv
<1>. SUFFICES ASSUME WalkInit PROVE WalkInv
  OBVIOUS
<1>1. machine \in Machines /\ todo \in Plans /\ pending = <<>> /\ handlers = <<>> /\ cursor = <<>>
  BY DEF WalkInit
<1>2. PICK T : T = PlanHandlers(machine, todo)
  OBVIOUS
<1>3. Planned(machine, todo, T)
  BY <1>1, <1>2 DEF Planned
<1>4. todo \in Seq(ToSet(todo))
  BY <1>3, PlannedFacts
<1>5. <<>> \in Seq(T) /\ <<>> \in Oids /\ DOMAIN <<>> = {}
  BY DEF Oids
<1>6. RootsAscend(<<>>)
  BY <1>5 DEF RootsAscend
<1>. QED  BY <1>1, <1>3, <1>4, <1>5, <1>6 DEF WalkInv

LEMMA WalkStays == WalkInv /\ [WalkNext]_walkVars => WalkInv'
<1>. SUFFICES ASSUME WalkInv, [WalkNext]_walkVars PROVE WalkInv'
  OBVIOUS
<1>1. PICK plan, T : /\ Planned(machine, plan, T) /\ todo \in Seq(ToSet(plan)) /\ pending \in Seq(T)
                     /\ handlers \in Seq(T) /\ RootsAscend(handlers) /\ cursor \in Oids
  BY DEF WalkInv
<1>2. /\ \A name \in ToSet(plan) : Group(name, machine) \in Seq(T)
      /\ \A h \in T : h.root \in Oids
  <2>1. \A h \in T : BelowRoot(h)
    BY <1>1, PlannedFacts
  <2>. QED  BY <1>1, <2>1, PlannedFacts DEF BelowRoot
<1>3. CASE RegisterGroup
  <2>1. /\ todo # <<>> /\ pending' = Group(Head(todo), machine) /\ todo' = Tail(todo)
        /\ UNCHANGED <<machine, handlers, cursor>>
    BY <1>3 DEF RegisterGroup
  <2>2. Head(todo) \in ToSet(plan) /\ Tail(todo) \in Seq(ToSet(plan))
    BY <1>1, <2>1, HeadTailProperties
  <2>3. pending' \in Seq(T) /\ todo' \in Seq(ToSet(plan))
    BY <1>2, <2>1, <2>2
  <2>. QED  BY <1>1, <2>1, <2>3 DEF WalkInv
<1>4. CASE RegisterHandler
  <2>1. /\ pending # <<>> /\ handlers' = Register(handlers, Head(pending)) /\ pending' = Tail(pending)
        /\ UNCHANGED <<machine, todo, cursor>>
    BY <1>4 DEF RegisterHandler
  <2>2. Head(pending) \in T /\ Tail(pending) \in Seq(T)
    BY <1>1, <2>1, HeadTailProperties
  <2>3. PICK h, s, r : h \in T /\ h = Head(pending) /\ s = handlers /\ r = handlers'
    BY <2>2
  <2>4. r \in Seq(T) /\ RootsAscend(r)
    <3>1. s \in Seq(T) /\ RootsAscend(s) /\ r = Register(s, h)
      BY <1>1, <2>1, <2>3
    <3>2. h \in T
      BY <2>3
    <3>. QED  BY <1>2, <3>1, <3>2, RegisterAscends
  <2>5. handlers' \in Seq(T) /\ RootsAscend(handlers') /\ pending' \in Seq(T)
    BY <2>1, <2>2, <2>3, <2>4
  <2>. QED  BY <1>1, <2>1, <2>5 DEF WalkInv
<1>5. CASE WalkOn
  <2>1. cursor' \in Oids /\ UNCHANGED <<machine, todo, pending, handlers>>
    BY <1>5, WalkStep DEF WalkOn
  <2>. QED  BY <1>1, <2>1 DEF WalkInv
<1>6. CASE UNCHANGED walkVars
  BY <1>1, <1>6 DEF walkVars, WalkInv
<1>. QED  BY <1>3, <1>4, <1>5, <1>6 DEF WalkNext

(* Registry::register and do_getnext (registry.rs), with the handlers of    *)
(* the MIB modules: a walk goes on in the order of OIDs, names only what    *)
(* GET finds too, and passes over a cell only if its handler lies inside    *)
(* the subtree of the handler that answers.                                 *)
THEOREM OnlyNestedAreSkipped == WalkSpec => OnlyNestedSkipped
<1>1. WalkInv /\ [WalkNext]_walkVars =>
        [WalkOn => /\ cursor' # EndOfMib =>
                        /\ OidLess(cursor, cursor')
                        /\ cursor' \in ToSet(handlers[handler_for(cursor')].cells)
                   /\ \A c \in Skipped : cursor' # EndOfMib /\ Shadowed(c, cursor')]_walkVars
  BY WalkStep
<1>. QED  BY <1>1, WalkStart, WalkStays, PTL DEF WalkSpec, OnlyNestedSkipped
============================================================================
