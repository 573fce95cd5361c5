---------------------------- MODULE AgentXProofs ----------------------------
(***************************************************************************)
(* Proofs about the AgentX master and its subagents, for any number of     *)
(* connections, forwarders, calls and requests.                            *)
(***************************************************************************)
EXTENDS AgentX, FunctionTheorems, FiniteSetTheorems, SequenceTheorems, TLAPS

---------------------------------------------------------------------------
(* Vec::retain.                                                            *)

\* Every position that is kept has a rank, and no two have the same.
LEMMA RankProperties ==
  ASSUME NEW n \in Nat, NEW I \in SUBSET (1..n)
  PROVE  /\ IsFiniteSet(I) /\ Cardinality(I) \in Nat
         /\ \A i \in I : Rank(i, I) \in 1..Cardinality(I)
         /\ \A i, j \in I : i < j => Rank(i, I) # Rank(j, I)
<1>1. IsFiniteSet(I) /\ Cardinality(I) \in Nat
  <2>1. IsFiniteSet(1..n)
    BY FS_Interval
  <2> QED
    BY <2>1, FS_Subset, FS_CardinalityType
<1> DEFINE Upto(i) == {j \in I : j <= i}
<1>2. ASSUME NEW i \in I
      PROVE  IsFiniteSet(Upto(i)) /\ Cardinality(Upto(i)) \in 1..Cardinality(I)
  <2>1. Upto(i) \in SUBSET I /\ i \in Upto(i)
    OBVIOUS
  <2>2. IsFiniteSet(Upto(i)) /\ Cardinality(Upto(i)) <= Cardinality(I)
    BY <1>1, <2>1, FS_Subset
  <2>3. Cardinality(Upto(i)) \in Nat /\ Cardinality(Upto(i)) # 0
    BY <2>1, <2>2, FS_CardinalityType, FS_EmptySet
  <2> QED
    BY <1>1, <2>2, <2>3
<1>3. ASSUME NEW i \in I, NEW j \in I, i < j PROVE Cardinality(Upto(i)) # Cardinality(Upto(j))
  <2>1. i \in Int /\ j \in Int /\ \A k \in I : k \in Int
    OBVIOUS
  <2>2. Upto(i) \in SUBSET Upto(j) /\ j \in Upto(j) /\ j \notin Upto(i)
    <3>1. \A k \in I : k <= i => k <= j
      BY <1>3, <2>1
    <3>2. j <= j /\ ~(j <= i)
      BY <1>3, <2>1
    <3> QED
      BY <3>1, <3>2, Zenon
  <2>3. IsFiniteSet(Upto(j)) /\ Upto(i) # Upto(j)
    <3>1. IsFiniteSet(Upto(j))
      BY <1>2
    <3> QED
      BY <3>1, <2>2
  <2> HIDE DEF Upto
  <2> QED
    BY <2>2, <2>3, FS_Subset
<1> QED
  BY <1>1, <1>2, <1>3 DEF Rank

\* Every rank is that of a position.
LEMMA RankExists ==
  ASSUME NEW n \in Nat, NEW I \in SUBSET (1..n), NEW k \in 1..Cardinality(I)
  PROVE  \E i \in I : Rank(i, I) = k
<1> DEFINE f == [i \in I |-> Rank(i, I)]
<1>1. f \in Injection(I, 1..Cardinality(I))
  <2>1. \A i, j \in I : i # j => i < j \/ j < i
    OBVIOUS
  <2>2. \A i, j \in I : i # j => f[i] # f[j]
    BY <2>1, RankProperties
  <2>3. f \in [I -> 1..Cardinality(I)]
    BY RankProperties
  <2> QED
    BY <2>2, <2>3 DEF Injection, IsInjective
<1>2. IsFiniteSet(1..Cardinality(I)) /\ Cardinality(1..Cardinality(I)) = Cardinality(I)
  <2>1. Cardinality(I) \in Nat
    BY RankProperties
  <2> QED
    BY <2>1, FS_Interval
<1>3. f \in Surjection(I, 1..Cardinality(I))
  BY <1>1, <1>2, FS_Injection
<1> QED
  BY <1>3 DEF Surjection

\* What retain leaves is what was kept, all of it and nothing else.
LEMMA RetainProperties ==
  ASSUME NEW S, NEW s \in Seq(S), NEW I \in SUBSET DOMAIN s
  PROVE  /\ Retain(s, I) \in Seq(S)
         /\ \A k \in DOMAIN Retain(s, I) : \E i \in I : Retain(s, I)[k] = s[i]
         /\ \A i \in I : \E k \in DOMAIN Retain(s, I) : Retain(s, I)[k] = s[i]
<1>1. /\ Len(s) \in Nat /\ I \in SUBSET (1..Len(s))
      /\ \A i \in I : i \in Int /\ s[i] \in S
  OBVIOUS
<1>2. /\ Cardinality(I) \in Nat
      /\ \A i \in I : Rank(i, I) \in 1..Cardinality(I)
      /\ \A i, j \in I : Rank(i, I) = Rank(j, I) => i = j
  <2>1. \A i, j \in I : i # j => i < j \/ j < i
    BY <1>1
  <2> QED
    BY <1>1, <2>1, RankProperties
<1> DEFINE pos(k) == CHOOSE i \in I : Rank(i, I) = k
<1>3. \A k \in 1..Cardinality(I) : pos(k) \in I /\ Rank(pos(k), I) = k
  BY <1>1, RankExists
<1>4. /\ Retain(s, I) = [k \in 1..Cardinality(I) |-> s[pos(k)]]
  BY DEF Retain
<1> HIDE DEF pos
<1>5. Retain(s, I) \in Seq(S)
  BY <1>1, <1>2, <1>3, <1>4
<1>6. \A k \in DOMAIN Retain(s, I) : \E i \in I : Retain(s, I)[k] = s[i]
  BY <1>3, <1>4
<1>7. ASSUME NEW i \in I PROVE \E k \in DOMAIN Retain(s, I) : Retain(s, I)[k] = s[i]
  <2>1. pos(Rank(i, I)) = i
    BY <1>2, <1>3
  <2> QED
    BY <1>2, <1>4, <2>1
<1> QED
  BY <1>5, <1>6, <1>7

---------------------------------------------------------------------------
(* The registration table.                                                 *)

IsSeq(q) == \E S : q \in Seq(S)

\* add_registration adds one entry and keeps the others.
LEMMA InsertedProperties ==
  ASSUME NEW reg, IsSeq(subtrees)
  PROVE  /\ IsSeq(Inserted(reg))
         /\ \A k \in DOMAIN Inserted(reg) : Inserted(reg)[k] = reg \/ \E i \in DOMAIN subtrees : Inserted(reg)[k] = subtrees[i]
         /\ \E k \in DOMAIN Inserted(reg) : Inserted(reg)[k] = reg
         /\ \A i \in DOMAIN subtrees : \E k \in DOMAIN Inserted(reg) : Inserted(reg)[k] = subtrees[i]
<1>1. PICK T : subtrees \in Seq(T)
  BY DEF IsSeq
<1>2. PICK S : S = T \cup {reg}
  OBVIOUS
<1>3. PICK q : q = subtrees /\ q \in Seq(S) /\ Len(q) \in Nat /\ DOMAIN q = 1..Len(q)
  BY <1>1, <1>2
<1>4. PICK n \in 0..Len(q) : n = Cardinality({i \in DOMAIN subtrees : ~SortsBefore(reg, subtrees[i])})
  <2>1. PICK I : I = {i \in DOMAIN subtrees : ~SortsBefore(reg, subtrees[i])}
    OBVIOUS
  <2>2. I \in SUBSET (1..Len(q))
    BY <1>3, <2>1
  <2>3. IsFiniteSet(1..Len(q)) /\ Cardinality(1..Len(q)) = Len(q)
    BY <1>3, FS_Interval
  <2>4. IsFiniteSet(I) /\ Cardinality(I) <= Len(q)
    BY <2>2, <2>3, FS_Subset
  <2>5. Cardinality(I) \in Nat
    BY <2>4, FS_CardinalityType
  <2>6. PICK n \in 0..Len(q) : n = Cardinality(I)
    BY <1>3, <2>4, <2>5
  <2>7. n = Cardinality({i \in DOMAIN subtrees : ~SortsBefore(reg, subtrees[i])})
    BY <2>1, <2>6, Zenon
  <2> QED
    BY <2>6, <2>7
<1>5. PICK a, b, m : a = SubSeq(q, 1, n) /\ b = SubSeq(q, n + 1, Len(q)) /\ m = <<reg>>
  OBVIOUS
<1>n. n \in Nat /\ n <= Len(q)
  BY <1>3, <1>4
<1>6. a \in Seq(S) /\ Len(a) = n /\ \A k \in 1..n : a[k] = q[k]
  <2>1. 1 \in 1..(Len(q) + 1) /\ n \in (1 - 1)..Len(q) /\ n - 1 + 1 = n /\ \A k \in 1..n : 1 + k - 1 = k
    BY <1>3, <1>n
  <2>2. /\ a \in Seq(S) /\ Len(a) = n - 1 + 1
        /\ \A k \in 1..(n - 1 + 1) : a[k] = q[1 + k - 1]
    BY <1>3, <1>5, <2>1, SubSeqProperties
  <2> QED
    BY <2>1, <2>2
<1>7. b \in Seq(S) /\ Len(b) = Len(q) - n /\ \A k \in 1..(Len(q) - n) : b[k] = q[n + k]
  <2>0. PICK l, h : l = n + 1 /\ h = Len(q)
    OBVIOUS
  <2>1. l = n + 1 /\ h = Len(q) /\ l \in Int /\ h \in Int /\ h - l + 1 = Len(q) - n
    BY <1>3, <1>n, <2>0
  <2>2. \A i \in l..h : q[i] \in S
    BY <1>3, <1>n, <2>1
  <2>3. /\ SubSeq(q, l, h) \in Seq(S) /\ Len(SubSeq(q, l, h)) = IF l <= h THEN h - l + 1 ELSE 0
        /\ \A k \in 1..(h - l + 1) : SubSeq(q, l, h)[k] = q[l + k - 1]
    BY <2>1, <2>2, SubSeqProperties
  <2>4. b = SubSeq(q, l, h)
    BY <1>5, <2>1
  <2>5. \A k \in 1..(Len(q) - n) : l + k - 1 = n + k
    BY <1>3, <1>n, <2>1
  <2>6. Len(b) = Len(q) - n
    <3>1. CASE l <= h
      BY <2>1, <2>3, <2>4, <3>1
    <3>2. CASE ~(l <= h)
      <4>1. PICK k \in Nat : k = Len(q)
        BY <1>3
      <4>2. Len(q) - n = 0
        BY <1>n, <2>1, <3>2, <4>1
      <4> QED
        BY <2>3, <2>4, <3>2, <4>2
    <3> QED
      BY <3>1, <3>2
  <2> QED
    BY <2>1, <2>3, <2>4, <2>5, <2>6
<1>8. m \in Seq(S) /\ Len(m) = 1 /\ m[1] = reg
  BY <1>2, <1>5
<1>9. PICK am : am = a \o m
  OBVIOUS
<1>10. /\ am \in Seq(S) /\ Len(am) = n + 1 /\ am[n + 1] = reg /\ \A k \in 1..n : am[k] = q[k]
  <2>1. /\ am \in Seq(S) /\ Len(am) = Len(a) + Len(m)
        /\ \A k \in 1..(Len(a) + Len(m)) : am[k] = IF k <= Len(a) THEN a[k] ELSE m[k - Len(a)]
    BY <1>6, <1>8, <1>9, ConcatProperties
  <2> QED
    BY <1>n, <1>6, <1>8, <2>1
<1>11. PICK r : r = am \o b
  OBVIOUS
<1>12. /\ r \in Seq(S) /\ Len(r) = Len(q) + 1
       /\ \A k \in 1..(Len(q) + 1) : r[k] = IF k <= n + 1 THEN am[k] ELSE b[k - (n + 1)]
  <2>1. /\ r \in Seq(S) /\ Len(r) = Len(am) + Len(b)
        /\ \A k \in 1..(Len(am) + Len(b)) : r[k] = IF k <= Len(am) THEN am[k] ELSE b[k - Len(am)]
    BY <1>7, <1>10, <1>11, ConcatProperties
  <2>2. Len(am) + Len(b) = Len(q) + 1 /\ Len(am) = n + 1
    BY <1>3, <1>n, <1>7, <1>10
  <2> QED
    BY <2>1, <2>2
<1>13. DOMAIN r = 1..(Len(q) + 1) /\ r[n + 1] = reg
  BY <1>3, <1>4, <1>10, <1>12
<1>14. ASSUME NEW k \in 1..(Len(q) + 1) PROVE r[k] = reg \/ \E i \in DOMAIN q : r[k] = q[i]
  <2>1. CASE k <= n
    BY <1>3, <1>4, <1>10, <1>12, <2>1
  <2>2. CASE k = n + 1
    BY <1>13, <2>2
  <2>3. CASE k > n + 1
    <3>1. k - (n + 1) \in 1..(Len(q) - n) /\ n + (k - (n + 1)) \in DOMAIN q
      BY <1>3, <1>4, <2>3
    <3>2. r[k] = b[k - (n + 1)]
      BY <1>3, <1>4, <1>12, <2>3
    <3> QED
      BY <1>7, <3>1, <3>2
  <2> QED
    BY <1>3, <1>4, <2>1, <2>2, <2>3
<1>15. ASSUME NEW i \in DOMAIN q PROVE \E k \in DOMAIN r : r[k] = q[i]
  <2>1. CASE i <= n
    BY <1>3, <1>4, <1>10, <1>12, <1>13, <2>1
  <2>2. CASE i > n
    <3>1. /\ i - n \in 1..(Len(q) - n) /\ n + (i - n) = i
          /\ i + 1 \in 1..(Len(q) + 1) /\ ~(i + 1 <= n + 1) /\ (i + 1) - (n + 1) = i - n
      BY <1>3, <1>4, <2>2
    <3>2. r[i + 1] = b[i - n] /\ b[i - n] = q[i]
      BY <1>7, <1>12, <3>1
    <3> QED
      BY <1>13, <3>1, <3>2
  <2> QED
    BY <1>3, <1>4, <2>1, <2>2
<1>16. Inserted(reg) = r
  <2>1. (1 + n) - 1 = n /\ 1 + n = n + 1
    BY <1>4
  <2> QED
    BY <1>3, <1>4, <1>5, <1>9, <1>11, <2>1 DEF Inserted, InsertAt
<1> QED
  BY <1>3, <1>12, <1>13, <1>14, <1>15, <1>16 DEF IsSeq

\* remove_registration and reclaim_session keep exactly the entries they should.
LEMMA RetainedProperties ==
  ASSUME NEW I \in SUBSET DOMAIN subtrees, IsSeq(subtrees)
  PROVE  /\ IsSeq(Retain(subtrees, I))
         /\ \A k \in DOMAIN Retain(subtrees, I) : \E i \in I : Retain(subtrees, I)[k] = subtrees[i]
         /\ \A i \in I : \E k \in DOMAIN Retain(subtrees, I) : Retain(subtrees, I)[k] = subtrees[i]
<1>1. PICK q, S : q = subtrees /\ q \in Seq(S)
  BY DEF IsSeq
<1>2. /\ Retain(q, I) \in Seq(S)
      /\ \A k \in DOMAIN Retain(q, I) : \E i \in I : Retain(q, I)[k] = q[i]
      /\ \A i \in I : \E k \in DOMAIN Retain(q, I) : Retain(q, I)[k] = q[i]
  BY <1>1, RetainProperties
<1> QED
  BY <1>1, <1>2 DEF IsSeq

\* Whoever owner_for names has a registration in the table.
LEMMA OwnerIsRegistered ==
  ASSUME NEW oid, OwnerFor(oid) # 0
  PROVE  \E i \in DOMAIN subtrees : subtrees[i].sid = OwnerFor(oid)
<1> DEFINE best == {i \in {i \in DOMAIN subtrees : Covers(subtrees[i], oid)} :
                      \A j \in {i2 \in DOMAIN subtrees : Covers(subtrees[i2], oid)} :
                        /\ Preferred(subtrees[i], subtrees[j])
                        /\ Preferred(subtrees[j], subtrees[i]) => i <= j}
<1>1. OwnerFor(oid) = IF best = {} THEN 0 ELSE subtrees[CHOOSE i \in best : TRUE].sid
  BY Zenon DEF OwnerFor
<1>2. \A i \in best : i \in DOMAIN subtrees
  OBVIOUS
<1> HIDE DEF best
<1> QED
  BY <1>1, <1>2

---------------------------------------------------------------------------
(* Sessions and registrations.                                             *)

Live == {"opening", "serving", "answering"}

\* Session ids are given once; the session of a running task is in the map, and the
\* table names sessions of the map only.
SessionInv ==
    /\ nextSession \in Nat \ {0} /\ DOMAIN sid = Conns /\ DOMAIN task = Conns
    /\ \A c \in Conns :
         /\ sid[c] \in Nat /\ sid[c] < nextSession
         /\ task[c] \in {"none", "first"} => sid[c] = 0
         /\ task[c] \in Live => sid[c] \in sessions
    /\ \A c, d \in Conns : sid[c] = sid[d] /\ sid[c] # 0 => c = d
    /\ \A s \in sessions : s \in Nat /\ s # 0 /\ s < nextSession
    /\ IsSeq(subtrees) /\ \A i \in DOMAIN subtrees : subtrees[i].sid \in sessions

\* A connection that is not there has no task.
StartInv ==
    /\ DOMAIN sub = Conns /\ DOMAIN task = Conns
    /\ \A c \in Conns : sub[c] = "off" => task[c] = "none"

LEMMA StartInvStep ==
  ASSUME StartInv, [Next]_vars
  PROVE  StartInv'
<1>1. ASSUME NEW c \in Conns, NEW x, NEW t, x # "off",
             sub' = sub \/ sub' = [sub EXCEPT ![c] = x], task' = task \/ task' = [task EXCEPT ![c] = t],
             task' = task \/ task[c] # "none" \/ sub' = [sub EXCEPT ![c] = x]
      PROVE  StartInv'
  BY <1>1 DEF StartInv
<1>2. CASE UNCHANGED <<sub, task>>
  BY <1>2 DEF StartInv
<1>3. ASSUME NEW c \in Conns, Task(c) PROVE StartInv'
  <2>1. UNCHANGED sub /\ task[c] # "none"
    BY <1>3 DEF Task, First, Answer, Read, ReadEnd, agent
  <2>2. UNCHANGED task \/ \E t : task' = [task EXCEPT ![c] = t]
    BY <1>3 DEF Task, First, Answer, Read, ReadCall, ReadResponse, ReadClose, ReadIgnored, ReadEnd
  <2> QED
    BY <1>1, <1>2, <2>1, <2>2
<1>4. ASSUME NEW c \in Conns, Subagent(c) \/ Die(c) \/ \E pdu : MakeCall(c, pdu) PROVE StartInv'
  <2>1. UNCHANGED task
    BY <1>4 DEF Subagent, Opened, CallReturns, Run, ServeRequest, SubEnd, Die, MakeCall, master
  <2>2. UNCHANGED sub \/ \E x : x # "off" /\ sub' = [sub EXCEPT ![c] = x]
    BY <1>4 DEF Subagent, Opened, CallReturns, Run, ServeRequest, SubEnd, Die, MakeCall, SubGone, agent
  <2> QED
    BY <1>1, <1>2, <2>1, <2>2
<1>5. ASSUME NEW c \in Conns, NEW first, Connect(c, first) PROVE StartInv'
  BY <1>1, <1>5 DEF Connect
<1>6. ASSUME NEW f \in Forwarders, Forward(f) \/ \E ask : Ask(f, ask) PROVE StartInv'
  BY <1>2, <1>6 DEF Forward, Enter, Write, Finish, Timeout, Ask, master, agent
<1> QED
  <2>1. CASE UNCHANGED vars
    BY <1>2, <2>1 DEF vars, master, agent
  <2>2. CASE Next
    BY <1>3, <1>4, <1>5, <1>6, <2>2 DEF Next
  <2> QED
    BY <2>1, <2>2

\* The end of a task that reclaims.
LEMMA ReclaimKeeps ==
  ASSUME SessionInv, NEW c \in Conns, ReclaimSession(sid[c]), task[c] \in Live,
         task' = [task EXCEPT ![c] = "ended"], UNCHANGED <<sid, nextSession>>
  PROVE  SessionInv'
<1>0. PICK s : s = sid[c] /\ s # 0 /\ s \in sessions
  BY DEF SessionInv
<1>1. PICK I : I = {i \in DOMAIN subtrees : subtrees[i].sid # s}
  OBVIOUS
<1>2. subtrees' = Retain(subtrees, I) /\ sessions' = sessions \ {s}
  BY <1>0, <1>1 DEF ReclaimSession
<1>3. IsSeq(subtrees') /\ \A k \in DOMAIN subtrees' : \E i \in I : subtrees'[k] = subtrees[i]
  <2>1. IsSeq(subtrees) /\ I \in SUBSET DOMAIN subtrees
    BY <1>1 DEF SessionInv
  <2> QED
    BY <1>2, <2>1, RetainedProperties
<1>4. \A k \in DOMAIN subtrees' : subtrees'[k].sid \in sessions'
  BY <1>1, <1>2, <1>3 DEF SessionInv
<1>5. \A d \in Conns : task'[d] \in Live => d # c /\ task[d] \in Live
  BY DEF SessionInv, Live
<1>6. \A d \in Conns : task'[d] \in Live => sid[d] \in sessions'
  BY <1>0, <1>2, <1>5 DEF SessionInv
<1>7. \A d \in Conns : task'[d] \in {"none", "first"} => task[d] \in {"none", "first"}
  BY DEF SessionInv
<1>8. DOMAIN task' = Conns
  BY DEF SessionInv
<1> QED
  BY <1>2, <1>3, <1>4, <1>6, <1>7, <1>8 DEF SessionInv

\* A step that changes one task, and neither sessions nor ids.
LEMMA TaskKeeps ==
  ASSUME SessionInv, NEW c \in Conns, NEW t, task' = [task EXCEPT ![c] = t],
         UNCHANGED <<sid, nextSession, sessions>>,
         t \in Live => task[c] \in Live, t \notin {"none"}, t = "first" => sid[c] = 0,
         IsSeq(subtrees'), \A k \in DOMAIN subtrees' : subtrees'[k].sid \in sessions
  PROVE  SessionInv'
<1>1. /\ DOMAIN task' = Conns
      /\ \A d \in Conns : task'[d] \in Live => task[d] \in Live
      /\ \A d \in Conns : task'[d] \in {"none", "first"} => sid[d] = 0
  BY DEF SessionInv
<1> QED
  BY <1>1 DEF SessionInv

LEMMA SessionInvStep ==
  ASSUME SessionInv, StartInv, [Next]_vars
  PROVE  SessionInv'
<1>0. IsSeq(subtrees) /\ \A i \in DOMAIN subtrees : subtrees[i].sid \in sessions
  BY DEF SessionInv
<1>1. CASE UNCHANGED <<subtrees, sessions, nextSession, task, sid>>
  BY <1>1 DEF SessionInv
<1>2. ASSUME NEW c \in Conns, First(c) PROVE SessionInv'
  <2>1. CASE task' = [task EXCEPT ![c] = "ended"] /\ UNCHANGED <<sid, sessions, nextSession, subtrees>>
    BY <1>0, <2>1, TaskKeeps DEF Live
  <2>2. CASE /\ sid' = [sid EXCEPT ![c] = nextSession] /\ sessions' = sessions \cup {nextSession}
             /\ nextSession' = nextSession + 1 /\ task' = [task EXCEPT ![c] = "opening"]
             /\ UNCHANGED subtrees
    <3>1. /\ nextSession \in Nat /\ nextSession # 0
          /\ \A d \in Conns : sid[d] \in Nat /\ sid[d] < nextSession
      BY DEF SessionInv
    <3>2. /\ DOMAIN sid' = Conns /\ DOMAIN task' = Conns /\ sid'[c] = nextSession /\ task'[c] = "opening"
          /\ \A d \in Conns : d # c => sid'[d] = sid[d] /\ task'[d] = task[d]
      BY <2>2 DEF SessionInv
    <3>3. \A d \in Conns : sid'[d] \in Nat /\ sid'[d] < nextSession'
      BY <2>2, <3>1, <3>2
    <3>4. \A d \in Conns : /\ task'[d] \in {"none", "first"} => sid'[d] = 0
                           /\ task'[d] \in Live => sid'[d] \in sessions'
      BY <2>2, <3>2 DEF SessionInv
    <3>5. \A d, e \in Conns : sid'[d] = sid'[e] /\ sid'[d] # 0 => d = e
      BY <3>1, <3>2 DEF SessionInv
    <3>6. \A s \in sessions' : s \in Nat /\ s # 0 /\ s < nextSession'
      BY <2>2, <3>1 DEF SessionInv
    <3>7. nextSession' \in Nat \ {0} /\ IsSeq(subtrees') /\ \A i \in DOMAIN subtrees' : subtrees'[i].sid \in sessions'
      BY <1>0, <2>2, <3>1
    <3> QED
      BY <3>2, <3>3, <3>4, <3>5, <3>6, <3>7 DEF SessionInv
  <2> QED
    BY <1>2, <2>1, <2>2 DEF First
<1>3. ASSUME NEW c \in Conns, Answer(c) PROVE SessionInv'
  <2>1. /\ task[c] \in Live /\ UNCHANGED <<sid, sessions, nextSession, subtrees>>
        /\ task' = [task EXCEPT ![c] = "serving"] \/ task' = [task EXCEPT ![c] = "ended"]
    BY <1>3 DEF Answer, Live
  <2> QED
    BY <1>0, <2>1, TaskKeeps DEF Live
<1>4. ASSUME NEW c \in Conns, Read(c) PROVE SessionInv'
  <2>0. task[c] = "serving" /\ task[c] \in Live /\ UNCHANGED <<nextSession, sid>> /\ sid[c] \in sessions
    BY <1>4 DEF Read, Live, SessionInv
  <2>1. CASE ReadCall(c)
    <3>1. task' = [task EXCEPT ![c] = "answering"] /\ UNCHANGED sessions
      BY <2>1 DEF ReadCall
    <3>2. IsSeq(subtrees') /\ \A k \in DOMAIN subtrees' : subtrees'[k].sid \in sessions
      <4>1. ASSUME NEW pdu, AddRegistration(sid[c], pdu)
            PROVE  IsSeq(subtrees') /\ \A k \in DOMAIN subtrees' : subtrees'[k].sid \in sessions
        <5>0. PICK reg : reg = Registration(sid[c], pdu)
          OBVIOUS
        <5>1. reg = Registration(sid[c], pdu) /\ reg.sid = sid[c]
          BY <5>0 DEF Registration
        <5>2. subtrees' = Inserted(reg)
          BY <4>1, <5>1 DEF AddRegistration
        <5>3. /\ IsSeq(Inserted(reg))
              /\ \A k \in DOMAIN Inserted(reg) : Inserted(reg)[k] = reg \/ \E i \in DOMAIN subtrees : Inserted(reg)[k] = subtrees[i]
          BY <1>0, InsertedProperties
        <5> QED
          BY <1>0, <2>0, <5>1, <5>2, <5>3
      <4>2. ASSUME NEW x, RemoveRegistration(sid[c], x)
            PROVE  IsSeq(subtrees') /\ \A k \in DOMAIN subtrees' : subtrees'[k].sid \in sessions
        <5>1. PICK I : I = {i \in DOMAIN subtrees : ~(subtrees[i].sid = sid[c] /\ subtrees[i].subtree = x)}
          OBVIOUS
        <5>2. subtrees' = Retain(subtrees, I) /\ I \in SUBSET DOMAIN subtrees
          BY <4>2, <5>1 DEF RemoveRegistration
        <5> QED
          BY <1>0, <5>2, RetainedProperties
      <4>3. CASE UNCHANGED subtrees
        BY <1>0, <4>3
      <4> QED
        BY <2>1, <4>1, <4>2, <4>3 DEF ReadCall
    <3> QED
      BY <2>0, <3>1, <3>2, TaskKeeps DEF Live
  <2>2. CASE ReadResponse(c) \/ ReadIgnored(c)
    BY <1>1, <2>0, <2>2 DEF ReadResponse, ReadIgnored
  <2>3. CASE ReadClose(c)
    BY <2>0, <2>3, ReclaimKeeps DEF ReadClose
  <2> QED
    BY <1>4, <2>1, <2>2, <2>3 DEF Read
<1>5. ASSUME NEW c \in Conns, ReadEnd(c) PROVE SessionInv'
  <2>1. task[c] \in Live /\ ReclaimSession(sid[c]) /\ task' = [task EXCEPT ![c] = "ended"] /\ UNCHANGED <<sid, nextSession>>
    BY <1>5 DEF ReadEnd, Live
  <2> QED
    BY <2>1, ReclaimKeeps
<1>6. ASSUME NEW c \in Conns, Opened(c) \/ CallReturns(c) \/ Run(c) \/ ServeRequest(c) \/ SubEnd(c) \/ Die(c)
      PROVE  SessionInv'
  BY <1>1, <1>6 DEF Opened, CallReturns, Run, ServeRequest, SubEnd, Die, master
<1>7. ASSUME NEW c \in Conns, NEW pdu, MakeCall(c, pdu) PROVE SessionInv'
  BY <1>1, <1>7 DEF MakeCall, master
<1>8. ASSUME NEW f \in Forwarders, Forward(f) PROVE SessionInv'
  BY <1>1, <1>8 DEF Forward, Enter, Write, Finish, Timeout, master
<1>9. ASSUME NEW f \in Forwarders, NEW ask, Ask(f, ask) PROVE SessionInv'
  BY <1>1, <1>9 DEF Ask, master
<1>10. ASSUME NEW c \in Conns, NEW first, Connect(c, first) PROVE SessionInv'
  <2>1. task' = [task EXCEPT ![c] = "first"] /\ UNCHANGED <<sid, sessions, nextSession, subtrees>> /\ sid[c] = 0
    BY <1>10 DEF Connect, SessionInv, StartInv
  <2> QED
    BY <1>0, <2>1, TaskKeeps DEF Live
<1> QED
  <2>1. CASE UNCHANGED vars
    BY <1>1, <2>1 DEF vars, master
  <2>2. CASE Next
    BY <1>2, <1>3, <1>4, <1>5, <1>6, <1>7, <1>8, <1>9, <1>10, <2>2 DEF Next, Task, Subagent
  <2> QED
    BY <2>1, <2>2

LEMMA StartInvInit ==
  ASSUME Init PROVE StartInv
BY DEF Init, StartInv

LEMMA SessionInvInit ==
  ASSUME Init PROVE SessionInv
<1>1. /\ subtrees = <<>> /\ sessions = {} /\ nextSession = 1
      /\ task = [c \in Conns |-> "none"] /\ sid = [c \in Conns |-> 0]
  BY DEF Init
<1>2. IsSeq(<<>>)
  <2>1. <<>> \in Seq({})
    OBVIOUS
  <2> QED
    BY <2>1 DEF IsSeq
<1> QED
  BY <1>1, <1>2 DEF SessionInv, Live

\* Whatever dies when, owner_for names sessions of the map only (AgentxMaster::owner_for,
\* reclaim_session), for any connections, calls, requests and restarts.
THEOREM RegistrationsAreLive == Spec => []RegistrationsHaveSessions
<1>1. Init => SessionInv /\ StartInv
  BY SessionInvInit, StartInvInit
<1>2. SessionInv /\ StartInv /\ [Next]_vars => (SessionInv /\ StartInv)'
  BY SessionInvStep, StartInvStep
<1>3. SessionInv => RegistrationsHaveSessions
  BY DEF SessionInv, RegistrationsHaveSessions
<1> QED
  BY <1>1, <1>2, <1>3, PTL DEF Spec

---------------------------------------------------------------------------
(* Session ids are those of connections, in order.                         *)

Assigned == {c \in Conns : sid[c] # 0}

CountInv ==
    /\ Cardinality(Assigned) = nextSession - 1
    /\ \A s \in 1..(nextSession - 1) : \E c \in Conns : sid[c] = s

LEMMA CountInvStep ==
  ASSUME SessionInv, CountInv, [Next]_vars
  PROVE  CountInv'
<1>0. IsFiniteSet(Conns) /\ nextSession \in Nat /\ nextSession # 0 /\ DOMAIN sid = Conns
  BY AgentXAssumption DEF SessionInv
<1>1. CASE UNCHANGED <<sid, nextSession>>
  BY <1>1 DEF CountInv, Assigned
<1>2. ASSUME NEW c \in Conns, task[c] = "first",
             sid' = [sid EXCEPT ![c] = nextSession], nextSession' = nextSession + 1
      PROVE  CountInv'
  <2>1. sid[c] = 0
    BY <1>2 DEF SessionInv
  <2>2. PICK A : A = Assigned /\ c \notin A /\ IsFiniteSet(A)
    <3>1. Assigned \in SUBSET Conns /\ c \notin Assigned
      BY <2>1 DEF Assigned
    <3>2. IsFiniteSet(Assigned)
      BY <1>0, <3>1, FS_Subset
    <3> QED
      BY <3>1, <3>2
  <2>3. Assigned' = A \cup {c}
    BY <1>0, <1>2, <2>2 DEF Assigned
  <2>4. Cardinality(A \cup {c}) = Cardinality(A) + 1
    BY <2>2, FS_AddElement
  <2>5. Cardinality(Assigned') = nextSession' - 1
    BY <1>0, <1>2, <2>2, <2>3, <2>4 DEF CountInv
  <2>6. ASSUME NEW s \in 1..(nextSession' - 1) PROVE \E d \in Conns : sid'[d] = s
    <3>1. CASE s = nextSession
      BY <1>0, <1>2, <3>1
    <3>2. CASE s # nextSession
      <4>1. s \in 1..(nextSession - 1)
        BY <1>0, <1>2, <2>6, <3>2
      <4>2. PICK d \in Conns : sid[d] = s
        BY <4>1 DEF CountInv
      <4>3. d # c
        BY <2>1, <4>1, <4>2
      <4> QED
        BY <1>0, <1>2, <4>2, <4>3
    <3> QED
      BY <3>1, <3>2
  <2> QED
    BY <2>5, <2>6 DEF CountInv
<1>3. ASSUME NEW c \in Conns, First(c) PROVE CountInv'
  BY <1>1, <1>2, <1>3 DEF First
<1>4. ASSUME NEW c \in Conns, Answer(c) \/ Read(c) \/ ReadEnd(c) \/ Subagent(c) \/ Die(c) PROVE CountInv'
  BY <1>1, <1>4 DEF Answer, Read, ReadEnd, Subagent, Opened, CallReturns, Run, ServeRequest, SubEnd, Die, master
<1>5. ASSUME NEW c \in Conns, NEW x, Connect(c, x) \/ MakeCall(c, x) PROVE CountInv'
  BY <1>1, <1>5 DEF Connect, MakeCall, master
<1>6. ASSUME NEW f \in Forwarders, Forward(f) \/ \E ask : Ask(f, ask) PROVE CountInv'
  BY <1>1, <1>6 DEF Forward, Enter, Write, Finish, Timeout, Ask, master
<1> QED
  <2>1. CASE UNCHANGED vars
    BY <1>1, <2>1 DEF vars, master
  <2>2. CASE Next
    BY <1>3, <1>4, <1>5, <1>6, <2>2 DEF Next, Task
  <2> QED
    BY <2>1, <2>2

LEMMA CountInvInit ==
  ASSUME Init PROVE CountInv
<1>1. nextSession = 1 /\ Assigned = {}
  BY DEF Init, Assigned
<1>2. Cardinality({}) = 0
  BY FS_EmptySet
<1> QED
  BY <1>1, <1>2 DEF CountInv

\* There is room for every session in the tables of packet ids.
LEMMA IdsBounded ==
  ASSUME SessionInv, CountInv
  PROVE  nextSession - 1 <= Cardinality(Conns) /\ Cardinality(Conns) \in Nat
<1>1. IsFiniteSet(Conns) /\ Assigned \in SUBSET Conns
  BY AgentXAssumption DEF Assigned
<1> QED
  BY <1>1, FS_Subset, FS_CardinalityType DEF CountInv

\* A new session finds room as well.
LEMMA NewIdBounded ==
  ASSUME SessionInv, CountInv, NEW c \in Conns, sid[c] = 0
  PROVE  nextSession <= Cardinality(Conns)
<1>1. IsFiniteSet(Conns) /\ Assigned \in SUBSET Conns /\ c \notin Assigned /\ nextSession \in Nat
  BY AgentXAssumption DEF Assigned, SessionInv
<1>2. IsFiniteSet(Assigned) /\ Assigned # Conns
  BY <1>1, FS_Subset
<1>3. Cardinality(Assigned) < Cardinality(Conns)
  <2>1. Cardinality(Assigned) <= Cardinality(Conns) /\ (Cardinality(Assigned) = Cardinality(Conns) => Assigned = Conns)
    BY <1>1, FS_Subset
  <2>2. Cardinality(Assigned) \in Nat /\ Cardinality(Conns) \in Nat
    BY <1>1, <1>2, FS_CardinalityType
  <2> QED
    BY <1>2, <2>1, <2>2
<1>4. Cardinality(Conns) \in Nat
  BY <1>1, FS_CardinalityType
<1> QED
  BY <1>1, <1>3, <1>4 DEF CountInv

LEMMA ConnOfSid ==
  ASSUME SessionInv, NEW c \in Conns, sid[c] # 0
  PROVE  ConnOf(sid[c]) = c
BY DEF SessionInv, ConnOf

---------------------------------------------------------------------------
(* Forwarders and packet ids.                                              *)

IsFwd(w) == DOMAIN w = {"state", "ask", "sid", "packet", "reply", "of"}

Holds(w) == w.state \in {"write", "wait"}

Ids == {s \in 1..Cardinality(Conns) : s < nextSession}

\* Packet ids are given once per session.
PacketTypes ==
    /\ nextSession \in Nat /\ DOMAIN fwd = Forwarders
    /\ DOMAIN packet = 1..Cardinality(Conns) /\ DOMAIN pending = 1..Cardinality(Conns)
    /\ \A s \in 1..Cardinality(Conns) :
         /\ packet[s] \in Nat /\ (s >= nextSession => packet[s] = 0)
         /\ \A id \in pending[s] : id \in 1..packet[s]

FwdType(f) ==
    /\ IsFwd(fwd[f])
    /\ fwd[f].state = "owned" => fwd[f].sid \in Ids /\ fwd[f].reply = "none"
    /\ Holds(fwd[f]) => fwd[f].sid \in Ids /\ fwd[f].packet \in 1..packet[fwd[f].sid]

FwdTypes == \A f \in Forwarders : FwdType(f)

\* No two forwarders hold one id, and an answered one is no longer pending.
FwdUnique ==
    \A f \in Forwarders : Holds(fwd[f]) =>
      /\ fwd[f].reply # "none" => fwd[f].packet \notin pending[fwd[f].sid]
      /\ \A g \in Forwarders :
           Holds(fwd[g]) /\ fwd[f].sid = fwd[g].sid /\ fwd[f].packet = fwd[g].packet => f = g

PacketInv == PacketTypes /\ FwdTypes /\ FwdUnique

LEMMA IdleFields ==
  /\ IsFwd(Idle) /\ Idle.state = "idle" /\ Idle.sid = 0 /\ Idle.reply = "none"
BY DEF Idle, IsFwd

\* What a forwarder becomes when its call returns.
LEMMA FinishedFields ==
  ASSUME NEW f \in Forwarders, NEW result, fwd' = Finished(f, result)
  PROVE  \E d : fwd' = [fwd EXCEPT ![f] = d] /\ IsFwd(d) /\ d.state = "done"
<1>1. PICK d : d = [Idle EXCEPT !.state = "done", !.reply = result]
  OBVIOUS
<1>2. IsFwd(d) /\ d.state = "done"
  BY <1>1, IdleFields DEF IsFwd
<1>3. fwd' = [fwd EXCEPT ![f] = d]
  BY <1>1 DEF Finished
<1> QED
  BY <1>2, <1>3

\* A step in which a forwarder ends, or begins without a packet id.
LEMMA LeaveKeeps ==
  ASSUME PacketInv, NEW f \in Forwarders, NEW d, fwd' = [fwd EXCEPT ![f] = d], IsFwd(d), ~Holds(d),
         d.state = "owned" => d.sid \in Ids /\ d.reply = "none",
         UNCHANGED <<packet, sid, nextSession>>, DOMAIN pending' = DOMAIN pending,
         \A s \in 1..Cardinality(Conns) : \A id \in pending'[s] : id \in pending[s]
  PROVE  PacketInv'
<1>1. /\ DOMAIN fwd' = Forwarders /\ fwd'[f] = d
      /\ \A g \in Forwarders : g # f => fwd'[g] = fwd[g]
  BY DEF PacketInv, PacketTypes
<1>2. \A g \in Forwarders : Holds(fwd'[g]) => g # f /\ fwd'[g] = fwd[g]
  BY <1>1
<1>3. PacketTypes'
  BY <1>1 DEF PacketInv, PacketTypes
<1>4. FwdTypes'
  BY <1>1, <1>2 DEF PacketInv, FwdTypes, FwdType, Ids
<1>5. FwdUnique'
  <2>1. ASSUME NEW g \in Forwarders, Holds(fwd'[g]), fwd'[g].reply # "none" PROVE fwd'[g].packet \notin pending'[fwd'[g].sid]
    <3>1. fwd'[g] = fwd[g] /\ fwd[g].sid \in Ids /\ fwd[g].packet \in 1..packet[fwd[g].sid]
      BY <1>2, <2>1 DEF PacketInv, FwdTypes, FwdType
    <3>2. fwd[g].packet \notin pending[fwd[g].sid]
      BY <2>1, <3>1 DEF PacketInv, FwdUnique
    <3>3. fwd[g].sid \in 1..Cardinality(Conns)
      BY <3>1 DEF Ids
    <3> QED
      BY <3>1, <3>2, <3>3
  <2>2. \A g, h \in Forwarders : Holds(fwd'[g]) /\ Holds(fwd'[h]) /\ fwd'[g].sid = fwd'[h].sid /\ fwd'[g].packet = fwd'[h].packet => g = h
    BY <1>2 DEF PacketInv, FwdUnique
  <2> QED
    BY <2>1, <2>2 DEF FwdUnique
<1> QED
  BY <1>3, <1>4, <1>5 DEF PacketInv

\* The request of a forwarder is written, or its answer arrives.
LEMMA StayKeeps ==
  ASSUME PacketInv, UNCHANGED <<packet, sid, nextSession>>, DOMAIN fwd' = Forwarders, DOMAIN pending' = DOMAIN pending,
         \A s \in 1..Cardinality(Conns) : \A id \in pending'[s] : id \in pending[s],
         \A g \in Forwarders :
           /\ IsFwd(fwd'[g])
           /\ fwd'[g].state = "owned" => fwd'[g] = fwd[g]
           /\ Holds(fwd'[g]) =>
                /\ Holds(fwd[g]) /\ fwd'[g].sid = fwd[g].sid /\ fwd'[g].packet = fwd[g].packet
                /\ fwd'[g].reply # "none" => fwd[g].reply # "none" \/ fwd[g].packet \notin pending'[fwd[g].sid]
  PROVE  PacketInv'
<1>1. PacketTypes'
  BY DEF PacketInv, PacketTypes
<1>2. FwdTypes'
  BY DEF PacketInv, FwdTypes, FwdType, Ids
<1>3. FwdUnique'
  <2>1. ASSUME NEW g \in Forwarders, Holds(fwd'[g]), fwd'[g].reply # "none" PROVE fwd'[g].packet \notin pending'[fwd'[g].sid]
    <3>1. Holds(fwd[g]) /\ fwd'[g].sid = fwd[g].sid /\ fwd'[g].packet = fwd[g].packet /\ fwd[g].sid \in 1..Cardinality(Conns)
      BY <2>1 DEF PacketInv, FwdTypes, FwdType, Ids
    <3>2. CASE fwd[g].reply # "none"
      BY <3>1, <3>2 DEF PacketInv, FwdUnique
    <3>3. CASE fwd[g].packet \notin pending'[fwd[g].sid]
      BY <3>1, <3>3
    <3> QED
      BY <2>1, <3>2, <3>3
  <2>2. \A g, h \in Forwarders : Holds(fwd'[g]) /\ Holds(fwd'[h]) /\ fwd'[g].sid = fwd'[h].sid /\ fwd'[g].packet = fwd'[h].packet => g = h
    BY DEF PacketInv, FwdUnique
  <2> QED
    BY <2>1, <2>2 DEF FwdUnique
<1> QED
  BY <1>1, <1>2, <1>3 DEF PacketInv

\* A forwarder that takes a packet id.
Entered(f, d) ==
    /\ fwd[f].state = "owned" /\ fwd[f].sid \in sessions
    /\ packet' = [packet EXCEPT ![fwd[f].sid] = packet[fwd[f].sid] + 1]
    /\ pending' = [pending EXCEPT ![fwd[f].sid] = pending[fwd[f].sid] \cup {packet[fwd[f].sid] + 1}]
    /\ fwd' = [fwd EXCEPT ![f] = d] /\ IsFwd(d) /\ d.state = "write" /\ d.sid = fwd[f].sid
    /\ d.packet = packet[fwd[f].sid] + 1 /\ d.reply = fwd[f].reply /\ d.ask = fwd[f].ask

LEMMA EnterFields ==
  ASSUME PacketInv, NEW f \in Forwarders, Enter(f)
  PROVE  \/ fwd' = Finished(f, "NoOwner") /\ UNCHANGED <<packet, pending>>
         \/ \E d : Entered(f, d)
<1>1. PICK w : w = fwd[f] /\ IsFwd(w) /\ w.state = "owned" /\ w.sid \in 1..Cardinality(Conns)
  BY DEF PacketInv, FwdTypes, FwdType, Ids, Enter
<1>2. DOMAIN packet = 1..Cardinality(Conns) /\ DOMAIN fwd = Forwarders
  BY DEF PacketInv, PacketTypes
<1>3. CASE w.sid \notin sessions
  BY <1>1, <1>3 DEF Enter
<1>4. CASE w.sid \in sessions
  <2>1. /\ packet' = [packet EXCEPT ![w.sid] = packet[w.sid] + 1]
        /\ pending' = [pending EXCEPT ![w.sid] = pending[w.sid] \cup {packet'[w.sid]}]
        /\ fwd' = [fwd EXCEPT ![f].state = "write", ![f].packet = packet'[w.sid]]
    BY <1>1, <1>4 DEF Enter, FreshPacket
  <2>2. PICK n : n = packet[w.sid] + 1 /\ packet'[w.sid] = n
    BY <1>1, <1>2, <2>1
  <2>3. PICK d : d = [w EXCEPT !.state = "write", !.packet = n]
    OBVIOUS
  <2>4. fwd' = [fwd EXCEPT ![f] = d]
    BY <1>1, <2>1, <2>2, <2>3
  <2>5. IsFwd(d) /\ d.state = "write" /\ d.sid = w.sid /\ d.packet = n /\ d.reply = w.reply /\ d.ask = w.ask
    BY <1>1, <2>3 DEF IsFwd
  <2>6. Entered(f, d)
    BY <1>1, <1>4, <2>1, <2>2, <2>4, <2>5 DEF Entered
  <2> QED
    BY <2>6
<1> QED
  BY <1>3, <1>4

LEMMA EnterKeeps ==
  ASSUME PacketInv, NEW f \in Forwarders, NEW d, Entered(f, d), UNCHANGED <<sid, nextSession>>
  PROVE  PacketInv'
<1>1. PICK s \in 1..Cardinality(Conns), n \in Nat : s = fwd[f].sid /\ n = packet[s] /\ s \in Ids /\ fwd[f].reply = "none"
  BY DEF Entered, PacketInv, FwdTypes, FwdType, PacketTypes, Ids
<1>2. /\ DOMAIN fwd' = Forwarders /\ fwd'[f] = d /\ d.sid = s /\ d.packet = n + 1 /\ d.reply = "none" /\ IsFwd(d)
      /\ d.state = "write" /\ \A g \in Forwarders : g # f => fwd'[g] = fwd[g]
  BY <1>1 DEF Entered, PacketInv, PacketTypes
<1>3. /\ DOMAIN packet' = 1..Cardinality(Conns) /\ packet'[s] = n + 1
      /\ \A t \in 1..Cardinality(Conns) : t # s => packet'[t] = packet[t]
  BY <1>1 DEF Entered, PacketInv, PacketTypes
<1>4. /\ DOMAIN pending' = 1..Cardinality(Conns) /\ pending'[s] = pending[s] \cup {n + 1}
      /\ \A t \in 1..Cardinality(Conns) : t # s => pending'[t] = pending[t]
  BY <1>1 DEF Entered, PacketInv, PacketTypes
<1>5. PacketTypes'
  <2>1. ASSUME NEW t \in 1..Cardinality(Conns)
        PROVE  /\ packet'[t] \in Nat /\ (t >= nextSession' => packet'[t] = 0)
               /\ \A id \in pending'[t] : id \in 1..packet'[t]
    <3>1. CASE t = s
      <4>1. nextSession \in Nat /\ s < nextSession /\ nextSession' = nextSession
        BY <1>1 DEF Ids, PacketInv, PacketTypes
      <4>2. \A id \in pending[s] : id \in 1..n
        BY <1>1 DEF PacketInv, PacketTypes
      <4> QED
        BY <1>1, <1>3, <1>4, <3>1, <4>1, <4>2
    <3>2. CASE t # s
      BY <1>3, <1>4, <3>2 DEF PacketInv, PacketTypes
    <3> QED
      BY <3>1, <3>2
  <2>2. nextSession' \in Nat
    BY DEF PacketInv, PacketTypes
  <2> QED
    BY <1>2, <1>3, <1>4, <2>1, <2>2 DEF PacketTypes
<1>6. \A g \in Forwarders : g # f /\ Holds(fwd[g]) => fwd[g].sid \in Ids /\ fwd[g].packet \in 1..packet[fwd[g].sid]
  BY DEF PacketInv, FwdTypes, FwdType
<1>7. FwdTypes'
  <2>1. ASSUME NEW g \in Forwarders, g # f PROVE FwdType(g)'
    <3>1. fwd'[g] = fwd[g]
      BY <1>2, <2>1
    <3>2. Holds(fwd[g]) => fwd[g].packet \in 1..packet'[fwd[g].sid]
      <4>1. Holds(fwd[g]) => fwd[g].sid \in 1..Cardinality(Conns) /\ fwd[g].packet \in 1..packet[fwd[g].sid]
        BY <1>6, <2>1 DEF Ids
      <4> QED
        BY <1>1, <1>3, <4>1
    <3> QED
      BY <1>6, <2>1, <3>1, <3>2 DEF PacketInv, FwdTypes, FwdType, Ids
  <2>2. FwdType(f)'
    BY <1>1, <1>2, <1>3 DEF FwdType, Ids
  <2> QED
    BY <2>1, <2>2 DEF FwdTypes
<1>8. FwdUnique'
  <2>1. ASSUME NEW g \in Forwarders, g # f, Holds(fwd[g])
        PROVE  /\ fwd[g].sid = s => fwd[g].packet # n + 1
               /\ fwd[g].reply # "none" => fwd[g].packet \notin pending'[fwd[g].sid]
    <3>1. fwd[g].sid \in 1..Cardinality(Conns) /\ fwd[g].packet \in 1..packet[fwd[g].sid]
      BY <1>6, <2>1 DEF Ids
    <3>2. fwd[g].sid = s => fwd[g].packet # n + 1
      BY <1>1, <3>1
    <3>3. fwd[g].reply # "none" => fwd[g].packet \notin pending[fwd[g].sid]
      BY <2>1 DEF PacketInv, FwdUnique
    <3> QED
      BY <1>4, <3>1, <3>2, <3>3
  <2> QED
    BY <1>2, <2>1 DEF PacketInv, FwdUnique
<1> QED
  BY <1>5, <1>7, <1>8 DEF PacketInv

\* What a Response makes of the forwarders of its session.
Matched(c, pdu, f) ==
    pdu.packet \in pending[sid[c]] /\ f \in Holding(sid[c]) /\ fwd[f].packet = pdu.packet

LEMMA ResponseFields ==
  ASSUME PacketInv, NEW c \in Conns, ReadResponse(c), NEW pdu, pdu = Head(toMaster[c])
  PROVE  /\ pdu.type = "response" /\ DOMAIN fwd' = Forwarders
         /\ pending' = [pending EXCEPT ![sid[c]] = pending[sid[c]] \ {pdu.packet}]
         /\ \A f \in Forwarders :
              /\ ~Matched(c, pdu, f) => fwd'[f] = fwd[f]
              /\ Matched(c, pdu, f) =>
                   /\ IsFwd(fwd'[f]) /\ fwd'[f].state = fwd[f].state /\ fwd'[f].sid = fwd[f].sid
                   /\ fwd'[f].packet = fwd[f].packet /\ fwd'[f].ask = fwd[f].ask
                   /\ fwd'[f].reply = pdu.outcome /\ fwd'[f].of = pdu.of
<1>1. /\ pdu.type = "response"
      /\ pending' = [pending EXCEPT ![sid[c]] = pending[sid[c]] \ {pdu.packet}]
      /\ fwd' = [f \in Forwarders |->
                   IF pdu.packet \in pending[sid[c]] /\ f \in Holding(sid[c]) /\ fwd[f].packet = pdu.packet
                   THEN [fwd[f] EXCEPT !.reply = pdu.outcome, !.of = pdu.of] ELSE fwd[f]]
  BY DEF ReadResponse
<1>2. ASSUME NEW f \in Forwarders, Matched(c, pdu, f)
      PROVE  /\ IsFwd(fwd'[f]) /\ fwd'[f].state = fwd[f].state /\ fwd'[f].sid = fwd[f].sid
             /\ fwd'[f].packet = fwd[f].packet /\ fwd'[f].ask = fwd[f].ask
             /\ fwd'[f].reply = pdu.outcome /\ fwd'[f].of = pdu.of
  <2>1. PICK w, a, b : w = fwd[f] /\ a = pdu.outcome /\ b = pdu.of
    OBVIOUS
  <2>2. PICK d : d = [w EXCEPT !.reply = a, !.of = b]
    OBVIOUS
  <2>3. fwd'[f] = d
    BY <1>1, <1>2, <2>1, <2>2 DEF Matched
  <2>4. IsFwd(w)
    BY <2>1 DEF PacketInv, FwdTypes, FwdType
  <2>5. IsFwd(d) /\ d.state = w.state /\ d.sid = w.sid /\ d.packet = w.packet /\ d.ask = w.ask /\ d.reply = a /\ d.of = b
    BY <2>2, <2>4 DEF IsFwd
  <2> QED
    BY <2>1, <2>3, <2>5
<1>3. ASSUME NEW f \in Forwarders, ~Matched(c, pdu, f) PROVE fwd'[f] = fwd[f]
  BY <1>1, <1>3 DEF Matched
<1> QED
  BY <1>1, <1>2, <1>3

\* A forwarder whose request is written.
LEMMA WriteFields ==
  ASSUME PacketInv, NEW f \in Forwarders, Write(f), SubUp(ConnOf(fwd[f].sid))
  PROVE  \E d : /\ fwd' = [fwd EXCEPT ![f] = d] /\ IsFwd(d) /\ d.state = "wait" /\ d.sid = fwd[f].sid
                /\ d.packet = fwd[f].packet /\ d.reply = fwd[f].reply /\ d.ask = fwd[f].ask /\ d.of = fwd[f].of
<1>1. PICK w : w = fwd[f] /\ IsFwd(w)
  BY DEF PacketInv, FwdTypes, FwdType
<1>2. PICK d : d = [w EXCEPT !.state = "wait"]
  OBVIOUS
<1>3. fwd' = [fwd EXCEPT ![f] = d]
  <2>1. fwd' = [fwd EXCEPT ![f].state = "wait"]
    BY DEF Write
  <2> QED
    BY <1>1, <1>2, <2>1
<1>4. IsFwd(d) /\ d.state = "wait" /\ d.sid = w.sid /\ d.packet = w.packet /\ d.reply = w.reply /\ d.ask = w.ask /\ d.of = w.of
  BY <1>1, <1>2 DEF IsFwd
<1> QED
  BY <1>1, <1>3, <1>4

\* A forwarder that asks: it has found an owner, or none.
LEMMA AskFields ==
  ASSUME SessionInv, CountInv, NEW f \in Forwarders, NEW ask, Ask(f, ask)
  PROVE  \E d : /\ fwd' = [fwd EXCEPT ![f] = d] /\ IsFwd(d) /\ ~Holds(d) /\ ~Holds(fwd[f])
                /\ d.state = "owned" => d.sid \in Ids /\ d.sid \in sessions /\ d.reply = "none"
                /\ d.state = "owned" => d.ask = ask /\ \E i \in DOMAIN subtrees : subtrees[i].sid = d.sid
                /\ d.state \in {"owned", "done"}
<1>0. ~Holds(fwd[f])
  BY DEF Ask, Holds
<1>1. CASE fwd' = Finished(f, "NoOwner")
  <2>1. PICK d : fwd' = [fwd EXCEPT ![f] = d] /\ IsFwd(d) /\ d.state = "done"
    BY <1>1, FinishedFields
  <2> QED
    BY <1>0, <2>1 DEF Holds
<1>2. CASE OwnerFor(ask.oid) # 0
  <2>1. PICK s : s = OwnerFor(ask.oid) /\ s # 0
    BY <1>2
  <2>2. PICK i \in DOMAIN subtrees : subtrees[i].sid = s
    BY <2>1, OwnerIsRegistered
  <2>3. s \in sessions /\ s \in Nat /\ s # 0 /\ s < nextSession /\ nextSession \in Nat
    BY <2>2 DEF SessionInv
  <2>4. s \in Ids
    BY <2>3, IdsBounded DEF Ids
  <2>5. PICK d : d = [Idle EXCEPT !.state = "owned", !.ask = ask, !.sid = s]
    OBVIOUS
  <2>6. fwd' = [fwd EXCEPT ![f] = d]
    BY <1>2, <2>1, <2>5 DEF Ask
  <2>7. IsFwd(d) /\ d.state = "owned" /\ d.sid = s /\ d.reply = "none" /\ d.ask = ask
    BY <2>5, IdleFields DEF IsFwd
  <2> QED
    BY <1>0, <2>2, <2>3, <2>4, <2>6, <2>7 DEF Holds
<1> QED
  BY <1>1, <1>2 DEF Ask

LEMMA PacketInvStep ==
  ASSUME SessionInv, CountInv, PacketInv, [Next]_vars
  PROVE  PacketInv'
<1>1. CASE UNCHANGED <<fwd, packet, pending, nextSession>>
  BY <1>1 DEF PacketInv, PacketTypes, FwdTypes, FwdType, FwdUnique, Ids
<1>2. ASSUME NEW c \in Conns, First(c) PROVE PacketInv'
  <2>1. UNCHANGED <<fwd, packet, pending>> /\ (UNCHANGED nextSession \/ nextSession' = nextSession + 1)
    BY <1>2 DEF First
  <2>2. CASE nextSession' = nextSession + 1
    <3>1. PacketTypes'
      BY <2>1, <2>2 DEF PacketInv, PacketTypes
    <3>2. nextSession \in Nat /\ \A s \in Ids : s \in Ids'
      BY <2>2 DEF PacketInv, PacketTypes, Ids
    <3>3. FwdTypes'
      BY <2>1, <3>2 DEF PacketInv, FwdTypes, FwdType
    <3>4. FwdUnique'
      BY <2>1 DEF PacketInv, FwdUnique
    <3> QED
      BY <3>1, <3>3, <3>4 DEF PacketInv
  <2> QED
    BY <1>1, <2>1, <2>2
<1>3. ASSUME NEW c \in Conns, Read(c), ReadResponse(c) PROVE PacketInv'
  <2>0. UNCHANGED <<packet, sid, nextSession>>
    BY <1>3 DEF Read
  <2>1. PICK pdu : pdu = Head(toMaster[c])
    OBVIOUS
  <2>2. /\ DOMAIN fwd' = Forwarders
        /\ pending' = [pending EXCEPT ![sid[c]] = pending[sid[c]] \ {pdu.packet}]
        /\ \A f \in Forwarders :
              /\ ~Matched(c, pdu, f) => fwd'[f] = fwd[f]
              /\ Matched(c, pdu, f) =>
                   /\ IsFwd(fwd'[f]) /\ fwd'[f].state = fwd[f].state /\ fwd'[f].sid = fwd[f].sid
                   /\ fwd'[f].packet = fwd[f].packet
    BY <1>3, <2>1, ResponseFields
  <2>3. /\ DOMAIN pending' = DOMAIN pending
        /\ \A s \in 1..Cardinality(Conns) : \A id \in pending'[s] : id \in pending[s]
    BY <2>2 DEF PacketInv, PacketTypes
  <2>4. ASSUME NEW f \in Forwarders, Matched(c, pdu, f)
        PROVE  fwd[f].packet \notin pending'[fwd[f].sid] /\ Holds(fwd[f]) /\ fwd[f].state # "owned"
    <3>1. Holds(fwd[f]) /\ fwd[f].sid = sid[c] /\ fwd[f].packet = pdu.packet /\ fwd[f].state # "owned"
      BY <2>4 DEF Matched, Holding, Holds
    <3>2. sid[c] \in 1..Cardinality(Conns)
      BY <3>1 DEF PacketInv, FwdTypes, FwdType, Ids
    <3> QED
      BY <2>2, <3>1, <3>2 DEF PacketInv, PacketTypes
  <2>5. \A f \in Forwarders : IsFwd(fwd[f])
    BY DEF PacketInv, FwdTypes, FwdType
  <2>6. \A g \in Forwarders :
           /\ IsFwd(fwd'[g])
           /\ fwd'[g].state = "owned" => fwd'[g] = fwd[g]
           /\ Holds(fwd'[g]) =>
                /\ Holds(fwd[g]) /\ fwd'[g].sid = fwd[g].sid /\ fwd'[g].packet = fwd[g].packet
                /\ fwd'[g].reply # "none" => fwd[g].reply # "none" \/ fwd[g].packet \notin pending'[fwd[g].sid]
    BY <2>2, <2>4, <2>5
  <2> QED
    BY <2>0, <2>2, <2>3, <2>6, StayKeeps
<1>4. ASSUME NEW c \in Conns, Read(c), ~ReadResponse(c) PROVE PacketInv'
  BY <1>1, <1>4 DEF Read, ReadCall, ReadClose, ReadIgnored
<1>5. ASSUME NEW c \in Conns, Answer(c) \/ ReadEnd(c) \/ Subagent(c) \/ Die(c) PROVE PacketInv'
  BY <1>1, <1>5 DEF Answer, ReadEnd, Subagent, Opened, CallReturns, Run, ServeRequest, SubEnd, Die, master
<1>6. ASSUME NEW c \in Conns, NEW x, Connect(c, x) \/ MakeCall(c, x) PROVE PacketInv'
  BY <1>1, <1>6 DEF Connect, MakeCall, master
<1>7. ASSUME NEW f \in Forwarders, NEW ask, Ask(f, ask) PROVE PacketInv'
  <2>1. UNCHANGED <<packet, pending, sid, nextSession>>
    BY <1>7 DEF Ask, master
  <2>2. PICK d : /\ fwd' = [fwd EXCEPT ![f] = d] /\ IsFwd(d) /\ ~Holds(d)
                 /\ d.state = "owned" => d.sid \in Ids /\ d.reply = "none"
    BY <1>7, AskFields
  <2> QED
    BY <2>1, <2>2, LeaveKeeps
<1>8. ASSUME NEW f \in Forwarders, NEW r, fwd' = Finished(f, r), UNCHANGED <<packet, sid, nextSession>>,
             UNCHANGED pending \/ pending' = [pending EXCEPT ![fwd[f].sid] = pending[fwd[f].sid] \ {fwd[f].packet}]
      PROVE  PacketInv'
  <2>1. PICK d : fwd' = [fwd EXCEPT ![f] = d] /\ IsFwd(d) /\ d.state = "done"
    BY <1>8, FinishedFields
  <2>2. ~Holds(d) /\ d.state # "owned"
    BY <2>1 DEF Holds
  <2>3. /\ DOMAIN pending' = DOMAIN pending
        /\ \A s \in 1..Cardinality(Conns) : \A id \in pending'[s] : id \in pending[s]
    BY <1>8 DEF PacketInv, PacketTypes
  <2> QED
    BY <1>8, <2>1, <2>2, <2>3, LeaveKeeps
<1>9. ASSUME NEW f \in Forwarders, Enter(f) PROVE PacketInv'
  <2>1. UNCHANGED <<sid, nextSession>>
    BY <1>9 DEF Enter
  <2> QED
    BY <1>8, <1>9, <2>1, EnterFields, EnterKeeps
<1>10. ASSUME NEW f \in Forwarders, Write(f) PROVE PacketInv'
  <2>1. UNCHANGED <<packet, pending, sid, nextSession>>
    BY <1>10 DEF Write, master
  <2>2. CASE SubUp(ConnOf(fwd[f].sid))
    <3>1. PICK d : /\ fwd' = [fwd EXCEPT ![f] = d] /\ IsFwd(d) /\ d.state = "wait" /\ d.sid = fwd[f].sid
                   /\ d.packet = fwd[f].packet /\ d.reply = fwd[f].reply
      BY <1>10, <2>2, WriteFields
    <3>2. /\ DOMAIN fwd' = Forwarders /\ fwd'[f] = d /\ Holds(fwd[f])
          /\ \A g \in Forwarders : g # f => fwd'[g] = fwd[g]
      BY <1>10, <3>1 DEF PacketInv, PacketTypes, Write, Holds
    <3>3. \A g \in Forwarders : IsFwd(fwd[g])
      BY DEF PacketInv, FwdTypes, FwdType
    <3>4. \A g \in Forwarders :
           /\ IsFwd(fwd'[g])
           /\ fwd'[g].state = "owned" => fwd'[g] = fwd[g]
           /\ Holds(fwd'[g]) =>
                /\ Holds(fwd[g]) /\ fwd'[g].sid = fwd[g].sid /\ fwd'[g].packet = fwd[g].packet
                /\ fwd'[g].reply # "none" => fwd[g].reply # "none" \/ fwd[g].packet \notin pending'[fwd[g].sid]
      BY <3>1, <3>2, <3>3
    <3> QED
      BY <2>1, <3>2, <3>4, StayKeeps
  <2>3. CASE ~SubUp(ConnOf(fwd[f].sid))
    <3>1. fwd' = Finished(f, "Disconnected")
      BY <1>10, <2>3 DEF Write, Writable
    <3> QED
      BY <1>8, <2>1, <3>1
  <2> QED
    BY <2>2, <2>3
<1>11. ASSUME NEW f \in Forwarders, Finish(f) \/ Timeout(f) PROVE PacketInv'
  BY <1>8, <1>11 DEF Finish, Timeout, master
<1> QED
  <2>1. CASE UNCHANGED vars
    BY <1>1, <2>1 DEF vars, master
  <2>2. CASE Next
    BY <1>2, <1>3, <1>4, <1>5, <1>6, <1>7, <1>9, <1>10, <1>11, <2>2 DEF Next, Task, Forward
  <2> QED
    BY <2>1, <2>2

LEMMA PacketInvInit ==
  ASSUME Init PROVE PacketInv
<1>1. /\ nextSession = 1 /\ fwd = [f \in Forwarders |-> Idle]
      /\ packet = [s \in 1..Cardinality(Conns) |-> 0] /\ pending = [s \in 1..Cardinality(Conns) |-> {}]
  BY DEF Init
<1>2. ~Holds(Idle) /\ Idle.state # "owned"
  BY IdleFields DEF Holds
<1> QED
  BY <1>1, <1>2, IdleFields DEF PacketInv, PacketTypes, FwdTypes, FwdType, FwdUnique

---------------------------------------------------------------------------
(* The pending tables.                                                     *)

Awaits(w, s, id) == Holds(w) /\ w.sid = s /\ w.packet = id

Awaited(s) == \A id \in pending[s] : \E f \in Forwarders : Awaits(fwd[f], s, id)

\* PendingIsAwaited, of the forwarders that hold a packet id.
AwaitInv == \A c \in Conns : SubUp(c) /\ sid[c] # 0 => Awaited(sid[c])

\* A step of a forwarder that keeps every entry awaited.
LEMMA AwaitedKept ==
  ASSUME AwaitInv, UNCHANGED <<sub, sid>>,
         ASSUME NEW c \in Conns, SubUp(c), sid[c] # 0, NEW id \in pending'[sid[c]]
         PROVE  \E g \in Forwarders : Awaits(fwd'[g], sid[c], id)
  PROVE  AwaitInv'
BY DEF AwaitInv, Awaited, SubUp, Awaits, Holds

\* A forwarder ends: its entry went with it, or its subagent has gone.
LEMMA AwaitLeave ==
  ASSUME SessionInv, PacketInv, AwaitInv, UNCHANGED <<sub, sid>>,
         NEW f \in Forwarders, NEW d, fwd' = [fwd EXCEPT ![f] = d],
         \A s \in 1..Cardinality(Conns) : \A id \in pending'[s] : id \in pending[s],
         \A c \in Conns : sid[c] # 0 => sid[c] \in 1..Cardinality(Conns),
         Holds(fwd[f]) => \/ fwd[f].packet \notin pending'[fwd[f].sid]
                          \/ ~SubUp(ConnOf(fwd[f].sid))
  PROVE  AwaitInv'
<1>1. ASSUME NEW c \in Conns, SubUp(c), sid[c] # 0, NEW id \in pending'[sid[c]]
      PROVE  \E g \in Forwarders : Awaits(fwd'[g], sid[c], id)
  <2>1. id \in pending[sid[c]]
    BY <1>1
  <2>2. PICK g \in Forwarders : Awaits(fwd[g], sid[c], id)
    BY <1>1, <2>1 DEF AwaitInv, Awaited
  <2>3. ConnOf(sid[c]) = c
    BY <1>1, ConnOfSid
  <2>4. g # f
    BY <1>1, <2>2, <2>3 DEF Awaits
  <2>5. fwd'[g] = fwd[g]
    BY <2>4 DEF PacketInv, PacketTypes
  <2> QED
    BY <2>2, <2>5
<1> QED
  BY <1>1, AwaitedKept

\* Those that hold an id go on holding it.
LEMMA AwaitStay ==
  ASSUME AwaitInv, UNCHANGED <<sub, sid>>,
         \A c \in Conns : sid[c] # 0 => \A id \in pending'[sid[c]] : id \in pending[sid[c]],
         \A g \in Forwarders : Holds(fwd[g]) =>
            Holds(fwd'[g]) /\ fwd'[g].sid = fwd[g].sid /\ fwd'[g].packet = fwd[g].packet
  PROVE  AwaitInv'
<1>1. ASSUME NEW c \in Conns, SubUp(c), sid[c] # 0, NEW id \in pending'[sid[c]]
      PROVE  \E g \in Forwarders : Awaits(fwd'[g], sid[c], id)
  <2>1. id \in pending[sid[c]]
    BY <1>1
  <2>2. PICK g \in Forwarders : Awaits(fwd[g], sid[c], id)
    BY <1>1, <2>1 DEF AwaitInv, Awaited
  <2>3. Awaits(fwd'[g], sid[c], id)
    BY <2>2 DEF Awaits
  <2> QED
    BY <2>3
<1> QED
  BY <1>1, AwaitedKept

\* A step that changes neither forwarders nor tables.
LEMMA AwaitSame ==
  ASSUME AwaitInv, UNCHANGED <<fwd, pending>>,
         \A c \in Conns : SubUp(c)' /\ sid'[c] # 0 => SubUp(c) /\ sid'[c] = sid[c]
  PROVE  AwaitInv'
BY DEF AwaitInv, Awaited, Awaits, Holds

LEMMA AwaitInvStep ==
  ASSUME StartInv, SessionInv, CountInv, PacketInv, AwaitInv, [Next]_vars
  PROVE  AwaitInv'
<1>0. \A c \in Conns : sid[c] # 0 => sid[c] \in 1..Cardinality(Conns)
  <2>1. Cardinality(Conns) \in Nat /\ nextSession - 1 <= Cardinality(Conns) /\ nextSession \in Nat
    BY IdsBounded DEF SessionInv
  <2> QED
    BY <2>1 DEF SessionInv
<1>1. CASE UNCHANGED <<fwd, pending, sub, sid>>
  BY <1>1, AwaitSame DEF SubUp
<1>2. ASSUME NEW c \in Conns, First(c) PROVE AwaitInv'
  <2>1. UNCHANGED <<fwd, pending, sub>> /\ task[c] = "first"
    BY <1>2 DEF First, agent
  <2>2. CASE UNCHANGED sid
    BY <1>1, <2>1, <2>2
  <2>3. CASE sid' = [sid EXCEPT ![c] = nextSession]
    <3>1. sid[c] = 0 /\ nextSession \in Nat /\ nextSession # 0 /\ DOMAIN sid = Conns
      BY <2>1 DEF SessionInv
    <3>2. nextSession <= Cardinality(Conns) /\ Cardinality(Conns) \in Nat
      BY <3>1, NewIdBounded, IdsBounded
    <3>3. pending[nextSession] = {}
      <4>1. nextSession \in 1..Cardinality(Conns)
        BY <3>1, <3>2
      <4>2. packet[nextSession] = 0
        BY <3>1, <4>1 DEF PacketInv, PacketTypes
      <4> QED
        BY <4>1, <4>2 DEF PacketInv, PacketTypes
    <3>4. ASSUME NEW d \in Conns, SubUp(d)', sid'[d] # 0 PROVE Awaited(sid[d])'
      <4>1. CASE d = c
        BY <2>1, <2>3, <3>1, <3>3, <4>1 DEF Awaited
      <4>2. CASE d # c
        BY <2>1, <2>3, <3>1, <3>4, <4>2 DEF AwaitInv, Awaited, SubUp, Awaits, Holds
      <4> QED
        BY <4>1, <4>2
    <3> QED
      BY <3>4 DEF AwaitInv
  <2> QED
    BY <1>2, <2>2, <2>3 DEF First
<1>3. ASSUME NEW c \in Conns, Read(c), ReadResponse(c) PROVE AwaitInv'
  <2>0. UNCHANGED <<sub, sid>>
    BY <1>3 DEF Read, agent
  <2>1. PICK pdu : pdu = Head(toMaster[c])
    OBVIOUS
  <2>2. /\ pending' = [pending EXCEPT ![sid[c]] = pending[sid[c]] \ {pdu.packet}]
        /\ \A f \in Forwarders :
              /\ ~Matched(c, pdu, f) => fwd'[f] = fwd[f]
              /\ Matched(c, pdu, f) =>
                   /\ fwd'[f].state = fwd[f].state /\ fwd'[f].sid = fwd[f].sid
                   /\ fwd'[f].packet = fwd[f].packet
    BY <1>3, <2>1, ResponseFields
  <2>3. \A d \in Conns : sid[d] # 0 => \A id \in pending'[sid[d]] : id \in pending[sid[d]]
    BY <1>0, <2>2 DEF PacketInv, PacketTypes
  <2>4. \A g \in Forwarders : Holds(fwd[g]) =>
            Holds(fwd'[g]) /\ fwd'[g].sid = fwd[g].sid /\ fwd'[g].packet = fwd[g].packet
    BY <2>2 DEF Holds
  <2> QED
    BY <2>0, <2>3, <2>4, AwaitStay
<1>4. ASSUME NEW c \in Conns, Read(c), ~ReadResponse(c) PROVE AwaitInv'
  BY <1>1, <1>4 DEF Read, ReadCall, ReadClose, ReadIgnored, agent
<1>5. ASSUME NEW c \in Conns, Answer(c) \/ ReadEnd(c) PROVE AwaitInv'
  BY <1>1, <1>5 DEF Answer, ReadEnd, agent
<1>6. ASSUME NEW c \in Conns, NEW x, sub' = [sub EXCEPT ![c] = x] \/ UNCHANGED sub,
             SubUp(c) \/ x = "gone", UNCHANGED <<fwd, pending, sid>>
      PROVE  AwaitInv'
  <2>1. \A d \in Conns : SubUp(d)' => SubUp(d)
    BY <1>6 DEF SubUp, StartInv
  <2> QED
    BY <1>6, <2>1, AwaitSame
<1>7. ASSUME NEW c \in Conns, Subagent(c) \/ Die(c) \/ \E pdu : MakeCall(c, pdu) PROVE AwaitInv'
  <2>1. SubUp(c) /\ UNCHANGED <<fwd, pending, sid>>
    BY <1>7 DEF Subagent, Opened, CallReturns, Run, ServeRequest, SubEnd, Die, MakeCall, SubUp, master
  <2>2. UNCHANGED sub \/ \E x : sub' = [sub EXCEPT ![c] = x]
    BY <1>7 DEF Subagent, Opened, CallReturns, Run, ServeRequest, SubEnd, Die, MakeCall, SubGone, agent
  <2> QED
    BY <1>6, <2>1, <2>2
<1>8. ASSUME NEW c \in Conns, NEW x, Connect(c, x) PROVE AwaitInv'
  <2>1. sid[c] = 0 /\ UNCHANGED <<fwd, pending, sid>> /\ sub' = [sub EXCEPT ![c] = "opening"]
    BY <1>8 DEF Connect, StartInv, SessionInv
  <2>2. \A d \in Conns : SubUp(d)' /\ sid'[d] # 0 => SubUp(d)
    BY <2>1 DEF SubUp, StartInv
  <2> QED
    BY <2>1, <2>2, AwaitSame
<1>9. ASSUME NEW f \in Forwarders, NEW ask, Ask(f, ask) PROVE AwaitInv'
  <2>1. UNCHANGED <<pending, sub, sid>>
    BY <1>9 DEF Ask, master, agent
  <2>2. PICK d : fwd' = [fwd EXCEPT ![f] = d] /\ ~Holds(fwd[f])
    BY <1>9, AskFields
  <2> QED
    BY <1>0, <2>1, <2>2, AwaitLeave
<1>10. ASSUME NEW f \in Forwarders, NEW r, fwd' = Finished(f, r), UNCHANGED <<sub, sid>>,
             UNCHANGED pending \/ pending' = [pending EXCEPT ![fwd[f].sid] = pending[fwd[f].sid] \ {fwd[f].packet}],
             Holds(fwd[f]) => \/ fwd[f].packet \notin pending'[fwd[f].sid]
                              \/ ~SubUp(ConnOf(fwd[f].sid))
      PROVE  AwaitInv'
  <2>1. PICK d : fwd' = [fwd EXCEPT ![f] = d]
    BY <1>10, FinishedFields
  <2>2. \A s \in 1..Cardinality(Conns) : \A id \in pending'[s] : id \in pending[s]
    BY <1>10 DEF PacketInv, PacketTypes
  <2> QED
    BY <1>0, <1>10, <2>1, <2>2, AwaitLeave
<1>11. ASSUME NEW f \in Forwarders, Enter(f) PROVE AwaitInv'
  <2>1. UNCHANGED <<sid, sub>> /\ fwd[f].state = "owned"
    BY <1>11 DEF Enter, agent
  <2>2. CASE fwd' = Finished(f, "NoOwner") /\ UNCHANGED <<packet, pending>>
    <3>1. ~Holds(fwd[f])
      BY <2>1 DEF Holds
    <3> QED
      BY <1>10, <2>1, <2>2, <3>1
  <2>3. ASSUME NEW d, Entered(f, d) PROVE AwaitInv'
    <3>1. PICK s, n : s = fwd[f].sid /\ n = packet[s] + 1
      OBVIOUS
    <3>2. /\ pending' = [pending EXCEPT ![s] = pending[s] \cup {n}] /\ DOMAIN pending = 1..Cardinality(Conns)
          /\ fwd' = [fwd EXCEPT ![f] = d] /\ DOMAIN fwd = Forwarders /\ Awaits(d, s, n) /\ ~Holds(fwd[f])
      BY <2>1, <2>3, <3>1 DEF Entered, Awaits, Holds, PacketInv, PacketTypes
    <3>3. ASSUME NEW c \in Conns, SubUp(c), sid[c] # 0, NEW id \in pending'[sid[c]]
          PROVE  \E g \in Forwarders : Awaits(fwd'[g], sid[c], id)
      <4>0. sid[c] \in DOMAIN pending
        BY <1>0, <3>2, <3>3
      <4>1. CASE id \in pending[sid[c]]
        <5>1. PICK g \in Forwarders : Awaits(fwd[g], sid[c], id)
          BY <3>3, <4>1 DEF AwaitInv, Awaited
        <5>2. g # f
          BY <3>2, <5>1 DEF Awaits
        <5>3. fwd'[g] = fwd[g]
          BY <3>2, <5>2
        <5> QED
          BY <5>1, <5>3
      <4>2. CASE id \notin pending[sid[c]]
        <5>1. sid[c] = s /\ id = n
          BY <3>2, <3>3, <4>0, <4>2
        <5>2. fwd'[f] = d
          BY <3>2
        <5> QED
          BY <3>2, <5>1, <5>2
      <4> QED
        BY <4>1, <4>2
    <3> QED
      BY <2>1, <3>3, AwaitedKept
  <2> QED
    BY <1>11, <2>2, <2>3, EnterFields
<1>12. ASSUME NEW f \in Forwarders, Write(f) PROVE AwaitInv'
  <2>1. UNCHANGED <<pending, sid, sub>> /\ Holds(fwd[f])
    BY <1>12 DEF Write, master, agent, Holds
  <2>2. CASE SubUp(ConnOf(fwd[f].sid))
    <3>1. PICK d : /\ fwd' = [fwd EXCEPT ![f] = d] /\ d.state = "wait" /\ d.sid = fwd[f].sid
                   /\ d.packet = fwd[f].packet
      BY <1>12, <2>2, WriteFields
    <3>2. \A g \in Forwarders : Holds(fwd[g]) =>
            Holds(fwd'[g]) /\ fwd'[g].sid = fwd[g].sid /\ fwd'[g].packet = fwd[g].packet
      BY <3>1 DEF PacketInv, PacketTypes, Holds
    <3> QED
      BY <2>1, <3>2, AwaitStay
  <2>3. CASE ~SubUp(ConnOf(fwd[f].sid))
    <3>1. fwd' = Finished(f, "Disconnected")
      BY <1>12, <2>3 DEF Write, Writable
    <3> QED
      BY <1>10, <2>1, <2>3, <3>1
  <2> QED
    BY <2>2, <2>3
<1>13. ASSUME NEW f \in Forwarders, Finish(f) PROVE AwaitInv'
  <2>1. /\ Holds(fwd[f]) /\ fwd[f].reply # "none" /\ UNCHANGED <<pending, sid, sub>>
        /\ fwd' = Finished(f, fwd[f].reply)
    BY <1>13 DEF Finish, Holds, master, agent
  <2>2. fwd[f].packet \notin pending[fwd[f].sid]
    BY <2>1 DEF PacketInv, FwdUnique
  <2> QED
    BY <1>10, <2>1, <2>2
<1>14. ASSUME NEW f \in Forwarders, Timeout(f) PROVE AwaitInv'
  <2>1. /\ Holds(fwd[f]) /\ UNCHANGED <<sid, sub>> /\ fwd' = Finished(f, "Timeout")
        /\ pending' = [pending EXCEPT ![fwd[f].sid] = pending[fwd[f].sid] \ {fwd[f].packet}]
    BY <1>14 DEF Timeout, Holds, agent
  <2>2. fwd[f].sid \in DOMAIN pending
    BY <2>1 DEF PacketInv, PacketTypes, FwdTypes, FwdType, Ids
  <2>3. fwd[f].packet \notin pending'[fwd[f].sid]
    BY <2>1, <2>2
  <2> QED
    BY <1>10, <2>1, <2>3
<1> QED
  <2>1. CASE UNCHANGED vars
    BY <1>1, <2>1 DEF vars, master, agent
  <2>2. CASE Next
    BY <1>2, <1>3, <1>4, <1>5, <1>7, <1>8, <1>9, <1>11, <1>12, <1>13, <1>14, <2>2 DEF Next, Task, Forward
  <2> QED
    BY <2>1, <2>2

LEMMA AwaitInvInit ==
  ASSUME Init PROVE AwaitInv
BY DEF Init, AwaitInv

\* The pending table of a session whose subagent is there holds ids of forwarders that
\* still wait (exchange): neither a timeout nor an answer leaves an entry behind.
THEOREM PendingTablesStaySmall == Spec => []PendingIsAwaited
<1> DEFINE Inv == StartInv /\ SessionInv /\ CountInv /\ PacketInv /\ AwaitInv
<1>1. Init => Inv
  BY StartInvInit, SessionInvInit, CountInvInit, PacketInvInit, AwaitInvInit
<1>2. Inv /\ [Next]_vars => Inv'
  BY StartInvStep, SessionInvStep, CountInvStep, PacketInvStep, AwaitInvStep
<1>3. Inv => PendingIsAwaited
  BY DEF AwaitInv, Awaited, Awaits, Holds, Holding, PendingIsAwaited
<1> QED
  BY <1>1, <1>2, <1>3, PTL DEF Spec

---------------------------------------------------------------------------
(* The wire: what can be under way between a subagent and the master.      *)

\* What the master acknowledges.
Acked == {"open", "register", "unregister"} \cup AckedOnly

None(q, S) == \A k \in DOMAIN q : q[k].type \notin S
AtMostOne(q, S) == \A k, l \in DOMAIN q : q[k].type \in S /\ q[l].type \in S => k = l

\* The task owes an acknowledgement.
Owes(t) == t \in {"opening", "answering"}

\* The shape of the queues, and what has to wait for the answer to Open.
Shape(u, s, qm, qs, ok) ==
    /\ IsSeq(qm) /\ IsSeq(qs)
    /\ s = 0 => qs = <<>> /\ u \in {"off", "opening", "gone"} /\ None(qm, {"response"})
    /\ u \in {"off", "opening", "gone"} => ok = {}
    /\ u = "opening" => None(qm, {"register"})

\* One acknowledgement at most is under way, and none while no call waits.
Tokens(u, t, qm, qs, ok) ==
    u \notin {"off", "gone"} /\ ok =>
      /\ AtMostOne(qm, Acked) /\ AtMostOne(qs, {"response"})
      /\ Owes(t) => None(qm, Acked) /\ None(qs, {"response"})
      /\ None(qm, Acked) \/ None(qs, {"response"})
      /\ u \in {"ready", "running"} => None(qm, Acked) /\ ~Owes(t) /\ None(qs, {"response"})

Domains ==
    /\ DOMAIN sub = Conns /\ DOMAIN task = Conns /\ DOMAIN sid = Conns /\ DOMAIN call = Conns
    /\ DOMAIN toMaster = Conns /\ DOMAIN toSub = Conns /\ DOMAIN acked = Conns /\ DOMAIN clean = Conns

ShapeInv ==
    /\ Domains
    /\ \A c \in Conns : Shape(sub[c], sid[c], toMaster[c], toSub[c], acked[c])

TokenInv == \A c \in Conns : Tokens(sub[c], task[c], toMaster[c], toSub[c], clean[c])

\* A forwarder has a request and the session it is for.
Uses(w) == w.state \in {"owned", "write", "wait"}

\* Until the answer to Open is read, nothing is registered or forwarded, and nothing
\* else can be read.
OpenInv ==
    /\ \A f \in Forwarders : Uses(fwd[f]) => fwd[f].ask \in [kind : RequestKinds, oid : Oids]
    /\ \A c \in Conns : sub[c] = "opening" =>
         /\ \A i \in DOMAIN subtrees : subtrees[i].sid # sid[c]
         /\ \A f \in Forwarders : Uses(fwd[f]) => fwd[f].sid # sid[c]
         /\ \A k \in DOMAIN toSub[c] : toSub[c][k].type = "response"

\* Whoever holds the packet id of a PDU asked for this.
AskedBy(s, id, ask) == \A f \in Forwarders : Awaits(fwd[f], s, id) => fwd[f].ask = ask

\* Requests and responses carry ids that were given, and what their holders asked for.
RequestInv ==
    \A c \in Conns : \A k \in DOMAIN toSub[c] :
      toSub[c][k].type # "response" =>
        /\ toSub[c][k].type \in RequestKinds
        /\ toSub[c][k].packet \in 1..packet[sid[c]]
        /\ AskedBy(sid[c], toSub[c][k].packet, [kind |-> toSub[c][k].type, oid |-> toSub[c][k].oid])

ResponseInv ==
    \A c \in Conns : clean[c] => \A k \in DOMAIN toMaster[c] :
      toMaster[c][k].type = "response" =>
        /\ toMaster[c][k].packet \in 1..packet[sid[c]]
        /\ \E ask : toMaster[c][k].of = AsRead(ask) /\ AskedBy(sid[c], toMaster[c][k].packet, ask)

ReplyInv ==
    \A f \in Forwarders :
      Holds(fwd[f]) /\ fwd[f].reply # "none" /\ clean[ConnOf(fwd[f].sid)] => fwd[f].of = AsRead(fwd[f].ask)

\* What register has to show for itself.
Registered(s, x) == \E i \in DOMAIN subtrees : subtrees[i].sid = s /\ subtrees[i].subtree = x

\* A subagent that waits in a call: what the master has to acknowledge is this call,
\* and a registration that it has read is in the table.
CallAt(c) ==
    sub[c] = "calling" =>
      /\ \A k \in DOMAIN toMaster[c] : toMaster[c][k].type \in Acked => toMaster[c][k] = call[c]
      /\ (Owes(task[c]) \/ ~None(toSub[c], {"response"})) /\ call[c].type = "register" =>
           Registered(sid[c], call[c].subtree) \/ sid[c] \notin sessions

RegisterAt(c) ==
    SubUp(c) /\ clean[c] =>
      /\ \A x \in acked[c] : Registered(sid[c], x) \/ sid[c] \notin sessions
      /\ \A k \in DOMAIN toMaster[c] :
           toMaster[c][k].type = "unregister" => toMaster[c][k].subtree \notin acked[c]
      /\ CallAt(c)

RegisterInv == \A c \in Conns : RegisterAt(c)

---------------------------------------------------------------------------
(* Queues.                                                                 *)

LEMMA TailOfQueue ==
  ASSUME NEW q, IsSeq(q), q # <<>>
  PROVE  /\ IsSeq(Tail(q)) /\ 1 \in DOMAIN q /\ Head(q) = q[1]
         /\ \A k \in DOMAIN Tail(q) : k \in Nat /\ k # 0 /\ k + 1 \in DOMAIN q /\ Tail(q)[k] = q[k + 1]
<1>1. PICK S : q \in Seq(S)
  BY DEF IsSeq
<1>2. /\ Tail(q) \in Seq(S) /\ Len(q) \in Nat /\ Len(q) # 0 /\ DOMAIN q = 1..Len(q)
      /\ Len(Tail(q)) = Len(q) - 1 /\ Head(q) = q[1]
      /\ \A k \in 1..(Len(q) - 1) : Tail(q)[k] = q[k + 1]
  BY <1>1
<1>3. DOMAIN Tail(q) = 1..(Len(q) - 1)
  BY <1>2
<1> QED
  BY <1>2, <1>3 DEF IsSeq

LEMMA AppendToQueue ==
  ASSUME NEW q, IsSeq(q), NEW e
  PROVE  /\ IsSeq(Append(q, e))
         /\ \A k \in DOMAIN Append(q, e) :
              \/ k \in DOMAIN q /\ Append(q, e)[k] = q[k]
              \/ k = Len(q) + 1 /\ Append(q, e)[k] = e
<1>1. PICK T : q \in Seq(T)
  BY DEF IsSeq
<1>2. PICK S : S = T \cup {e}
  OBVIOUS
<1>3. q \in Seq(S) /\ e \in S /\ Len(q) \in Nat /\ DOMAIN q = 1..Len(q)
  BY <1>1, <1>2
<1>4. /\ Append(q, e) \in Seq(S) /\ Len(Append(q, e)) = Len(q) + 1
      /\ \A k \in 1..Len(q) : Append(q, e)[k] = q[k]
      /\ Append(q, e)[Len(q) + 1] = e
  BY <1>3, AppendProperties
<1>5. DOMAIN Append(q, e) = 1..(Len(q) + 1)
  BY <1>3, <1>4
<1> QED
  BY <1>3, <1>4, <1>5 DEF IsSeq

LEMMA TailTypes ==
  ASSUME NEW q, IsSeq(q), q # <<>>, NEW S
  PROVE  /\ None(q, S) => None(Tail(q), S)
         /\ AtMostOne(q, S) => AtMostOne(Tail(q), S)
         /\ AtMostOne(q, S) /\ Head(q).type \in S => None(Tail(q), S)
<1>1. /\ 1 \in DOMAIN q /\ Head(q) = q[1]
      /\ \A k \in DOMAIN Tail(q) : k \in Nat /\ k # 0 /\ k + 1 \in DOMAIN q /\ Tail(q)[k] = q[k + 1]
  BY TailOfQueue
<1>2. None(q, S) => None(Tail(q), S)
  BY <1>1 DEF None
<1>3. ASSUME AtMostOne(q, S), NEW k \in DOMAIN Tail(q), NEW l \in DOMAIN Tail(q), Tail(q)[k].type \in S, Tail(q)[l].type \in S
      PROVE  k = l
  <2>1. /\ k \in Nat /\ l \in Nat /\ k + 1 \in DOMAIN q /\ l + 1 \in DOMAIN q
        /\ q[k + 1].type \in S /\ q[l + 1].type \in S
    BY <1>1, <1>3
  <2>2. k + 1 = l + 1
    BY <1>3, <2>1 DEF AtMostOne
  <2> QED
    BY <2>1, <2>2
<1>4. ASSUME AtMostOne(q, S), Head(q).type \in S, NEW k \in DOMAIN Tail(q), Tail(q)[k].type \in S
      PROVE  FALSE
  <2>1. /\ k \in Nat /\ k # 0 /\ k + 1 \in DOMAIN q /\ q[k + 1].type \in S /\ q[1].type \in S
    BY <1>1, <1>4
  <2>2. k + 1 = 1
    BY <1>1, <1>4, <2>1 DEF AtMostOne
  <2> QED
    BY <2>1, <2>2
<1> QED
  BY <1>2, <1>3, <1>4 DEF None, AtMostOne

LEMMA AppendTypes ==
  ASSUME NEW q, IsSeq(q), NEW e, NEW S
  PROVE  /\ None(q, S) /\ e.type \notin S => None(Append(q, e), S)
         /\ AtMostOne(q, S) /\ e.type \notin S => AtMostOne(Append(q, e), S)
         /\ None(q, S) => AtMostOne(Append(q, e), S) /\ AtMostOne(q, S)
<1>1. \A k \in DOMAIN Append(q, e) : \/ k \in DOMAIN q /\ Append(q, e)[k] = q[k]
                                     \/ k = Len(q) + 1 /\ Append(q, e)[k] = e
  BY AppendToQueue
<1>2. None(q, S) /\ e.type \notin S => None(Append(q, e), S)
  BY <1>1 DEF None
<1>3. AtMostOne(q, S) /\ e.type \notin S => AtMostOne(Append(q, e), S)
  BY <1>1 DEF AtMostOne
<1>4. None(q, S) => AtMostOne(Append(q, e), S) /\ AtMostOne(q, S)
  BY <1>1 DEF None, AtMostOne
<1> QED
  BY <1>2, <1>3, <1>4

---------------------------------------------------------------------------
(* What a step does to the connection it is about, and that it does        *)
(* nothing to the others.                                                  *)

SameAt(d) ==
    /\ sub'[d] = sub[d] /\ task'[d] = task[d] /\ sid'[d] = sid[d] /\ call'[d] = call[d]
    /\ toMaster'[d] = toMaster[d] /\ toSub'[d] = toSub[d] /\ acked'[d] = acked[d] /\ clean'[d] = clean[d]

OnlyAt(c) == Domains' /\ \A d \in Conns : d # c => SameAt(d)

LEMMA FirstEffect ==
  ASSUME Domains, NEW c \in Conns, First(c)
  PROVE  /\ OnlyAt(c) /\ task[c] = "first"
         /\ sub'[c] = sub[c] /\ call'[c] = call[c] /\ toSub'[c] = toSub[c] /\ acked'[c] = acked[c] /\ clean'[c] = clean[c]
         /\ \/ toMaster[c] # <<>> /\ toMaster'[c] = Tail(toMaster[c])
            \/ toMaster'[c] = toMaster[c] /\ task'[c] = "ended"
         /\ \/ task'[c] = "ended" /\ sid'[c] = sid[c] /\ UNCHANGED sessions
            \/ task'[c] = "opening" /\ Head(toMaster[c]).type = "open" /\ sid'[c] = nextSession
               /\ sessions' = sessions \cup {nextSession}
         /\ UNCHANGED <<subtrees, packet, pending, fwd>>
<1>1. UNCHANGED <<sub, call, toSub, acked, clean, todo, subtrees, packet, pending, fwd>> /\ task[c] = "first"
  BY DEF First, agent
<1>2. CASE /\ toMaster[c] # <<>> /\ toMaster' = [toMaster EXCEPT ![c] = Tail(toMaster[c])]
           /\ Head(toMaster[c]).type = "open" /\ sid' = [sid EXCEPT ![c] = nextSession]
           /\ task' = [task EXCEPT ![c] = "opening"] /\ sessions' = sessions \cup {nextSession}
  BY <1>1, <1>2 DEF Domains, OnlyAt, SameAt
<1>3. CASE /\ toMaster[c] # <<>> /\ toMaster' = [toMaster EXCEPT ![c] = Tail(toMaster[c])]
           /\ task' = [task EXCEPT ![c] = "ended"] /\ UNCHANGED <<sid, sessions>>
  BY <1>1, <1>3 DEF Domains, OnlyAt, SameAt
<1>4. CASE task' = [task EXCEPT ![c] = "ended"] /\ UNCHANGED <<sid, sessions, toMaster>>
  BY <1>1, <1>4 DEF Domains, OnlyAt, SameAt
<1> QED
  BY <1>2, <1>3, <1>4 DEF First

LEMMA AnswerEffect ==
  ASSUME Domains, NEW c \in Conns, Answer(c)
  PROVE  /\ OnlyAt(c) /\ Owes(task[c]) /\ ~Owes(task'[c])
         /\ sub'[c] = sub[c] /\ sid'[c] = sid[c] /\ call'[c] = call[c] /\ toMaster'[c] = toMaster[c]
         /\ acked'[c] = acked[c] /\ clean'[c] = clean[c]
         /\ SubUp(c) => \E e : e.type = "response" /\ toSub'[c] = Append(toSub[c], e)
         /\ ~SubUp(c) => toSub'[c] = toSub[c]
         /\ UNCHANGED <<subtrees, sessions, nextSession, packet, pending, fwd>>
<1>1. UNCHANGED <<sub, sid, call, toMaster, acked, clean, subtrees, sessions, nextSession, packet, pending, fwd>>
      /\ Owes(task[c])
  BY DEF Answer, agent, Owes
<1>2. CASE SubUp(c)
  <2>1. PICK e : e = Ack(ackOf[c])
    OBVIOUS
  <2>2. e.type = "response"
    BY <2>1 DEF Ack
  <2>3. toSub' = [toSub EXCEPT ![c] = Append(toSub[c], e)] /\ task' = [task EXCEPT ![c] = "serving"]
    BY <1>2, <2>1 DEF Answer
  <2>4. toSub'[c] = Append(toSub[c], e) /\ task'[c] = "serving" /\ OnlyAt(c)
    BY <1>1, <2>3 DEF Domains, OnlyAt, SameAt
  <2> QED
    BY <1>1, <1>2, <2>2, <2>4 DEF Owes
<1>3. CASE ~SubUp(c)
  <2>1. task' = [task EXCEPT ![c] = "ended"] /\ UNCHANGED toSub
    BY <1>3 DEF Answer, Writable
  <2>2. task'[c] = "ended" /\ OnlyAt(c)
    BY <1>1, <2>1 DEF Domains, OnlyAt, SameAt
  <2> QED
    BY <1>1, <1>3, <2>1, <2>2 DEF Owes
<1> QED
  BY <1>2, <1>3

\* The task reads a PDU: a call, for which it then owes an answer, or another.
LEMMA ReadEffect ==
  ASSUME Domains, NEW c \in Conns, Read(c)
  PROVE  /\ OnlyAt(c) /\ ~Owes(task[c]) /\ task[c] \in Live /\ toMaster[c] # <<>> /\ toMaster'[c] = Tail(toMaster[c])
         /\ sub'[c] = sub[c] /\ sid'[c] = sid[c] /\ call'[c] = call[c] /\ toSub'[c] = toSub[c]
         /\ acked'[c] = acked[c] /\ clean'[c] = clean[c]
         /\ \/ ReadCall(c) /\ task'[c] = "answering" /\ Head(toMaster[c]).type \in Acked
            \/ (ReadResponse(c) \/ ReadIgnored(c)) /\ task'[c] = "serving"
            \/ ReadClose(c) /\ task'[c] = "ended"
         /\ UNCHANGED <<packet, nextSession>>
<1>1. /\ UNCHANGED <<sub, sid, call, toSub, acked, clean, packet, nextSession>> /\ task[c] = "serving" /\ toMaster[c] # <<>>
      /\ toMaster' = [toMaster EXCEPT ![c] = Tail(toMaster[c])]
  BY DEF Read, agent
<1>2. ~Owes(task[c]) /\ task[c] \in Live
  BY <1>1 DEF Owes, Live
<1>3. CASE ReadCall(c)
  <2>1. task' = [task EXCEPT ![c] = "answering"] /\ Head(toMaster[c]).type \in Acked
    BY <1>3 DEF ReadCall, Acked
  <2>2. OnlyAt(c) /\ toMaster'[c] = Tail(toMaster[c]) /\ task'[c] = "answering"
    BY <1>1, <2>1 DEF Domains, OnlyAt, SameAt
  <2> QED
    BY <1>1, <1>2, <1>3, <2>1, <2>2
<1>4. CASE ReadResponse(c) \/ ReadIgnored(c)
  <2>1. UNCHANGED task
    BY <1>4 DEF ReadResponse, ReadIgnored
  <2>2. OnlyAt(c) /\ toMaster'[c] = Tail(toMaster[c]) /\ task'[c] = "serving"
    BY <1>1, <2>1 DEF Domains, OnlyAt, SameAt
  <2> QED
    BY <1>1, <1>2, <1>4, <2>2
<1>5. CASE ReadClose(c)
  <2>1. task' = [task EXCEPT ![c] = "ended"]
    BY <1>5 DEF ReadClose
  <2>2. OnlyAt(c) /\ toMaster'[c] = Tail(toMaster[c]) /\ task'[c] = "ended"
    BY <1>1, <2>1 DEF Domains, OnlyAt, SameAt
  <2> QED
    BY <1>1, <1>2, <1>5, <2>2
<1> QED
  BY <1>3, <1>4, <1>5 DEF Read

LEMMA ReadEndEffect ==
  ASSUME Domains, NEW c \in Conns, ReadEnd(c)
  PROVE  /\ OnlyAt(c) /\ ReclaimSession(sid[c]) /\ ~SubUp(c) /\ task'[c] = "ended" /\ sid'[c] = sid[c]
         /\ sub'[c] = sub[c] /\ call'[c] = call[c] /\ toSub'[c] = toSub[c] /\ toMaster'[c] = toMaster[c]
         /\ acked'[c] = acked[c] /\ clean'[c] = clean[c]
         /\ UNCHANGED <<packet, pending, nextSession, fwd>>
<1>1. /\ UNCHANGED <<sub, sid, call, toSub, toMaster, acked, clean, packet, pending, nextSession, fwd>>
      /\ task' = [task EXCEPT ![c] = "ended"] /\ ReclaimSession(sid[c]) /\ ~SubUp(c)
  BY DEF ReadEnd, agent
<1>2. OnlyAt(c) /\ task'[c] = "ended"
  BY <1>1 DEF Domains, OnlyAt, SameAt
<1> QED
  BY <1>1, <1>2

\* Steps of the subagent leave the master alone.
MasterSame == UNCHANGED <<subtrees, sessions, nextSession, packet, pending, fwd>>

LEMMA GoneEffect ==
  ASSUME Domains, NEW c \in Conns, SubGone(c), UNCHANGED <<task, sid, toMaster, clean>>
  PROVE  /\ OnlyAt(c) /\ sub'[c] = "gone" /\ toSub'[c] = <<>> /\ acked'[c] = {}
         /\ task'[c] = task[c] /\ sid'[c] = sid[c] /\ toMaster'[c] = toMaster[c] /\ clean'[c] = clean[c]
<1>1. /\ sub' = [sub EXCEPT ![c] = "gone"] /\ toSub' = [toSub EXCEPT ![c] = <<>>]
      /\ call' = [call EXCEPT ![c] = NoCall] /\ acked' = [acked EXCEPT ![c] = {}]
  BY DEF SubGone
<1> QED
  BY <1>1 DEF Domains, OnlyAt, SameAt

LEMMA OpenedEffect ==
  ASSUME Domains, NEW c \in Conns, Opened(c)
  PROVE  /\ OnlyAt(c) /\ MasterSame /\ sub[c] = "opening" /\ sub'[c] = "ready"
         /\ toSub[c] # <<>> /\ toSub'[c] = Tail(toSub[c]) /\ toMaster'[c] = toMaster[c]
         /\ task'[c] = task[c] /\ sid'[c] = sid[c] /\ call'[c] = call[c] /\ acked'[c] = acked[c] /\ clean'[c] = clean[c]
<1>1. /\ toSub' = [toSub EXCEPT ![c] = Tail(toSub[c])] /\ sub' = [sub EXCEPT ![c] = "ready"] /\ sub[c] = "opening"
      /\ UNCHANGED <<task, sid, call, toMaster, acked, clean>> /\ MasterSame /\ toSub[c] # <<>>
  BY DEF Opened, master, MasterSame
<1> QED
  BY <1>1 DEF Domains, OnlyAt, SameAt

LEMMA RunEffect ==
  ASSUME Domains, NEW c \in Conns, Run(c)
  PROVE  /\ OnlyAt(c) /\ MasterSame /\ sub[c] = "ready" /\ sub'[c] = "running"
         /\ toSub'[c] = toSub[c] /\ toMaster'[c] = toMaster[c]
         /\ task'[c] = task[c] /\ sid'[c] = sid[c] /\ call'[c] = call[c] /\ acked'[c] = acked[c] /\ clean'[c] = clean[c]
<1>1. /\ sub' = [sub EXCEPT ![c] = "running"] /\ sub[c] = "ready"
      /\ UNCHANGED <<task, sid, call, toMaster, toSub, acked, clean>> /\ MasterSame
  BY DEF Run, master, MasterSame
<1> QED
  BY <1>1 DEF Domains, OnlyAt, SameAt

LEMMA ConnectEffect ==
  ASSUME Domains, NEW c \in Conns, NEW first \in {"open", "unexpected"}, Connect(c, first)
  PROVE  /\ OnlyAt(c) /\ MasterSame /\ sub[c] = "off" /\ sub'[c] = "opening" /\ task'[c] = "first"
         /\ toSub'[c] = toSub[c] /\ (\E e : e.type \in {"open", "unexpected"} /\ toMaster'[c] = <<e>>)
         /\ sid'[c] = sid[c] /\ call'[c] = call[c] /\ acked'[c] = acked[c] /\ clean'[c] = clean[c]
<1>0. PICK e : e = [type |-> first, packet |-> 1]
  OBVIOUS
<1>1. /\ sub' = [sub EXCEPT ![c] = "opening"] /\ sub[c] = "off" /\ task' = [task EXCEPT ![c] = "first"]
      /\ toMaster' = [toMaster EXCEPT ![c] = <<e>>]
      /\ UNCHANGED <<sid, call, toSub, acked, clean>> /\ MasterSame
  BY <1>0 DEF Connect, master, MasterSame
<1>2. e.type \in {"open", "unexpected"}
  BY <1>0
<1>3. toMaster'[c] = <<e>> /\ OnlyAt(c) /\ sub'[c] = "opening" /\ task'[c] = "first"
  BY <1>1 DEF Domains, OnlyAt, SameAt
<1> QED
  BY <1>1, <1>2, <1>3

\* The subagent is gone after the step.
GoesAt(c) == sub'[c] = "gone" /\ toSub'[c] = <<>> /\ acked'[c] = {} /\ toMaster'[c] = toMaster[c] /\ clean'[c] = clean[c]

LEMMA EndEffect ==
  ASSUME Domains, NEW c \in Conns, SubEnd(c) \/ Die(c)
  PROVE  OnlyAt(c) /\ MasterSame /\ GoesAt(c) /\ task'[c] = task[c] /\ sid'[c] = sid[c]
<1>1. SubGone(c) /\ UNCHANGED <<task, sid, toMaster, clean>> /\ MasterSame
  BY DEF SubEnd, Die, master, MasterSame
<1> QED
  BY <1>1, GoneEffect DEF GoesAt

LEMMA CallReturnsEffect ==
  ASSUME Domains, NEW c \in Conns, CallReturns(c)
  PROVE  /\ OnlyAt(c) /\ MasterSame /\ sub[c] = "calling" /\ toSub[c] # <<>>
         /\ task'[c] = task[c] /\ sid'[c] = sid[c] /\ toMaster'[c] = toMaster[c]
         /\ \/ GoesAt(c)
            \/ /\ sub'[c] = "ready" /\ toSub'[c] = Tail(toSub[c])
               /\ clean'[c] => clean[c] /\ Head(toSub[c]).type = "response"
               /\ \/ acked'[c] = acked[c]
                  \/ call[c].type = "register" /\ acked'[c] = acked[c] \cup {call[c].subtree}
<1>1. UNCHANGED <<task, sid, toMaster>> /\ MasterSame /\ sub[c] = "calling" /\ toSub[c] # <<>>
  BY DEF CallReturns, master, MasterSame
<1>2. CASE SubGone(c) /\ UNCHANGED clean
  BY <1>1, <1>2, GoneEffect DEF GoesAt
<1>3. CASE /\ toSub' = [toSub EXCEPT ![c] = Tail(toSub[c])] /\ sub' = [sub EXCEPT ![c] = "ready"]
           /\ call' = [call EXCEPT ![c] = NoCall]
           /\ clean' = [clean EXCEPT ![c] = clean[c] /\ Head(toSub[c]).type = "response"]
           /\ acked' = IF call[c].type = "register" THEN [acked EXCEPT ![c] = acked[c] \cup {call[c].subtree}] ELSE acked
  <2>1. PICK b : b = (clean[c] /\ Head(toSub[c]).type = "response")
    OBVIOUS
  <2>2. clean' = [clean EXCEPT ![c] = b]
    BY <1>3, <2>1
  <2>3. PICK y : /\ DOMAIN acked' = Conns /\ acked'[c] = y /\ (\A d \in Conns : d # c => acked'[d] = acked[d])
                 /\ y = acked[c] \/ (call[c].type = "register" /\ y = acked[c] \cup {call[c].subtree})
    <3>1. CASE call[c].type = "register"
      BY <1>3, <3>1 DEF Domains
    <3>2. CASE call[c].type # "register"
      BY <1>3, <3>2 DEF Domains
    <3> QED
      BY <3>1, <3>2
  <2>4. OnlyAt(c) /\ sub'[c] = "ready" /\ toSub'[c] = Tail(toSub[c]) /\ clean'[c] = b /\ acked'[c] = y
    BY <1>1, <1>3, <2>2, <2>3 DEF Domains, OnlyAt, SameAt
  <2> QED
    BY <1>1, <2>1, <2>3, <2>4
<1> QED
  BY <1>2, <1>3 DEF CallReturns

LEMMA CallTypes ==
  ASSUME NEW c \in Conns, NEW pdu \in Calls[c]
  PROVE  pdu.type \notin {"response", "open"} /\ (pdu.type \in Acked <=> pdu.type \notin Ignored \cup {"close"})
<1>1. pdu \in CallShapes
  BY AgentXAssumption
<1>2. pdu.type \in {"register"} \/ pdu.type \in {"unregister"} \/ pdu.type \in AckedOnly \cup Ignored \cup {"close"}
  BY <1>1 DEF CallShapes
<1> QED
  BY <1>2 DEF Acked, AckedOnly, Ignored

LEMMA MakeCallEffect ==
  ASSUME Domains, NEW c \in Conns, NEW pdu \in Calls[c], MakeCall(c, pdu)
  PROVE  /\ OnlyAt(c) /\ MasterSame /\ sub[c] = "ready" /\ task'[c] = task[c] /\ sid'[c] = sid[c]
         /\ \/ GoesAt(c)
            \/ /\ toMaster'[c] = Append(toMaster[c], pdu) /\ toSub'[c] = toSub[c] /\ clean'[c] = clean[c]
               /\ \/ pdu.type \notin Acked /\ sub'[c] = "ready" /\ call'[c] = call[c]
                  \/ pdu.type \in Acked /\ sub'[c] = "calling" /\ call'[c] = pdu
               /\ \A x \in acked'[c] : x \in acked[c]
               /\ pdu.type = "unregister" => pdu.subtree \notin acked'[c]
<1>1. UNCHANGED <<task, sid, clean>> /\ MasterSame /\ sub[c] = "ready"
  BY DEF MakeCall, master, MasterSame
<1>2. CASE SubGone(c) /\ UNCHANGED toMaster
  BY <1>1, <1>2, GoneEffect DEF GoesAt
<1>3. CASE /\ toMaster' = [toMaster EXCEPT ![c] = Append(toMaster[c], pdu)] /\ UNCHANGED toSub
           /\ \/ pdu.type \in Ignored \cup {"close"} /\ UNCHANGED <<sub, call>>
              \/ /\ pdu.type \notin Ignored \cup {"close"}
                 /\ sub' = [sub EXCEPT ![c] = "calling"] /\ call' = [call EXCEPT ![c] = pdu]
           /\ acked' = IF pdu.type = "unregister" THEN [acked EXCEPT ![c] = acked[c] \ {pdu.subtree}] ELSE acked
  <2>1. PICK y : /\ DOMAIN acked' = Conns /\ acked'[c] = y /\ (\A d \in Conns : d # c => acked'[d] = acked[d])
                 /\ (\A x \in y : x \in acked[c])
                 /\ (pdu.type = "unregister" => pdu.subtree \notin y)
    <3>1. CASE pdu.type = "unregister"
      <4>1. acked' = [acked EXCEPT ![c] = acked[c] \ {pdu.subtree}]
        BY <1>3, <3>1
      <4> QED
        BY <4>1 DEF Domains
    <3>2. CASE pdu.type # "unregister"
      BY <1>3, <3>2 DEF Domains
    <3> QED
      BY <3>1, <3>2
  <2>2. PICK u, v : /\ DOMAIN sub' = Conns /\ sub'[c] = u /\ (\A d \in Conns : d # c => sub'[d] = sub[d])
                    /\ DOMAIN call' = Conns /\ call'[c] = v /\ (\A d \in Conns : d # c => call'[d] = call[d])
                    /\ \/ pdu.type \notin Acked /\ u = "ready" /\ v = call[c]
                       \/ pdu.type \in Acked /\ u = "calling" /\ v = pdu
    <3>1. CASE pdu.type \in Ignored \cup {"close"}
      <4>1. pdu.type \notin Acked
        BY <3>1, CallTypes
      <4> QED
        BY <1>1, <1>3, <3>1, <4>1 DEF Domains
    <3>2. CASE pdu.type \notin Ignored \cup {"close"}
      BY <1>3, <3>2, CallTypes DEF Domains
    <3> QED
      BY <3>1, <3>2
  <2>3. OnlyAt(c) /\ toMaster'[c] = Append(toMaster[c], pdu) /\ sub'[c] = u /\ call'[c] = v /\ acked'[c] = y
    BY <1>1, <1>3, <2>1, <2>2 DEF Domains, OnlyAt, SameAt
  <2> QED
    BY <1>1, <1>3, <2>1, <2>2, <2>3
<1> QED
  BY <1>2, <1>3 DEF MakeCall

LEMMA ServeEffect ==
  ASSUME Domains, NEW c \in Conns, ServeRequest(c)
  PROVE  /\ OnlyAt(c) /\ MasterSame /\ sub[c] = "running" /\ toSub[c] # <<>> /\ toSub'[c] = Tail(toSub[c])
         /\ sub'[c] = sub[c] /\ task'[c] = task[c] /\ sid'[c] = sid[c] /\ call'[c] = call[c]
         /\ acked'[c] = acked[c] /\ clean'[c] = clean[c]
         /\ \E e : /\ toMaster'[c] = Append(toMaster[c], e) /\ e.type = "response" /\ e.packet = Head(toSub[c]).packet
                   /\ Head(toSub[c]).type \in RequestKinds =>
                        e.of = AsRead([kind |-> Head(toSub[c]).type, oid |-> Head(toSub[c]).oid])
<1>1. /\ UNCHANGED <<sub, task, sid, call, acked, clean>> /\ MasterSame /\ sub[c] = "running" /\ toSub[c] # <<>>
      /\ toSub' = [toSub EXCEPT ![c] = Tail(toSub[c])]
  BY DEF ServeRequest, master, agent, MasterSame
<1>2. PICK pdu : pdu = Head(toSub[c])
  OBVIOUS
<1>3. PICK r, o : /\ toMaster' = [toMaster EXCEPT ![c] = Append(toMaster[c],
                        [type |-> "response", packet |-> pdu.packet, outcome |-> r, of |-> o])]
                  /\ pdu.type \in RequestKinds => o = AsRead([kind |-> pdu.type, oid |-> pdu.oid])
  BY <1>2 DEF ServeRequest
<1>4. PICK e : e = [type |-> "response", packet |-> pdu.packet, outcome |-> r, of |-> o]
  OBVIOUS
<1>5. e.type = "response" /\ e.packet = pdu.packet /\ e.of = o
  BY <1>4
<1>6. toMaster'[c] = Append(toMaster[c], e) /\ toSub'[c] = Tail(toSub[c]) /\ OnlyAt(c)
  BY <1>1, <1>3, <1>4 DEF Domains, OnlyAt, SameAt
<1> QED
  BY <1>1, <1>2, <1>3, <1>5, <1>6

LEMMA WriteEffect ==
  ASSUME Domains, NEW f \in Forwarders, Write(f), NEW c \in Conns, c = ConnOf(fwd[f].sid), SubUp(c)
  PROVE  /\ OnlyAt(c) /\ UNCHANGED <<subtrees, sessions, nextSession, packet, pending>>
         /\ sub'[c] = sub[c] /\ task'[c] = task[c] /\ sid'[c] = sid[c] /\ call'[c] = call[c]
         /\ acked'[c] = acked[c] /\ clean'[c] = clean[c] /\ toMaster'[c] = toMaster[c]
         /\ \E e : /\ toSub'[c] = Append(toSub[c], e) /\ e.type = fwd[f].ask.kind /\ e.oid = fwd[f].ask.oid
                   /\ e.packet = fwd[f].packet
<1>1. UNCHANGED <<sub, task, sid, call, acked, clean, toMaster, subtrees, sessions, nextSession, packet, pending>>
  BY DEF Write, master, agent
<1>2. PICK e : e = [type |-> fwd[f].ask.kind, oid |-> fwd[f].ask.oid, packet |-> fwd[f].packet]
  OBVIOUS
<1>3. e.type = fwd[f].ask.kind /\ e.oid = fwd[f].ask.oid /\ e.packet = fwd[f].packet
  BY <1>2
<1>4. toSub' = [toSub EXCEPT ![c] = Append(toSub[c], e)]
  BY <1>2 DEF Write
<1>5. toSub'[c] = Append(toSub[c], e) /\ OnlyAt(c)
  BY <1>1, <1>4 DEF Domains, OnlyAt, SameAt
<1> QED
  BY <1>1, <1>3, <1>5

\* The other steps of a forwarder touch no connection.
AllSame == Domains' /\ \A d \in Conns : SameAt(d)

LEMMA ForwarderEffect ==
  ASSUME Domains, NEW f \in Forwarders,
         \/ \E ask : Ask(f, ask)
         \/ Enter(f) \/ Finish(f) \/ Timeout(f)
         \/ Write(f) /\ ~SubUp(ConnOf(fwd[f].sid))
  PROVE  AllSame /\ UNCHANGED <<subtrees, sessions, nextSession, sid, clean, sub>>
<1>1. UNCHANGED <<sub, task, sid, call, toMaster, toSub, acked, clean, subtrees, sessions, nextSession>>
  BY DEF Ask, Enter, Finish, Timeout, Write, Writable, master, agent
<1> QED
  BY <1>1 DEF AllSame, SameAt, Domains

---------------------------------------------------------------------------
(* The shape of the queues.                                                *)

LEMMA ShapeAt ==
  ASSUME ShapeInv, NEW c \in Conns, OnlyAt(c), Shape(sub'[c], sid'[c], toMaster'[c], toSub'[c], acked'[c])
  PROVE  ShapeInv'
<1>1. \A d \in Conns : Shape(sub'[d], sid'[d], toMaster'[d], toSub'[d], acked'[d])
  BY DEF ShapeInv, OnlyAt, SameAt
<1> QED
  BY <1>1 DEF ShapeInv, OnlyAt

LEMMA TokensAt ==
  ASSUME TokenInv, NEW c \in Conns, OnlyAt(c), Tokens(sub'[c], task'[c], toMaster'[c], toSub'[c], clean'[c])
  PROVE  TokenInv'
<1>1. \A d \in Conns : Tokens(sub'[d], task'[d], toMaster'[d], toSub'[d], clean'[d])
  BY DEF TokenInv, OnlyAt, SameAt
<1> QED
  BY <1>1 DEF TokenInv

\* A request in the hands of a forwarder is for a session of a connection.
LEMMA HolderConn ==
  ASSUME SessionInv, CountInv, PacketInv, NEW f \in Forwarders, Uses(fwd[f])
  PROVE  \E c \in Conns : sid[c] = fwd[f].sid /\ sid[c] # 0 /\ ConnOf(fwd[f].sid) = c
<1>1. fwd[f].sid \in Ids
  BY DEF PacketInv, FwdTypes, FwdType, Uses, Holds
<1>2. fwd[f].sid \in Nat /\ fwd[f].sid # 0 /\ fwd[f].sid < nextSession /\ nextSession \in Nat
  BY <1>1 DEF Ids, SessionInv
<1>3. PICK c \in Conns : sid[c] = fwd[f].sid
  BY <1>2 DEF CountInv
<1> QED
  BY <1>2, <1>3, ConnOfSid

LEMMA ShapeInvStep ==
  ASSUME StartInv, SessionInv, CountInv, PacketInv, ShapeInv, [Next]_vars
  PROVE  ShapeInv'
<1>0. Domains /\ \A c \in Conns : Shape(sub[c], sid[c], toMaster[c], toSub[c], acked[c])
  BY DEF ShapeInv
<1>1. CASE AllSame
  BY <1>0, <1>1 DEF AllSame, SameAt, ShapeInv
<1>2. ASSUME NEW c \in Conns, OnlyAt(c), sub'[c] = sub[c], sid'[c] = sid[c] \/ (sid[c] = 0 /\ sid'[c] # 0),
             toSub'[c] = toSub[c], acked'[c] = acked[c],
             toMaster'[c] = toMaster[c] \/ (toMaster[c] # <<>> /\ toMaster'[c] = Tail(toMaster[c]))
      PROVE  ShapeInv'
  <2>1. /\ IsSeq(toMaster'[c])
        /\ \A S : None(toMaster[c], S) => None(toMaster'[c], S)
    BY <1>0, <1>2, TailOfQueue, TailTypes DEF Shape
  <2>2. Shape(sub'[c], sid'[c], toMaster'[c], toSub'[c], acked'[c])
    BY <1>0, <1>2, <2>1 DEF Shape
  <2> QED
    BY <1>2, <2>2, ShapeAt
<1>3. ASSUME NEW c \in Conns, OnlyAt(c), GoesAt(c), sid'[c] = sid[c] PROVE ShapeInv'
  <2>1. Shape(sub'[c], sid'[c], toMaster'[c], toSub'[c], acked'[c])
    BY <1>0, <1>3 DEF Shape, GoesAt, IsSeq
  <2> QED
    BY <1>3, <2>1, ShapeAt
<1>4. ASSUME NEW c \in Conns, First(c) PROVE ShapeInv'
  <2>1. nextSession # 0 /\ (task[c] = "first" => sid[c] = 0)
    BY DEF SessionInv
  <2> QED
    BY <1>0, <1>2, <1>4, <2>1, FirstEffect
<1>5. ASSUME NEW c \in Conns, Answer(c) PROVE ShapeInv'
  <2>0. PICK q : q = toSub'[c] /\ OnlyAt(c)
    BY <1>0, <1>5, AnswerEffect
  <2>1. sid[c] # 0
    BY <1>5 DEF SessionInv, Answer, Live
  <2>2. IsSeq(q)
    <3>1. IsSeq(toSub[c])
      BY <1>0 DEF Shape
    <3>2. q = toSub[c] \/ \E e : q = Append(toSub[c], e)
      BY <1>0, <1>5, <2>0, AnswerEffect
    <3> QED
      BY <3>1, <3>2, AppendToQueue
  <2>3. Shape(sub'[c], sid'[c], toMaster'[c], toSub'[c], acked'[c])
    BY <1>0, <1>5, <2>0, <2>1, <2>2, AnswerEffect DEF Shape
  <2> QED
    BY <2>0, <2>3, ShapeAt
<1>6. ASSUME NEW c \in Conns, Read(c) \/ ReadEnd(c) PROVE ShapeInv'
  BY <1>0, <1>2, <1>6, ReadEffect, ReadEndEffect
<1>7. ASSUME NEW c \in Conns, SubEnd(c) \/ Die(c) PROVE ShapeInv'
  BY <1>0, <1>3, <1>7, EndEffect
<1>8. ASSUME NEW c \in Conns, OnlyAt(c), sid[c] # 0, sid'[c] = sid[c], IsSeq(toMaster'[c]), IsSeq(toSub'[c]),
             sub'[c] \in {"ready", "calling", "running"}
      PROVE  ShapeInv'
  <2>1. Shape(sub'[c], sid'[c], toMaster'[c], toSub'[c], acked'[c])
    BY <1>8 DEF Shape
  <2> QED
    BY <1>8, <2>1, ShapeAt
<1>9. ASSUME NEW c \in Conns, Opened(c) \/ CallReturns(c) PROVE ShapeInv'
  <2>1. /\ OnlyAt(c) /\ sid'[c] = sid[c] /\ toMaster'[c] = toMaster[c] /\ toSub[c] # <<>>
        /\ GoesAt(c) \/ (sub'[c] = "ready" /\ toSub'[c] = Tail(toSub[c]))
    BY <1>0, <1>9, OpenedEffect, CallReturnsEffect
  <2>2. sid[c] # 0 /\ IsSeq(toMaster[c]) /\ IsSeq(Tail(toSub[c]))
    BY <1>0, <2>1, TailOfQueue DEF Shape
  <2> QED
    BY <1>3, <1>8, <2>1, <2>2
<1>10. ASSUME NEW c \in Conns, Run(c) PROVE ShapeInv'
  <2>1. /\ OnlyAt(c) /\ sid'[c] = sid[c] /\ toMaster'[c] = toMaster[c] /\ toSub'[c] = toSub[c]
        /\ sub[c] = "ready" /\ sub'[c] = "running"
    BY <1>0, <1>10, RunEffect
  <2>2. sid[c] # 0 /\ IsSeq(toMaster[c]) /\ IsSeq(toSub[c])
    BY <1>0, <2>1 DEF Shape
  <2> QED
    BY <1>8, <2>1, <2>2
<1>11. ASSUME NEW c \in Conns, ServeRequest(c) PROVE ShapeInv'
  <2>1. /\ OnlyAt(c) /\ sid'[c] = sid[c] /\ toSub'[c] = Tail(toSub[c]) /\ toSub[c] # <<>>
        /\ sub[c] = "running" /\ sub'[c] = "running" /\ \E e : toMaster'[c] = Append(toMaster[c], e)
    BY <1>0, <1>11, ServeEffect
  <2>2. sid[c] # 0 /\ IsSeq(toMaster[c]) /\ IsSeq(toSub[c])
    BY <1>0, <2>1 DEF Shape
  <2>3. IsSeq(toMaster'[c]) /\ IsSeq(toSub'[c])
    BY <2>1, <2>2, TailOfQueue, AppendToQueue
  <2> QED
    BY <1>8, <2>1, <2>2, <2>3
<1>12. ASSUME NEW c \in Conns, NEW pdu \in Calls[c], MakeCall(c, pdu) PROVE ShapeInv'
  <2>1. /\ OnlyAt(c) /\ sid'[c] = sid[c] /\ sub[c] = "ready"
        /\ \/ GoesAt(c)
           \/ toMaster'[c] = Append(toMaster[c], pdu) /\ toSub'[c] = toSub[c] /\ sub'[c] \in {"ready", "calling"}
    BY <1>0, <1>12, MakeCallEffect
  <2>2. sid[c] # 0 /\ IsSeq(toMaster[c]) /\ IsSeq(toSub[c])
    BY <1>0, <2>1 DEF Shape
  <2>3. IsSeq(Append(toMaster[c], pdu))
    BY <2>2, AppendToQueue
  <2> QED
    BY <1>3, <1>8, <2>1, <2>2, <2>3
<1>13. ASSUME NEW c \in Conns, NEW first \in {"open", "unexpected"}, Connect(c, first) PROVE ShapeInv'
  <2>1. PICK e : e.type \in {"open", "unexpected"} /\ toMaster'[c] = <<e>>
    BY <1>0, <1>13, ConnectEffect
  <2>2. PICK q : q = <<e>> /\ toMaster'[c] = q
    BY <2>1
  <2>3. IsSeq(q) /\ None(q, {"response"}) /\ None(q, {"register"})
    <3>1. q \in Seq({e}) /\ DOMAIN q = {1} /\ q[1] = e
      BY <2>2
    <3> QED
      BY <2>1, <3>1 DEF IsSeq, None
  <2>4. OnlyAt(c) /\ sub[c] = "off" /\ sub'[c] = "opening" /\ toSub'[c] = toSub[c] /\ sid'[c] = sid[c] /\ acked'[c] = acked[c]
    BY <1>0, <1>13, ConnectEffect
  <2>5. Shape(sub'[c], sid'[c], toMaster'[c], toSub'[c], acked'[c])
    BY <1>0, <2>2, <2>3, <2>4 DEF Shape
  <2> QED
    BY <2>4, <2>5, ShapeAt
<1>14. ASSUME NEW f \in Forwarders, Write(f) PROVE ShapeInv'
  <2>1. PICK c \in Conns : sid[c] = fwd[f].sid /\ sid[c] # 0 /\ ConnOf(fwd[f].sid) = c
    BY <1>14, HolderConn DEF Write, Uses
  <2>2. CASE ~SubUp(c)
    BY <1>0, <1>1, <1>14, <2>1, <2>2, ForwarderEffect
  <2>3. CASE SubUp(c)
    <3>1. /\ OnlyAt(c) /\ sub'[c] = sub[c] /\ sid'[c] = sid[c] /\ acked'[c] = acked[c] /\ toMaster'[c] = toMaster[c]
          /\ \E e : toSub'[c] = Append(toSub[c], e)
      BY <1>0, <1>14, <2>1, <2>3, WriteEffect
    <3>2. IsSeq(toSub'[c])
      BY <1>0, <3>1, AppendToQueue DEF Shape
    <3>3. Shape(sub'[c], sid'[c], toMaster'[c], toSub'[c], acked'[c])
      BY <1>0, <2>1, <3>1, <3>2 DEF Shape
    <3> QED
      BY <3>1, <3>3, ShapeAt
  <2> QED
    BY <2>2, <2>3
<1>15. ASSUME NEW f \in Forwarders, (\E ask : Ask(f, ask)) \/ Enter(f) \/ Finish(f) \/ Timeout(f) PROVE ShapeInv'
  BY <1>0, <1>1, <1>15, ForwarderEffect
<1> QED
  <2>1. CASE UNCHANGED vars
    <3>1. AllSame
      BY <1>0, <2>1 DEF vars, master, agent, AllSame, SameAt, Domains
    <3> QED
      BY <1>1, <3>1
  <2>2. CASE Next
    BY <1>4, <1>5, <1>6, <1>7, <1>9, <1>10, <1>11, <1>12, <1>13, <1>14, <1>15, <2>2 DEF Next, Task, Subagent, Forward
  <2> QED
    BY <2>1, <2>2

---------------------------------------------------------------------------
(* What a step makes of the table and of the forwarders.                   *)

LEMMA ReclaimTable ==
  ASSUME IsSeq(subtrees), NEW s, ReclaimSession(s)
  PROVE  /\ \A k \in DOMAIN subtrees' : \E i \in DOMAIN subtrees : subtrees'[k] = subtrees[i]
         /\ \A i \in DOMAIN subtrees : subtrees[i].sid # s => \E k \in DOMAIN subtrees' : subtrees'[k] = subtrees[i]
         /\ sessions' = sessions \ {s}
<1>1. PICK I : I = {i \in DOMAIN subtrees : subtrees[i].sid # s}
  OBVIOUS
<1>2. subtrees' = Retain(subtrees, I) /\ sessions' = sessions \ {s} /\ I \in SUBSET DOMAIN subtrees
  BY <1>1 DEF ReclaimSession
<1>3. /\ \A k \in DOMAIN subtrees' : \E i \in I : subtrees'[k] = subtrees[i]
      /\ \A i \in I : \E k \in DOMAIN subtrees' : subtrees'[k] = subtrees[i]
  BY <1>2, RetainedProperties
<1> QED
  BY <1>1, <1>2, <1>3

LEMMA ReadTable ==
  ASSUME IsSeq(subtrees), NEW c \in Conns, Read(c), NEW pdu, pdu = Head(toMaster[c])
  PROVE  /\ \A k \in DOMAIN subtrees' : \/ \E i \in DOMAIN subtrees : subtrees'[k] = subtrees[i]
                                        \/ subtrees'[k].sid = sid[c] /\ pdu.type = "register"
         /\ \A i \in DOMAIN subtrees : \/ \E k \in DOMAIN subtrees' : subtrees'[k] = subtrees[i]
                                       \/ subtrees[i].sid = sid[c] /\ sid[c] \notin sessions'
                                       \/ /\ subtrees[i].sid = sid[c] /\ pdu.type = "unregister"
                                          /\ subtrees[i].subtree = pdu.subtree
         /\ ReadCall(c) /\ pdu.type = "register" =>
              \E k \in DOMAIN subtrees' : subtrees'[k].sid = sid[c] /\ subtrees'[k].subtree = pdu.subtree
         /\ \A s : s \in sessions' => s \in sessions
         /\ \A s : s \in sessions /\ s # sid[c] => s \in sessions'
<1>1. CASE UNCHANGED <<subtrees, sessions>> /\ ~(ReadCall(c) /\ pdu.type = "register")
  BY <1>1
<1>2. CASE ReadClose(c)
  <2>1. ReclaimSession(sid[c]) /\ pdu.type = "close"
    BY <1>2 DEF ReadClose
  <2> QED
    BY <2>1, ReclaimTable
<1>3. CASE ReadResponse(c) \/ ReadIgnored(c)
  <2>1. UNCHANGED <<subtrees, sessions>> /\ pdu.type # "register"
    BY <1>3 DEF ReadResponse, ReadIgnored, Ignored
  <2> QED
    BY <1>1, <2>1
<1>4. CASE ReadCall(c)
  <2>0. UNCHANGED sessions
    BY <1>4 DEF ReadCall
  <2>1. CASE pdu.type = "register" /\ AddRegistration(sid[c], pdu)
    <3>1. PICK s, x, reg : s = sid[c] /\ x = pdu.subtree /\ reg = Registration(s, pdu)
      OBVIOUS
    <3>2. reg.sid = s /\ reg.subtree = x
      BY <3>1 DEF Registration
    <3>3. subtrees' = Inserted(reg)
      BY <2>1, <3>1 DEF AddRegistration
    <3>4. /\ \A k \in DOMAIN Inserted(reg) : Inserted(reg)[k] = reg \/ \E i \in DOMAIN subtrees : Inserted(reg)[k] = subtrees[i]
          /\ \E k \in DOMAIN Inserted(reg) : Inserted(reg)[k] = reg
          /\ \A i \in DOMAIN subtrees : \E k \in DOMAIN Inserted(reg) : Inserted(reg)[k] = subtrees[i]
      BY InsertedProperties
    <3> QED
      BY <2>0, <2>1, <3>1, <3>2, <3>3, <3>4
  <2>2. CASE pdu.type = "unregister" /\ RemoveRegistration(sid[c], pdu.subtree)
    <3>1. PICK I : I = {i \in DOMAIN subtrees : ~(subtrees[i].sid = sid[c] /\ subtrees[i].subtree = pdu.subtree)}
      OBVIOUS
    <3>2. subtrees' = Retain(subtrees, I) /\ I \in SUBSET DOMAIN subtrees
      BY <2>2, <3>1 DEF RemoveRegistration
    <3>3. /\ \A k \in DOMAIN subtrees' : \E i \in I : subtrees'[k] = subtrees[i]
          /\ \A i \in I : \E k \in DOMAIN subtrees' : subtrees'[k] = subtrees[i]
      BY <3>2, RetainedProperties
    <3> QED
      BY <2>0, <2>2, <3>1, <3>3
  <2>3. CASE pdu.type \in AckedOnly /\ UNCHANGED subtrees
    BY <1>1, <2>0, <2>3 DEF AckedOnly
  <2> QED
    BY <1>4, <2>1, <2>2, <2>3 DEF ReadCall
<1> QED
  BY <1>2, <1>3, <1>4 DEF Read

\* Whoever uses a session after the step used it before, for the same request.
Follows(f) ==
    /\ Uses(fwd'[f]) => Uses(fwd[f]) /\ fwd'[f].sid = fwd[f].sid /\ fwd'[f].ask = fwd[f].ask
    /\ Holds(fwd'[f]) => Uses(fwd'[f])

\* Whoever holds a packet id after the step held it before.
Stays(f) == Holds(fwd'[f]) => Holds(fwd[f]) /\ fwd'[f].packet = fwd[f].packet

LEMMA OneForwarder ==
  ASSUME PacketInv, NEW f \in Forwarders, NEW d, fwd' = [fwd EXCEPT ![f] = d],
         Uses(d) => Uses(fwd[f]) /\ d.sid = fwd[f].sid /\ d.ask = fwd[f].ask
  PROVE  /\ \A g \in Forwarders : Follows(g)
         /\ \A g \in Forwarders : g # f => Stays(g) /\ fwd'[g] = fwd[g]
         /\ fwd'[f] = d
BY DEF PacketInv, PacketTypes, Follows, Stays, Uses, Holds

LEMMA FinishedFollows ==
  ASSUME PacketInv, NEW f \in Forwarders, NEW result, fwd' = Finished(f, result)
  PROVE  /\ \A g \in Forwarders : Follows(g) /\ Stays(g)
         /\ \A g \in Forwarders : g # f => fwd'[g] = fwd[g]
         /\ ~Uses(fwd'[f])
<1>1. PICK d : fwd' = [fwd EXCEPT ![f] = d] /\ d.state = "done"
  BY FinishedFields
<1>2. ~Uses(d) /\ ~Holds(d)
  BY <1>1 DEF Uses, Holds
<1>3. /\ \A g \in Forwarders : Follows(g)
      /\ \A g \in Forwarders : g # f => Stays(g) /\ fwd'[g] = fwd[g]
      /\ fwd'[f] = d
  BY <1>1, <1>2, OneForwarder
<1>4. Stays(f) /\ ~Uses(fwd'[f])
  BY <1>2, <1>3 DEF Stays
<1> QED
  BY <1>3, <1>4

LEMMA WriteFollows ==
  ASSUME PacketInv, NEW f \in Forwarders, Write(f)
  PROVE  /\ \A g \in Forwarders : Follows(g) /\ Stays(g)
         /\ \A g \in Forwarders : Holds(fwd'[g]) => fwd'[g].reply = fwd[g].reply /\ fwd'[g].of = fwd[g].of
<1>0. Holds(fwd[f]) /\ Uses(fwd[f])
  BY DEF Write, Holds, Uses
<1>1. CASE SubUp(ConnOf(fwd[f].sid))
  <2>1. PICK d : /\ fwd' = [fwd EXCEPT ![f] = d] /\ IsFwd(d) /\ d.state = "wait" /\ d.sid = fwd[f].sid
                 /\ d.packet = fwd[f].packet /\ d.reply = fwd[f].reply /\ d.ask = fwd[f].ask /\ d.of = fwd[f].of
    BY <1>1, WriteFields
  <2>2. /\ \A g \in Forwarders : Follows(g)
        /\ \A g \in Forwarders : g # f => Stays(g) /\ fwd'[g] = fwd[g]
        /\ fwd'[f] = d
    BY <1>0, <2>1, OneForwarder
  <2> QED
    BY <1>0, <2>1, <2>2 DEF Stays
<1>2. CASE ~SubUp(ConnOf(fwd[f].sid))
  <2>1. fwd' = Finished(f, "Disconnected")
    BY <1>2 DEF Write, Writable
  <2>2. ~Holds(fwd'[f])
    BY <2>1, FinishedFollows DEF Uses, Holds
  <2> QED
    BY <2>1, <2>2, FinishedFollows
<1> QED
  BY <1>1, <1>2

LEMMA EnterFollows ==
  ASSUME PacketInv, NEW f \in Forwarders, Enter(f)
  PROVE  /\ \A g \in Forwarders : Follows(g)
         /\ \A g \in Forwarders : g # f => Stays(g) /\ fwd'[g] = fwd[g]
<1>0. Uses(fwd[f])
  BY DEF Enter, Uses
<1>1. CASE fwd' = Finished(f, "NoOwner")
  BY <1>1, FinishedFollows
<1>2. ASSUME NEW d, Entered(f, d) PROVE /\ \A g \in Forwarders : Follows(g)
                                        /\ \A g \in Forwarders : g # f => Stays(g) /\ fwd'[g] = fwd[g]
  BY <1>0, <1>2, OneForwarder DEF Entered
<1> QED
  BY <1>1, <1>2, EnterFields

LEMMA ResponseFollows ==
  ASSUME PacketInv, NEW c \in Conns, ReadResponse(c)
  PROVE  \A g \in Forwarders : Follows(g) /\ Stays(g)
<1>1. PICK pdu : pdu = Head(toMaster[c])
  OBVIOUS
<1>2. \A f \in Forwarders :
        /\ ~Matched(c, pdu, f) => fwd'[f] = fwd[f]
        /\ Matched(c, pdu, f) =>
             /\ IsFwd(fwd'[f]) /\ fwd'[f].state = fwd[f].state /\ fwd'[f].sid = fwd[f].sid
             /\ fwd'[f].packet = fwd[f].packet /\ fwd'[f].ask = fwd[f].ask
  BY <1>1, ResponseFields
<1> QED
  BY <1>2 DEF Follows, Stays, Uses, Holds

---------------------------------------------------------------------------
(* Before the answer to Open is read.                                      *)

LEMMA OpenKept ==
  ASSUME OpenInv, \A f \in Forwarders : Follows(f),
         \A c \in Conns : sub'[c] = "opening" =>
            /\ sub[c] = "opening" /\ sid'[c] = sid[c]
            /\ \A k \in DOMAIN toSub'[c] : \/ toSub'[c][k].type = "response"
                                           \/ \E l \in DOMAIN toSub[c] : toSub'[c][k] = toSub[c][l]
            /\ \A i \in DOMAIN subtrees' : subtrees'[i].sid # sid[c]
  PROVE  OpenInv'
<1>1. \A f \in Forwarders : Uses(fwd'[f]) => fwd'[f].ask \in [kind : RequestKinds, oid : Oids]
  BY DEF OpenInv, Follows
<1>2. ASSUME NEW c \in Conns, sub'[c] = "opening"
      PROVE  /\ \A i \in DOMAIN subtrees' : subtrees'[i].sid # sid'[c]
             /\ \A f \in Forwarders : Uses(fwd'[f]) => fwd'[f].sid # sid'[c]
             /\ \A k \in DOMAIN toSub'[c] : toSub'[c][k].type = "response"
  BY <1>2 DEF OpenInv, Follows
<1> QED
  BY <1>1, <1>2 DEF OpenInv, Uses

\* A step that changes no table, forwarder or queue to a subagent that opens.
LEMMA OpenSame ==
  ASSUME OpenInv, UNCHANGED <<subtrees, fwd>>,
         \A c \in Conns : sub'[c] = "opening" => sub[c] = "opening" /\ sid'[c] = sid[c] /\ toSub'[c] = toSub[c]
  PROVE  OpenInv'
<1>1. \A f \in Forwarders : Follows(f)
  BY DEF Follows, Uses, Holds
<1>2. ASSUME NEW c \in Conns, sub'[c] = "opening"
      PROVE  /\ sub[c] = "opening" /\ sid'[c] = sid[c]
             /\ \A k \in DOMAIN toSub'[c] : \/ toSub'[c][k].type = "response"
                                            \/ \E l \in DOMAIN toSub[c] : toSub'[c][k] = toSub[c][l]
             /\ \A i \in DOMAIN subtrees' : subtrees'[i].sid # sid[c]
  BY <1>2 DEF OpenInv
<1> QED
  BY <1>1, <1>2, OpenKept

LEMMA OpenInvStep ==
  ASSUME StartInv, SessionInv, CountInv, PacketInv, ShapeInv, OpenInv, [Next]_vars
  PROVE  OpenInv'
<1>0. Domains /\ \A c \in Conns : Shape(sub[c], sid[c], toMaster[c], toSub[c], acked[c])
  BY DEF ShapeInv
<1>s. IsSeq(subtrees) /\ \A i \in DOMAIN subtrees : subtrees[i].sid \in sessions
  BY DEF SessionInv
<1>t. \A s \in sessions : s \in Nat /\ s # 0 /\ s < nextSession
  BY DEF SessionInv
<1>u. \A f \in Forwarders : Uses(fwd[f]) => fwd[f].sid \in Nat /\ fwd[f].sid # 0 /\ fwd[f].sid < nextSession
  BY IdsBounded DEF PacketInv, FwdTypes, FwdType, Uses, Holds, Ids
<1>1. CASE AllSame /\ UNCHANGED <<subtrees, fwd>>
  BY <1>1, OpenSame DEF AllSame, SameAt
<1>2. ASSUME NEW c \in Conns, OnlyAt(c), UNCHANGED <<subtrees, fwd>>,
             sub'[c] = "opening" => sub[c] = "opening" /\ sid'[c] = sid[c] /\ toSub'[c] = toSub[c]
      PROVE  OpenInv'
  BY <1>2, OpenSame DEF OnlyAt, SameAt
<1>3. ASSUME NEW c \in Conns, UNCHANGED <<subtrees, fwd>>, OnlyAt(c), toSub'[c] = <<>> \/ toSub'[c] = toSub[c],
             sid'[c] = 0 \/ (sid'[c] = nextSession /\ sub'[c] = sub[c]), toSub'[c] = <<>> \/ sub[c] = "opening"
      PROVE  OpenInv'
  <2>1. nextSession \in Nat /\ nextSession # 0
    BY DEF SessionInv
  <2>2. /\ \A i \in DOMAIN subtrees' : subtrees'[i].sid # sid'[c]
        /\ \A f \in Forwarders : Uses(fwd'[f]) => fwd'[f].sid # sid'[c]
    BY <1>3, <1>s, <1>t, <1>u, <2>1
  <2>3. \A k \in DOMAIN toSub'[c] : toSub'[c][k].type = "response"
    BY <1>3 DEF OpenInv
  <2>4. ASSUME NEW d \in Conns, sub'[d] = "opening"
        PROVE  /\ \A i \in DOMAIN subtrees' : subtrees'[i].sid # sid'[d]
               /\ \A f \in Forwarders : Uses(fwd'[f]) => fwd'[f].sid # sid'[d]
               /\ \A k \in DOMAIN toSub'[d] : toSub'[d][k].type = "response"
    <3>1. CASE d = c
      BY <2>2, <2>3, <3>1
    <3>2. CASE d # c
      <4>1. SameAt(d)
        BY <1>3, <3>2 DEF OnlyAt
      <4> QED
        BY <1>3, <2>4, <4>1 DEF SameAt, OpenInv
    <3> QED
      BY <3>1, <3>2
  <2>5. \A f \in Forwarders : Uses(fwd'[f]) => fwd'[f].ask \in [kind : RequestKinds, oid : Oids]
    BY <1>3 DEF OpenInv
  <2> QED
    BY <2>4, <2>5 DEF OpenInv, Uses
<1>4. ASSUME NEW c \in Conns, First(c) PROVE OpenInv'
  <2>1. sid[c] = 0 /\ toSub[c] = <<>>
    <3>1. sid[c] = 0
      BY <1>4 DEF First, SessionInv
    <3> QED
      BY <1>0, <3>1 DEF Shape
  <2> QED
    BY <1>0, <1>3, <1>4, <2>1, FirstEffect
<1>5. ASSUME NEW c \in Conns, Answer(c) PROVE OpenInv'
  <2>0. OnlyAt(c) /\ sub'[c] = sub[c] /\ sid'[c] = sid[c] /\ UNCHANGED <<subtrees, fwd>>
    BY <1>0, <1>5, AnswerEffect
  <2>1. \A f \in Forwarders : Follows(f)
    BY <2>0 DEF Follows, Uses, Holds
  <2>2. \A k \in DOMAIN toSub'[c] : \/ toSub'[c][k].type = "response"
                                    \/ \E l \in DOMAIN toSub[c] : toSub'[c][k] = toSub[c][l]
    <3>1. IsSeq(toSub[c])
      BY <1>0 DEF Shape
    <3>2. CASE toSub'[c] = toSub[c]
      BY <3>2
    <3>3. ASSUME NEW e, e.type = "response", toSub'[c] = Append(toSub[c], e)
          PROVE  \A k \in DOMAIN toSub'[c] : \/ toSub'[c][k].type = "response"
                                             \/ \E l \in DOMAIN toSub[c] : toSub'[c][k] = toSub[c][l]
      BY <3>1, <3>3, AppendToQueue
    <3> QED
      BY <1>0, <1>5, <3>2, <3>3, AnswerEffect
  <2>3. ASSUME NEW d \in Conns, sub'[d] = "opening"
        PROVE  /\ sub[d] = "opening" /\ sid'[d] = sid[d]
               /\ \A k \in DOMAIN toSub'[d] : \/ toSub'[d][k].type = "response"
                                              \/ \E l \in DOMAIN toSub[d] : toSub'[d][k] = toSub[d][l]
               /\ \A i \in DOMAIN subtrees' : subtrees'[i].sid # sid[d]
    <3>1. CASE d = c
      BY <2>0, <2>2, <2>3, <3>1 DEF OpenInv
    <3>2. CASE d # c
      <4>1. SameAt(d)
        BY <2>0, <3>2 DEF OnlyAt
      <4> QED
        BY <2>0, <2>3, <4>1 DEF OpenInv, SameAt
    <3> QED
      BY <3>1, <3>2
  <2> QED
    BY <2>1, <2>3, OpenKept
<1>6. ASSUME NEW c \in Conns, Read(c) PROVE OpenInv'
  <2>0. /\ OnlyAt(c) /\ sub'[c] = sub[c] /\ sid'[c] = sid[c] /\ toSub'[c] = toSub[c] /\ toMaster[c] # <<>>
        /\ task[c] \in Live
    BY <1>0, <1>6, ReadEffect
  <2>1. \A f \in Forwarders : Follows(f)
    <3>1. CASE ReadResponse(c)
      BY <3>1, ResponseFollows
    <3>2. CASE UNCHANGED fwd
      BY <3>2 DEF Follows, Uses, Holds
    <3> QED
      BY <1>6, <3>1, <3>2 DEF Read, ReadCall, ReadClose, ReadIgnored
  <2>2. PICK pdu : pdu = Head(toMaster[c])
    OBVIOUS
  <2>3. \A k \in DOMAIN subtrees' : \/ \E i \in DOMAIN subtrees : subtrees'[k] = subtrees[i]
                                    \/ subtrees'[k].sid = sid[c] /\ pdu.type = "register"
    BY <1>6, <1>s, <2>2, ReadTable
  <2>4. sub[c] = "opening" => pdu.type # "register"
    BY <1>0, <2>0, <2>2, TailOfQueue DEF Shape, None
  <2>5. sid[c] # 0
    BY <2>0, <1>t DEF SessionInv
  <2>6. ASSUME NEW d \in Conns, sub'[d] = "opening"
        PROVE  /\ sub[d] = "opening" /\ sid'[d] = sid[d]
               /\ \A k \in DOMAIN toSub'[d] : \/ toSub'[d][k].type = "response"
                                              \/ \E l \in DOMAIN toSub[d] : toSub'[d][k] = toSub[d][l]
               /\ \A i \in DOMAIN subtrees' : subtrees'[i].sid # sid[d]
    <3>1. sub[d] = "opening" /\ sid'[d] = sid[d] /\ toSub'[d] = toSub[d]
      BY <2>0, <2>6 DEF OnlyAt, SameAt
    <3>2. \A i \in DOMAIN subtrees : subtrees[i].sid # sid[d]
      BY <3>1 DEF OpenInv
    <3>3. ASSUME NEW k \in DOMAIN subtrees', subtrees'[k].sid = sid[c], pdu.type = "register" PROVE sid[c] # sid[d]
      BY <2>4, <2>5, <3>1, <3>3 DEF SessionInv
    <3> QED
      BY <2>3, <3>1, <3>2, <3>3
  <2> QED
    BY <2>1, <2>6, OpenKept
<1>7. ASSUME NEW c \in Conns, ReadEnd(c) PROVE OpenInv'
  <2>0. OnlyAt(c) /\ sub'[c] = sub[c] /\ sid'[c] = sid[c] /\ toSub'[c] = toSub[c] /\ UNCHANGED fwd /\ ReclaimSession(sid[c])
    BY <1>0, <1>7, ReadEndEffect
  <2>1. \A f \in Forwarders : Follows(f)
    BY <2>0 DEF Follows, Uses, Holds
  <2>2. \A k \in DOMAIN subtrees' : \E i \in DOMAIN subtrees : subtrees'[k] = subtrees[i]
    BY <1>s, <2>0, ReclaimTable
  <2>3. ASSUME NEW d \in Conns, sub'[d] = "opening"
        PROVE  /\ sub[d] = "opening" /\ sid'[d] = sid[d]
               /\ \A k \in DOMAIN toSub'[d] : \/ toSub'[d][k].type = "response"
                                              \/ \E l \in DOMAIN toSub[d] : toSub'[d][k] = toSub[d][l]
               /\ \A i \in DOMAIN subtrees' : subtrees'[i].sid # sid[d]
    <3>1. sub[d] = "opening" /\ sid'[d] = sid[d] /\ toSub'[d] = toSub[d]
      BY <2>0, <2>3 DEF OnlyAt, SameAt
    <3> QED
      BY <2>2, <3>1 DEF OpenInv
  <2> QED
    BY <2>1, <2>3, OpenKept
<1>8. ASSUME NEW c \in Conns, Subagent(c) \/ Die(c) PROVE OpenInv'
  <2>1. CASE Opened(c) \/ CallReturns(c) \/ Run(c) \/ SubEnd(c) \/ Die(c)
    BY <1>0, <1>2, <2>1, OpenedEffect, CallReturnsEffect, RunEffect, EndEffect DEF MasterSame, GoesAt
  <2>2. CASE ServeRequest(c)
    BY <1>0, <1>2, <2>2, ServeEffect DEF MasterSame
  <2> QED
    BY <1>8, <2>1, <2>2 DEF Subagent
<1>9. ASSUME NEW c \in Conns, NEW pdu \in Calls[c], MakeCall(c, pdu) PROVE OpenInv'
  BY <1>0, <1>2, <1>9, MakeCallEffect DEF MasterSame, GoesAt
<1>10. ASSUME NEW c \in Conns, NEW first \in {"open", "unexpected"}, Connect(c, first) PROVE OpenInv'
  <2>1. OnlyAt(c) /\ UNCHANGED <<subtrees, fwd>> /\ sub[c] = "off" /\ toSub'[c] = toSub[c] /\ sid'[c] = sid[c]
    BY <1>0, <1>10, ConnectEffect DEF MasterSame
  <2>2. sid[c] = 0
    BY <2>1 DEF StartInv, SessionInv
  <2>3. toSub[c] = <<>>
    BY <1>0, <2>2 DEF Shape
  <2> QED
    BY <1>3, <2>1, <2>2, <2>3
<1>11. ASSUME NEW f \in Forwarders, NEW ask \in Asks[f], Ask(f, ask) PROVE OpenInv'
  <2>1. AllSame /\ UNCHANGED subtrees
    BY <1>0, <1>11, ForwarderEffect
  <2>2. PICK d : /\ fwd' = [fwd EXCEPT ![f] = d] /\ d.state \in {"owned", "done"}
                 /\ d.state = "owned" => d.ask = ask /\ \E i \in DOMAIN subtrees : subtrees[i].sid = d.sid
    BY <1>11, AskFields
  <2>3. fwd'[f] = d /\ \A g \in Forwarders : g # f => fwd'[g] = fwd[g]
    BY <2>2 DEF PacketInv, PacketTypes
  <2>4. Uses(d) => d.ask = ask /\ \E i \in DOMAIN subtrees : subtrees[i].sid = d.sid
    BY <2>2 DEF Uses
  <2>5. ask \in [kind : RequestKinds, oid : Oids]
    BY AgentXAssumption
  <2>6. \A g \in Forwarders : Uses(fwd'[g]) => fwd'[g].ask \in [kind : RequestKinds, oid : Oids]
    BY <2>3, <2>4, <2>5 DEF OpenInv
  <2>7. ASSUME NEW c \in Conns, sub'[c] = "opening"
        PROVE  /\ \A i \in DOMAIN subtrees' : subtrees'[i].sid # sid'[c]
               /\ \A g \in Forwarders : Uses(fwd'[g]) => fwd'[g].sid # sid'[c]
               /\ \A k \in DOMAIN toSub'[c] : toSub'[c][k].type = "response"
    <3>1. sub[c] = "opening" /\ sid'[c] = sid[c] /\ toSub'[c] = toSub[c]
      BY <2>1, <2>7 DEF AllSame, SameAt
    <3> QED
      BY <2>1, <2>3, <2>4, <3>1 DEF OpenInv
  <2> QED
    BY <2>6, <2>7 DEF OpenInv, Uses
<1>12. ASSUME NEW f \in Forwarders, \A g \in Forwarders : Follows(g), UNCHANGED subtrees, AllSame PROVE OpenInv'
  <2>1. ASSUME NEW d \in Conns, sub'[d] = "opening"
        PROVE  /\ sub[d] = "opening" /\ sid'[d] = sid[d]
               /\ \A k \in DOMAIN toSub'[d] : \/ toSub'[d][k].type = "response"
                                              \/ \E l \in DOMAIN toSub[d] : toSub'[d][k] = toSub[d][l]
               /\ \A i \in DOMAIN subtrees' : subtrees'[i].sid # sid[d]
    <3>1. sub[d] = "opening" /\ sid'[d] = sid[d] /\ toSub'[d] = toSub[d]
      BY <1>12, <2>1 DEF AllSame, SameAt
    <3> QED
      BY <1>12, <3>1 DEF OpenInv
  <2> QED
    BY <1>12, <2>1, OpenKept
<1>13. ASSUME NEW f \in Forwarders, Enter(f) PROVE OpenInv'
  BY <1>0, <1>12, <1>13, ForwarderEffect, EnterFollows
<1>14. ASSUME NEW f \in Forwarders, Finish(f) \/ Timeout(f) PROVE OpenInv'
  <2>1. \A g \in Forwarders : Follows(g)
    BY <1>14, FinishedFollows DEF Finish, Timeout
  <2> QED
    BY <1>0, <1>12, <1>14, <2>1, ForwarderEffect
<1>15. ASSUME NEW f \in Forwarders, Write(f) PROVE OpenInv'
  <2>0. \A g \in Forwarders : Follows(g)
    BY <1>15, WriteFollows
  <2>1. PICK c \in Conns : sid[c] = fwd[f].sid /\ sid[c] # 0 /\ ConnOf(fwd[f].sid) = c
    BY <1>15, HolderConn DEF Write, Uses
  <2>2. CASE ~SubUp(c)
    BY <1>0, <1>12, <1>15, <2>0, <2>1, <2>2, ForwarderEffect
  <2>3. CASE SubUp(c)
    <3>1. OnlyAt(c) /\ sub'[c] = sub[c] /\ sid'[c] = sid[c] /\ UNCHANGED subtrees
      BY <1>0, <1>15, <2>1, <2>3, WriteEffect
    <3>2. sub[c] # "opening"
      BY <1>15, <2>1 DEF OpenInv, Write, Uses
    <3>3. ASSUME NEW d \in Conns, sub'[d] = "opening"
          PROVE  /\ sub[d] = "opening" /\ sid'[d] = sid[d]
                 /\ \A k \in DOMAIN toSub'[d] : \/ toSub'[d][k].type = "response"
                                                \/ \E l \in DOMAIN toSub[d] : toSub'[d][k] = toSub[d][l]
                 /\ \A i \in DOMAIN subtrees' : subtrees'[i].sid # sid[d]
      <4>1. d # c
        BY <3>1, <3>2, <3>3
      <4>2. SameAt(d)
        BY <3>1, <4>1 DEF OnlyAt
      <4> QED
        BY <3>1, <3>3, <4>2 DEF OpenInv, SameAt
    <3> QED
      BY <2>0, <3>3, OpenKept
  <2> QED
    BY <2>2, <2>3
<1> QED
  <2>1. CASE UNCHANGED vars
    <3>1. AllSame /\ UNCHANGED <<subtrees, fwd>>
      BY <1>0, <2>1 DEF vars, master, agent, AllSame, SameAt, Domains
    <3> QED
      BY <1>1, <3>1
  <2>2. CASE Next
    BY <1>4, <1>5, <1>6, <1>7, <1>8, <1>9, <1>10, <1>11, <1>13, <1>14, <1>15, <2>2 DEF Next, Task, Forward
  <2> QED
    BY <2>1, <2>2

---------------------------------------------------------------------------
(* Acknowledgements.                                                       *)

LEMMA TokenInvStep ==
  ASSUME StartInv, SessionInv, CountInv, PacketInv, ShapeInv, OpenInv, TokenInv, [Next]_vars
  PROVE  TokenInv'
<1>0. Domains /\ \A c \in Conns : Shape(sub[c], sid[c], toMaster[c], toSub[c], acked[c])
  BY DEF ShapeInv
<1>q. \A c \in Conns : IsSeq(toMaster[c]) /\ IsSeq(toSub[c])
  BY <1>0 DEF Shape
<1>t. \A c \in Conns : Tokens(sub[c], task[c], toMaster[c], toSub[c], clean[c])
  BY DEF TokenInv
<1>1. CASE AllSame
  BY <1>1 DEF AllSame, SameAt, TokenInv
<1>2. ASSUME NEW c \in Conns, OnlyAt(c), ~(sub'[c] \notin {"off", "gone"} /\ clean'[c]) PROVE TokenInv'
  <2>1. Tokens(sub'[c], task'[c], toMaster'[c], toSub'[c], clean'[c])
    BY <1>2 DEF Tokens
  <2> QED
    BY <1>2, <2>1, TokensAt
\* A PDU that is not acknowledged is read, or the task ends.
<1>3. ASSUME NEW c \in Conns, OnlyAt(c), sub'[c] = sub[c], toSub'[c] = toSub[c], clean'[c] = clean[c], ~Owes(task'[c]),
             toMaster'[c] = toMaster[c] \/ (toMaster[c] # <<>> /\ toMaster'[c] = Tail(toMaster[c]))
      PROVE  TokenInv'
  <2>1. /\ \A S : None(toMaster[c], S) => None(toMaster'[c], S)
        /\ \A S : AtMostOne(toMaster[c], S) => AtMostOne(toMaster'[c], S)
    BY <1>3, <1>q, TailTypes
  <2>2. Tokens(sub'[c], task'[c], toMaster'[c], toSub'[c], clean'[c])
    BY <1>3, <1>t, <2>1 DEF Tokens
  <2> QED
    BY <1>3, <2>2, TokensAt
\* An acknowledged PDU is read.
<1>4. ASSUME NEW c \in Conns, OnlyAt(c), sub'[c] = sub[c], toSub'[c] = toSub[c], clean'[c] = clean[c],
             toMaster[c] # <<>>, toMaster'[c] = Tail(toMaster[c]), Head(toMaster[c]).type \in Acked
      PROVE  TokenInv'
  <2>1. AtMostOne(toMaster[c], Acked) => None(Tail(toMaster[c]), Acked)
    BY <1>4, <1>q, TailTypes
  <2>2. ~None(toMaster[c], Acked)
    BY <1>4, <1>q, TailOfQueue DEF None
  <2>3. None(Tail(toMaster[c]), Acked) => AtMostOne(Tail(toMaster[c]), Acked)
    BY DEF None, AtMostOne
  <2>4. Tokens(sub'[c], task'[c], toMaster'[c], toSub'[c], clean'[c])
    BY <1>4, <1>t, <2>1, <2>2, <2>3 DEF Tokens
  <2> QED
    BY <1>4, <2>4, TokensAt
<1>5. ASSUME NEW c \in Conns, First(c) PROVE TokenInv'
  <2>1. CASE task'[c] = "ended"
    BY <1>0, <1>3, <1>5, <2>1, FirstEffect DEF Owes
  <2>2. CASE task'[c] = "opening"
    BY <1>0, <1>4, <1>5, <2>2, FirstEffect DEF Acked
  <2> QED
    BY <1>0, <1>5, <2>1, <2>2, FirstEffect
<1>6. ASSUME NEW c \in Conns, Answer(c) PROVE TokenInv'
  <2>1. /\ OnlyAt(c) /\ Owes(task[c]) /\ ~Owes(task'[c]) /\ sub'[c] = sub[c] /\ toMaster'[c] = toMaster[c]
        /\ clean'[c] = clean[c]
    BY <1>0, <1>6, AnswerEffect
  <2>2. CASE ~SubUp(c)
    BY <1>2, <2>1, <2>2 DEF SubUp
  <2>3. CASE SubUp(c)
    <3>1. PICK e : e.type = "response" /\ toSub'[c] = Append(toSub[c], e)
      BY <1>0, <1>6, <2>3, AnswerEffect
    <3>2. None(toSub[c], {"response"}) => AtMostOne(toSub'[c], {"response"})
      BY <1>q, <3>1, AppendTypes
    <3>3. Tokens(sub'[c], task'[c], toMaster'[c], toSub'[c], clean'[c])
      BY <1>t, <2>1, <3>2 DEF Tokens
    <3> QED
      BY <2>1, <3>3, TokensAt
  <2> QED
    BY <2>2, <2>3
<1>7. ASSUME NEW c \in Conns, Read(c) PROVE TokenInv'
  <2>1. CASE task'[c] = "answering" /\ Head(toMaster[c]).type \in Acked
    BY <1>0, <1>4, <1>7, <2>1, ReadEffect
  <2>2. CASE task'[c] \in {"serving", "ended"}
    BY <1>0, <1>3, <1>7, <2>2, ReadEffect DEF Owes
  <2> QED
    BY <1>0, <1>7, <2>1, <2>2, ReadEffect
<1>8. ASSUME NEW c \in Conns, ReadEnd(c) PROVE TokenInv'
  BY <1>0, <1>3, <1>8, ReadEndEffect DEF Owes
<1>9. ASSUME NEW c \in Conns, SubEnd(c) \/ Die(c) PROVE TokenInv'
  BY <1>0, <1>2, <1>9, EndEffect DEF GoesAt
\* The acknowledgement is read.
<1>10. ASSUME NEW c \in Conns, OnlyAt(c), sub[c] \in {"opening", "calling"}, task'[c] = task[c], toMaster'[c] = toMaster[c],
              toSub[c] # <<>>, toSub'[c] = Tail(toSub[c]), clean'[c] => clean[c] /\ Head(toSub[c]).type = "response"
       PROVE  TokenInv'
  <2>1. AtMostOne(toSub[c], {"response"}) /\ Head(toSub[c]).type = "response" => None(Tail(toSub[c]), {"response"})
    BY <1>10, <1>q, TailTypes
  <2>2. Head(toSub[c]).type = "response" => ~None(toSub[c], {"response"})
    BY <1>10, <1>q, TailOfQueue DEF None
  <2>3. None(Tail(toSub[c]), {"response"}) => AtMostOne(Tail(toSub[c]), {"response"})
    BY DEF None, AtMostOne
  <2>4. Tokens(sub'[c], task'[c], toMaster'[c], toSub'[c], clean'[c])
    BY <1>10, <1>t, <2>1, <2>2, <2>3 DEF Tokens
  <2> QED
    BY <1>10, <2>4, TokensAt
<1>11. ASSUME NEW c \in Conns, Opened(c) PROVE TokenInv'
  <2>1. sub[c] = "opening" /\ toSub[c] # <<>>
    BY <1>0, <1>11, OpenedEffect
  <2>2. Head(toSub[c]).type = "response"
    BY <1>q, <2>1, TailOfQueue DEF OpenInv
  <2> QED
    BY <1>0, <1>10, <1>11, <2>2, OpenedEffect
<1>12. ASSUME NEW c \in Conns, CallReturns(c) PROVE TokenInv'
  <2>1. CASE GoesAt(c)
    BY <1>0, <1>2, <1>12, <2>1, CallReturnsEffect DEF GoesAt
  <2>2. CASE toSub'[c] = Tail(toSub[c]) /\ (clean'[c] => clean[c] /\ Head(toSub[c]).type = "response")
    BY <1>0, <1>10, <1>12, <2>2, CallReturnsEffect
  <2> QED
    BY <1>0, <1>12, <2>1, <2>2, CallReturnsEffect
<1>13. ASSUME NEW c \in Conns, Run(c) PROVE TokenInv'
  <2>1. /\ OnlyAt(c) /\ sub[c] = "ready" /\ sub'[c] = "running" /\ task'[c] = task[c] /\ toMaster'[c] = toMaster[c]
        /\ toSub'[c] = toSub[c] /\ clean'[c] = clean[c]
    BY <1>0, <1>13, RunEffect
  <2>2. Tokens(sub'[c], task'[c], toMaster'[c], toSub'[c], clean'[c])
    BY <1>t, <2>1 DEF Tokens
  <2> QED
    BY <2>1, <2>2, TokensAt
<1>14. ASSUME NEW c \in Conns, ServeRequest(c) PROVE TokenInv'
  <2>1. /\ OnlyAt(c) /\ sub[c] = "running" /\ sub'[c] = "running" /\ task'[c] = task[c]
        /\ toSub[c] # <<>> /\ toSub'[c] = Tail(toSub[c]) /\ clean'[c] = clean[c]
    BY <1>0, <1>14, ServeEffect
  <2>2. PICK e : toMaster'[c] = Append(toMaster[c], e) /\ e.type = "response"
    BY <1>0, <1>14, ServeEffect
  <2>3. e.type \notin Acked
    BY <2>2 DEF Acked, AckedOnly
  <2>4. None(toMaster[c], Acked) => None(toMaster'[c], Acked) /\ AtMostOne(toMaster'[c], Acked)
    BY <1>q, <2>2, <2>3, AppendTypes
  <2>5. None(toSub[c], {"response"}) => None(toSub'[c], {"response"})
    BY <1>q, <2>1, TailTypes
  <2>6. None(toSub'[c], {"response"}) => AtMostOne(toSub'[c], {"response"})
    BY DEF None, AtMostOne
  <2>7. Tokens(sub'[c], task'[c], toMaster'[c], toSub'[c], clean'[c])
    BY <1>t, <2>1, <2>4, <2>5, <2>6 DEF Tokens
  <2> QED
    BY <2>1, <2>7, TokensAt
<1>15. ASSUME NEW c \in Conns, NEW pdu \in Calls[c], MakeCall(c, pdu) PROVE TokenInv'
  <2>1. OnlyAt(c) /\ sub[c] = "ready" /\ task'[c] = task[c]
    BY <1>0, <1>15, MakeCallEffect
  <2>2. CASE GoesAt(c)
    BY <1>2, <2>1, <2>2 DEF GoesAt
  <2>3. CASE /\ toMaster'[c] = Append(toMaster[c], pdu) /\ toSub'[c] = toSub[c] /\ clean'[c] = clean[c]
             /\ (pdu.type \notin Acked /\ sub'[c] = "ready") \/ sub'[c] = "calling"
    <3>1. /\ None(toMaster[c], Acked) => AtMostOne(toMaster'[c], Acked)
          /\ None(toMaster[c], Acked) /\ pdu.type \notin Acked => None(toMaster'[c], Acked)
      BY <1>q, <2>3, AppendTypes
    <3>2. Tokens(sub'[c], task'[c], toMaster'[c], toSub'[c], clean'[c])
      BY <1>t, <2>1, <2>3, <3>1 DEF Tokens
    <3> QED
      BY <2>1, <3>2, TokensAt
  <2> QED
    BY <1>0, <1>15, <2>2, <2>3, MakeCallEffect
<1>16. ASSUME NEW c \in Conns, NEW first \in {"open", "unexpected"}, Connect(c, first) PROVE TokenInv'
  <2>1. OnlyAt(c) /\ sub[c] = "off" /\ sub'[c] = "opening" /\ task'[c] = "first" /\ toSub'[c] = toSub[c]
    BY <1>0, <1>16, ConnectEffect
  <2>2. PICK e : toMaster'[c] = <<e>>
    BY <1>0, <1>16, ConnectEffect
  <2>3. sid[c] = 0
    BY <2>1 DEF StartInv, SessionInv
  <2>4. toSub'[c] = <<>>
    BY <1>0, <2>1, <2>3 DEF Shape
  <2>5. AtMostOne(<<e>>, Acked) /\ None(<<>>, {"response"}) /\ AtMostOne(<<>>, {"response"})
    BY DEF None, AtMostOne
  <2>6. Tokens(sub'[c], task'[c], toMaster'[c], toSub'[c], clean'[c])
    BY <2>1, <2>2, <2>4, <2>5 DEF Tokens, Owes
  <2> QED
    BY <2>1, <2>6, TokensAt
<1>17. ASSUME NEW f \in Forwarders, Write(f) PROVE TokenInv'
  <2>1. PICK c \in Conns : sid[c] = fwd[f].sid /\ sid[c] # 0 /\ ConnOf(fwd[f].sid) = c
    BY <1>17, HolderConn DEF Write, Uses
  <2>2. CASE ~SubUp(c)
    BY <1>0, <1>1, <1>17, <2>1, <2>2, ForwarderEffect
  <2>3. CASE SubUp(c)
    <3>1. /\ OnlyAt(c) /\ sub'[c] = sub[c] /\ task'[c] = task[c] /\ clean'[c] = clean[c] /\ toMaster'[c] = toMaster[c]
      BY <1>0, <1>17, <2>1, <2>3, WriteEffect
    <3>2. PICK e : toSub'[c] = Append(toSub[c], e) /\ e.type = fwd[f].ask.kind
      BY <1>0, <1>17, <2>1, <2>3, WriteEffect
    <3>3. fwd[f].ask \in [kind : RequestKinds, oid : Oids]
      BY <1>17 DEF OpenInv, Write, Uses
    <3>4. e.type \notin {"response"}
      BY <3>2, <3>3 DEF RequestKinds
    <3>5. /\ None(toSub[c], {"response"}) => None(toSub'[c], {"response"})
          /\ AtMostOne(toSub[c], {"response"}) => AtMostOne(toSub'[c], {"response"})
      BY <1>q, <3>2, <3>4, AppendTypes
    <3>6. Tokens(sub'[c], task'[c], toMaster'[c], toSub'[c], clean'[c])
      BY <1>t, <3>1, <3>5 DEF Tokens
    <3> QED
      BY <3>1, <3>6, TokensAt
  <2> QED
    BY <2>2, <2>3
<1>18. ASSUME NEW f \in Forwarders, (\E ask : Ask(f, ask)) \/ Enter(f) \/ Finish(f) \/ Timeout(f) PROVE TokenInv'
  BY <1>0, <1>1, <1>18, ForwarderEffect
<1> QED
  <2>1. CASE UNCHANGED vars
    <3>1. AllSame
      BY <1>0, <2>1 DEF vars, master, agent, AllSame, SameAt, Domains
    <3> QED
      BY <1>1, <3>1
  <2>2. CASE Next
    BY <1>5, <1>6, <1>7, <1>8, <1>9, <1>11, <1>12, <1>13, <1>14, <1>15, <1>16, <1>17, <1>18, <2>2
       DEF Next, Task, Subagent, Forward
  <2> QED
    BY <2>1, <2>2

---------------------------------------------------------------------------
(* Requests, responses and their holders.                                  *)

\* A holder after the step asked for the same before; its packet id is the one it
\* held, or the next one of its session.
Held(f) ==
    Holds(fwd'[f]) =>
      /\ fwd'[f].sid = fwd[f].sid /\ fwd'[f].ask = fwd[f].ask
      /\ (Holds(fwd[f]) /\ fwd'[f].packet = fwd[f].packet) \/ fwd'[f].packet = packet[fwd[f].sid] + 1

\* An answer was there before, or comes with a response that is read.
ReplyFrom(f) ==
    Holds(fwd'[f]) /\ fwd'[f].reply # "none" =>
      /\ Holds(fwd[f])
      /\ \/ fwd'[f].reply = fwd[f].reply /\ fwd'[f].of = fwd[f].of
         \/ \E c \in Conns : Read(c) /\ ReadResponse(c) /\ Matched(c, Head(toMaster[c]), f) /\ fwd'[f].of = Head(toMaster[c]).of

Grows == \A s \in 1..Cardinality(Conns) : packet'[s] \in Nat /\ packet[s] <= packet'[s]

LEMMA HoldersStep ==
  ASSUME SessionInv, CountInv, PacketInv, [Next]_vars
  PROVE  Grows /\ \A f \in Forwarders : Held(f) /\ ReplyFrom(f)
<1>0. \A s \in 1..Cardinality(Conns) : packet[s] \in Nat
  BY DEF PacketInv, PacketTypes
<1>1. UNCHANGED packet => Grows
  BY <1>0 DEF Grows
<1>2. CASE UNCHANGED <<fwd, packet>>
  BY <1>1, <1>2 DEF Held, ReplyFrom
<1>3. ASSUME NEW c \in Conns, Task(c) PROVE Grows /\ \A f \in Forwarders : Held(f) /\ ReplyFrom(f)
  <2>0. UNCHANGED packet
    BY <1>3 DEF Task, First, Answer, Read, ReadEnd
  <2>1. CASE Read(c) /\ ReadResponse(c)
    <3>0. PICK pdu : pdu = Head(toMaster[c])
      OBVIOUS
    <3>1. \A f \in Forwarders :
            /\ ~Matched(c, pdu, f) => fwd'[f] = fwd[f]
            /\ Matched(c, pdu, f) =>
                 /\ fwd'[f].state = fwd[f].state /\ fwd'[f].sid = fwd[f].sid
                 /\ fwd'[f].packet = fwd[f].packet /\ fwd'[f].ask = fwd[f].ask
                 /\ fwd'[f].of = pdu.of
      BY <2>1, <3>0, ResponseFields
    <3>2. \A f \in Forwarders : Held(f)
      BY <3>1 DEF Held, Holds
    <3>3. ASSUME NEW f \in Forwarders PROVE ReplyFrom(f)
      <4>1. CASE Matched(c, pdu, f)
        <5>1. fwd'[f].of = pdu.of /\ Holds(fwd[f])
          BY <3>1, <4>1 DEF Matched, Holding, Holds
        <5> QED
          BY <2>1, <3>0, <4>1, <5>1 DEF ReplyFrom
      <4>2. CASE ~Matched(c, pdu, f)
        BY <3>1, <4>2 DEF ReplyFrom
      <4> QED
        BY <4>1, <4>2
    <3> QED
      BY <1>1, <2>0, <3>2, <3>3
  <2>2. CASE UNCHANGED fwd
    BY <1>2, <2>0, <2>2
  <2> QED
    BY <1>3, <2>1, <2>2 DEF Task, First, Answer, Read, ReadCall, ReadClose, ReadIgnored, ReadEnd
<1>4. ASSUME NEW c \in Conns, Subagent(c) \/ Die(c) \/ (\E x : Connect(c, x)) \/ (\E pdu : MakeCall(c, pdu))
      PROVE  UNCHANGED <<fwd, packet>>
  BY <1>4 DEF Subagent, Opened, CallReturns, Run, ServeRequest, SubEnd, Die, Connect, MakeCall, master
<1>5. ASSUME NEW f \in Forwarders, NEW r, fwd' = Finished(f, r), UNCHANGED packet
      PROVE  Grows /\ \A g \in Forwarders : Held(g) /\ ReplyFrom(g)
  <2>1. /\ \A g \in Forwarders : g # f => fwd'[g] = fwd[g]
        /\ ~Holds(fwd'[f])
    BY <1>5, FinishedFollows DEF Uses, Holds
  <2> QED
    BY <1>1, <1>5, <2>1 DEF Held, ReplyFrom
<1>6. ASSUME NEW f \in Forwarders, NEW ask, Ask(f, ask)
      PROVE  Grows /\ \A g \in Forwarders : Held(g) /\ ReplyFrom(g)
  <2>1. UNCHANGED packet
    BY <1>6 DEF Ask, master
  <2>2. PICK d : fwd' = [fwd EXCEPT ![f] = d] /\ ~Holds(d)
    BY <1>6, AskFields
  <2>3. fwd'[f] = d /\ \A g \in Forwarders : g # f => fwd'[g] = fwd[g]
    BY <2>2 DEF PacketInv, PacketTypes
  <2> QED
    BY <1>1, <2>1, <2>2, <2>3 DEF Held, ReplyFrom
<1>7. ASSUME NEW f \in Forwarders, Write(f)
      PROVE  Grows /\ \A g \in Forwarders : Held(g) /\ ReplyFrom(g)
  <2>1. UNCHANGED packet
    BY <1>7 DEF Write, master
  <2>2. /\ \A g \in Forwarders : Follows(g) /\ Stays(g)
        /\ \A g \in Forwarders : Holds(fwd'[g]) => fwd'[g].reply = fwd[g].reply /\ fwd'[g].of = fwd[g].of
    BY <1>7, WriteFollows
  <2> QED
    BY <1>1, <2>1, <2>2 DEF Held, ReplyFrom, Follows, Stays
<1>8. ASSUME NEW f \in Forwarders, Enter(f)
      PROVE  Grows /\ \A g \in Forwarders : Held(g) /\ ReplyFrom(g)
  <2>1. CASE fwd' = Finished(f, "NoOwner") /\ UNCHANGED <<packet, pending>>
    BY <1>5, <2>1
  <2>2. ASSUME NEW d, Entered(f, d) PROVE Grows /\ \A g \in Forwarders : Held(g) /\ ReplyFrom(g)
    <3>1. PICK s : s = fwd[f].sid /\ s \in 1..Cardinality(Conns) /\ fwd[f].reply = "none"
      BY <2>2 DEF Entered, PacketInv, FwdTypes, FwdType, Ids
    <3>2. packet' = [packet EXCEPT ![s] = packet[s] + 1] /\ DOMAIN packet = 1..Cardinality(Conns)
      BY <2>2, <3>1 DEF Entered, PacketInv, PacketTypes
    <3>3. Grows
      BY <1>0, <3>1, <3>2 DEF Grows
    <3>4. /\ fwd'[f] = d /\ d.sid = s /\ d.packet = packet[s] + 1 /\ d.reply = "none" /\ d.ask = fwd[f].ask
          /\ \A g \in Forwarders : g # f => fwd'[g] = fwd[g]
      BY <2>2, <3>1 DEF Entered, PacketInv, PacketTypes
    <3> QED
      BY <3>1, <3>3, <3>4 DEF Held, ReplyFrom
  <2> QED
    BY <1>8, <2>1, <2>2, EnterFields
<1>9. ASSUME NEW f \in Forwarders, Finish(f) \/ Timeout(f)
      PROVE  Grows /\ \A g \in Forwarders : Held(g) /\ ReplyFrom(g)
  BY <1>5, <1>9 DEF Finish, Timeout, master
<1> QED
  <2>1. CASE UNCHANGED vars
    BY <1>2, <2>1 DEF vars, master
  <2>2. CASE Next
    BY <1>2, <1>3, <1>4, <1>6, <1>7, <1>8, <1>9, <2>2 DEF Next, Forward
  <2> QED
    BY <2>1, <2>2

\* What a PDU asks for or answers stays what the holder of its id asked for.
LEMMA AskedKept ==
  ASSUME PacketInv, Grows, \A f \in Forwarders : Held(f), NEW s \in 1..Cardinality(Conns), NEW id \in 1..packet[s], NEW ask,
         AskedBy(s, id, ask)
  PROVE  AskedBy(s, id, ask)' /\ id \in 1..packet'[s]
<1>1. packet[s] \in Nat /\ packet'[s] \in Nat /\ packet[s] <= packet'[s]
  BY DEF PacketInv, PacketTypes, Grows
<1>2. ASSUME NEW f \in Forwarders, Awaits(fwd'[f], s, id) PROVE fwd'[f].ask = ask
  <2>1. Holds(fwd'[f]) /\ fwd'[f].sid = s /\ fwd'[f].packet = id
    BY <1>2 DEF Awaits
  <2>2. fwd[f].sid = s /\ fwd'[f].ask = fwd[f].ask
    BY <2>1 DEF Held
  <2>3. id # packet[s] + 1
    BY <1>1
  <2>4. Holds(fwd[f]) /\ fwd[f].packet = id
    BY <2>1, <2>2, <2>3 DEF Held
  <2> QED
    BY <2>2, <2>4 DEF AskedBy, Awaits
<1> QED
  BY <1>1, <1>2 DEF AskedBy, Awaits, Holds

\* Where a PDU in a queue comes from.
OldIn(c, q, p) == sid'[c] = sid[c] /\ sid[c] # 0 /\ \E l \in DOMAIN q : p = q[l]

NewRequest(c, p) ==
    \E f \in Forwarders :
      /\ Holds(fwd[f]) /\ sid[c] = fwd[f].sid /\ sid'[c] = sid[c] /\ UNCHANGED packet
      /\ p.type = fwd[f].ask.kind /\ p.oid = fwd[f].ask.oid /\ p.packet = fwd[f].packet

NewResponse(c, p) ==
    /\ sid'[c] = sid[c] /\ sub[c] = "running" /\ toSub[c] # <<>> /\ p.packet = Head(toSub[c]).packet
    /\ Head(toSub[c]).type \in RequestKinds => p.of = AsRead([kind |-> Head(toSub[c]).type, oid |-> Head(toSub[c]).oid])

FromSub(c) == \A k \in DOMAIN toMaster'[c] :
    toMaster'[c][k].type = "response" => OldIn(c, toMaster[c], toMaster'[c][k]) \/ NewResponse(c, toMaster'[c][k])

FromMaster(c) == \A k \in DOMAIN toSub'[c] :
    toSub'[c][k].type # "response" => OldIn(c, toSub[c], toSub'[c][k]) \/ NewRequest(c, toSub'[c][k])

Origins(c) == FromSub(c) /\ FromMaster(c) /\ (clean'[c] => clean[c])

\* Queues that did not grow.
LEMMA OldOrigins ==
  ASSUME NEW c \in Conns, Shape(sub[c], sid[c], toMaster[c], toSub[c], acked[c]), clean'[c] => clean[c],
         sid'[c] = sid[c] \/ sid[c] = 0,
         toMaster'[c] = toMaster[c] \/ (toMaster[c] # <<>> /\ toMaster'[c] = Tail(toMaster[c])),
         toSub'[c] = toSub[c] \/ toSub'[c] = <<>> \/ (toSub[c] # <<>> /\ toSub'[c] = Tail(toSub[c]))
  PROVE  Origins(c)
<1>1. /\ IsSeq(toMaster[c]) /\ IsSeq(toSub[c])
      /\ sid[c] = 0 => toSub[c] = <<>> /\ None(toMaster[c], {"response"})
  BY DEF Shape
<1>2. \A k \in DOMAIN toMaster'[c] : \E l \in DOMAIN toMaster[c] : toMaster'[c][k] = toMaster[c][l]
  <2>1. CASE toMaster[c] # <<>> /\ toMaster'[c] = Tail(toMaster[c])
    BY <1>1, <2>1, TailOfQueue
  <2> QED
    BY <2>1
<1>3. \A k \in DOMAIN toSub'[c] : \E l \in DOMAIN toSub[c] : toSub'[c][k] = toSub[c][l]
  <2>1. CASE toSub'[c] = <<>>
    BY <2>1
  <2>2. CASE toSub[c] # <<>> /\ toSub'[c] = Tail(toSub[c])
    BY <1>1, <2>2, TailOfQueue
  <2> QED
    BY <2>1, <2>2
<1>4. FromSub(c)
  BY <1>1, <1>2 DEF FromSub, OldIn, None
<1>5. FromMaster(c)
  <2>1. CASE sid[c] = 0
    <3>1. DOMAIN toSub[c] = {}
      BY <1>1, <2>1
    <3> QED
      BY <1>3, <3>1 DEF FromMaster
  <2>2. CASE sid[c] # 0
    BY <1>3, <2>2 DEF FromMaster, OldIn
  <2> QED
    BY <2>1, <2>2
<1> QED
  BY <1>4, <1>5 DEF Origins

LEMMA WireStep ==
  ASSUME StartInv, SessionInv, CountInv, PacketInv, ShapeInv, OpenInv, [Next]_vars
  PROVE  \A c \in Conns : Origins(c)
<1>0. Domains /\ \A c \in Conns : Shape(sub[c], sid[c], toMaster[c], toSub[c], acked[c])
  BY DEF ShapeInv
<1>1. ASSUME NEW c \in Conns, SameAt(c) PROVE Origins(c)
  BY <1>0, <1>1, OldOrigins DEF SameAt
<1>2. CASE AllSame
  BY <1>1, <1>2 DEF AllSame
<1>3. ASSUME NEW c \in Conns, OnlyAt(c), Origins(c) PROVE \A d \in Conns : Origins(d)
  BY <1>1, <1>3 DEF OnlyAt
<1>4. ASSUME NEW c \in Conns, First(c) PROVE \A d \in Conns : Origins(d)
  <2>1. sid[c] = 0
    BY <1>4 DEF First, SessionInv
  <2>2. /\ toMaster'[c] = toMaster[c] \/ (toMaster[c] # <<>> /\ toMaster'[c] = Tail(toMaster[c]))
        /\ toSub'[c] = toSub[c] /\ clean'[c] = clean[c] /\ OnlyAt(c)
    BY <1>0, <1>4, FirstEffect
  <2>3. Origins(c)
    BY <1>0, <2>1, <2>2, OldOrigins
  <2> QED
    BY <1>3, <2>2, <2>3
<1>5. ASSUME NEW c \in Conns, Answer(c) PROVE \A d \in Conns : Origins(d)
  <2>1. /\ OnlyAt(c) /\ sid'[c] = sid[c] /\ toMaster'[c] = toMaster[c] /\ clean'[c] = clean[c]
        /\ toSub'[c] = toSub[c] \/ \E e : e.type = "response" /\ toSub'[c] = Append(toSub[c], e)
    BY <1>0, <1>5, AnswerEffect
  <2>2. CASE toSub'[c] = toSub[c]
    BY <1>0, <1>3, <2>1, <2>2, OldOrigins
  <2>3. ASSUME NEW e, e.type = "response", toSub'[c] = Append(toSub[c], e) PROVE Origins(c)
    <3>1. /\ IsSeq(toSub[c]) /\ (sid[c] = 0 => None(toMaster[c], {"response"}))
      BY <1>0 DEF Shape
    <3>2. \A k \in DOMAIN toSub'[c] : (k \in DOMAIN toSub[c] /\ toSub'[c][k] = toSub[c][k]) \/ toSub'[c][k] = e
      BY <2>3, <3>1, AppendToQueue
    <3>3. sid[c] # 0
      BY <1>5 DEF Answer, SessionInv, Live
    <3>4. FromMaster(c)
      BY <2>1, <2>3, <3>2, <3>3 DEF FromMaster, OldIn
    <3>5. FromSub(c)
      BY <2>1, <3>3 DEF FromSub, OldIn
    <3> QED
      BY <2>1, <3>4, <3>5 DEF Origins
  <2> QED
    BY <1>3, <2>1, <2>2, <2>3
<1>6. ASSUME NEW c \in Conns, Read(c) \/ ReadEnd(c) PROVE \A d \in Conns : Origins(d)
  <2>1. /\ toMaster'[c] = toMaster[c] \/ (toMaster[c] # <<>> /\ toMaster'[c] = Tail(toMaster[c]))
        /\ toSub'[c] = toSub[c] /\ clean'[c] = clean[c] /\ OnlyAt(c) /\ sid'[c] = sid[c]
    BY <1>0, <1>6, ReadEffect, ReadEndEffect
  <2>2. Origins(c)
    BY <1>0, <2>1, OldOrigins
  <2> QED
    BY <1>3, <2>1, <2>2
<1>7. ASSUME NEW c \in Conns, Opened(c) \/ CallReturns(c) \/ Run(c) \/ SubEnd(c) \/ Die(c) PROVE \A d \in Conns : Origins(d)
  <2>1. /\ toMaster'[c] = toMaster[c] /\ OnlyAt(c) /\ sid'[c] = sid[c] /\ (clean'[c] => clean[c])
        /\ toSub'[c] = toSub[c] \/ toSub'[c] = <<>> \/ (toSub[c] # <<>> /\ toSub'[c] = Tail(toSub[c]))
    BY <1>0, <1>7, OpenedEffect, CallReturnsEffect, RunEffect, EndEffect DEF GoesAt
  <2>2. Origins(c)
    BY <1>0, <2>1, OldOrigins
  <2> QED
    BY <1>3, <2>1, <2>2
<1>8. ASSUME NEW c \in Conns, ServeRequest(c) PROVE \A d \in Conns : Origins(d)
  <2>1. /\ OnlyAt(c) /\ sub[c] = "running" /\ toSub[c] # <<>> /\ toSub'[c] = Tail(toSub[c]) /\ sid'[c] = sid[c]
        /\ clean'[c] = clean[c]
    BY <1>0, <1>8, ServeEffect
  <2>2. PICK e : /\ toMaster'[c] = Append(toMaster[c], e) /\ e.packet = Head(toSub[c]).packet
                 /\ Head(toSub[c]).type \in RequestKinds => e.of = AsRead([kind |-> Head(toSub[c]).type, oid |-> Head(toSub[c]).oid])
    BY <1>0, <1>8, ServeEffect
  <2>3. IsSeq(toMaster[c]) /\ IsSeq(toSub[c]) /\ sid[c] # 0
    BY <1>0, <2>1 DEF Shape
  <2>4. NewResponse(c, e)
    BY <2>1, <2>2 DEF NewResponse
  <2>5. FromSub(c)
    BY <2>1, <2>2, <2>3, <2>4, AppendToQueue DEF FromSub, OldIn
  <2>6. \A k \in DOMAIN toSub'[c] : \E l \in DOMAIN toSub[c] : toSub'[c][k] = toSub[c][l]
    BY <2>1, <2>3, TailOfQueue
  <2>7. FromMaster(c)
    BY <2>1, <2>3, <2>6 DEF FromMaster, OldIn
  <2>8. Origins(c)
    BY <2>1, <2>5, <2>7 DEF Origins
  <2> QED
    BY <1>3, <2>1, <2>8
<1>9. ASSUME NEW c \in Conns, NEW pdu \in Calls[c], MakeCall(c, pdu) PROVE \A d \in Conns : Origins(d)
  <2>1. OnlyAt(c) /\ sid'[c] = sid[c] /\ sub[c] = "ready" /\ clean'[c] = clean[c]
    BY <1>0, <1>9, MakeCallEffect DEF GoesAt
  <2>2. CASE GoesAt(c)
    BY <1>0, <1>3, <2>1, <2>2, OldOrigins DEF GoesAt
  <2>3. CASE toMaster'[c] = Append(toMaster[c], pdu) /\ toSub'[c] = toSub[c]
    <3>1. IsSeq(toMaster[c]) /\ sid[c] # 0
      BY <1>0, <2>1 DEF Shape
    <3>2. pdu.type # "response"
      BY CallTypes
    <3>3. FromSub(c)
      BY <2>1, <2>3, <3>1, <3>2, AppendToQueue DEF FromSub, OldIn
    <3>4. FromMaster(c)
      BY <2>1, <2>3, <3>1 DEF FromMaster, OldIn
    <3> QED
      BY <1>3, <2>1, <3>3, <3>4 DEF Origins
  <2> QED
    BY <1>0, <1>9, <2>2, <2>3, MakeCallEffect
<1>10. ASSUME NEW c \in Conns, NEW first \in {"open", "unexpected"}, Connect(c, first) PROVE \A d \in Conns : Origins(d)
  <2>1. OnlyAt(c) /\ sub[c] = "off" /\ toSub'[c] = toSub[c] /\ clean'[c] = clean[c]
    BY <1>0, <1>10, ConnectEffect
  <2>2. PICK e : e.type \in {"open", "unexpected"} /\ toMaster'[c] = <<e>>
    BY <1>0, <1>10, ConnectEffect
  <2>3. toSub[c] = <<>>
    <3>1. sid[c] = 0
      BY <2>1 DEF StartInv, SessionInv
    <3> QED
      BY <1>0, <3>1 DEF Shape
  <2>4. FromSub(c)
    BY <2>2 DEF FromSub
  <2>5. FromMaster(c)
    <3>1. DOMAIN toSub'[c] = {}
      BY <2>1, <2>3
    <3> QED
      BY <3>1 DEF FromMaster
  <2> QED
    BY <1>3, <2>1, <2>4, <2>5 DEF Origins
<1>11. ASSUME NEW f \in Forwarders, Write(f) PROVE \A d \in Conns : Origins(d)
  <2>1. PICK c \in Conns : sid[c] = fwd[f].sid /\ sid[c] # 0 /\ ConnOf(fwd[f].sid) = c
    BY <1>11, HolderConn DEF Write, Uses
  <2>2. CASE ~SubUp(c)
    BY <1>0, <1>2, <1>11, <2>1, <2>2, ForwarderEffect
  <2>3. CASE SubUp(c)
    <3>1. OnlyAt(c) /\ sid'[c] = sid[c] /\ clean'[c] = clean[c] /\ toMaster'[c] = toMaster[c] /\ UNCHANGED packet
      BY <1>0, <1>11, <2>1, <2>3, WriteEffect
    <3>2. PICK e : /\ toSub'[c] = Append(toSub[c], e) /\ e.type = fwd[f].ask.kind /\ e.oid = fwd[f].ask.oid
                   /\ e.packet = fwd[f].packet
      BY <1>0, <1>11, <2>1, <2>3, WriteEffect
    <3>3. NewRequest(c, e)
      BY <1>11, <2>1, <3>1, <3>2 DEF NewRequest, Write, Holds
    <3>4. IsSeq(toSub[c])
      BY <1>0 DEF Shape
    <3>5. FromMaster(c)
      BY <2>1, <3>1, <3>2, <3>3, <3>4, AppendToQueue DEF FromMaster, OldIn
    <3>6. FromSub(c)
      BY <2>1, <3>1 DEF FromSub, OldIn
    <3> QED
      BY <1>3, <3>1, <3>5, <3>6 DEF Origins
  <2> QED
    BY <2>2, <2>3
<1>12. ASSUME NEW f \in Forwarders, (\E ask : Ask(f, ask)) \/ Enter(f) \/ Finish(f) \/ Timeout(f) PROVE \A d \in Conns : Origins(d)
  BY <1>0, <1>2, <1>12, ForwarderEffect
<1> QED
  <2>1. CASE UNCHANGED vars
    <3>1. AllSame
      BY <1>0, <2>1 DEF vars, master, agent, AllSame, SameAt, Domains
    <3> QED
      BY <1>2, <3>1
  <2>2. CASE Next
    BY <1>4, <1>5, <1>6, <1>7, <1>8, <1>9, <1>10, <1>11, <1>12, <2>2 DEF Next, Task, Subagent, Forward
  <2> QED
    BY <2>1, <2>2

---------------------------------------------------------------------------
(* A forwarder has the answer to its own request.                          *)

LEMMA SidRange ==
  ASSUME SessionInv, CountInv, NEW c \in Conns, sid[c] # 0
  PROVE  sid[c] \in 1..Cardinality(Conns)
<1>1. Cardinality(Conns) \in Nat /\ nextSession - 1 <= Cardinality(Conns) /\ nextSession \in Nat
  BY IdsBounded DEF SessionInv
<1> QED
  BY <1>1 DEF SessionInv

LEMMA RequestInvStep ==
  ASSUME StartInv, SessionInv, CountInv, PacketInv, ShapeInv, OpenInv, RequestInv, [Next]_vars
  PROVE  RequestInv'
<1>1. Grows /\ \A f \in Forwarders : Held(f)
  BY HoldersStep
<1>2. ASSUME NEW c \in Conns, NEW k \in DOMAIN toSub'[c], toSub'[c][k].type # "response"
      PROVE  /\ toSub'[c][k].type \in RequestKinds
             /\ toSub'[c][k].packet \in 1..packet'[sid'[c]]
             /\ \A f \in Forwarders : Awaits(fwd'[f], sid'[c], toSub'[c][k].packet) =>
                  fwd'[f].ask = [kind |-> toSub'[c][k].type, oid |-> toSub'[c][k].oid]
  <2>0. PICK p : p = toSub'[c][k] /\ p.type # "response"
    BY <1>2
  <2>1. CASE OldIn(c, toSub[c], p)
    <3>1. PICK l \in DOMAIN toSub[c] : p = toSub[c][l]
      BY <2>1 DEF OldIn
    <3>2. PICK s, id, ask : s = sid[c] /\ id = p.packet /\ ask = [kind |-> p.type, oid |-> p.oid]
      OBVIOUS
    <3>3. p.type \in RequestKinds /\ id \in 1..packet[s] /\ AskedBy(s, id, ask)
      BY <2>0, <3>1, <3>2 DEF RequestInv
    <3>4. s \in 1..Cardinality(Conns) /\ sid'[c] = s
      BY <2>1, <3>2, SidRange DEF OldIn
    <3>5. AskedBy(s, id, ask)' /\ id \in 1..packet'[s]
      BY <1>1, <3>3, <3>4, AskedKept
    <3>6. \A f \in Forwarders : Awaits(fwd'[f], s, id) => fwd'[f].ask = ask
      BY <3>5 DEF AskedBy, Awaits, Holds
    <3> QED
      BY <2>0, <3>2, <3>3, <3>4, <3>5, <3>6
  <2>2. CASE NewRequest(c, p)
    <3>1. PICK f \in Forwarders :
            /\ Holds(fwd[f]) /\ sid[c] = fwd[f].sid /\ sid'[c] = sid[c] /\ UNCHANGED packet
            /\ p.type = fwd[f].ask.kind /\ p.oid = fwd[f].ask.oid /\ p.packet = fwd[f].packet
      BY <2>2 DEF NewRequest
    <3>2. fwd[f].packet \in 1..packet[fwd[f].sid] /\ fwd[f].sid \in 1..Cardinality(Conns)
      BY <3>1 DEF PacketInv, FwdTypes, FwdType, Ids
    <3>3. PICK ask \in [kind : RequestKinds, oid : Oids] : ask = fwd[f].ask
      BY <3>1 DEF OpenInv, Uses, Holds
    <3>4. ask.kind \in RequestKinds /\ ask = [kind |-> ask.kind, oid |-> ask.oid]
      BY <3>3
    <3>5. ASSUME NEW g \in Forwarders, Awaits(fwd'[g], sid'[c], p.packet) PROVE fwd'[g].ask = ask
      <4>1. Holds(fwd'[g]) /\ fwd'[g].sid = fwd[f].sid /\ fwd'[g].packet = fwd[f].packet
        BY <3>1, <3>5 DEF Awaits
      <4>2. fwd[g].sid = fwd[f].sid /\ fwd'[g].ask = fwd[g].ask
        BY <1>1, <4>1 DEF Held
      <4>3. packet[fwd[f].sid] \in Nat
        BY <3>2 DEF PacketInv, PacketTypes
      <4>4. fwd[f].packet # packet[fwd[f].sid] + 1
        BY <3>2, <4>3
      <4>5. Holds(fwd[g]) /\ fwd[g].packet = fwd[f].packet
        BY <1>1, <4>1, <4>2, <4>4 DEF Held
      <4>6. g = f
        BY <3>1, <4>2, <4>5 DEF PacketInv, FwdUnique
      <4> QED
        BY <3>3, <4>2, <4>6
    <3> QED
      BY <2>0, <3>1, <3>2, <3>3, <3>4, <3>5
  <2>3. Origins(c)
    BY WireStep
  <2> QED
    BY <1>2, <2>0, <2>1, <2>2, <2>3 DEF Origins, FromMaster
<1> QED
  BY <1>2 DEF RequestInv, AskedBy, Awaits, Holds

LEMMA ResponseInvStep ==
  ASSUME StartInv, SessionInv, CountInv, PacketInv, ShapeInv, OpenInv, TokenInv, RequestInv, ResponseInv, [Next]_vars
  PROVE  ResponseInv'
<1>1. Grows /\ \A f \in Forwarders : Held(f)
  BY HoldersStep
<1>2. ASSUME NEW c \in Conns, clean'[c], NEW k \in DOMAIN toMaster'[c], toMaster'[c][k].type = "response"
      PROVE  /\ toMaster'[c][k].packet \in 1..packet'[sid'[c]]
             /\ \E ask : /\ toMaster'[c][k].of = AsRead(ask)
                         /\ \A f \in Forwarders : Awaits(fwd'[f], sid'[c], toMaster'[c][k].packet) => fwd'[f].ask = ask
  <2>0. PICK p, s, id : p = toMaster'[c][k] /\ s = sid[c] /\ id = p.packet
    OBVIOUS
  <2>1. Origins(c) /\ clean[c]
    BY <1>2, WireStep DEF Origins
  <2>2. PICK ask : /\ s \in 1..Cardinality(Conns) /\ sid'[c] = s /\ id \in 1..packet[s]
                   /\ p.of = AsRead(ask) /\ AskedBy(s, id, ask)
    <3>1. CASE OldIn(c, toMaster[c], p)
      <4>1. PICK l \in DOMAIN toMaster[c] : p = toMaster[c][l]
        BY <3>1 DEF OldIn
      <4>2. id \in 1..packet[s] /\ \E ask : p.of = AsRead(ask) /\ AskedBy(s, id, ask)
        BY <1>2, <2>0, <2>1, <4>1 DEF ResponseInv
      <4> QED
        BY <2>0, <3>1, <4>2, SidRange DEF OldIn
    <3>2. CASE NewResponse(c, p)
      <4>1. /\ sid'[c] = sid[c] /\ sub[c] = "running" /\ toSub[c] # <<>> /\ p.packet = Head(toSub[c]).packet
            /\ Head(toSub[c]).type \in RequestKinds => p.of = AsRead([kind |-> Head(toSub[c]).type, oid |-> Head(toSub[c]).oid])
        BY <3>2 DEF NewResponse
      <4>2. IsSeq(toSub[c]) /\ sid[c] # 0
        BY <4>1 DEF ShapeInv, Shape
      <4>3. 1 \in DOMAIN toSub[c] /\ Head(toSub[c]) = toSub[c][1]
        BY <4>1, <4>2, TailOfQueue
      <4>4. toSub[c][1].type # "response"
        <5>1. Tokens(sub[c], task[c], toMaster[c], toSub[c], clean[c])
          BY DEF TokenInv
        <5>2. None(toSub[c], {"response"})
          BY <2>1, <4>1, <5>1 DEF Tokens
        <5> QED
          BY <4>3, <5>2 DEF None
      <4>5. /\ toSub[c][1].type \in RequestKinds
            /\ toSub[c][1].packet \in 1..packet[sid[c]]
            /\ AskedBy(sid[c], toSub[c][1].packet, [kind |-> toSub[c][1].type, oid |-> toSub[c][1].oid])
        BY <4>3, <4>4 DEF RequestInv
      <4> QED
        BY <2>0, <4>1, <4>2, <4>3, <4>5, SidRange
    <3> QED
      BY <1>2, <2>0, <2>1, <3>1, <3>2 DEF Origins, FromSub
  <2>3. AskedBy(s, id, ask)' /\ id \in 1..packet'[s]
    BY <1>1, <2>2, AskedKept
  <2>4. \A f \in Forwarders : Awaits(fwd'[f], s, id) => fwd'[f].ask = ask
    BY <2>3 DEF AskedBy, Awaits, Holds
  <2> QED
    BY <2>0, <2>2, <2>3, <2>4
<1> QED
  BY <1>2 DEF ResponseInv, AskedBy, Awaits, Holds

LEMMA ReplyInvStep ==
  ASSUME StartInv, SessionInv, CountInv, PacketInv, ShapeInv, OpenInv, ResponseInv, ReplyInv, [Next]_vars, SessionInv'
  PROVE  ReplyInv'
<1>1. \A f \in Forwarders : Held(f) /\ ReplyFrom(f)
  BY HoldersStep
<1>2. ASSUME NEW f \in Forwarders, Holds(fwd'[f]), fwd'[f].reply # "none", clean'[ConnOf(fwd[f].sid)']
      PROVE  fwd'[f].of = AsRead(fwd'[f].ask)
  <2>1. /\ Holds(fwd[f]) /\ fwd'[f].sid = fwd[f].sid /\ fwd'[f].ask = fwd[f].ask
    BY <1>1, <1>2 DEF Held, ReplyFrom
  <2>2. PICK c \in Conns : sid[c] = fwd[f].sid /\ sid[c] # 0 /\ ConnOf(fwd[f].sid) = c
    BY <2>1, HolderConn DEF Uses, Holds
  <2>3. sid'[c] = sid[c]
    <3>1. CASE \E d \in Conns : First(d)
      <4>1. PICK d \in Conns : First(d)
        BY <3>1
      <4>2. sid[d] = 0 /\ DOMAIN sid = Conns
        BY <4>1 DEF First, SessionInv
      <4>3. UNCHANGED sid \/ sid' = [sid EXCEPT ![d] = nextSession]
        BY <4>1 DEF First
      <4> QED
        BY <2>2, <4>2, <4>3
    <3>2. CASE ~ \E d \in Conns : First(d)
      <4>1. CASE UNCHANGED vars
        BY <4>1 DEF vars, master
      <4>2. ASSUME NEW d \in Conns, Answer(d) \/ Read(d) \/ ReadEnd(d) \/ Subagent(d) \/ Die(d) PROVE UNCHANGED sid
        BY <4>2 DEF Answer, Read, ReadEnd, Subagent, Opened, CallReturns, Run, ServeRequest, SubEnd, Die, master
      <4>3. ASSUME NEW d \in Conns, NEW x, Connect(d, x) \/ MakeCall(d, x) PROVE UNCHANGED sid
        BY <4>3 DEF Connect, MakeCall, master
      <4>4. ASSUME NEW g \in Forwarders, Forward(g) \/ \E ask : Ask(g, ask) PROVE UNCHANGED sid
        BY <4>4 DEF Forward, Enter, Write, Finish, Timeout, Ask, master
      <4> QED
        BY <3>2, <4>1, <4>2, <4>3, <4>4 DEF Next, Task
    <3> QED
      BY <3>1, <3>2
  <2>4. ConnOf(fwd[f].sid)' = c
    <3>1. PICK s : s = sid'[c] /\ s # 0 /\ fwd'[f].sid = s
      BY <2>1, <2>2, <2>3
    <3>2. (CHOOSE d \in Conns : sid'[d] = s) = c
      <4>1. \A d, e \in Conns : sid'[d] = sid'[e] /\ sid'[d] # 0 => d = e
        BY DEF SessionInv
      <4> QED
        BY <3>1, <4>1
    <3> QED
      BY <3>1, <3>2 DEF ConnOf
  <2>5. clean[c]
    BY <1>2, <2>4, WireStep DEF Origins
  <2>6. CASE fwd'[f].reply = fwd[f].reply /\ fwd'[f].of = fwd[f].of
    BY <1>2, <2>1, <2>2, <2>5, <2>6 DEF ReplyInv
  <2>7. ASSUME NEW d \in Conns, Read(d), Matched(d, Head(toMaster[d]), f), fwd'[f].of = Head(toMaster[d]).of,
               Head(toMaster[d]).type = "response"
        PROVE  fwd'[f].of = AsRead(fwd'[f].ask)
    <3>0. PICK p : p = Head(toMaster[d])
      OBVIOUS
    <3>1. fwd[f].sid = sid[d] /\ fwd[f].packet = p.packet
      BY <2>7, <3>0 DEF Matched, Holding
    <3>2. d = c
      BY <2>2, <3>1 DEF SessionInv
    <3>3. IsSeq(toMaster[c]) /\ toMaster[c] # <<>>
      BY <2>7, <3>2 DEF ShapeInv, Shape, Read
    <3>4. 1 \in DOMAIN toMaster[c] /\ p = toMaster[c][1]
      BY <3>0, <3>2, <3>3, TailOfQueue
    <3>5. PICK ask : p.of = AsRead(ask) /\ AskedBy(sid[c], p.packet, ask)
      BY <2>5, <2>7, <3>0, <3>4 DEF ResponseInv
    <3>6. Awaits(fwd[f], sid[c], p.packet)
      BY <2>1, <3>1, <3>2 DEF Awaits
    <3> QED
      BY <2>1, <2>7, <3>0, <3>5, <3>6 DEF AskedBy
  <2>8. \A d \in Conns : ReadResponse(d) => Head(toMaster[d]).type = "response"
    BY DEF ReadResponse
  <2> QED
    BY <1>1, <1>2, <2>6, <2>7, <2>8 DEF ReplyFrom
<1> QED
  BY <1>2 DEF ReplyInv, Holds

LEMMA WireInvInit ==
  ASSUME Init PROVE ShapeInv /\ OpenInv /\ TokenInv /\ RequestInv /\ ResponseInv /\ ReplyInv
<1>1. /\ sub = [c \in Conns |-> "off"] /\ task = [c \in Conns |-> "none"] /\ sid = [c \in Conns |-> 0]
      /\ call = [c \in Conns |-> NoCall] /\ toMaster = [c \in Conns |-> <<>>] /\ toSub = [c \in Conns |-> <<>>]
      /\ acked = [c \in Conns |-> {}] /\ clean = [c \in Conns |-> TRUE] /\ fwd = [f \in Forwarders |-> Idle]
  BY DEF Init
<1>2. IsSeq(<<>>) /\ (\A S : None(<<>>, S)) /\ DOMAIN <<>> = {}
  <2>1. <<>> \in Seq({})
    OBVIOUS
  <2> QED
    BY <2>1 DEF IsSeq, None
<1>3. Domains
  BY <1>1 DEF Domains
<1>4. \A c \in Conns : Shape(sub[c], sid[c], toMaster[c], toSub[c], acked[c])
  BY <1>1, <1>2 DEF Shape
<1>5. \A f \in Forwarders : ~Uses(fwd[f]) /\ ~Holds(fwd[f])
  BY <1>1, IdleFields DEF Uses, Holds
<1>6. OpenInv
  BY <1>1, <1>5 DEF OpenInv
<1>7. TokenInv
  BY <1>1 DEF TokenInv, Tokens
<1>8. RequestInv /\ ResponseInv
  BY <1>1, <1>2 DEF RequestInv, ResponseInv
<1>9. ReplyInv
  BY <1>5 DEF ReplyInv
<1> QED
  BY <1>3, <1>4, <1>6, <1>7, <1>8, <1>9 DEF ShapeInv

\* What holds of a connection in every state.
WireInv ==
    /\ StartInv /\ SessionInv /\ CountInv /\ PacketInv
    /\ ShapeInv /\ OpenInv /\ TokenInv /\ RequestInv /\ ResponseInv /\ ReplyInv

LEMMA WireInvStep ==
  ASSUME WireInv, [Next]_vars
  PROVE  WireInv'
<1>0. /\ StartInv /\ SessionInv /\ CountInv /\ PacketInv
      /\ ShapeInv /\ OpenInv /\ TokenInv /\ RequestInv /\ ResponseInv /\ ReplyInv
  BY DEF WireInv
<1>1. StartInv' /\ SessionInv' /\ CountInv' /\ PacketInv'
  BY <1>0, StartInvStep, SessionInvStep, CountInvStep, PacketInvStep
<1>2. ShapeInv' /\ OpenInv' /\ TokenInv'
  BY <1>0, ShapeInvStep, OpenInvStep, TokenInvStep
<1>3. RequestInv' /\ ResponseInv'
  BY <1>0, RequestInvStep, ResponseInvStep
<1>4. ReplyInv'
  BY <1>0, <1>1, ReplyInvStep
<1> QED
  BY <1>1, <1>2, <1>3, <1>4 DEF WireInv

\* As long as no call of the subagent has taken a forwarded request for its answer, what
\* exchange returns is the handler's answer to the request it wrote, as decode_body reads
\* that request (a GetNext is read as a Get), whatever else is forwarded on the
\* connection, times out or is answered late.
THEOREM AnswersBelong == Spec => []RepliesMatch
<1>1. Init => WireInv
  BY StartInvInit, SessionInvInit, CountInvInit, PacketInvInit, WireInvInit DEF WireInv
<1>2. WireInv /\ [Next]_vars => WireInv'
  BY WireInvStep
<1>3. WireInv => RepliesMatch
  BY DEF WireInv, ReplyInv, RepliesMatch, Answered, Holds
<1> QED
  BY <1>1, <1>2, <1>3, PTL DEF Spec

---------------------------------------------------------------------------
(* What register returned Ok for is registered.                            *)

\* The registrations of a session last as long as the session.
RegisteredNext(s, x) == \E k \in DOMAIN subtrees' : subtrees'[k].sid = s /\ subtrees'[k].subtree = x

Lasting(s) ==
    /\ \A x : Registered(s, x) => RegisteredNext(s, x) \/ s \notin sessions'
    /\ s \notin sessions => s \notin sessions'

LEMMA RegisterSame ==
  ASSUME NEW c \in Conns, RegisterAt(c), SameAt(c), Lasting(sid[c])
  PROVE  RegisterAt(c)'
<1>1. CASE ~(SubUp(c)' /\ clean'[c])
  BY <1>1 DEF RegisterAt
<1>2. CASE SubUp(c)' /\ clean'[c]
  <2>1. SubUp(c) /\ clean[c] /\ sid'[c] = sid[c]
    BY <1>2 DEF SameAt, SubUp
  <2>2. \A x : Registered(sid[c], x) \/ sid[c] \notin sessions => Registered(sid[c], x)' \/ sid'[c] \notin sessions'
    BY <2>1 DEF Lasting, Registered, RegisteredNext
  <2>3. (\A x \in acked[c] : Registered(sid[c], x) \/ sid[c] \notin sessions)'
    BY <2>1, <2>2 DEF RegisterAt, SameAt
  <2>4. (\A k \in DOMAIN toMaster[c] : toMaster[c][k].type = "unregister" => toMaster[c][k].subtree \notin acked[c])'
    BY <2>1 DEF RegisterAt, SameAt
  <2>5. CallAt(c)'
    BY <2>1, <2>2 DEF RegisterAt, CallAt, SameAt
  <2> QED
    BY <2>3, <2>4, <2>5 DEF RegisterAt
<1> QED
  BY <1>1, <1>2

\* A connection without registrations, that waits in no call.
LEMMA RegisterNone ==
  ASSUME NEW c \in Conns, acked'[c] = {}, sub'[c] # "calling"
  PROVE  RegisterAt(c)'
BY DEF RegisterAt, CallAt

\* A connection that returned from a call or waits in none.
LEMMA RegisterIdle ==
  ASSUME NEW c \in Conns, RegisterAt(c), SubUp(c), clean'[c] => clean[c], sub'[c] # "calling", sid'[c] = sid[c], Lasting(sid[c]),
         \A x \in acked'[c] : x \in acked[c],
         \A k \in DOMAIN toMaster'[c] : toMaster'[c][k].type = "unregister" =>
            \/ toMaster'[c][k].subtree \notin acked'[c]
            \/ \E l \in DOMAIN toMaster[c] : toMaster'[c][k] = toMaster[c][l]
  PROVE  RegisterAt(c)'
<1>1. CASE ~clean'[c]
  BY <1>1 DEF RegisterAt
<1>2. CASE clean[c]
  <2>1. \A x : Registered(sid[c], x) \/ sid[c] \notin sessions => Registered(sid[c], x)' \/ sid'[c] \notin sessions'
    BY DEF Lasting, Registered, RegisteredNext
  <2>2. (\A x \in acked[c] : Registered(sid[c], x) \/ sid[c] \notin sessions)'
    BY <1>2, <2>1 DEF RegisterAt
  <2>3. (\A k \in DOMAIN toMaster[c] : toMaster[c][k].type = "unregister" => toMaster[c][k].subtree \notin acked[c])'
    BY <1>2 DEF RegisterAt
  <2>4. CallAt(c)'
    BY DEF CallAt
  <2> QED
    BY <2>2, <2>3, <2>4 DEF RegisterAt
<1> QED
  BY <1>1, <1>2

\* Steps that leave the table and the session map alone.
LEMMA AllLasting ==
  ASSUME UNCHANGED <<subtrees, sessions>>
  PROVE  \A s : Lasting(s)
BY DEF Lasting, Registered, RegisteredNext

LEMMA RegisterInvStep ==
  ASSUME WireInv, RegisterInv, [Next]_vars
  PROVE  RegisterInv'
<1>i. /\ StartInv /\ SessionInv /\ CountInv /\ PacketInv /\ ShapeInv /\ OpenInv /\ TokenInv
  BY DEF WireInv
<1>0. Domains /\ \A c \in Conns : Shape(sub[c], sid[c], toMaster[c], toSub[c], acked[c])
  BY <1>i DEF ShapeInv
<1>q. \A c \in Conns : IsSeq(toMaster[c]) /\ IsSeq(toSub[c])
  BY <1>0 DEF Shape
<1>t. \A c \in Conns : Tokens(sub[c], task[c], toMaster[c], toSub[c], clean[c])
  BY <1>i DEF TokenInv
<1>r. \A c \in Conns : RegisterAt(c)
  BY DEF RegisterInv
<1>1. CASE AllSame /\ UNCHANGED <<subtrees, sessions>>
  BY <1>1, <1>r, RegisterSame, AllLasting DEF AllSame, RegisterInv
<1>2. ASSUME NEW c \in Conns, OnlyAt(c), RegisterAt(c)', \A d \in Conns : d # c => Lasting(sid[d]) PROVE RegisterInv'
  <2>1. ASSUME NEW d \in Conns, d # c PROVE RegisterAt(d)'
    BY <1>2, <1>r, <2>1, RegisterSame DEF OnlyAt
  <2> QED
    BY <1>2, <2>1 DEF RegisterInv
<1>3. ASSUME NEW c \in Conns, First(c) PROVE RegisterInv'
  <2>1. /\ OnlyAt(c) /\ UNCHANGED subtrees /\ acked'[c] = acked[c] /\ sub'[c] = sub[c]
        /\ UNCHANGED sessions \/ sessions' = sessions \cup {nextSession}
    BY <1>0, <1>3, FirstEffect
  <2>2. sid[c] = 0
    BY <1>3, <1>i DEF First, SessionInv
  <2>3. acked[c] = {} /\ sub[c] # "calling"
    BY <1>0, <2>2 DEF Shape
  <2>4. \A d \in Conns : sid[d] # nextSession
    BY <1>i DEF SessionInv
  <2>5. \A d \in Conns : Lasting(sid[d])
    BY <2>1, <2>4 DEF Lasting, Registered, RegisteredNext
  <2>6. RegisterAt(c)'
    BY <2>1, <2>3, RegisterNone
  <2> QED
    BY <1>2, <2>1, <2>5, <2>6
<1>4. ASSUME NEW c \in Conns, Answer(c) PROVE RegisterInv'
  <2>1. /\ OnlyAt(c) /\ UNCHANGED <<subtrees, sessions>> /\ Owes(task[c]) /\ sub'[c] = sub[c] /\ sid'[c] = sid[c]
        /\ call'[c] = call[c] /\ toMaster'[c] = toMaster[c] /\ acked'[c] = acked[c] /\ clean'[c] = clean[c]
    BY <1>0, <1>4, AnswerEffect
  <2>2. RegisterAt(c)'
    <3>1. CASE ~(SubUp(c) /\ clean[c])
      BY <2>1, <3>1 DEF RegisterAt, SubUp
    <3>2. CASE SubUp(c) /\ clean[c]
      <4>1. CallAt(c)'
        <5>1. sub[c] = "calling" =>
                 /\ \A k \in DOMAIN toMaster[c] : toMaster[c][k].type \in Acked => toMaster[c][k] = call[c]
                 /\ call[c].type = "register" => Registered(sid[c], call[c].subtree) \/ sid[c] \notin sessions
          BY <1>r, <2>1, <3>2 DEF RegisterAt, CallAt
        <5>2. Registered(sid[c], call[c].subtree) => Registered(sid[c], call[c].subtree)'
          BY <2>1 DEF Registered
        <5> QED
          BY <2>1, <5>1, <5>2 DEF CallAt
      <4> QED
        BY <1>r, <2>1, <3>2, <4>1 DEF RegisterAt, Registered
    <3> QED
      BY <3>1, <3>2
  <2> QED
    BY <1>2, <2>1, <2>2, AllLasting
\* The session of another connection is not the one the task reads for.
<1>5. ASSUME NEW c \in Conns, NEW d \in Conns, d # c, task[c] \in Live PROVE sid[d] # sid[c]
  BY <1>5, <1>i DEF SessionInv
<1>6. ASSUME NEW c \in Conns, Read(c) PROVE RegisterInv'
  <2>0. /\ OnlyAt(c) /\ task[c] \in Live /\ toMaster[c] # <<>> /\ toMaster'[c] = Tail(toMaster[c])
        /\ sub'[c] = sub[c] /\ sid'[c] = sid[c] /\ call'[c] = call[c] /\ toSub'[c] = toSub[c]
        /\ acked'[c] = acked[c] /\ clean'[c] = clean[c]
    BY <1>0, <1>6, ReadEffect
  <2>1. PICK pdu : pdu = Head(toMaster[c])
    OBVIOUS
  <2>2. /\ \A i \in DOMAIN subtrees : \/ \E k \in DOMAIN subtrees' : subtrees'[k] = subtrees[i]
                                      \/ subtrees[i].sid = sid[c] /\ sid[c] \notin sessions'
                                      \/ /\ subtrees[i].sid = sid[c] /\ pdu.type = "unregister"
                                         /\ subtrees[i].subtree = pdu.subtree
        /\ ReadCall(c) /\ pdu.type = "register" =>
             \E k \in DOMAIN subtrees' : subtrees'[k].sid = sid[c] /\ subtrees'[k].subtree = pdu.subtree
        /\ \A s : s \in sessions' => s \in sessions
    <3>1. IsSeq(subtrees)
      BY <1>i DEF SessionInv
    <3> QED
      BY <1>6, <2>1, <3>1, ReadTable
  <2>3. \A d \in Conns : d # c => Lasting(sid[d])
    BY <1>5, <2>0, <2>2 DEF Lasting, Registered, RegisteredNext
  <2>4. \A x : Registered(sid[c], x) \/ sid[c] \notin sessions =>
                 Registered(sid[c], x)' \/ sid'[c] \notin sessions' \/ (pdu.type = "unregister" /\ pdu.subtree = x)
    BY <2>0, <2>2 DEF Registered
  <2>5. /\ 1 \in DOMAIN toMaster[c] /\ pdu = toMaster[c][1]
        /\ \A k \in DOMAIN toMaster'[c] : \E l \in DOMAIN toMaster[c] : toMaster'[c][k] = toMaster[c][l]
    BY <1>q, <2>0, <2>1, TailOfQueue
  <2>6. RegisterAt(c)'
    <3>1. CASE ~(SubUp(c) /\ clean[c])
      BY <2>0, <3>1 DEF RegisterAt, SubUp
    <3>2. CASE SubUp(c) /\ clean[c]
      <4>1. \A x \in acked[c] : Registered(sid[c], x)' \/ sid'[c] \notin sessions'
        BY <1>r, <2>4, <2>5, <3>2 DEF RegisterAt
      <4>2. \A k \in DOMAIN toMaster'[c] : toMaster'[c][k].type = "unregister" => toMaster'[c][k].subtree \notin acked[c]
        BY <1>r, <2>5, <3>2 DEF RegisterAt
      <4>3. ASSUME sub[c] = "calling"
            PROVE  /\ \A k \in DOMAIN toMaster'[c] : toMaster'[c][k].type \in Acked => toMaster'[c][k] = call[c]
                   /\ (Owes(task'[c]) \/ ~None(toSub[c], {"response"})) /\ call[c].type = "register" =>
                         Registered(sid[c], call[c].subtree)' \/ sid'[c] \notin sessions'
        <5>1. /\ \A k \in DOMAIN toMaster[c] : toMaster[c][k].type \in Acked => toMaster[c][k] = call[c]
              /\ ~None(toSub[c], {"response"}) /\ call[c].type = "register" =>
                    Registered(sid[c], call[c].subtree) \/ sid[c] \notin sessions
          BY <1>r, <3>2, <4>3 DEF RegisterAt, CallAt
        <5>2. CASE ReadCall(c) /\ pdu.type \in Acked
          <6>1. pdu = call[c]
            BY <2>5, <5>1, <5>2
          <6>2. call[c].type = "register" => Registered(sid[c], call[c].subtree)'
            BY <2>0, <2>2, <5>2, <6>1 DEF Registered
          <6> QED
            BY <2>5, <5>1, <6>2
        <5>3. CASE task'[c] \in {"serving", "ended"}
          <6>1. ~None(toSub[c], {"response"}) => pdu.type # "unregister"
            BY <1>t, <2>5, <3>2 DEF Tokens, SubUp, None, Acked
          <6>2. ~Owes(task'[c])
            BY <5>3 DEF Owes
          <6>3. ~None(toSub[c], {"response"}) /\ call[c].type = "register" =>
                   Registered(sid[c], call[c].subtree)' \/ sid'[c] \notin sessions'
            <7>1. PICK x : x = call[c].subtree /\ x = call'[c].subtree
              BY <2>0
            <7>2. Registered(sid[c], x) \/ sid[c] \notin sessions =>
                    Registered(sid[c], x)' \/ sid'[c] \notin sessions' \/ pdu.type = "unregister"
              BY <2>4
            <7>3. Registered(sid[c], x)' => Registered(sid[c], call[c].subtree)'
              BY <7>1 DEF Registered
            <7> QED
              BY <5>1, <6>1, <7>1, <7>2, <7>3
          <6> QED
            BY <2>5, <5>1, <6>2, <6>3
        <5> QED
          BY <1>0, <1>6, <2>1, <5>2, <5>3, ReadEffect
      <4>4. CallAt(c)'
        BY <2>0, <4>3 DEF CallAt
      <4> QED
        BY <2>0, <4>1, <4>2, <4>4 DEF RegisterAt
    <3> QED
      BY <3>1, <3>2
  <2> QED
    BY <1>2, <2>0, <2>3, <2>6
<1>7. ASSUME NEW c \in Conns, ReadEnd(c) PROVE RegisterInv'
  <2>1. OnlyAt(c) /\ ReclaimSession(sid[c]) /\ ~SubUp(c) /\ sub'[c] = sub[c]
    BY <1>0, <1>7, ReadEndEffect
  <2>2. task[c] \in Live /\ IsSeq(subtrees)
    BY <1>7, <1>i DEF ReadEnd, Live, SessionInv
  <2>3. /\ \A i \in DOMAIN subtrees : subtrees[i].sid # sid[c] => \E k \in DOMAIN subtrees' : subtrees'[k] = subtrees[i]
        /\ sessions' = sessions \ {sid[c]}
    BY <2>1, <2>2, ReclaimTable
  <2>4. \A d \in Conns : d # c => Lasting(sid[d])
    BY <1>5, <2>2, <2>3 DEF Lasting, Registered, RegisteredNext
  <2>5. RegisterAt(c)'
    BY <2>1 DEF RegisterAt, SubUp
  <2> QED
    BY <1>2, <2>1, <2>4, <2>5
<1>8. ASSUME NEW c \in Conns, OnlyAt(c), MasterSame, RegisterAt(c)' PROVE RegisterInv'
  BY <1>2, <1>8, AllLasting DEF MasterSame
<1>9. ASSUME NEW c \in Conns, GoesAt(c) PROVE RegisterAt(c)'
  BY <1>9, RegisterNone DEF GoesAt
<1>10. ASSUME NEW c \in Conns, SubEnd(c) \/ Die(c) PROVE RegisterInv'
  BY <1>0, <1>8, <1>9, <1>10, EndEffect
<1>11. ASSUME NEW c \in Conns, Opened(c) PROVE RegisterInv'
  <2>1. OnlyAt(c) /\ MasterSame /\ sub[c] = "opening" /\ sub'[c] = "ready" /\ acked'[c] = acked[c]
    BY <1>0, <1>11, OpenedEffect
  <2>2. acked[c] = {}
    BY <1>0, <2>1 DEF Shape
  <2> QED
    BY <1>8, <2>1, <2>2, RegisterNone
<1>12. ASSUME NEW c \in Conns, Run(c) PROVE RegisterInv'
  <2>1. /\ OnlyAt(c) /\ MasterSame /\ sub[c] = "ready" /\ sub'[c] = "running" /\ acked'[c] = acked[c] /\ sid'[c] = sid[c]
        /\ toMaster'[c] = toMaster[c] /\ clean'[c] = clean[c]
    BY <1>0, <1>12, RunEffect
  <2>2. SubUp(c) /\ Lasting(sid[c])
    BY <2>1, AllLasting DEF SubUp, MasterSame
  <2>3. RegisterAt(c)'
    BY <1>r, <2>1, <2>2, RegisterIdle
  <2> QED
    BY <1>8, <2>1, <2>3
<1>13. ASSUME NEW c \in Conns, ServeRequest(c) PROVE RegisterInv'
  <2>1. /\ OnlyAt(c) /\ MasterSame /\ sub[c] = "running" /\ sub'[c] = "running" /\ acked'[c] = acked[c] /\ sid'[c] = sid[c]
        /\ clean'[c] = clean[c]
    BY <1>0, <1>13, ServeEffect
  <2>2. PICK e : toMaster'[c] = Append(toMaster[c], e) /\ e.type = "response"
    BY <1>0, <1>13, ServeEffect
  <2>3. \A k \in DOMAIN toMaster'[c] : toMaster'[c][k].type = "unregister" =>
            \E l \in DOMAIN toMaster[c] : toMaster'[c][k] = toMaster[c][l]
    BY <1>q, <2>2, AppendToQueue
  <2>4. SubUp(c) /\ Lasting(sid[c])
    BY <2>1, AllLasting DEF SubUp, MasterSame
  <2>5. RegisterAt(c)'
    BY <1>r, <2>1, <2>3, <2>4, RegisterIdle
  <2> QED
    BY <1>8, <2>1, <2>5
<1>14. ASSUME NEW c \in Conns, CallReturns(c) PROVE RegisterInv'
  <2>1. OnlyAt(c) /\ MasterSame /\ sub[c] = "calling" /\ toSub[c] # <<>> /\ sid'[c] = sid[c] /\ toMaster'[c] = toMaster[c]
    BY <1>0, <1>14, CallReturnsEffect
  <2>2. CASE GoesAt(c)
    BY <1>8, <1>9, <2>1, <2>2
  <2>3. CASE /\ sub'[c] = "ready" /\ (clean'[c] => clean[c] /\ Head(toSub[c]).type = "response")
             /\ \/ acked'[c] = acked[c]
                \/ call[c].type = "register" /\ acked'[c] = acked[c] \cup {call[c].subtree}
    <3>1. CASE ~clean'[c]
      <4>1. RegisterAt(c)'
        BY <3>1 DEF RegisterAt
      <4> QED
        BY <1>8, <2>1, <4>1
    <3>2. CASE clean'[c]
      <4>1. SubUp(c) /\ clean[c] /\ Head(toSub[c]).type = "response"
        BY <2>1, <2>3, <3>2 DEF SubUp
      <4>2. ~None(toSub[c], {"response"})
        BY <1>q, <2>1, <4>1, TailOfQueue DEF None
      <4>3. None(toMaster[c], Acked)
        BY <1>t, <2>1, <4>1, <4>2 DEF Tokens
      <4>4. call[c].type = "register" => Registered(sid[c], call[c].subtree) \/ sid[c] \notin sessions
        BY <1>r, <2>1, <4>1, <4>2 DEF RegisterAt, CallAt
      <4>5. \A x \in acked'[c] : Registered(sid[c], x) \/ sid[c] \notin sessions
        BY <1>r, <2>3, <4>1, <4>4 DEF RegisterAt
      <4>6. (\A x \in acked[c] : Registered(sid[c], x) \/ sid[c] \notin sessions)'
        BY <2>1, <4>5 DEF Registered, MasterSame
      <4>7. (\A k \in DOMAIN toMaster[c] : toMaster[c][k].type = "unregister" => toMaster[c][k].subtree \notin acked[c])'
        BY <2>1, <4>3 DEF None, Acked
      <4>8. RegisterAt(c)'
        BY <2>3, <4>6, <4>7 DEF RegisterAt, CallAt
      <4> QED
        BY <1>8, <2>1, <4>8
    <3> QED
      BY <3>1, <3>2
  <2> QED
    BY <1>0, <1>14, <2>2, <2>3, CallReturnsEffect
<1>15. ASSUME NEW c \in Conns, NEW pdu \in Calls[c], MakeCall(c, pdu) PROVE RegisterInv'
  <2>1. OnlyAt(c) /\ MasterSame /\ sub[c] = "ready" /\ sid'[c] = sid[c] /\ task'[c] = task[c]
    BY <1>0, <1>15, MakeCallEffect
  <2>2. CASE GoesAt(c)
    BY <1>8, <1>9, <2>1, <2>2
  <2>3. CASE /\ toMaster'[c] = Append(toMaster[c], pdu) /\ toSub'[c] = toSub[c] /\ clean'[c] = clean[c]
             /\ \/ pdu.type \notin Acked /\ sub'[c] = "ready"
                \/ pdu.type \in Acked /\ sub'[c] = "calling" /\ call'[c] = pdu
             /\ \A x \in acked'[c] : x \in acked[c]
             /\ pdu.type = "unregister" => pdu.subtree \notin acked'[c]
    <3>1. \A k \in DOMAIN toMaster'[c] : toMaster'[c][k] = pdu \/ \E l \in DOMAIN toMaster[c] : toMaster'[c][k] = toMaster[c][l]
      BY <1>q, <2>3, AppendToQueue
    <3>2. SubUp(c) /\ Lasting(sid[c])
      BY <2>1, AllLasting DEF SubUp, MasterSame
    <3>3. CASE sub'[c] = "ready"
      <4>1. RegisterAt(c)'
        BY <1>r, <2>1, <2>3, <3>1, <3>2, <3>3, RegisterIdle
      <4> QED
        BY <1>8, <2>1, <4>1
    <3>4. CASE sub'[c] = "calling" /\ call'[c] = pdu
      <4>1. CASE ~clean[c]
        BY <1>8, <2>1, <2>3, <4>1 DEF RegisterAt
      <4>2. CASE clean[c]
        <5>1. None(toMaster[c], Acked) /\ ~Owes(task[c]) /\ None(toSub[c], {"response"})
          BY <1>t, <2>1, <4>2 DEF Tokens
        <5>2. CallAt(c)'
          BY <2>1, <2>3, <3>1, <3>4, <5>1 DEF CallAt, None
        <5>3. (\A x \in acked[c] : Registered(sid[c], x) \/ sid[c] \notin sessions)'
          BY <1>r, <2>1, <2>3, <3>2, <4>2 DEF RegisterAt, Registered, MasterSame
        <5>4. (\A k \in DOMAIN toMaster[c] : toMaster[c][k].type = "unregister" => toMaster[c][k].subtree \notin acked[c])'
          BY <1>r, <2>3, <3>1, <3>2, <4>2 DEF RegisterAt
        <5>5. RegisterAt(c)'
          BY <5>2, <5>3, <5>4 DEF RegisterAt
        <5> QED
          BY <1>8, <2>1, <5>5
      <4> QED
        BY <4>1, <4>2
    <3> QED
      BY <2>3, <3>3, <3>4
  <2> QED
    BY <1>0, <1>15, <2>2, <2>3, MakeCallEffect
<1>16. ASSUME NEW c \in Conns, NEW first \in {"open", "unexpected"}, Connect(c, first) PROVE RegisterInv'
  <2>1. OnlyAt(c) /\ MasterSame /\ sub[c] = "off" /\ sub'[c] = "opening" /\ acked'[c] = acked[c]
    BY <1>0, <1>16, ConnectEffect
  <2>2. acked[c] = {}
    BY <1>0, <2>1 DEF Shape
  <2> QED
    BY <1>8, <2>1, <2>2, RegisterNone
<1>17. ASSUME NEW f \in Forwarders, Write(f) PROVE RegisterInv'
  <2>1. PICK c \in Conns : sid[c] = fwd[f].sid /\ sid[c] # 0 /\ ConnOf(fwd[f].sid) = c
    BY <1>17, <1>i, HolderConn DEF Write, Uses
  <2>2. CASE ~SubUp(c)
    BY <1>0, <1>1, <1>17, <2>1, <2>2, ForwarderEffect
  <2>3. CASE SubUp(c)
    <3>1. /\ OnlyAt(c) /\ sub'[c] = sub[c] /\ task'[c] = task[c] /\ clean'[c] = clean[c] /\ toMaster'[c] = toMaster[c]
          /\ sid'[c] = sid[c] /\ call'[c] = call[c] /\ acked'[c] = acked[c] /\ UNCHANGED <<subtrees, sessions>>
      BY <1>0, <1>17, <2>1, <2>3, WriteEffect
    <3>2. PICK e : toSub'[c] = Append(toSub[c], e) /\ e.type = fwd[f].ask.kind
      BY <1>0, <1>17, <2>1, <2>3, WriteEffect
    <3>3. fwd[f].ask \in [kind : RequestKinds, oid : Oids]
      BY <1>17, <1>i DEF OpenInv, Write, Uses
    <3>4. e.type \notin {"response"}
      BY <3>2, <3>3 DEF RequestKinds
    <3>5. None(toSub[c], {"response"}) => None(toSub'[c], {"response"})
      BY <1>q, <3>2, <3>4, AppendTypes
    <3>6. RegisterAt(c)'
      <4>1. CASE ~clean[c]
        BY <3>1, <4>1 DEF RegisterAt
      <4>2. CASE clean[c]
        <5>1. CallAt(c)'
          <6>1. CallAt(c)
            BY <1>r, <2>3, <4>2 DEF RegisterAt
          <6>2. Registered(sid[c], call[c].subtree) => Registered(sid[c], call[c].subtree)'
            BY <3>1 DEF Registered
          <6> QED
            BY <3>1, <3>5, <6>1, <6>2 DEF CallAt
        <5> QED
          BY <1>r, <2>3, <3>1, <4>2, <5>1 DEF RegisterAt, Registered
      <4> QED
        BY <4>1, <4>2
    <3> QED
      BY <1>2, <3>1, <3>6, AllLasting
  <2> QED
    BY <2>2, <2>3
<1>18. ASSUME NEW f \in Forwarders, (\E ask : Ask(f, ask)) \/ Enter(f) \/ Finish(f) \/ Timeout(f) PROVE RegisterInv'
  BY <1>0, <1>1, <1>18, ForwarderEffect
<1> QED
  <2>1. CASE UNCHANGED vars
    <3>1. AllSame /\ UNCHANGED <<subtrees, sessions>>
      BY <1>0, <2>1 DEF vars, master, agent, AllSame, SameAt, Domains
    <3> QED
      BY <1>1, <3>1
  <2>2. CASE Next
    BY <1>3, <1>4, <1>6, <1>7, <1>10, <1>11, <1>12, <1>13, <1>14, <1>15, <1>16, <1>17, <1>18, <2>2
       DEF Next, Task, Subagent, Forward
  <2> QED
    BY <2>1, <2>2

LEMMA RegisterInvInit ==
  ASSUME Init PROVE RegisterInv
BY DEF Init, RegisterInv, RegisterAt, SubUp

\* As long as no call of the subagent has taken a forwarded request for its answer, a
\* subtree for which Subagent::register returned Ok is in the master's table while the
\* session lasts and the subagent has not begun to take it back.
THEOREM RegisterOkHolds == Spec => []RegisterOkMeansRegistered
<1>1. Init => WireInv /\ RegisterInv
  BY StartInvInit, SessionInvInit, CountInvInit, PacketInvInit, WireInvInit, RegisterInvInit DEF WireInv
<1>2. WireInv /\ RegisterInv /\ [Next]_vars => (WireInv /\ RegisterInv)'
  BY WireInvStep, RegisterInvStep
<1>3. RegisterInv => RegisterOkMeansRegistered
  BY DEF RegisterInv, RegisterAt, Registered, RegisterOkMeansRegistered
<1> QED
  BY <1>1, <1>2, <1>3, PTL DEF Spec
=============================================================================
