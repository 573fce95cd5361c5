-------------------------- MODULE DelegationProofs --------------------------
(***************************************************************************)
(* Proofs about subtrees that others answer for, SMUX peers and scripts.   *)
(* For any number of peers, threads, lines of configuration and requests,  *)
(* the table of subtrees names peers that are there, and an answer that is *)
(* not mixed up with another is the own. For any number of callers, calls  *)
(* and deaths of the script, a call answers with lines written for it.     *)
(***************************************************************************)
EXTENDS Smux, Pass, FunctionTheorems, FiniteSetTheorems, SequenceTheorems, TLAPS

---------------------------------------------------------------------------
(* Vec::retain.                                                            *)

\* Every position that is kept has a rank, and no two have the same.
LEMMA RankProperties ==
  ASSUME NEW n \in Nat, NEW I \in SUBSET (1..n)
  PROVE  /\ IsFiniteSet(I) /\ Cardinality(I) \in Nat
         /\ \A i \in I : Rank(i, I) \in 1..Cardinality(I)
         /\ \A i, j \in I : i < j => Rank(i, I) # Rank(j, I)
<1>1. IsFiniteSet(I) /\ Cardinality(I) \in Nat
  <2>1. IsFiniteSet(1..n)
    BY FS_Interval
  <2> QED
    BY <2>1, FS_Subset, FS_CardinalityType
<1> DEFINE Upto(i) == {j \in I : j <= i}
<1>2. ASSUME NEW i \in I
      PROVE  IsFiniteSet(Upto(i)) /\ Cardinality(Upto(i)) \in 1..Cardinality(I)
  <2>1. Upto(i) \in SUBSET I /\ i \in Upto(i)
    OBVIOUS
  <2>2. IsFiniteSet(Upto(i)) /\ Cardinality(Upto(i)) <= Cardinality(I)
    BY <1>1, <2>1, FS_Subset
  <2>3. Cardinality(Upto(i)) \in Nat /\ Cardinality(Upto(i)) # 0
    BY <2>1, <2>2, FS_CardinalityType, FS_EmptySet
  <2> QED
    BY <1>1, <2>2, <2>3
<1>3. ASSUME NEW i \in I, NEW j \in I, i < j PROVE Cardinality(Upto(i)) # Cardinality(Upto(j))
  <2>1. i \in Int /\ j \in Int /\ \A k \in I : k \in Int
    OBVIOUS
  <2>2. Upto(i) \in SUBSET Upto(j) /\ j \in Upto(j) /\ j \notin Upto(i)
    <3>1. \A k \in I : k <= i => k <= j
      BY <1>3, <2>1
    <3>2. j <= j /\ ~(j <= i)
      BY <1>3, <2>1
    <3> QED
      BY <3>1, <3>2, Zenon
  <2>3. IsFiniteSet(Upto(j)) /\ Upto(i) # Upto(j)
    <3>1. IsFiniteSet(Upto(j))
      BY <1>2
    <3> QED
      BY <3>1, <2>2
  <2> HIDE DEF Upto
  <2> QED
    BY <2>2, <2>3, FS_Subset
<1> QED
  BY <1>1, <1>2, <1>3 DEF Rank

\* Every rank is that of a position.
LEMMA RankExists ==
  ASSUME NEW n \in Nat, NEW I \in SUBSET (1..n), NEW k \in 1..Cardinality(I)
  PROVE  \E i \in I : Rank(i, I) = k
<1> DEFINE f == [i \in I |-> Rank(i, I)]
<1>1. f \in Injection(I, 1..Cardinality(I))
  <2>1. \A i, j \in I : i # j => i < j \/ j < i
    OBVIOUS
  <2>2. \A i, j \in I : i # j => f[i] # f[j]
    BY <2>1, RankProperties
  <2>3. f \in [I -> 1..Cardinality(I)]
    BY RankProperties
  <2> QED
    BY <2>2, <2>3 DEF Injection, IsInjective
<1>2. IsFiniteSet(1..Cardinality(I)) /\ Cardinality(1..Cardinality(I)) = Cardinality(I)
  <2>1. Cardinality(I) \in Nat
    BY RankProperties
  <2> QED
    BY <2>1, FS_Interval
<1>3. f \in Surjection(I, 1..Cardinality(I))
  BY <1>1, <1>2, FS_Injection
<1> QED
  BY <1>3 DEF Surjection

\* What retain leaves is what was kept, all of it and nothing else.
LEMMA RetainProperties ==
  ASSUME NEW S, NEW s \in Seq(S), NEW I \in SUBSET DOMAIN s
  PROVE  /\ Retain(s, I) \in Seq(S)
         /\ \A k \in DOMAIN Retain(s, I) : \E i \in I : Retain(s, I)[k] = s[i]
         /\ \A i \in I : \E k \in DOMAIN Retain(s, I) : Retain(s, I)[k] = s[i]
<1>1. /\ Len(s) \in Nat /\ I \in SUBSET (1..Len(s))
      /\ \A i \in I : i \in Int /\ s[i] \in S
  OBVIOUS
<1>2. /\ Cardinality(I) \in Nat
      /\ \A i \in I : Rank(i, I) \in 1..Cardinality(I)
      /\ \A i, j \in I : Rank(i, I) = Rank(j, I) => i = j
  <2>1. \A i, j \in I : i # j => i < j \/ j < i
    BY <1>1
  <2> QED
    BY <1>1, <2>1, RankProperties
<1> DEFINE pos(k) == CHOOSE i \in I : Rank(i, I) = k
<1>3. \A k \in 1..Cardinality(I) : pos(k) \in I /\ Rank(pos(k), I) = k
  BY <1>1, RankExists
<1>4. /\ Retain(s, I) = [k \in 1..Cardinality(I) |-> s[pos(k)]]
  BY DEF Retain
<1> HIDE DEF pos
<1>5. Retain(s, I) \in Seq(S)
  BY <1>1, <1>2, <1>3, <1>4
<1>6. \A k \in DOMAIN Retain(s, I) : \E i \in I : Retain(s, I)[k] = s[i]
  BY <1>3, <1>4
<1>7. ASSUME NEW i \in I PROVE \E k \in DOMAIN Retain(s, I) : Retain(s, I)[k] = s[i]
  <2>1. pos(Rank(i, I)) = i
    BY <1>2, <1>3
  <2> QED
    BY <1>2, <1>4, <2>1
<1> QED
  BY <1>5, <1>6, <1>7

---------------------------------------------------------------------------
(* Types.                                                                  *)

Subtrees == {<<>>} \cup UNION {Registers[p] : p \in Peers}
Idents   == {<<>>} \cup (Threads \X Nat)
Objects  == {<<>>} \cup Names
Answers  == [id : Idents, name : Objects]
Pdus     == [type : {"get", "register", "open", "close", "end", "response"},
             subtree : Subtrees, operation : Int, answer : Answers]

Roundtrips == [pc : {"idle", "clear", "write", "poll"}, peer : Peers \cup {"none"}, id : Idents,
               name : Objects, answer : Answers, mixed : BOOLEAN]

Types ==
    /\ conn \in [Peers -> {"away", "open", "replying", "leaving", "closed", "abandoned"}]
    /\ stream \in [Peers -> Seq(Pdus)] /\ chan \in [Peers -> Seq(Pdus)]
    /\ asked \in [Peers -> Seq(Answers)] /\ slot \in [Peers -> Answers]
    /\ peers \subseteq Peers /\ subtrees \in Seq(Subtrees \X Peers)
    /\ fwd \in [Threads -> Roundtrips] /\ forwards \in [Threads -> Nat]
    /\ \A t \in Threads : fwd[t].pc # "idle" => fwd[t].peer \in Peers

\* The peer's own PDUs and the answers, as the reader decodes them.
LEMMA PduTypes ==
  /\ Nothing \in Answers
  /\ \A p \in Peers : PeerPdus(p) \subseteq Pdus /\ \A m \in PeerPdus(p) : m.type # "response"
  /\ \A a \in Answers : Response(a) \in Pdus /\ Response(a).answer = a
  /\ \A m \in Pdus : /\ Decode(m) \in Pdus
                     /\ Decode(m).type = "response" => m.type = "response" /\ Decode(m) = m
<1>1. Nothing \in Answers
  BY DEF Nothing, Answers, Idents, Objects
<1>2. ASSUME NEW type \in {"close", "end", "open", "get", "response"} PROVE Plain(type) \in Pdus
  BY <1>1 DEF Plain, Pdus, Subtrees
<1>3. ASSUME NEW p \in Peers, NEW o \in Registers[p], NEW op \in Int
      PROVE  RegisterPdu(o, op) \in Pdus /\ RegisterPdu(o, op).type = "get"
  <2>1. PICK m \in Pdus : m = Plain("get") /\ m.type = "get"
    BY <1>2 DEF Plain
  <2>2. RegisterPdu(o, op) = [m EXCEPT !.subtree = o, !.operation = op]
    BY <2>1 DEF RegisterPdu
  <2>3. o \in Subtrees
    BY DEF Subtrees
  <2> QED
    BY <2>1, <2>2, <2>3 DEF Pdus
<1>4. ASSUME NEW p \in Peers, NEW m \in PeerPdus(p) PROVE m \in Pdus /\ m.type # "response"
  <2>1. CASE m \in {RegisterPdu(o, op) : o \in Registers[p], op \in {1, -1}}
    BY <2>1, <1>3
  <2>2. CASE m = Plain("close") \/ m = Plain("end")
    BY <2>2, <1>2 DEF Plain
  <2> QED
    BY <2>1, <2>2 DEF PeerPdus
<1>5. ASSUME NEW a \in Answers PROVE Response(a) \in Pdus /\ Response(a).answer = a
  BY DEF Response, Plain, Pdus, Subtrees
<1>6. ASSUME NEW m \in Pdus
      PROVE  /\ Decode(m) \in Pdus
             /\ Decode(m).type = "response" => m.type = "response" /\ Decode(m) = m
  <2>1. CASE m.type = "get" /\ m.operation = 1
    <3>1. Decode(m) = [m EXCEPT !.type = "register"]
      BY <2>1 DEF Decode
    <3> QED
      BY <3>1 DEF Pdus
  <2>2. CASE m.type = "get" /\ m.operation # 1
    <3>1. Decode(m) = Plain("open")
      BY <2>2 DEF Decode
    <3> QED
      BY <3>1, <1>2 DEF Plain
  <2>3. CASE m.type # "get"
    <3>1. Decode(m) = m
      BY <2>3 DEF Decode
    <3> QED
      BY <3>1
  <2> QED
    BY <2>1, <2>2, <2>3
<1> QED
  BY <1>1, <1>4, <1>5, <1>6

\* RemoveAt takes one element out of a sequence and adds none.
LEMMA RemoveAtProperties ==
  ASSUME NEW S, NEW s \in Seq(S), NEW i \in DOMAIN s
  PROVE  /\ RemoveAt(s, i) \in Seq(S)
         /\ \A k \in DOMAIN RemoveAt(s, i) : \E j \in DOMAIN s : RemoveAt(s, i)[k] = s[j]
<1>1. /\ Len(s) \in Nat /\ i \in 1..Len(s) /\ DOMAIN s = 1..Len(s)
      /\ \A j \in 1..Len(s) : s[j] \in S
  OBVIOUS
<1> DEFINE a == SubSeq(s, 1, i - 1)
           b == SubSeq(s, i + 1, Len(s))
<1>2. /\ a \in Seq(S) /\ Len(a) = i - 1
      /\ \A k \in 1..(i - 1) : a[k] = s[k]
  BY <1>1, SubSeqProperties
<1>3. /\ b \in Seq(S) /\ Len(b) = Len(s) - i
      /\ \A k \in 1..(Len(s) - i) : b[k] = s[i + k]
  BY <1>1, SubSeqProperties
<1>4. RemoveAt(s, i) = a \o b
  BY DEF RemoveAt
<1> HIDE DEF a, b
<1>5. /\ a \o b \in Seq(S) /\ Len(a \o b) = Len(a) + Len(b)
      /\ \A k \in 1..(Len(a) + Len(b)) : (a \o b)[k] = IF k <= Len(a) THEN a[k] ELSE b[k - Len(a)]
  BY <1>2, <1>3, ConcatProperties
<1>6. ASSUME NEW k \in DOMAIN (a \o b) PROVE \E j \in DOMAIN s : (a \o b)[k] = s[j]
  <2>1. k \in 1..(Len(a) + Len(b))
    BY <1>5
  <2>2. CASE k <= i - 1
    BY <1>1, <1>2, <1>3, <1>5, <2>1, <2>2
  <2>3. CASE ~(k <= i - 1)
    <3>1. k - (i - 1) \in 1..(Len(s) - i) /\ i + (k - (i - 1)) \in 1..Len(s)
      BY <1>1, <1>2, <1>3, <2>1, <2>3
    <3>2. (a \o b)[k] = b[k - (i - 1)]
      BY <1>2, <1>5, <2>1, <2>3
    <3> QED
      BY <1>1, <1>3, <3>1, <3>2
  <2> QED
    BY <2>2, <2>3
<1> QED
  BY <1>4, <1>5, <1>6

\* Whoever is asked is in the map of peers (owner_of).
LEMMA OwnerIsPeer ==
  ASSUME NEW name, Owner(name) # "none" PROVE Owner(name) \in peers
  BY DEF Owner

\* The fields of a forward that goes on.
LEMMA GoesOn ==
  ASSUME NEW f \in Roundtrips, NEW pc \in {"clear", "write", "poll"}, NEW g, g = [f EXCEPT !.pc = pc]
  PROVE  g \in Roundtrips /\ g.pc = pc /\ g.peer = f.peer /\ g.id = f.id /\ g.answer = f.answer /\ g.mixed = f.mixed
  BY DEF Roundtrips

\* The fields of one that ends without an answer.
LEMMA Fails ==
  ASSUME NEW f \in Roundtrips, NEW g, g = [f EXCEPT !.pc = "idle", !.peer = "none"]
  PROVE  g \in Roundtrips /\ g.pc = "idle" /\ g.peer = "none" /\ g.id = f.id /\ g.answer = f.answer /\ g.mixed = f.mixed
<1>1. PICK pc \in {"idle"}, peer \in {"none"} : g = [f EXCEPT !.pc = pc, !.peer = peer]
  OBVIOUS
<1> QED
  BY <1>1 DEF Roundtrips

\* The fields of one that is mixed up with another.
LEMMA MixesUp ==
  ASSUME NEW f \in Roundtrips, NEW g, g = [f EXCEPT !.mixed = TRUE]
  PROVE  g \in Roundtrips /\ g.pc = f.pc /\ g.peer = f.peer /\ g.id = f.id /\ g.answer = f.answer /\ g.mixed
  BY DEF Roundtrips

\* A thread's forward is where it is said to be, and the others stay.
Moved(t, pc, peer, answer) ==
    /\ fwd' \in [Threads -> Roundtrips]
    /\ \A u \in Threads \ {t} : fwd'[u] = fwd[u]
    /\ fwd'[t].pc = pc /\ fwd'[t].peer = peer /\ fwd'[t].answer = answer
    /\ fwd'[t].id = fwd[t].id /\ fwd'[t].mixed = fwd[t].mixed

\* What the steps of a thread do to its forward.
LEMMA ThreadMoves ==
  ASSUME Types, NEW t \in Threads
  PROVE  /\ Clear(t) => Moved(t, "write", fwd[t].peer, fwd[t].answer)
         /\ Write(t) => Moved(t, "poll", fwd[t].peer, fwd[t].answer)
         /\ WriteFails(t) \/ Deadline(t) => Moved(t, "idle", "none", fwd[t].answer)
         /\ Take(t) => Moved(t, "idle", "none", slot[fwd[t].peer])
<1>1. fwd[t] \in Roundtrips /\ DOMAIN fwd = Threads
  BY DEF Types
<1>2. ASSUME Clear(t) PROVE Moved(t, "write", fwd[t].peer, fwd[t].answer)
  <2>1. PICK g : g = [fwd[t] EXCEPT !.pc = "write"] /\ fwd' = [fwd EXCEPT ![t] = g]
    BY <1>2 DEF Clear
  <2>2. /\ g \in Roundtrips /\ g.pc = "write" /\ g.peer = fwd[t].peer /\ g.id = fwd[t].id
        /\ g.answer = fwd[t].answer /\ g.mixed = fwd[t].mixed
    BY <1>1, <2>1, GoesOn
  <2> QED
    BY <2>1, <2>2 DEF Moved, Types
<1>3. ASSUME Write(t) PROVE Moved(t, "poll", fwd[t].peer, fwd[t].answer)
  <2>1. PICK g : g = [fwd[t] EXCEPT !.pc = "poll"] /\ fwd' = [fwd EXCEPT ![t] = g]
    BY <1>3 DEF Write
  <2>2. /\ g \in Roundtrips /\ g.pc = "poll" /\ g.peer = fwd[t].peer /\ g.id = fwd[t].id
        /\ g.answer = fwd[t].answer /\ g.mixed = fwd[t].mixed
    BY <1>1, <2>1, GoesOn
  <2> QED
    BY <2>1, <2>2 DEF Moved, Types
<1>4. ASSUME WriteFails(t) \/ Deadline(t) PROVE Moved(t, "idle", "none", fwd[t].answer)
  <2>1. PICK g : g = [fwd[t] EXCEPT !.pc = "idle", !.peer = "none"] /\ fwd' = [fwd EXCEPT ![t] = g]
    BY <1>1, <1>4 DEF WriteFails, Deadline
  <2>2. /\ g \in Roundtrips /\ g.pc = "idle" /\ g.peer = "none" /\ g.id = fwd[t].id
        /\ g.answer = fwd[t].answer /\ g.mixed = fwd[t].mixed
    BY <1>1, <2>1, Fails
  <2> QED
    BY <2>1, <2>2 DEF Moved, Types
<1>5. ASSUME Take(t) PROVE Moved(t, "idle", "none", slot[fwd[t].peer])
  <2>1. PICK f \in Roundtrips, a \in Answers : f = fwd[t] /\ a = slot[fwd[t].peer]
    BY <1>1, <1>5 DEF Take, Types
  <2>2. PICK g : /\ g = [f EXCEPT !.pc = "idle", !.peer = "none", !.answer = a]
                 /\ fwd' = [fwd EXCEPT ![t] = g]
    BY <1>1, <1>5, <2>1 DEF Take
  <2>3. /\ g \in Roundtrips /\ g.pc = "idle" /\ g.peer = "none" /\ g.id = f.id
        /\ g.answer = a /\ g.mixed = f.mixed
    <3>1. PICK pc \in {"idle"}, peer \in {"none"} : g = [f EXCEPT !.pc = pc, !.peer = peer, !.answer = a]
      BY <2>2
    <3> QED
      BY <2>1, <3>1 DEF Roundtrips
  <2> QED
    BY <2>1, <2>2, <2>3 DEF Moved, Types
<1> QED
  BY <1>2, <1>3, <1>4, <1>5

\* Every step keeps the types.
LEMMA TypesStep == Types /\ [Next]_vars => Types'
<1> SUFFICES ASSUME Types, [Next]_vars PROVE Types'
  OBVIOUS
<1>1. ASSUME NEW p \in Peers, NEW m \in PeerPdus(p), PeerSends(p, m) PROVE Types'
  BY <1>1, PduTypes DEF PeerSends, Types
<1>2. ASSUME NEW p \in Peers, PeerAnswers(p) PROVE Types'
  <2>1. PICK i \in DOMAIN asked[p] :
          /\ asked' = [asked EXCEPT ![p] = RemoveAt(@, i)]
          /\ stream' = [stream EXCEPT ![p] = Append(@, Response(asked[p][i]))]
          /\ UNCHANGED <<conn, chan, slot, peers, subtrees, fwd, forwards>>
    BY <1>2 DEF PeerAnswers
  <2>2. RemoveAt(asked[p], i) \in Seq(Answers)
    BY RemoveAtProperties DEF Types
  <2>3. asked[p][i] \in Answers
    BY DEF Types
  <2>4. Append(stream[p], Response(asked[p][i])) \in Seq(Pdus)
    BY <2>3, PduTypes DEF Types
  <2> QED
    BY <2>1, <2>2, <2>4 DEF Types
<1>3. ASSUME NEW p \in Peers, Accept(p) \/ Reject(p) PROVE Types'
  BY <1>3 DEF Accept, Reject, Types
<1>4. ASSUME NEW p \in Peers, Read(p) PROVE Types'
  <2>1. stream[p] # <<>> /\ Head(stream[p]) \in Pdus /\ Tail(stream[p]) \in Seq(Pdus)
    BY <1>4 DEF Read, Types
  <2>2. Decode(Head(stream[p])) \in Pdus /\ Decode(Head(stream[p])).answer \in Answers
    BY <2>1, PduTypes DEF Pdus
  <2>3. /\ stream' = [stream EXCEPT ![p] = Tail(@)]
        /\ UNCHANGED <<conn, peers, subtrees, asked, fwd, forwards>>
        /\ \/ UNCHANGED <<chan, slot>>
           \/ slot' = [slot EXCEPT ![p] = Decode(Head(stream[p])).answer] /\ UNCHANGED chan
           \/ chan' = [chan EXCEPT ![p] = Append(@, Decode(Head(stream[p])))] /\ UNCHANGED slot
    BY <1>4 DEF Read
  <2>4. Append(chan[p], Decode(Head(stream[p]))) \in Seq(Pdus)
    BY <2>2 DEF Types
  <2> QED
    BY <2>1, <2>2, <2>3, <2>4 DEF Types
<1>5. ASSUME NEW p \in Peers, Register(p) PROVE Types'
  <2>1. chan[p] # <<>> /\ Head(chan[p]) \in Pdus /\ Tail(chan[p]) \in Seq(Pdus)
    BY <1>5 DEF Register, Types
  <2>2. Append(subtrees, <<Head(chan[p]).subtree, p>>) \in Seq(Subtrees \X Peers)
    BY <2>1 DEF Types, Pdus
  <2> QED
    BY <1>5, <2>1, <2>2 DEF Register, Types
<1>6. ASSUME NEW p \in Peers, Ignore(p) \/ LeaveLoop(p) \/ PeerStalls(p) \/ Reply(p) PROVE Types'
  <2>1. CASE Ignore(p)
    <3>1. Tail(chan[p]) \in Seq(Pdus)
      BY <2>1 DEF Ignore, Types
    <3> QED
      BY <2>1, <3>1 DEF Ignore, Types
  <2>2. CASE LeaveLoop(p)
    BY <2>2 DEF LeaveLoop, Types
  <2>3. CASE PeerStalls(p)
    BY <2>3 DEF PeerStalls, Types
  <2>4. CASE Reply(p)
    BY <2>4 DEF Reply, Types
  <2> QED
    BY <1>6, <2>1, <2>2, <2>3, <2>4
<1>7. ASSUME NEW p \in Peers, TearDown(p) PROVE Types'
  <2>1. Retain(subtrees, {i \in DOMAIN subtrees : subtrees[i][2] # p}) \in Seq(Subtrees \X Peers)
    BY RetainProperties DEF Types
  <2> QED
    BY <1>7, <2>1 DEF TearDown, Types
<1>8. ASSUME NEW t \in Threads, NEW name \in Names, Forward(t, name) PROVE Types'
  <2>1. Owner(name) \in Peers
    BY <1>8, OwnerIsPeer DEF Forward, Types
  <2>2. <<t, forwards[t]>> \in Idents
    BY DEF Types, Idents
  <2>3. PICK busy \in BOOLEAN : busy = Busy(t, Owner(name))
    BY DEF Busy
  <2>4. PICK new : new = [NoForward EXCEPT !.pc = "clear", !.peer = Owner(name), !.name = name,
                                           !.id = <<t, forwards[t]>>, !.mixed = busy]
    OBVIOUS
  <2>5. new = [pc |-> "clear", peer |-> Owner(name), id |-> <<t, forwards[t]>>, name |-> name,
               answer |-> Nothing, mixed |-> busy]
    BY <2>4 DEF NoForward
  <2>6. new \in Roundtrips
    BY <2>1, <2>2, <2>5, PduTypes DEF Roundtrips, Objects
  <2>7. \A u \in Threads : /\ [fwd[u] EXCEPT !.mixed = TRUE] \in Roundtrips
                           /\ [fwd[u] EXCEPT !.mixed = TRUE].pc = fwd[u].pc
                           /\ [fwd[u] EXCEPT !.mixed = TRUE].peer = fwd[u].peer
    BY MixesUp DEF Types
  <2>8. /\ forwards' = [forwards EXCEPT ![t] = @ + 1]
        /\ fwd' = [u \in Threads |->
                     IF u = t THEN new
                     ELSE IF fwd[u].peer = Owner(name) THEN [fwd[u] EXCEPT !.mixed = TRUE] ELSE fwd[u]]
        /\ UNCHANGED <<conn, stream, chan, slot, peers, subtrees, asked>>
    BY <1>8, <2>3, <2>4 DEF Forward
  <2>9. new.peer \in Peers
    BY <2>1, <2>5
  <2> QED
    BY <2>6, <2>7, <2>8, <2>9 DEF Types
<1>9. ASSUME NEW t \in Threads, Clear(t) PROVE Types'
  <2>1. Moved(t, "write", fwd[t].peer, fwd[t].answer)
    BY <1>9, ThreadMoves
  <2> QED
    BY <1>9, <2>1, PduTypes DEF Clear, Types, Moved
<1>10. ASSUME NEW t \in Threads, Write(t) PROVE Types'
  <2>1. Moved(t, "poll", fwd[t].peer, fwd[t].answer)
    BY <1>10, ThreadMoves
  <2>2. [id |-> fwd[t].id, name |-> fwd[t].name] \in Answers
    BY DEF Types, Roundtrips, Answers
  <2>3. asked' \in [Peers -> Seq(Answers)]
    BY <1>10, <2>2 DEF Write, Types
  <2> QED
    BY <1>10, <2>1, <2>3 DEF Write, Types, Moved
<1>11. ASSUME NEW t \in Threads, WriteFails(t) \/ Deadline(t) PROVE Types'
  <2>1. Moved(t, "idle", "none", fwd[t].answer)
    BY <1>11, ThreadMoves
  <2> QED
    BY <1>11, <2>1 DEF WriteFails, Deadline, Types, Moved
<1>12. ASSUME NEW t \in Threads, Take(t) PROVE Types'
  <2>1. Moved(t, "idle", "none", slot[fwd[t].peer])
    BY <1>12, ThreadMoves
  <2> QED
    BY <1>12, <2>1, PduTypes DEF Take, Types, Moved
<1>13. CASE UNCHANGED vars
  BY <1>13 DEF vars, Types
<1> QED
  BY <1>1, <1>2, <1>3, <1>4, <1>5, <1>6, <1>7, <1>8, <1>9, <1>10, <1>11, <1>12, <1>13
  DEF Next, Peer, Serve, Thread

\* The types hold at the start.
LEMMA TypesInit == Init => Types
<1> SUFFICES ASSUME Init PROVE Types
  OBVIOUS
<1>1. NoForward \in Roundtrips /\ NoForward.pc = "idle"
  BY PduTypes DEF NoForward, Roundtrips, Idents, Objects
<1> QED
  BY <1>1, PduTypes DEF Init, Types

---------------------------------------------------------------------------
(* The table of subtrees.  A peer's entries go when its loop is left, so   *)
(* the invariant has to say who is in the map of peers while it runs.      *)

ServedIsPeer == \A p \in Peers : conn[p] \in {"open", "replying", "abandoned"} => p \in peers

SubtreeInv == Types /\ ServedIsPeer /\ SubtreesHavePeers

\* The entry of a registration names its peer.
LEMMA EntryPeer ==
  ASSUME Types, NEW i \in DOMAIN subtrees
  PROVE  subtrees[i][2] \in Peers
  BY DEF Types

\* Whatever a connection does, the table stays in order.
LEMMA SubtreeStep == SubtreeInv /\ [Next]_vars => SubtreeInv'
<1> SUFFICES ASSUME SubtreeInv, [Next]_vars PROVE SubtreeInv'
  OBVIOUS
<1>0. Types /\ ServedIsPeer /\ SubtreesHavePeers /\ Types'
  BY TypesStep DEF SubtreeInv
<1>t. /\ conn \in [Peers -> {"away", "open", "replying", "leaving", "closed", "abandoned"}]
      /\ \A i \in DOMAIN subtrees : subtrees[i][2] \in Peers
  BY <1>0, EntryPeer DEF Types
<1>1. ASSUME NEW p \in Peers, Accept(p) PROVE ServedIsPeer' /\ SubtreesHavePeers'
  BY <1>0, <1>t, <1>1 DEF Accept, ServedIsPeer, SubtreesHavePeers
<1>2. ASSUME NEW p \in Peers, Reject(p) PROVE ServedIsPeer' /\ SubtreesHavePeers'
  BY <1>0, <1>t, <1>2 DEF Reject, ServedIsPeer, SubtreesHavePeers
<1>3. ASSUME NEW p \in Peers, Register(p) PROVE ServedIsPeer' /\ SubtreesHavePeers'
  <2>1. conn[p] = "open" /\ peers' = peers /\ conn' = [conn EXCEPT ![p] = "replying"]
    BY <1>3 DEF Register
  <2>2. ServedIsPeer' /\ \A q \in Peers : conn[q] \in {"open", "replying", "leaving", "abandoned"} =>
                           /\ conn'[q] \in {"open", "replying", "leaving", "abandoned"}
                           /\ q \in peers \/ conn[q] = "leaving" => q \in peers' \/ conn'[q] = "leaving"
    BY <1>0, <1>t, <2>1 DEF ServedIsPeer
  <2>3. SubtreesHavePeers'
    <3>1. CASE subtrees' = subtrees
      BY <1>0, <1>t, <2>2, <3>1 DEF SubtreesHavePeers, Authorized
    <3>2. CASE subtrees' # subtrees
      <4>1. PICK o \in Subtrees : Authorized(p, o) /\ subtrees' = Append(subtrees, <<o, p>>)
        <5>1. chan[p] # <<>> /\ Head(chan[p]).subtree \in Subtrees
          <6>1. chan[p] # <<>> /\ Head(chan[p]) \in Pdus
            BY <1>0, <1>3 DEF Register, Types
          <6> QED
            BY <6>1 DEF Pdus
        <5> QED
          BY <1>3, <3>2, <5>1 DEF Register
      <4>2. ASSUME NEW i \in DOMAIN subtrees'
            PROVE  subtrees'[i] = <<o, p>> \/ (i \in DOMAIN subtrees /\ subtrees'[i] = subtrees[i])
        BY <1>0, <4>1 DEF Types
      <4>3. conn'[p] = "replying" /\ p \in peers'
        BY <1>0, <1>t, <2>1 DEF ServedIsPeer
      <4> QED
        BY <1>0, <1>t, <2>2, <4>1, <4>2, <4>3 DEF SubtreesHavePeers, Authorized
    <3> QED
      BY <3>1, <3>2
  <2> QED
    BY <2>2, <2>3
<1>4. ASSUME NEW p \in Peers, LeaveLoop(p) PROVE ServedIsPeer' /\ SubtreesHavePeers'
  BY <1>0, <1>t, <1>4 DEF LeaveLoop, ServedIsPeer, SubtreesHavePeers
<1>5. ASSUME NEW p \in Peers, TearDown(p) PROVE ServedIsPeer' /\ SubtreesHavePeers'
  <2>1. PICK I \in SUBSET DOMAIN subtrees :
          I = {i \in DOMAIN subtrees : subtrees[i][2] # p} /\ subtrees' = Retain(subtrees, I)
    BY <1>5 DEF TearDown
  <2>2. \A k \in DOMAIN subtrees' : \E i \in I : subtrees'[k] = subtrees[i]
    <3>1. subtrees \in Seq(Subtrees \X Peers)
      BY <1>0 DEF Types
    <3> QED
      BY <2>1, <3>1, RetainProperties
  <2>3. conn[p] = "leaving" /\ conn' = [conn EXCEPT ![p] = "closed"] /\ peers' = peers
    BY <1>5 DEF TearDown
  <2>4. ServedIsPeer'
    BY <1>0, <1>t, <2>3 DEF ServedIsPeer
  <2>5. SubtreesHavePeers'
    BY <1>0, <1>t, <2>1, <2>2, <2>3 DEF SubtreesHavePeers, Authorized
  <2> QED
    BY <2>4, <2>5
<1>r. ASSUME NEW p \in Peers, Reply(p) PROVE ServedIsPeer' /\ SubtreesHavePeers'
  BY <1>0, <1>t, <1>r DEF Reply, ServedIsPeer, SubtreesHavePeers, Authorized
<1>6. ASSUME UNCHANGED <<conn, peers, subtrees>> PROVE ServedIsPeer' /\ SubtreesHavePeers'
  BY <1>0, <1>6 DEF ServedIsPeer, SubtreesHavePeers, Authorized
<1>7. ASSUME NEW p \in Peers, Peer(p) \/ Read(p) \/ Ignore(p) PROVE UNCHANGED <<conn, peers, subtrees>>
  BY <1>7 DEF Peer, PeerSends, PeerAnswers, PeerStalls, Read, Ignore
<1>8. ASSUME NEW t \in Threads, Thread(t) \/ \E name \in Names : Forward(t, name)
      PROVE  UNCHANGED <<conn, peers, subtrees>>
  BY <1>8 DEF Thread, Forward, Clear, Write, WriteFails, Take, Deadline
<1>9. ServedIsPeer' /\ SubtreesHavePeers'
  <2>1. CASE UNCHANGED vars
    BY <2>1, <1>6 DEF vars
  <2> QED
    BY <1>1, <1>2, <1>3, <1>4, <1>5, <1>r, <1>6, <1>7, <1>8, <2>1 DEF Next, Serve
<1> QED
  BY <1>0, <1>9 DEF SubtreeInv

(* A subtree in the table belongs to a peer that is connected, about to be *)
(* torn down or abandoned, and that was allowed to register it             *)
(* (handle_connection), for any peers, configuration and history.          *)
THEOREM SubtreesAreServed == Spec => []SubtreesHavePeers
<1>1. Init => SubtreeInv
  <2> SUFFICES ASSUME Init PROVE SubtreeInv
    OBVIOUS
  <2>1. ServedIsPeer /\ SubtreesHavePeers
    BY DEF Init, ServedIsPeer, SubtreesHavePeers
  <2> QED
    BY <2>1, TypesInit DEF SubtreeInv
<1>2. SubtreeInv => SubtreesHavePeers
  BY DEF SubtreeInv
<1> QED
  BY <1>1, <1>2, SubtreeStep, PTL DEF Spec

---------------------------------------------------------------------------
(* Answers.  The invariant follows a request from the peer's inbox over    *)
(* the stream into the slot: as long as the forward is alone with its      *)
(* peer, everything on that way carries its own id.                        *)

Active(t) == fwd[t].pc # "idle"

Rests(t) == fwd[t].pc = "idle" => fwd[t].peer = "none"

Waits(t) == Active(t) => fwd[t].answer = Nothing

Alone(t, u) == Active(t) /\ Active(u) /\ t # u /\ fwd[t].peer = fwd[u].peer => fwd[t].mixed

Carries(t, p) ==
    /\ \A i \in DOMAIN asked[p] : asked[p][i].id = fwd[t].id
    /\ \A i \in DOMAIN stream[p] : stream[p][i].type = "response" => stream[p][i].answer.id = fwd[t].id
    /\ fwd[t].pc = "clear" \/ slot[p] = Nothing \/ slot[p].id = fwd[t].id

OwnWay(t) == Active(t) /\ ~fwd[t].mixed => Carries(t, fwd[t].peer)

Mine(t) == fwd[t].pc = "idle" /\ fwd[t].answer # Nothing /\ ~fwd[t].mixed => fwd[t].answer.id = fwd[t].id

Forwarding(t) == Rests(t) /\ Waits(t) /\ (\A u \in Threads : Alone(t, u)) /\ OwnWay(t) /\ Mine(t)

AnswerInv == Types /\ \A t \in Threads : Forwarding(t)

\* What the peer and the tasks of its connection do to the way of an answer.
LEMMA PeerStep ==
  ASSUME AnswerInv, Types', NEW p \in Peers, Peer(p) \/ Accept(p) \/ Reject(p) \/ Serve(p),
         NEW t \in Threads, Active(t), ~fwd[t].mixed
  PROVE  Carries(t, fwd[t].peer)'
<1>0. Types /\ Carries(t, fwd[t].peer)
  BY DEF AnswerInv, Forwarding, OwnWay
<1>f. PICK q \in Peers : q = fwd[t].peer
  BY <1>0 DEF Types, Active
<1>1. fwd' = fwd
  BY DEF Peer, PeerSends, PeerAnswers, PeerStalls, Accept, Reject, Serve, Read, Register, Reply, Ignore, LeaveLoop, TearDown
<1>2. PICK id \in Idents : id = fwd[t].id
  BY <1>0 DEF Types, Roundtrips
<1>3. /\ \A i \in DOMAIN asked[q] : asked[q][i].id = id
      /\ \A i \in DOMAIN stream[q] : stream[q][i].type = "response" => stream[q][i].answer.id = id
      /\ fwd[t].pc = "clear" \/ slot[q] = Nothing \/ slot[q].id = id
  BY <1>0, <1>f, <1>2 DEF Carries
<1>4. SUFFICES /\ \A i \in DOMAIN asked'[q] : asked'[q][i].id = id
               /\ \A i \in DOMAIN stream'[q] : stream'[q][i].type = "response" => stream'[q][i].answer.id = id
               /\ fwd[t].pc = "clear" \/ slot'[q] = Nothing \/ slot'[q].id = id
  BY <1>1, <1>f, <1>2 DEF Carries
<1>t. asked \in [Peers -> Seq(Answers)] /\ stream \in [Peers -> Seq(Pdus)] /\ slot \in [Peers -> Answers]
  BY <1>0 DEF Types
<1>5. ASSUME NEW m \in PeerPdus(p), PeerSends(p, m)
      PROVE  /\ asked' = asked /\ slot' = slot
             /\ \A i \in DOMAIN stream'[q] : stream'[q][i].type = "response" => stream'[q][i].answer.id = id
  <2>1. m \in Pdus /\ m.type # "response"
    BY PduTypes
  <2>2. stream' = [stream EXCEPT ![p] = Append(@, m)] /\ asked' = asked /\ slot' = slot
    BY <1>5 DEF PeerSends
  <2>3. CASE p = q
    <3>1. stream'[q] = Append(stream[q], m)
      BY <1>t, <2>2, <2>3
    <3>2. \A i \in DOMAIN stream'[q] : stream'[q][i] = m \/ (i \in DOMAIN stream[q] /\ stream'[q][i] = stream[q][i])
      BY <1>t, <2>1, <3>1
    <3> QED
      BY <1>3, <2>1, <2>2, <3>2
  <2>4. CASE p # q
    BY <1>3, <1>t, <2>2, <2>4
  <2> QED
    BY <2>3, <2>4
<1>6. ASSUME PeerAnswers(p)
      PROVE  /\ \A i \in DOMAIN asked'[q] : asked'[q][i].id = id
             /\ \A i \in DOMAIN stream'[q] : stream'[q][i].type = "response" => stream'[q][i].answer.id = id
             /\ slot' = slot
  <2>1. PICK k \in DOMAIN asked[p] :
          /\ asked' = [asked EXCEPT ![p] = RemoveAt(@, k)]
          /\ stream' = [stream EXCEPT ![p] = Append(@, Response(asked[p][k]))]
          /\ slot' = slot
    BY <1>6 DEF PeerAnswers
  <2>2. CASE p = q
    <3>1. PICK a \in Answers, r \in Pdus : a = asked[p][k] /\ r = Response(a) /\ r.answer = a
      BY <1>t, PduTypes
    <3>2. stream'[q] = Append(stream[q], r) /\ asked'[q] = RemoveAt(asked[q], k)
      BY <1>t, <2>1, <2>2, <3>1
    <3>3. \A i \in DOMAIN stream'[q] : stream'[q][i] = r \/ (i \in DOMAIN stream[q] /\ stream'[q][i] = stream[q][i])
      BY <1>t, <3>1, <3>2
    <3>4. a.id = id
      BY <1>3, <2>2, <3>1
    <3>5. \A i \in DOMAIN asked'[q] : \E j \in DOMAIN asked[q] : asked'[q][i] = asked[q][j]
      <4>1. asked[q] \in Seq(Answers) /\ k \in DOMAIN asked[q]
        BY <1>t, <2>2
      <4> QED
        BY <3>2, <4>1, RemoveAtProperties
    <3> QED
      BY <1>3, <2>1, <3>1, <3>3, <3>4, <3>5
  <2>3. CASE p # q
    BY <1>3, <1>t, <2>1, <2>3
  <2> QED
    BY <2>2, <2>3
<1>7. ASSUME Read(p)
      PROVE  /\ asked' = asked
             /\ \A i \in DOMAIN stream'[q] : stream'[q][i].type = "response" => stream'[q][i].answer.id = id
             /\ fwd[t].pc = "clear" \/ slot'[q] = Nothing \/ slot'[q].id = id
  <2>1. stream[p] # <<>> /\ asked' = asked /\ stream' = [stream EXCEPT ![p] = Tail(@)]
    BY <1>7 DEF Read
  <2>2. PICK m \in Pdus : m = Head(stream[p]) /\ Len(stream[p]) \in Nat \ {0} /\ m = stream[p][1]
    BY <1>t, <2>1
  <2>3. slot' = slot \/ (m.type = "response" /\ slot' = [slot EXCEPT ![p] = m.answer])
    <3>1. slot' = slot \/ (Decode(m).type = "response" /\ slot' = [slot EXCEPT ![p] = Decode(m).answer])
      BY <1>7, <2>2 DEF Read
    <3> QED
      BY <2>2, <3>1, PduTypes
  <2>4. CASE p = q
    <3>1. /\ DOMAIN stream'[q] = 1..(Len(stream[q]) - 1)
          /\ \A i \in 1..(Len(stream[q]) - 1) : i + 1 \in DOMAIN stream[q] /\ stream'[q][i] = stream[q][i + 1]
      BY <1>t, <2>1, <2>2, <2>4
    <3>2. 1 \in DOMAIN stream[q]
      BY <1>t, <2>2, <2>4
    <3>3. m.type = "response" => m.answer.id = id
      BY <1>3, <2>2, <2>4, <3>2
    <3> QED
      BY <1>3, <1>t, <2>1, <2>3, <2>4, <3>1, <3>3
  <2>5. CASE p # q
    BY <1>3, <1>t, <2>1, <2>3, <2>5
  <2> QED
    BY <2>4, <2>5
<1>8. ASSUME \/ PeerStalls(p) \/ Accept(p) \/ Reject(p)
             \/ Register(p) \/ Reply(p) \/ Ignore(p) \/ LeaveLoop(p) \/ TearDown(p)
      PROVE  UNCHANGED <<asked, stream, slot>>
  BY <1>8 DEF PeerStalls, Accept, Reject, Register, Reply, Ignore, LeaveLoop, TearDown
<1> QED
  BY <1>3, <1>5, <1>6, <1>7, <1>8 DEF Peer, Serve

\* A thread that goes on or ends says nothing new about who is alone with whom.
LEMMA MovedApart ==
  ASSUME AnswerInv, NEW t \in Threads, NEW pc \in {"idle", "clear", "write", "poll"}, NEW peer, NEW answer,
         Active(t), Moved(t, pc, peer, answer),
         pc = "idle" => peer = "none",
         pc # "idle" => peer = fwd[t].peer /\ answer = Nothing
  PROVE  \A u \in Threads : Rests(u)' /\ Waits(u)' /\ \A v \in Threads : Alone(u, v)'
  BY DEF AnswerInv, Forwarding, Rests, Waits, Alone, Active, Moved

\* What the others wait for is not touched by a thread that only moves, clears a slot
\* or takes from it.
LEMMA MovedPast ==
  ASSUME AnswerInv, NEW t \in Threads, NEW u \in Threads, u # t, fwd'[u] = fwd[u],
         UNCHANGED <<asked, stream>>,
         slot' = slot \/ \E p \in Peers : slot' = [slot EXCEPT ![p] = Nothing]
  PROVE  OwnWay(u)' /\ Mine(u)'
<1>1. Types /\ OwnWay(u) /\ Mine(u)
  BY DEF AnswerInv, Forwarding
<1>2. Mine(u)'
  BY <1>1 DEF Mine
<1>3. ASSUME Active(u), ~fwd[u].mixed PROVE Carries(u, fwd[u].peer)'
  <2>1. PICK q \in Peers : q = fwd[u].peer
    BY <1>1, <1>3 DEF Types, Active
  <2>2. slot'[q] = slot[q] \/ slot'[q] = Nothing
    BY <1>1 DEF Types
  <2> QED
    BY <1>1, <1>3, <2>1, <2>2 DEF OwnWay, Carries
<1> QED
  BY <1>2, <1>3 DEF OwnWay, Active

\* Every step of a forward keeps its answer its own, and the others'.
LEMMA ThreadStep ==
  ASSUME AnswerInv, Types', NEW t \in Threads, Thread(t)
  PROVE  \A u \in Threads : Forwarding(u)'
<1>0. Types /\ Forwarding(t) /\ fwd[t] \in Roundtrips
  BY DEF AnswerInv, Types
<1>1. CASE Clear(t)
  <2>1. Active(t) /\ Moved(t, "write", fwd[t].peer, fwd[t].answer) /\ fwd[t].answer = Nothing
    BY <1>0, <1>1, ThreadMoves DEF Clear, Active, Forwarding, Waits
  <2>2. PICK q \in Peers : q = fwd[t].peer
    BY <1>0, <2>1 DEF Types, Active
  <2>3. UNCHANGED <<asked, stream>> /\ slot' = [slot EXCEPT ![q] = Nothing]
    BY <1>1, <2>2 DEF Clear
  <2>4. \A u \in Threads : Rests(u)' /\ Waits(u)' /\ \A v \in Threads : Alone(u, v)'
    BY <2>1, MovedApart
  <2>5. \A u \in Threads \ {t} : OwnWay(u)' /\ Mine(u)'
    BY <2>1, <2>3, MovedPast DEF Moved
  <2>6. OwnWay(t)' /\ Mine(t)'
    <3>1. slot'[q] = Nothing
      BY <1>0, <2>3 DEF Types
    <3> QED
      BY <1>0, <2>1, <2>2, <2>3, <3>1 DEF Forwarding, OwnWay, Mine, Carries, Moved, Active
  <2> QED
    BY <2>4, <2>5, <2>6 DEF Forwarding
<1>2. CASE Write(t)
  <2>1. Active(t) /\ Moved(t, "poll", fwd[t].peer, fwd[t].answer) /\ fwd[t].answer = Nothing
    BY <1>0, <1>2, ThreadMoves DEF Write, Active, Forwarding, Waits
  <2>2. PICK q \in Peers, id \in Idents : q = fwd[t].peer /\ id = fwd[t].id
    BY <1>0, <2>1 DEF Types, Active, Roundtrips
  <2>3. PICK r \in Answers : /\ r.id = id /\ asked' = [asked EXCEPT ![q] = Append(@, r)]
                             /\ UNCHANGED <<stream, slot>>
    <3>1. [id |-> fwd[t].id, name |-> fwd[t].name] \in Answers
      BY <1>0 DEF Roundtrips, Answers
    <3> QED
      BY <1>2, <2>2, <3>1 DEF Write
  <2>4. \A u \in Threads : Rests(u)' /\ Waits(u)' /\ \A v \in Threads : Alone(u, v)'
    BY <2>1, MovedApart
  <2>5. ASSUME NEW u \in Threads \ {t} PROVE OwnWay(u)' /\ Mine(u)'
    <3>1. fwd'[u] = fwd[u] /\ OwnWay(u) /\ Mine(u) /\ Alone(u, t)
      BY <2>1 DEF AnswerInv, Forwarding, Moved
    <3>2. CASE fwd[u].peer # q
      <4>1. Active(u) => asked'[fwd[u].peer] = asked[fwd[u].peer]
        BY <1>0, <2>3, <3>2 DEF Types, Active
      <4> QED
        BY <2>3, <3>1, <4>1 DEF OwnWay, Mine, Carries, Active
    <3>3. CASE fwd[u].peer = q
      BY <2>1, <2>2, <3>1, <3>3 DEF OwnWay, Mine, Alone, Active
    <3> QED
      BY <3>2, <3>3
  <2>6. OwnWay(t)' /\ Mine(t)'
    <3>1. asked[q] \in Seq(Answers) /\ asked'[q] = Append(asked[q], r)
      BY <1>0, <2>3 DEF Types
    <3>2. \A i \in DOMAIN asked'[q] : asked'[q][i] = r \/ (i \in DOMAIN asked[q] /\ asked'[q][i] = asked[q][i])
      BY <2>3, <3>1
    <3>3. fwd[t].pc = "write"
      BY <1>2 DEF Write
    <3> QED
      BY <1>0, <2>1, <2>2, <2>3, <3>2, <3>3 DEF Forwarding, OwnWay, Mine, Carries, Moved, Active
  <2> QED
    BY <2>4, <2>5, <2>6 DEF Forwarding
<1>3. CASE WriteFails(t) \/ Deadline(t)
  <2>1. Active(t) /\ Moved(t, "idle", "none", fwd[t].answer) /\ fwd[t].answer = Nothing
    BY <1>0, <1>3, ThreadMoves DEF WriteFails, Deadline, Active, Forwarding, Waits
  <2>2. UNCHANGED <<asked, stream, slot>>
    BY <1>3 DEF WriteFails, Deadline
  <2>3. \A u \in Threads : Rests(u)' /\ Waits(u)' /\ \A v \in Threads : Alone(u, v)'
    BY <2>1, MovedApart
  <2>4. \A u \in Threads \ {t} : OwnWay(u)' /\ Mine(u)'
    BY <2>1, <2>2, MovedPast DEF Moved
  <2>5. OwnWay(t)' /\ Mine(t)'
    BY <2>1 DEF OwnWay, Mine, Moved, Active
  <2> QED
    BY <2>3, <2>4, <2>5 DEF Forwarding
<1>4. CASE Take(t)
  <2>1. Active(t) /\ Moved(t, "idle", "none", slot[fwd[t].peer])
    BY <1>0, <1>4, ThreadMoves DEF Take, Active
  <2>2. PICK q \in Peers : q = fwd[t].peer
    BY <1>0, <2>1 DEF Types, Active
  <2>3. UNCHANGED <<asked, stream>> /\ slot' = [slot EXCEPT ![q] = Nothing]
    BY <1>4, <2>2 DEF Take
  <2>4. \A u \in Threads : Rests(u)' /\ Waits(u)' /\ \A v \in Threads : Alone(u, v)'
    BY <2>1, MovedApart
  <2>5. \A u \in Threads \ {t} : OwnWay(u)' /\ Mine(u)'
    BY <2>1, <2>3, MovedPast DEF Moved
  <2>6. OwnWay(t)' /\ Mine(t)'
    BY <1>0, <1>4, <2>1, <2>2 DEF Take, Forwarding, OwnWay, Mine, Carries, Moved, Active
  <2> QED
    BY <2>4, <2>5, <2>6 DEF Forwarding
<1> QED
  BY <1>1, <1>2, <1>3, <1>4 DEF Thread

\* A new forward is alone with its peer, or it and those it meets are marked as mixed.
LEMMA ForwardStep ==
  ASSUME AnswerInv, Types', NEW t \in Threads, NEW name \in Names, Forward(t, name)
  PROVE  \A u \in Threads : Forwarding(u)'
<1>0. Types /\ \A u \in Threads : Forwarding(u) /\ fwd[u] \in Roundtrips
  BY DEF AnswerInv, Types
<1>1. PICK q \in Peers : q = Owner(name) /\ q # "none"
  BY <1>0, OwnerIsPeer DEF Forward, Types
<1>2. PICK busy, id : busy \in BOOLEAN /\ busy = Busy(t, q) /\ id = <<t, forwards[t]>>
  BY DEF Busy
<1>3. PICK new : new = [NoForward EXCEPT !.pc = "clear", !.peer = q, !.name = name, !.id = id, !.mixed = busy]
  OBVIOUS
<1>4. new = [pc |-> "clear", peer |-> q, id |-> id, name |-> name, answer |-> Nothing, mixed |-> busy]
  BY <1>3 DEF NoForward
<1>5. /\ fwd[t].pc = "idle" /\ UNCHANGED <<asked, stream, slot>>
      /\ fwd' = [u \in Threads |->
                   IF u = t THEN new
                   ELSE IF fwd[u].peer = q THEN [fwd[u] EXCEPT !.mixed = TRUE] ELSE fwd[u]]
  BY <1>1, <1>2, <1>3 DEF Forward
<1>6. /\ fwd'[t] = new /\ new.pc = "clear" /\ new.peer = q /\ new.id = id /\ new.answer = Nothing /\ new.mixed = busy
  BY <1>4, <1>5
<1>7. ASSUME NEW u \in Threads \ {t}
      PROVE  /\ fwd'[u].pc = fwd[u].pc /\ fwd'[u].peer = fwd[u].peer /\ fwd'[u].id = fwd[u].id
             /\ fwd'[u].answer = fwd[u].answer
             /\ fwd[u].peer = q => fwd'[u].mixed
             /\ fwd[u].peer # q => fwd'[u].mixed = fwd[u].mixed
  <2>1. CASE fwd[u].peer = q
    <3>1. fwd'[u] = [fwd[u] EXCEPT !.mixed = TRUE]
      BY <1>5, <2>1
    <3> QED
      BY <1>0, <2>1, <3>1, MixesUp
  <2>2. CASE fwd[u].peer # q
    BY <1>5, <2>2
  <2> QED
    BY <2>1, <2>2
<1>8. ~busy => /\ asked[q] = <<>>
               /\ \A i \in DOMAIN stream[q] : stream[q][i].type # "response"
               /\ \A u \in Threads \ {t} : fwd[u].pc # "idle" => fwd[u].peer # q
  BY <1>2 DEF Busy
<1>9. ASSUME NEW u \in Threads PROVE Rests(u)' /\ Waits(u)' /\ Mine(u)'
  <2>1. CASE u = t
    BY <1>6, <2>1 DEF Rests, Waits, Mine, Active
  <2>2. CASE u # t
    BY <1>0, <1>1, <1>7, <2>2 DEF Forwarding, Rests, Waits, Mine, Active
  <2> QED
    BY <2>1, <2>2
<1>10. ASSUME NEW u \in Threads, NEW v \in Threads PROVE Alone(u, v)'
  <2>1. CASE u = t /\ v # t
    BY <1>6, <1>7, <1>8, <2>1 DEF Alone, Active
  <2>2. CASE u # t /\ v = t
    BY <1>6, <1>7, <2>2 DEF Alone, Active
  <2>3. CASE u # t /\ v # t
    BY <1>0, <1>7, <2>3 DEF Forwarding, Alone, Active
  <2>4. CASE u = v
    BY <2>4 DEF Alone
  <2> QED
    BY <2>1, <2>2, <2>3, <2>4
<1>11. ASSUME NEW u \in Threads PROVE OwnWay(u)'
  <2>1. CASE u = t
    BY <1>5, <1>6, <1>8, <2>1 DEF OwnWay, Carries, Active
  <2>2. CASE u # t
    BY <1>0, <1>5, <1>7, <2>2 DEF Forwarding, OwnWay, Carries, Active
  <2> QED
    BY <2>1, <2>2
<1> QED
  BY <1>9, <1>10, <1>11 DEF Forwarding

(* A forward that did not overlap another to the same peer and did not     *)
(* start with an earlier request unanswered returns the answer to its own  *)
(* request, although forward_roundtrip does not compare the ids: for any   *)
(* peers, threads and order of reads, answers, deadlines and tear-downs.   *)
THEOREM AnswersAreMine == Spec => []AnswerIsMine
<1>1. Init => AnswerInv
  <2> SUFFICES ASSUME Init PROVE AnswerInv
    OBVIOUS
  <2>1. \A t \in Threads : fwd[t].pc = "idle" /\ fwd[t].peer = "none" /\ fwd[t].answer = Nothing
    BY DEF Init, NoForward
  <2>2. \A t \in Threads : Forwarding(t)
    BY <2>1 DEF Forwarding, Rests, Waits, Alone, OwnWay, Mine, Active
  <2> QED
    BY <2>2, TypesInit DEF AnswerInv
<1>2. AnswerInv /\ [Next]_vars => AnswerInv'
  <2> SUFFICES ASSUME AnswerInv, [Next]_vars PROVE AnswerInv'
    OBVIOUS
  <2>1. Types' /\ \A t \in Threads : Forwarding(t)
    BY TypesStep DEF AnswerInv
  <2>2. ASSUME NEW p \in Peers, Peer(p) \/ Accept(p) \/ Reject(p) \/ Serve(p), NEW t \in Threads
        PROVE  Forwarding(t)'
    <3>1. fwd' = fwd
      BY <2>2 DEF Peer, PeerSends, PeerAnswers, PeerStalls, Accept, Reject, Serve, Read, Register, Reply,
                  Ignore, LeaveLoop, TearDown
    <3>2. OwnWay(t)'
      BY <2>1, <2>2, <3>1, PeerStep DEF OwnWay, Active
    <3> QED
      BY <2>1, <3>1, <3>2 DEF Forwarding, Rests, Waits, Alone, Mine, Active
  <2>3. CASE UNCHANGED vars
    BY <2>1, <2>3 DEF vars, Forwarding, Rests, Waits, Alone, OwnWay, Carries, Mine, Active, AnswerInv
  <2> QED
    BY <2>1, <2>2, <2>3, ThreadStep, ForwardStep DEF Next, AnswerInv
<1>3. AnswerInv => AnswerIsMine
  BY DEF AnswerInv, Forwarding, Mine, AnswerIsMine
<1> QED
  BY <1>1, <1>2, <1>3, PTL DEF Spec

---------------------------------------------------------------------------
(* Scripts (pass.rs).  The holder of the lock has in hand, in its buffer,  *)
(* in the pipe and in the script's own buffer the consecutive pieces of    *)
(* one reply, to its own request; when it lets go nothing is left of it.   *)

PassFields == {"at", "id", "op", "value", "buffer", "lines", "answer"}

ChildFields == {"state", "asked", "unsent", "pipe"}

IsSeq(s) == \E S : s \in Seq(S)

RequestOf(k) == [id |-> k.id, op |-> k.op, token |-> value_to_pass(k.value)]

\* A reply as the script writes it.
Whole(all, id, blank) ==
    /\ IsSeq(all) /\ Len(all) \in 1..4 /\ (~blank => Len(all) <= 3)
    /\ \A i \in 1..Len(all) : /\ all[i].id = id
                              /\ \/ all[i].place = i /\ i <= 3
                                 \/ all[i].place = 0 /\ i = Len(all) /\ blank
    /\ IsOid(all[1].text) => Len(all) >= 3 /\ all[3].place = 3

\* The piece of a reply after its first n lines.
Piece(s, n, all) ==
    /\ IsSeq(s) /\ n + Len(s) <= Len(all)
    /\ \A i \in 1..Len(s) : s[i] = all[n + i]

\* Where the pieces of the reply to call k of child h are.
Spread(k, h, all) ==
    /\ Piece(k.lines, 0, all)
    /\ Piece(k.buffer, Len(k.lines), all)
    /\ Piece(h.pipe, Len(k.lines) + Len(k.buffer), all)
    /\ Piece(h.unsent, Len(k.lines) + Len(k.buffer) + Len(h.pipe), all)
    /\ h.state = "alive" =>
         Len(k.lines) + Len(k.buffer) + Len(h.pipe) + Len(h.unsent) = Len(all)

Unasked(h) == h.asked = <<>> /\ h.unsent = <<>> /\ h.pipe = <<>>

\* The reply is still to come, or partly there.
Held(k, h, sc) ==
    /\ \/ /\ h.asked = <<RequestOf(k)>> /\ h.unsent = <<>> /\ h.pipe = <<>>
          /\ k.lines = <<>> /\ k.buffer = <<>> /\ h.state = "alive"
       \/ /\ h.asked = <<>>
          /\ \E all : Whole(all, k.id, sc.blank) /\ Spread(k, h, all)
    /\ Len(k.lines) <= 2 /\ \A i \in 1..Len(k.lines) : k.lines[i].place # 0
    /\ sc.whole => h.unsent = <<>> /\ (h.pipe # <<>> => k.lines = <<>> /\ k.buffer = <<>>)
    /\ h.state = "dead" => h.asked = <<>> /\ h.unsent = <<>>

Own(k, n) ==
    k.answer # <<>> =>
      LET lines == k.answer[1].lines
      IN  /\ \A i \in DOMAIN lines : lines[i].id = k.id /\ lines[i].place = i
          /\ Len(lines) < 3 => n > 0

Scripts == [persist : BOOLEAN, blank : BOOLEAN, whole : BOOLEAN, slow : BOOLEAN]

PassTypes ==
    /\ script \in Scripts
    /\ DOMAIN call = PassCallers /\ \A c \in PassCallers : DOMAIN call[c] = PassFields
    /\ DOMAIN child = ChildFields /\ child.state \in {"none", "alive", "dead"}
    /\ deaths \in Nat /\ (child.state = "dead" => deaths > 0)
    /\ \A c \in PassCallers : call[c].at = "reading" <=> lock = c
    /\ \A c \in PassCallers : call[c].at # "reading" => call[c].buffer = <<>> /\ call[c].lines = <<>>

StepInv ==
    /\ lock = NoCaller => Unasked(child)
    /\ lock \in PassCallers => Held(call[lock], child, script)
    /\ lock \in PassCallers \cup {NoCaller}
    /\ \A c \in PassCallers : Own(call[c], deaths)

PassInv == PassTypes /\ (InStep => StepInv)

---------------------------------------------------------------------------

\* Sequences have the indices of their lengths.
LEMMA SeqDomain ==
  ASSUME NEW s, IsSeq(s)
  PROVE  Len(s) \in Nat /\ DOMAIN s = 1..Len(s)
<1>1. PICK S : s \in Seq(S)
  BY DEF IsSeq
<1> QED
  BY <1>1

\* Empty pieces.
LEMMA EmptyPiece ==
  ASSUME NEW all, IsSeq(all), NEW n \in Nat, n <= Len(all)
  PROVE  Piece(<<>>, n, all) /\ Len(<<>>) = 0
<1>1. IsSeq(<<>>) /\ Len(<<>>) = 0
  BY DEF IsSeq
<1>2. Len(all) \in Nat
  BY SeqDomain
<1> QED
  BY <1>1, <1>2 DEF Piece

\* A line goes from the front of one piece to the end of the one before it.
LEMMA LineMoves ==
  ASSUME NEW a, NEW b, NEW n \in Nat, NEW all, IsSeq(all), Piece(a, n, all), Piece(b, n + Len(a), all), b # <<>>
  PROVE  /\ Len(a) \in Nat /\ Len(b) \in Nat /\ Len(b) > 0 /\ Head(b) = b[1] /\ b[1] = all[n + Len(a) + 1]
         /\ Piece(Append(a, Head(b)), n, all) /\ Piece(Tail(b), n + Len(a) + 1, all)
         /\ Len(Append(a, Head(b))) = Len(a) + 1 /\ Len(Tail(b)) = Len(b) - 1
         /\ \A i \in 1..Len(a) : Append(a, Head(b))[i] = a[i]
         /\ Append(a, Head(b))[Len(a) + 1] = b[1]
<1>1. PICK S : a \in Seq(S)
  BY DEF Piece, IsSeq
<1>2. PICK T : b \in Seq(T)
  BY DEF Piece, IsSeq
<1>3. PICK la \in Nat, lb \in Nat, ll \in Nat : la = Len(a) /\ lb = Len(b) /\ ll = Len(all)
  BY <1>1, <1>2, SeqDomain
<1>4. lb > 0 /\ Head(b) = b[1]
  BY <1>2, <1>3
<1>5. /\ n + la <= ll /\ (n + la) + lb <= ll
      /\ \A i \in 1..la : a[i] = all[n + i]
      /\ \A i \in 1..lb : b[i] = all[(n + la) + i]
  BY <1>3 DEF Piece
<1>6. PICK x : x = b[1] /\ x = all[n + la + 1]
  BY <1>4, <1>5
<1>7. PICK u : u = Append(a, x)
  OBVIOUS
<1>8. /\ u \in Seq(S \cup {x}) /\ Len(u) = la + 1 /\ u[la + 1] = x
      /\ \A i \in 1..la : u[i] = a[i]
  <2>1. a \in Seq(S \cup {x})
    BY <1>1
  <2> QED
    BY <1>3, <1>7, <2>1
<1>9. Piece(u, n, all)
  <2>1. n + (la + 1) <= ll
    BY <1>4, <1>5
  <2>2. ASSUME NEW i \in 1..(la + 1) PROVE u[i] = all[n + i]
    <3>1. CASE i = la + 1
      <4>1. n + i = n + la + 1
        BY <3>1
      <4> QED
        BY <1>6, <1>8, <3>1, <4>1
    <3>2. CASE i # la + 1
      <4>1. i \in 1..la
        BY <3>2
      <4> QED
        BY <1>5, <1>8, <4>1
    <3> QED
      BY <3>1, <3>2
  <2> QED
    BY <1>3, <1>8, <2>1, <2>2 DEF Piece, IsSeq
<1>10. PICK v : v = Tail(b)
  OBVIOUS
<1>11. v \in Seq(T) /\ Len(v) = lb - 1 /\ \A i \in 1..(lb - 1) : v[i] = b[i + 1]
  BY <1>2, <1>3, <1>4, <1>10
<1>12. Piece(v, n + la + 1, all)
  <2>1. (n + la + 1) + (lb - 1) <= ll
    BY <1>5
  <2>2. ASSUME NEW i \in 1..(lb - 1) PROVE v[i] = all[(n + la + 1) + i]
    <3>1. i + 1 \in 1..lb /\ (n + la) + (i + 1) = (n + la + 1) + i
      OBVIOUS
    <3> QED
      BY <1>5, <1>11, <3>1
  <2> QED
    BY <1>3, <1>11, <2>1, <2>2 DEF Piece, IsSeq
<1> QED
  BY <1>3, <1>4, <1>6, <1>7, <1>8, <1>9, <1>10, <1>11, <1>12

\* Replies of one and of three lines.
LEMMA OneLine ==
  ASSUME NEW x
  PROVE  IsSeq(<<x>>) /\ Len(<<x>>) = 1 /\ <<x>>[1] = x
<1>1. <<x>> \in Seq({x})
  OBVIOUS
<1> QED
  BY <1>1 DEF IsSeq

LEMMA ThreeLines ==
  ASSUME NEW x, NEW y, NEW z, NEW r, r = <<x, y, z>>
  PROVE  IsSeq(r) /\ Len(r) = 3 /\ r[1] = x /\ r[2] = y /\ r[3] = z
<1>1. <<x, y, z>> \in Seq({x, y, z})
  OBVIOUS
<1> QED
  BY <1>1 DEF IsSeq

\* A line behind the others.
LEMMA JoinLine ==
  ASSUME NEW T, NEW r \in Seq(T), NEW x \in T, NEW s, s = r \o <<x>>
  PROVE  /\ s \in Seq(T) /\ Len(s) = Len(r) + 1 /\ s[Len(r) + 1] = x
         /\ \A i \in 1..Len(r) : s[i] = r[i]
<1>1. PICK y \in Seq(T) : y = <<x>>
  <2>1. <<x>> \in Seq(T)
    OBVIOUS
  <2> QED
    BY <2>1
<1>2. Len(y) = 1 /\ y[1] = x
  BY <1>1
<1>3. /\ r \o y \in Seq(T) /\ Len(r \o y) = Len(r) + Len(y)
      /\ \A i \in 1..(Len(r) + Len(y)) : (r \o y)[i] = IF i <= Len(r) THEN r[i] ELSE y[i - Len(r)]
  BY ConcatProperties
<1>4. PICK n \in Nat : n = Len(r)
  OBVIOUS
<1>5. s = r \o y
  BY <1>1
<1>6. s \in Seq(T) /\ Len(s) = n + 1 /\ \A i \in 1..(n + 1) : s[i] = IF i <= n THEN r[i] ELSE y[i - n]
  BY <1>2, <1>3, <1>4, <1>5
<1>7. n + 1 \in 1..(n + 1) /\ ~(n + 1 <= n) /\ (n + 1) - n = 1
  BY <1>4
<1>8. s[n + 1] = x
  BY <1>2, <1>6, <1>7
<1>9. \A i \in 1..n : i \in 1..(n + 1) /\ i <= n
  BY <1>4
<1> QED
  BY <1>4, <1>6, <1>8, <1>9

\* What a script replies.
LEMMA RepliesAre ==
  ASSUME NEW q, NEW r \in Replies(q)
  PROVE  /\ IsSeq(r) /\ Len(r) \in {1, 3}
         /\ \A i \in 1..Len(r) : r[i].id = q.id /\ r[i].place = i
         /\ IsOid(r[1].text) => Len(r) = 3
<1>1. \/ r = <<Line(q.id, 1, "DONE")>> \/ r = <<Line(q.id, 1, "NONE")>>
      \/ \E oid \in {"inside", "outside"} :
           r = <<Line(q.id, 1, oid), Line(q.id, 2, q.token), Line(q.id, 3, "value")>>
  BY DEF Replies, NoneReply, Object
<1>2. \A i, t : Line(q.id, i, t).id = q.id /\ Line(q.id, i, t).place = i /\ Line(q.id, i, t).text = t
  BY DEF Line
<1>3. ASSUME NEW x, r = <<x>>, x.id = q.id, x.place = 1, ~IsOid(x.text)
      PROVE  /\ IsSeq(r) /\ Len(r) \in {1, 3}
             /\ \A i \in 1..Len(r) : r[i].id = q.id /\ r[i].place = i
             /\ IsOid(r[1].text) => Len(r) = 3
  <2>1. IsSeq(r) /\ Len(r) = 1 /\ r[1] = x
    BY <1>3, OneLine
  <2>2. \A i \in 1..1 : i = 1
    OBVIOUS
  <2>3. \A i \in 1..Len(r) : r[i].id = q.id /\ r[i].place = i
    BY <1>3, <2>1, <2>2
  <2> QED
    BY <1>3, <2>1, <2>3
<1>4. ~IsOid("DONE") /\ ~IsOid("NONE")
  BY DEF IsOid
<1>5. ASSUME NEW x, NEW y, NEW z, r = <<x, y, z>>, x.id = q.id, y.id = q.id, z.id = q.id,
             x.place = 1, y.place = 2, z.place = 3
      PROVE  /\ IsSeq(r) /\ Len(r) \in {1, 3}
             /\ \A i \in 1..Len(r) : r[i].id = q.id /\ r[i].place = i
             /\ IsOid(r[1].text) => Len(r) = 3
  <2>1. IsSeq(r) /\ Len(r) = 3 /\ r[1] = x /\ r[2] = y /\ r[3] = z
    BY <1>5, ThreeLines
  <2>2. \A i \in 1..3 : i = 1 \/ i = 2 \/ i = 3
    OBVIOUS
  <2>3. \A i \in 1..3 : r[i].id = q.id /\ r[i].place = i
    BY <1>5, <2>1, <2>2
  <2> QED
    BY <2>1, <2>3
<1> QED
  BY <1>1, <1>2, <1>3, <1>4, <1>5

\* With or without the blank line it is whole.
LEMMA WholeReply ==
  ASSUME NEW q, NEW r \in Replies(q), NEW blank \in BOOLEAN, NEW all,
         all = r \o (IF blank THEN BlankLine(r[1].id) ELSE <<>>)
  PROVE  Whole(all, q.id, blank)
<1>1. /\ IsSeq(r) /\ Len(r) \in {1, 3}
      /\ \A i \in 1..Len(r) : r[i].id = q.id /\ r[i].place = i
      /\ IsOid(r[1].text) => Len(r) = 3
  BY RepliesAre
<1>2. PICK S : r \in Seq(S)
  BY <1>1 DEF IsSeq
<1>3. PICK n \in {1, 3} : n = Len(r)
  BY <1>1
<1>4. CASE ~blank
  <2>1. all = r
    BY <1>2, <1>4
  <2> QED
    BY <1>1, <1>3, <1>4, <2>1 DEF Whole
<1>5. CASE blank
  <2>1. PICK x : x = Line(q.id, 0, "") /\ BlankLine(r[1].id) = <<x>>
    <3>1. 1 \in 1..Len(r)
      BY <1>3
    <3>2. r[1].id = q.id
      BY <1>1, <3>1
    <3> QED
      BY <3>2 DEF BlankLine
  <2>2. x.id = q.id /\ x.place = 0
    BY <2>1 DEF Line
  <2> DEFINE T == S \cup {x}
  <2>3. r \in Seq(T) /\ <<x>> \in Seq(T)
    BY <1>2
  <2> HIDE DEF T
  <2>4. /\ all \in Seq(T) /\ Len(all) = n + 1 /\ all[n + 1] = x
        /\ \A i \in 1..n : all[i] = r[i]
    <3>1. all = r \o <<x>> /\ x \in T
      BY <1>5, <2>1 DEF T
    <3>2. r \in Seq(T)
      BY <2>3
    <3>3. /\ all \in Seq(T) /\ Len(all) = Len(r) + 1 /\ all[Len(r) + 1] = x
          /\ \A i \in 1..Len(r) : all[i] = r[i]
      <4>1. PICK a : a = r \o <<x>>
        OBVIOUS
      <4>2. /\ a \in Seq(T) /\ Len(a) = Len(r) + 1 /\ a[Len(r) + 1] = x
            /\ \A i \in 1..Len(r) : a[i] = r[i]
        BY <3>1, <3>2, <4>1, JoinLine
      <4> QED
        BY <3>1, <4>1, <4>2
    <3> QED
      BY <1>3, <3>3
  <2>5. ASSUME NEW i \in 1..(n + 1)
        PROVE  all[i].id = q.id /\ ((all[i].place = i /\ i <= 3) \/ (all[i].place = 0 /\ i = n + 1))
    <3>1. CASE i = n + 1
      BY <2>2, <2>4, <3>1
    <3>2. CASE i # n + 1
      <4>1. i \in 1..n /\ i <= 3
        BY <1>3, <3>2
      <4> QED
        BY <1>1, <1>3, <2>4, <4>1
    <3> QED
      BY <3>1, <3>2
  <2>6. IsOid(all[1].text) => n = 3
    BY <1>1, <1>3, <2>4
  <2>7. n = 3 => all[3].place = 3
    BY <1>1, <1>3, <2>4
  <2>8. Len(all) \in 1..4
    <3>1. n + 1 \in 1..4
      BY <1>3
    <3> QED
      BY <2>4, <3>1
  <2> QED
    BY <1>3, <1>5, <2>4, <2>5, <2>6, <2>7, <2>8 DEF Whole, IsSeq
<1> QED
  BY <1>4, <1>5

InStepOf(sc) == sc.whole \/ (~sc.blank /\ ~sc.slow)

\* The four pieces one behind the other.
LEMMA SpreadLengths ==
  ASSUME NEW k, NEW h, NEW all, IsSeq(all), Spread(k, h, all)
  PROVE  /\ Len(all) \in Nat /\ Len(k.lines) \in Nat /\ Len(k.buffer) \in Nat
         /\ Len(h.pipe) \in Nat /\ Len(h.unsent) \in Nat
         /\ Len(k.lines) + Len(k.buffer) + Len(h.pipe) + Len(h.unsent) <= Len(all)
<1>1. IsSeq(k.lines) /\ IsSeq(k.buffer) /\ IsSeq(h.pipe) /\ IsSeq(h.unsent)
  BY DEF Spread, Piece
<1>2. Len(k.lines) + Len(k.buffer) + Len(h.pipe) + Len(h.unsent) <= Len(all)
  BY DEF Spread, Piece
<1> QED
  BY <1>1, <1>2, SeqDomain

\* A sequence without elements.
LEMMA NoLines ==
  ASSUME NEW s, IsSeq(s), Len(s) = 0
  PROVE  s = <<>>
<1>1. PICK S : s \in Seq(S)
  BY DEF IsSeq
<1> QED
  BY <1>1

LEMMA SomeLines ==
  ASSUME NEW s, IsSeq(s), s # <<>>
  PROVE  Len(s) \in Nat /\ Len(s) > 0 /\ Head(s) = s[1]
<1>1. PICK S : s \in Seq(S)
  BY DEF IsSeq
<1> QED
  BY <1>1

\* Something is there: the reply was written.
LEMMA Written ==
  ASSUME NEW k, NEW h, NEW sc, Held(k, h, sc),
         k.lines # <<>> \/ k.buffer # <<>> \/ h.pipe # <<>> \/ h.unsent # <<>>
  PROVE  h.asked = <<>> /\ \E all : Whole(all, k.id, sc.blank) /\ Spread(k, h, all)
  BY DEF Held

\* fill_buf.
LEMMA HeldFills ==
  ASSUME NEW k, NEW h, NEW sc \in Scripts, Held(k, h, sc), k.buffer = <<>>, h.pipe # <<>>,
         NEW k2, k2.id = k.id, k2.op = k.op, k2.value = k.value, k2.lines = k.lines, k2.buffer = h.pipe,
         NEW h2, h2.state = h.state, h2.asked = h.asked, h2.unsent = h.unsent, h2.pipe = <<>>
  PROVE  Held(k2, h2, sc)
<1>1. h.asked = <<>> /\ \E all : Whole(all, k.id, sc.blank) /\ Spread(k, h, all)
  BY Written
<1>2. PICK all : Whole(all, k.id, sc.blank) /\ Spread(k, h, all)
  BY <1>1
<1>3. IsSeq(all)
  BY <1>2 DEF Whole
<1>4. PICK l \in Nat, p \in Nat, u \in Nat, n \in Nat :
        l = Len(k.lines) /\ p = Len(h.pipe) /\ u = Len(h.unsent) /\ n = Len(all)
  BY <1>2, <1>3, SpreadLengths
<1>5. Len(<<>>) = 0
  OBVIOUS
<1>6. /\ Piece(k.lines, 0, all) /\ Piece(h.pipe, l + 0, all) /\ Piece(h.unsent, l + 0 + p, all)
      /\ h.state = "alive" => l + 0 + p + u = n
  BY <1>2, <1>4, <1>5 DEF Spread
<1>7. l + p + u <= n
  <2>1. l + Len(k.buffer) + p + u <= n
    BY <1>2, <1>3, <1>4, SpreadLengths
  <2>2. Len(k.buffer) = 0
    BY <1>5
  <2> QED
    BY <2>1, <2>2
<1>8. Piece(<<>>, l + p, all)
  <2>1. l + p \in Nat /\ l + p <= Len(all)
    <3>1. l + p \in Nat /\ l + p <= n
      BY <1>7
    <3> QED
      BY <1>4, <3>1
  <2> QED
    BY <1>3, <2>1, EmptyPiece
<1>9. Spread(k2, h2, all)
  <2>1. l + 0 = l /\ l + 0 + p = l + p + 0 /\ l + p + 0 + u = l + 0 + p + u
    OBVIOUS
  <2> QED
    BY <1>4, <1>5, <1>6, <1>8, <2>1 DEF Spread
<1>10. Len(k2.lines) <= 2 /\ \A i \in 1..Len(k2.lines) : k2.lines[i].place # 0
  BY DEF Held
<1>11. sc.whole => h2.unsent = <<>>
  BY DEF Held
<1>12. h2.state = "dead" => h2.asked = <<>> /\ h2.unsent = <<>>
  BY DEF Held
<1> QED
  BY <1>1, <1>2, <1>9, <1>10, <1>11, <1>12 DEF Held

\* A line out of the buffer.
LEMMA HeldReads ==
  ASSUME NEW k, NEW h, NEW sc \in Scripts, Held(k, h, sc), k.buffer # <<>>,
         Head(k.buffer).place # 0, ~(Len(Append(k.lines, Head(k.buffer))) >= 3),
         NEW k2, k2.id = k.id, k2.op = k.op, k2.value = k.value,
         k2.lines = Append(k.lines, Head(k.buffer)), k2.buffer = Tail(k.buffer)
  PROVE  Held(k2, h, sc)
<1>1. h.asked = <<>> /\ \E all : Whole(all, k.id, sc.blank) /\ Spread(k, h, all)
  BY Written
<1>2. PICK all : Whole(all, k.id, sc.blank) /\ Spread(k, h, all)
  BY <1>1
<1>3. IsSeq(all)
  BY <1>2 DEF Whole
<1>4. PICK l \in Nat, b \in Nat, p \in Nat, u \in Nat, n \in Nat :
        l = Len(k.lines) /\ b = Len(k.buffer) /\ p = Len(h.pipe) /\ u = Len(h.unsent) /\ n = Len(all)
  BY <1>2, <1>3, SpreadLengths
<1>5. /\ Piece(k.lines, 0, all) /\ Piece(k.buffer, l, all) /\ Piece(h.pipe, l + b, all)
      /\ Piece(h.unsent, l + b + p, all) /\ (h.state = "alive" => l + b + p + u = n)
  BY <1>2, <1>4 DEF Spread
<1>6. 0 \in Nat /\ 0 + l = l /\ 0 + l + 1 = l + 1
  OBVIOUS
<1>7. /\ Piece(k2.lines, 0, all) /\ Piece(k2.buffer, 0 + l + 1, all)
      /\ Len(k2.lines) = l + 1 /\ Len(k2.buffer) = b - 1 /\ b > 0
      /\ \A i \in 1..l : k2.lines[i] = k.lines[i]
      /\ k2.lines[l + 1] = k.buffer[1] /\ Head(k.buffer) = k.buffer[1]
  <2>1. PICK a, c : a = k.lines /\ c = k.buffer
    OBVIOUS
  <2>2. Piece(a, 0, all) /\ Piece(c, 0 + Len(a), all) /\ c # <<>> /\ Len(a) = l /\ Len(c) = b
    BY <1>4, <1>5, <1>6, <2>1
  <2>3. /\ Piece(Append(a, Head(c)), 0, all) /\ Piece(Tail(c), 0 + Len(a) + 1, all)
        /\ Len(Append(a, Head(c))) = Len(a) + 1 /\ Len(Tail(c)) = Len(c) - 1 /\ Len(c) > 0
        /\ Append(a, Head(c))[Len(a) + 1] = c[1] /\ Head(c) = c[1]
    BY <1>3, <1>6, <2>2, LineMoves
  <2>4. \A i \in 1..Len(a) : Append(a, Head(c))[i] = a[i]
    BY <1>3, <1>6, <2>2, LineMoves
  <2>5. k2.lines = Append(a, Head(c)) /\ k2.buffer = Tail(c)
    BY <2>1
  <2> QED
    BY <2>1, <2>2, <2>3, <2>4, <2>5
<1>8. Spread(k2, h, all)
  <2>1. (l + 1) + (b - 1) = l + b
    OBVIOUS
  <2> QED
    BY <1>4, <1>5, <1>6, <1>7, <2>1 DEF Spread
<1>9. Len(k2.lines) <= 2
  BY <1>7
<1>10. ASSUME NEW i \in 1..(l + 1) PROVE k2.lines[i].place # 0
  <2>1. CASE i = l + 1
    BY <1>7, <2>1
  <2>2. CASE i # l + 1
    <3>1. i \in 1..l
      BY <2>2
    <3> QED
      BY <1>4, <1>7, <3>1 DEF Held
  <2> QED
    BY <2>1, <2>2
<1>11. sc.whole => h.unsent = <<>> /\ h.pipe = <<>>
  BY DEF Held
<1>12. h.state = "dead" => h.asked = <<>> /\ h.unsent = <<>>
  BY DEF Held
<1> QED
  BY <1>1, <1>2, <1>7, <1>8, <1>9, <1>10, <1>11, <1>12 DEF Held

\* The lines in hand are the first lines of the reply.
LEMMA LinesInHand ==
  ASSUME NEW k, NEW h, NEW sc \in Scripts, Held(k, h, sc)
  PROVE  /\ IsSeq(k.lines)
         /\ \A i \in 1..Len(k.lines) : k.lines[i].id = k.id /\ k.lines[i].place = i
<1>1. CASE k.lines = <<>>
  <2>1. IsSeq(<<>>) /\ Len(<<>>) = 0
    BY DEF IsSeq
  <2> QED
    BY <1>1, <2>1
<1>2. CASE k.lines # <<>>
  <2>1. PICK all : Whole(all, k.id, sc.blank) /\ Spread(k, h, all)
    BY <1>2, Written
  <2>2. IsSeq(all) /\ Piece(k.lines, 0, all)
    BY <2>1 DEF Whole, Spread
  <2>3. PICK l \in Nat, n \in Nat : l = Len(k.lines) /\ n = Len(all) /\ l <= n
    <3>1. IsSeq(k.lines) /\ 0 + Len(k.lines) <= Len(all)
      BY <2>2 DEF Piece
    <3> QED
      BY <2>2, <3>1, SeqDomain
  <2>4. ASSUME NEW i \in 1..l PROVE k.lines[i].id = k.id /\ k.lines[i].place = i
    <3>1. k.lines[i] = all[0 + i] /\ 0 + i = i /\ i \in 1..n
      BY <2>2, <2>3 DEF Piece
    <3>2. all[i].id = k.id /\ (all[i].place = i \/ all[i].place = 0)
      BY <2>1, <2>3, <3>1 DEF Whole
    <3>3. k.lines[i].place # 0
      BY <2>3 DEF Held
    <3> QED
      BY <3>1, <3>2, <3>3
  <2> QED
    BY <2>2, <2>3, <2>4 DEF Piece
<1> QED
  BY <1>1, <1>2

\* What the next line in the buffer is.
LEMMA NextLine ==
  ASSUME NEW k, NEW h, NEW sc \in Scripts, Held(k, h, sc), k.buffer # <<>>
  PROVE  /\ h.asked = <<>> /\ Len(k.lines) \in Nat /\ Len(k.lines) <= 2
         /\ \E all : /\ Whole(all, k.id, sc.blank) /\ Spread(k, h, all)
                     /\ Len(all) \in Nat /\ Len(k.lines) + 1 <= Len(all)
                     /\ Head(k.buffer) = all[Len(k.lines) + 1]
<1>1. h.asked = <<>> /\ \E all : Whole(all, k.id, sc.blank) /\ Spread(k, h, all)
  BY Written
<1>2. PICK all : Whole(all, k.id, sc.blank) /\ Spread(k, h, all)
  BY <1>1
<1>3. IsSeq(all)
  BY <1>2 DEF Whole
<1>4. PICK l \in Nat, b \in Nat, n \in Nat : l = Len(k.lines) /\ b = Len(k.buffer) /\ n = Len(all)
  BY <1>2, <1>3, SpreadLengths
<1>5. Piece(k.buffer, l, all) /\ IsSeq(k.buffer) /\ l + b <= n
  BY <1>2, <1>4 DEF Spread, Piece
<1>6. b > 0 /\ Head(k.buffer) = k.buffer[1]
  BY <1>4, <1>5, SomeLines
<1>7. k.buffer[1] = all[l + 1]
  <2>1. 1 \in 1..b
    BY <1>6
  <2> QED
    BY <1>4, <1>5, <2>1 DEF Piece
<1>8. l + 1 <= n
  BY <1>5, <1>6
<1>9. Len(k.lines) <= 2
  BY DEF Held
<1> QED
  BY <1>1, <1>2, <1>4, <1>6, <1>7, <1>8, <1>9

\* A blank line ends no object that it cuts short.
LEMMA BlankEnds ==
  ASSUME NEW k, NEW h, NEW sc \in Scripts, Held(k, h, sc), InStepOf(sc), k.buffer # <<>>,
         Head(k.buffer).place = 0
  PROVE  /\ Unasked(h)
         /\ k.lines # <<>> => ~IsOid(k.lines[1].text)
<1>1. PICK all : /\ Whole(all, k.id, sc.blank) /\ Spread(k, h, all)
                 /\ Len(all) \in Nat /\ Len(k.lines) + 1 <= Len(all)
                 /\ Head(k.buffer) = all[Len(k.lines) + 1]
  BY NextLine
<1>2. h.asked = <<>> /\ Len(k.lines) \in Nat /\ Len(k.lines) <= 2
  BY NextLine
<1>3. PICK l \in Nat, n \in Nat : l = Len(k.lines) /\ n = Len(all)
  BY <1>1, <1>2
<1>4. l + 1 \in 1..n /\ l + 1 # 0
  BY <1>1, <1>3
<1>5. l + 1 = n /\ sc.blank
  BY <1>1, <1>3, <1>4 DEF Whole
<1>6. sc.whole
  BY <1>5 DEF InStepOf
<1>7. Unasked(h)
  BY <1>2, <1>6 DEF Held, Unasked
<1>8. ASSUME k.lines # <<>> PROVE ~IsOid(k.lines[1].text)
  <2>1. Piece(k.lines, 0, all)
    BY <1>1 DEF Spread
  <2>2. l > 0
    BY <1>3, <1>8, <2>1, SomeLines DEF Piece
  <2>3. k.lines[1] = all[1]
    <3>1. 1 \in 1..l /\ 0 + 1 = 1
      BY <2>2
    <3> QED
      BY <1>3, <2>1, <3>1 DEF Piece
  <2>4. ASSUME IsOid(all[1].text) PROVE FALSE
    <3>1. n >= 3 /\ all[3].place = 3
      BY <1>1, <1>3, <2>4 DEF Whole
    <3>2. l + 1 = 3
      BY <1>2, <1>3, <1>5, <3>1
    <3>3. all[3].place = 0
      BY <1>1, <1>3, <3>2
    <3> QED
      BY <3>1, <3>3
  <2> QED
    BY <2>3, <2>4
<1> QED
  BY <1>7, <1>8

\* The third line ends the reply.
LEMMA ThirdEnds ==
  ASSUME NEW k, NEW h, NEW sc \in Scripts, Held(k, h, sc), InStepOf(sc), k.buffer # <<>>,
         Head(k.buffer).place # 0, NEW ls, ls = Append(k.lines, Head(k.buffer)), Len(ls) >= 3
  PROVE  /\ Unasked(h) /\ IsSeq(ls) /\ Len(ls) = 3
         /\ \A i \in 1..Len(ls) : ls[i].id = k.id /\ ls[i].place = i
<1>1. PICK all : /\ Whole(all, k.id, sc.blank) /\ Spread(k, h, all)
                 /\ Len(all) \in Nat /\ Len(k.lines) + 1 <= Len(all)
                 /\ Head(k.buffer) = all[Len(k.lines) + 1]
  BY NextLine
<1>2. h.asked = <<>> /\ Len(k.lines) \in Nat /\ Len(k.lines) <= 2
  BY NextLine
<1>3. IsSeq(all)
  BY <1>1 DEF Whole
<1>4. PICK l \in Nat, b \in Nat, p \in Nat, u \in Nat, n \in Nat :
        l = Len(k.lines) /\ b = Len(k.buffer) /\ p = Len(h.pipe) /\ u = Len(h.unsent) /\ n = Len(all)
  BY <1>1, <1>3, SpreadLengths
<1>5. /\ IsSeq(k.lines) /\ \A i \in 1..l : k.lines[i].id = k.id /\ k.lines[i].place = i
  BY <1>4, LinesInHand
<1>6. PICK x : x = Head(k.buffer)
  OBVIOUS
<1>7. IsSeq(ls) /\ Len(ls) = l + 1 /\ ls[l + 1] = x /\ \A i \in 1..l : ls[i] = k.lines[i]
  <2>1. PICK S : k.lines \in Seq(S)
    BY <1>5 DEF IsSeq
  <2>2. k.lines \in Seq(S \cup {x})
    BY <2>1
  <2>3. PICK v : v = Append(k.lines, x)
    OBVIOUS
  <2>4. v \in Seq(S \cup {x}) /\ Len(v) = l + 1 /\ v[l + 1] = x /\ \A i \in 1..l : v[i] = k.lines[i]
    BY <1>4, <2>2, <2>3
  <2> QED
    BY <1>6, <2>3, <2>4 DEF IsSeq
<1>8. l = 2 /\ Len(ls) = 3
  <2>1. l <= 2
    BY <1>2, <1>4
  <2>2. l + 1 >= 3 /\ Len(ls) = l + 1
    BY <1>7
  <2>3. l = 2
    BY <2>1, <2>2
  <2> QED
    BY <2>2, <2>3
<1>9. x.id = k.id /\ x.place = 3
  <2>1. 3 \in 1..n /\ l + 1 = 3
    BY <1>1, <1>4, <1>8
  <2>2. x = all[3]
    BY <1>1, <1>4, <1>6, <2>1
  <2> QED
    BY <1>1, <1>4, <1>6, <2>1, <2>2 DEF Whole
<1>10. ASSUME NEW i \in 1..3 PROVE ls[i].id = k.id /\ ls[i].place = i
  <2>1. CASE i = 3
    BY <1>7, <1>8, <1>9, <2>1
  <2>2. CASE i # 3
    <3>1. i \in 1..l
      BY <1>8, <2>2
    <3> QED
      BY <1>5, <1>7, <3>1
  <2> QED
    BY <2>1, <2>2
<1>11. h.pipe = <<>> /\ h.unsent = <<>>
  <2>1. CASE sc.whole
    BY <2>1 DEF Held
  <2>2. CASE ~sc.whole
    <3>1. ~sc.blank
      BY <2>2 DEF InStepOf
    <3>2. n <= 3
      BY <1>1, <1>4, <3>1 DEF Whole
    <3>3. l + b + p + u <= n
      BY <1>1, <1>3, <1>4, SpreadLengths
    <3>4. IsSeq(k.buffer) /\ IsSeq(h.pipe) /\ IsSeq(h.unsent)
      BY <1>1 DEF Spread, Piece
    <3>5. b > 0
      BY <1>4, <3>4, SomeLines
    <3>6. p = 0 /\ u = 0
      BY <1>8, <3>2, <3>3, <3>5
    <3> QED
      BY <1>4, <3>4, <3>6, NoLines
  <2> QED
    BY <2>1, <2>2
<1> QED
  BY <1>2, <1>7, <1>8, <1>10, <1>11 DEF Unasked

\* The script writes its reply in one piece or keeps it to write.
LEMMA HeldAnswered ==
  ASSUME NEW k, NEW h, NEW sc \in Scripts, Held(k, h, sc), h.asked # <<>>, h.state = "alive",
         NEW r \in Replies(Head(h.asked)), NEW all,
         all = r \o (IF sc.blank THEN BlankLine(r[1].id) ELSE <<>>),
         NEW h2, h2.state = h.state, h2.asked = Tail(h.asked),
         h2.pipe = (IF sc.whole THEN h.pipe \o all ELSE h.pipe),
         h2.unsent = (IF sc.whole THEN <<>> ELSE all)
  PROVE  Held(k, h2, sc)
<1>1. /\ h.asked = <<RequestOf(k)>> /\ h.unsent = <<>> /\ h.pipe = <<>>
      /\ k.lines = <<>> /\ k.buffer = <<>>
  BY DEF Held
<1>2. PICK q : q = RequestOf(k)
  OBVIOUS
<1>3. Head(h.asked) = q /\ h2.asked = <<>> /\ q.id = k.id
  <2>1. Head(<<q>>) = q /\ Tail(<<q>>) = <<>>
    OBVIOUS
  <2> QED
    BY <1>1, <1>2, <2>1 DEF RequestOf
<1>4. Whole(all, k.id, sc.blank)
  <2>1. r \in Replies(q) /\ sc.blank \in BOOLEAN
    BY <1>3 DEF Scripts
  <2>2. Whole(all, q.id, sc.blank)
    BY <2>1, WholeReply
  <2> QED
    BY <1>3, <2>2
<1>5. IsSeq(all)
  BY <1>4 DEF Whole
<1>6. PICK S : all \in Seq(S)
  BY <1>5 DEF IsSeq
<1>7. PICK n \in Nat : n = Len(all)
  BY <1>6
<1>8. /\ Piece(<<>>, 0, all) /\ Piece(<<>>, n, all) /\ Piece(all, 0, all) /\ Len(<<>>) = 0
  <2>1. Piece(<<>>, 0, all) /\ Piece(<<>>, n, all) /\ Len(<<>>) = 0
    <3>1. 0 \in Nat /\ 0 <= n /\ n <= n
      OBVIOUS
    <3> QED
      BY <1>5, <1>7, <3>1, EmptyPiece
  <2>2. \A i \in 1..n : 0 + i = i
    OBVIOUS
  <2>3. Piece(all, 0, all)
    BY <1>5, <1>7, <2>2 DEF Piece
  <2> QED
    BY <2>1, <2>3
<1>9. CASE sc.whole
  <2>1. h2.pipe = all /\ h2.unsent = <<>>
    <3>1. PICK a : a = all /\ a \in Seq(S)
      BY <1>6
    <3>2. <<>> \o a = a
      BY <3>1, ConcatEmptySeq
    <3> QED
      BY <1>1, <1>9, <3>1, <3>2
  <2>2. 0 + 0 = 0 /\ 0 + 0 + n = n /\ 0 + 0 + n + 0 = n
    OBVIOUS
  <2>3. Spread(k, h2, all)
    BY <1>1, <1>7, <1>8, <2>1, <2>2 DEF Spread
  <2> QED
    BY <1>1, <1>3, <1>4, <1>8, <2>1, <2>3 DEF Held
<1>10. CASE ~sc.whole
  <2>1. h2.pipe = <<>> /\ h2.unsent = all
    BY <1>1, <1>10
  <2>2. 0 + 0 = 0 /\ 0 + 0 + 0 = 0 /\ 0 + 0 + 0 + n = n
    OBVIOUS
  <2>3. Spread(k, h2, all)
    BY <1>1, <1>7, <1>8, <2>1, <2>2 DEF Spread
  <2> QED
    BY <1>1, <1>3, <1>4, <1>8, <1>10, <2>1, <2>3 DEF Held
<1> QED
  BY <1>9, <1>10

\* A line on its way.
LEMMA HeldWritten ==
  ASSUME NEW k, NEW h, NEW sc \in Scripts, Held(k, h, sc), h.unsent # <<>>, h.state = "alive",
         NEW h2, h2.state = h.state, h2.asked = h.asked,
         h2.pipe = Append(h.pipe, Head(h.unsent)), h2.unsent = Tail(h.unsent)
  PROVE  Held(k, h2, sc)
<1>1. h.asked = <<>> /\ \E all : Whole(all, k.id, sc.blank) /\ Spread(k, h, all)
  BY Written
<1>2. PICK all : Whole(all, k.id, sc.blank) /\ Spread(k, h, all)
  BY <1>1
<1>3. IsSeq(all)
  BY <1>2 DEF Whole
<1>4. PICK l \in Nat, b \in Nat, p \in Nat, u \in Nat, n \in Nat :
        l = Len(k.lines) /\ b = Len(k.buffer) /\ p = Len(h.pipe) /\ u = Len(h.unsent) /\ n = Len(all)
  BY <1>2, <1>3, SpreadLengths
<1>5. /\ Piece(k.lines, 0, all) /\ Piece(k.buffer, l, all) /\ Piece(h.pipe, l + b, all)
      /\ Piece(h.unsent, l + b + p, all) /\ l + b + p + u = n
  BY <1>2, <1>4 DEF Spread
<1>6. PICK m \in Nat : m = l + b
  OBVIOUS
<1>7. /\ Piece(h2.pipe, m, all) /\ Piece(h2.unsent, m + p + 1, all)
      /\ Len(h2.pipe) = p + 1 /\ Len(h2.unsent) = u - 1
  <2>1. Piece(h.pipe, m, all) /\ Piece(h.unsent, m + Len(h.pipe), all)
    BY <1>4, <1>5, <1>6
  <2>2. PICK a, c : a = h.pipe /\ c = h.unsent
    OBVIOUS
  <2>3. Piece(a, m, all) /\ Piece(c, m + Len(a), all) /\ c # <<>> /\ Len(a) = p /\ Len(c) = u
    BY <1>4, <2>1, <2>2
  <2>4. /\ Piece(Append(a, Head(c)), m, all) /\ Piece(Tail(c), m + Len(a) + 1, all)
        /\ Len(Append(a, Head(c))) = Len(a) + 1 /\ Len(Tail(c)) = Len(c) - 1
    BY <1>3, <2>3, LineMoves
  <2>5. h2.pipe = Append(a, Head(c)) /\ h2.unsent = Tail(c)
    BY <2>2
  <2> QED
    BY <2>3, <2>4, <2>5
<1>8. Spread(k, h2, all)
  <2>1. l + b + (p + 1) = m + p + 1 /\ l + b + (p + 1) + (u - 1) = n
    BY <1>5, <1>6
  <2> QED
    BY <1>4, <1>5, <1>6, <1>7, <2>1 DEF Spread
<1>9. ~sc.whole /\ Len(k.lines) <= 2 /\ \A i \in 1..Len(k.lines) : k.lines[i].place # 0
  BY DEF Held
<1>10. h2.state # "dead"
  OBVIOUS
<1> QED
  BY <1>1, <1>2, <1>8, <1>9, <1>10 DEF Held

\* The script dies: what it wrote stays.
LEMMA HeldDead ==
  ASSUME NEW k, NEW h, NEW sc \in Scripts, Held(k, h, sc), h.state = "alive",
         NEW h2, h2.state = "dead", h2.asked = <<>>, h2.pipe = h.pipe, h2.unsent = <<>>
  PROVE  Held(k, h2, sc)
<1>1. PICK all : /\ Whole(all, k.id, sc.blank)
                 /\ \/ Spread(k, h, all)
                    \/ k.lines = <<>> /\ k.buffer = <<>> /\ h.pipe = <<>> /\ h.unsent = <<>>
  <2>1. CASE h.asked = <<RequestOf(k)>> /\ h.unsent = <<>> /\ h.pipe = <<>> /\ k.lines = <<>> /\ k.buffer = <<>>
    <3>1. PICK q : q = [id |-> k.id, op |-> "get", token |-> ""]
      OBVIOUS
    <3>2. NoneReply(k.id) \in Replies(q) /\ q.id = k.id
      BY <3>1 DEF Replies
    <3>3. PICK r \in Replies(q) : r = NoneReply(k.id)
      BY <3>2
    <3>4. PICK all : all = r \o (IF sc.blank THEN BlankLine(r[1].id) ELSE <<>>)
      OBVIOUS
    <3>5. sc.blank \in BOOLEAN
      BY DEF Scripts
    <3>6. Whole(all, q.id, sc.blank)
      BY <3>4, <3>5, WholeReply
    <3> QED
      BY <2>1, <3>2, <3>6
  <2>2. CASE \E all : Whole(all, k.id, sc.blank) /\ Spread(k, h, all)
    BY <2>2
  <2> QED
    BY <2>1, <2>2 DEF Held
<1>2. IsSeq(all)
  BY <1>1 DEF Whole
<1>3. PICK n \in Nat : n = Len(all)
  BY <1>2, SeqDomain
<1>4. Spread(k, h2, all)
  <2>1. CASE Spread(k, h, all)
    <3>1. PICK l \in Nat, b \in Nat, p \in Nat : l = Len(k.lines) /\ b = Len(k.buffer) /\ p = Len(h.pipe)
      BY <1>2, <2>1, SpreadLengths
    <3>2. PICK u \in Nat : u = Len(h.unsent) /\ l + b + p + u <= n
      BY <1>2, <1>3, <2>1, <3>1, SpreadLengths
    <3>3. PICK m \in Nat : m = l + b + p
      OBVIOUS
    <3>4. m <= n
      <4>1. m + u <= n
        BY <3>2, <3>3
      <4> QED
        BY <4>1
    <3>5. Piece(<<>>, m, all)
      BY <1>2, <1>3, <3>4, EmptyPiece
    <3> QED
      BY <2>1, <3>1, <3>3, <3>5 DEF Spread
  <2>2. CASE k.lines = <<>> /\ k.buffer = <<>> /\ h.pipe = <<>>
    <3>1. Piece(<<>>, 0, all) /\ Len(<<>>) = 0
      BY <1>2, <1>3, EmptyPiece
    <3>2. 0 + 0 = 0 /\ 0 + 0 + 0 = 0
      OBVIOUS
    <3> QED
      BY <2>2, <3>1, <3>2 DEF Spread
  <2> QED
    BY <1>1, <2>1, <2>2
<1>5. /\ Len(k.lines) <= 2 /\ \A i \in 1..Len(k.lines) : k.lines[i].place # 0
      /\ sc.whole => (h.pipe # <<>> => k.lines = <<>> /\ k.buffer = <<>>)
  BY DEF Held
<1> QED
  BY <1>1, <1>4, <1>5 DEF Held

\* What Answer takes from the lines.
LEMMA AnswerLines ==
  ASSUME NEW op, NEW ls, NEW a, a = Answer(op, parse_pass_reply(ls)), a # <<>>
  PROVE  a[1].lines = ls /\ ls # <<>> /\ IsOid(ls[1].text)
<1>1. PICK p : p = parse_pass_reply(ls)
  OBVIOUS
<1>2. a = p /\ p # <<>>
  BY <1>1 DEF Answer
<1>3. ls # <<>> /\ IsOid(ls[1].text)
  BY <1>1, <1>2 DEF parse_pass_reply
<1>4. PICK t, o : p = <<[oid |-> o, type |-> t, lines |-> ls]>>
  BY <1>1, <1>3 DEF parse_pass_reply
<1>5. p[1] = [oid |-> o, type |-> t, lines |-> ls]
  BY <1>4
<1> QED
  BY <1>2, <1>3, <1>5

\* A call that ends.
LEMMA FinishIs ==
  ASSUME PassTypes, NEW c \in PassCallers, NEW ls, Finish(c, ls)
  PROVE  /\ DOMAIN call' = PassCallers /\ \A d \in PassCallers : DOMAIN call'[d] = PassFields
         /\ \A d \in PassCallers : d # c => call'[d] = call[d]
         /\ call'[c].at = "done" /\ call'[c].buffer = <<>> /\ call'[c].lines = <<>>
         /\ call'[c].id = call[c].id
         /\ call'[c].answer = Answer(call[c].op, parse_pass_reply(ls))
<1>1. DOMAIN call = PassCallers /\ DOMAIN call[c] = PassFields /\ \A d \in PassCallers : DOMAIN call[d] = PassFields
  BY DEF PassTypes
<1>2. PICK z : z = Answer(call[c].op, parse_pass_reply(ls))
  OBVIOUS
<1>3. call' = [call EXCEPT ![c].at = "done", ![c].buffer = <<>>, ![c].lines = <<>>, ![c].answer = z]
  BY <1>2 DEF Finish
<1>4. DOMAIN call' = PassCallers /\ \A d \in PassCallers : d # c => call'[d] = call[d]
  BY <1>1, <1>3
<1>5. call'[c] = [call[c] EXCEPT !.at = "done", !.buffer = <<>>, !.lines = <<>>, !.answer = z]
  BY <1>1, <1>3
<1>6. DOMAIN call'[c] = PassFields
  BY <1>1, <1>5
<1>7. /\ call'[c].at = "done" /\ call'[c].buffer = <<>> /\ call'[c].lines = <<>>
      /\ call'[c].id = call[c].id /\ call'[c].answer = z
  BY <1>1, <1>5 DEF PassFields
<1>8. \A d \in PassCallers : DOMAIN call'[d] = PassFields
  BY <1>1, <1>4, <1>6
<1> QED
  BY <1>2, <1>4, <1>7, <1>8

\* It answers with lines of its own.
LEMMA FinishOwn ==
  ASSUME PassTypes, NEW c \in PassCallers, NEW ls, Finish(c, ls), IsSeq(ls), deaths' = deaths,
         \A i \in 1..Len(ls) : ls[i].id = call[c].id /\ ls[i].place = i,
         ls # <<>> /\ IsOid(ls[1].text) => Len(ls) >= 3 \/ deaths > 0,
         \A d \in PassCallers : Own(call[d], deaths)
  PROVE  \A d \in PassCallers : Own(call'[d], deaths')
<1>1. /\ \A d \in PassCallers : d # c => call'[d] = call[d]
      /\ call'[c].id = call[c].id
      /\ call'[c].answer = Answer(call[c].op, parse_pass_reply(ls))
  BY FinishIs
<1>2. PICK a, k : a = Answer(call[c].op, parse_pass_reply(ls)) /\ k = call'[c]
  OBVIOUS
<1>3. k.answer = a /\ k.id = call[c].id
  BY <1>1, <1>2
<1>4. a # <<>> => a[1].lines = ls /\ ls # <<>> /\ IsOid(ls[1].text)
  BY <1>2, AnswerLines
<1>5. Len(ls) \in Nat /\ DOMAIN ls = 1..Len(ls)
  BY SeqDomain
<1>6. Own(k, deaths)
  <2>1. Len(ls) < 3 => ~(Len(ls) >= 3)
    BY <1>5
  <2> QED
    BY <1>3, <1>4, <1>5, <2>1 DEF Own
<1> QED
  BY <1>1, <1>2, <1>6

\* The types of a step that ends a call and frees the lock.
LEMMA ReleaseTypes ==
  ASSUME PassTypes, NEW c \in PassCallers, call[c].at = "reading", NEW ls, Release(c, ls),
         UNCHANGED <<script, child, deaths>>
  PROVE  PassTypes'
<1>1. Finish(c, ls) /\ lock' = NoCaller
  BY DEF Release
<1>2. /\ DOMAIN call' = PassCallers /\ \A d \in PassCallers : DOMAIN call'[d] = PassFields
      /\ \A d \in PassCallers : d # c => call'[d] = call[d]
      /\ call'[c].at = "done" /\ call'[c].buffer = <<>> /\ call'[c].lines = <<>>
  BY <1>1, FinishIs
<1>3. lock = c
  BY DEF PassTypes
<1>4. ASSUME NEW d \in PassCallers PROVE call'[d].at = "reading" <=> lock' = d
  <2>1. call'[d].at # "reading"
    <3>1. CASE d = c
      BY <1>2, <3>1
    <3>2. CASE d # c
      BY <1>2, <1>3, <3>2 DEF PassTypes
    <3> QED
      BY <3>1, <3>2
  <2>2. lock' # d
    BY <1>1, PassAssumption
  <2> QED
    BY <2>1, <2>2
<1>5. ASSUME NEW d \in PassCallers, call'[d].at # "reading" PROVE call'[d].buffer = <<>> /\ call'[d].lines = <<>>
  <2>1. CASE d = c
    BY <1>2, <2>1
  <2>2. CASE d # c
    BY <1>2, <1>5, <2>2 DEF PassTypes
  <2> QED
    BY <2>1, <2>2
<1>6. /\ script' \in Scripts /\ DOMAIN child' = ChildFields /\ child'.state \in {"none", "alive", "dead"}
      /\ deaths' \in Nat /\ (child'.state = "dead" => deaths' > 0)
  BY DEF PassTypes
<1> QED
  BY <1>2, <1>4, <1>5, <1>6 DEF PassTypes

\* A step of the script leaves the callers alone.
LEMMA ScriptTypes ==
  ASSUME PassTypes, UNCHANGED <<script, lock, call>>, DOMAIN child' = ChildFields,
         child'.state \in {"none", "alive", "dead"}, deaths' \in Nat, child'.state = "dead" => deaths' > 0
  PROVE  PassTypes'
  BY DEF PassTypes

LEMMA InStepStays ==
  ASSUME script' = script
  PROVE  (InStep' <=> InStep) /\ (InStep <=> InStepOf(script))
  BY DEF InStep, InStepOf

---------------------------------------------------------------------------

LEMMA PassStart ==
  ASSUME PassInit
  PROVE  PassInv
<1>1. script \in Scripts /\ child = NoChild /\ lock = NoCaller /\ deaths = 0 /\ call = [c \in PassCallers |-> Idle]
  BY PassAssumption DEF PassInit, Scripts
<1>2. /\ DOMAIN Idle = PassFields /\ Idle.at = "idle" /\ Idle.answer = <<>> /\ Idle.buffer = <<>> /\ Idle.lines = <<>>
  BY DEF Idle, PassFields
<1>3. DOMAIN NoChild = ChildFields /\ NoChild.state = "none" /\ Unasked(NoChild)
  BY DEF NoChild, ChildFields, Unasked
<1>4. \A c \in PassCallers : call[c] = Idle /\ c # NoCaller
  BY <1>1, PassAssumption
<1>5. DOMAIN call = PassCallers
  BY <1>1
<1>6. PassTypes
  BY <1>1, <1>2, <1>3, <1>4, <1>5 DEF PassTypes
<1>7. \A c \in PassCallers : Own(call[c], deaths)
  BY <1>2, <1>4 DEF Own
<1>8. StepInv
  BY <1>1, <1>3, <1>7, PassAssumption DEF StepInv
<1> QED
  BY <1>6, <1>8 DEF PassInv

\* A request comes in.
LEMMA PassCalls ==
  ASSUME PassInv, NEW c \in PassCallers, NEW op, NEW value, Call(c, op, value)
  PROVE  PassInv'
<1>1. /\ call[c].at # "reading" /\ UNCHANGED <<script, child, lock, deaths>>
      /\ call' = [call EXCEPT ![c] = [Idle EXCEPT !.at = "start", !.id = passCalls + 1, !.op = op, !.value = value]]
  BY DEF Call
<1>2. PassTypes
  BY DEF PassInv
<1>3. PICK k : k = [Idle EXCEPT !.at = "start", !.id = passCalls + 1, !.op = op, !.value = value]
  OBVIOUS
<1>4. DOMAIN k = PassFields /\ k.at = "start" /\ k.buffer = <<>> /\ k.lines = <<>> /\ k.answer = <<>>
  BY <1>3 DEF Idle, PassFields
<1>5. DOMAIN call' = PassCallers /\ call'[c] = k /\ \A d \in PassCallers : d # c => call'[d] = call[d]
  BY <1>1, <1>2, <1>3 DEF PassTypes
<1>6. lock # c
  BY <1>1, <1>2 DEF PassTypes
<1>7. PassTypes'
  <2>1. ASSUME NEW d \in PassCallers
        PROVE  /\ DOMAIN call'[d] = PassFields /\ (call'[d].at = "reading" <=> lock' = d)
               /\ call'[d].at # "reading" => call'[d].buffer = <<>> /\ call'[d].lines = <<>>
    <3>1. CASE d = c
      BY <1>1, <1>4, <1>5, <1>6, <3>1
    <3>2. CASE d # c
      BY <1>1, <1>2, <1>5, <3>2 DEF PassTypes
    <3> QED
      BY <3>1, <3>2
  <2>2. /\ script' \in Scripts /\ DOMAIN child' = ChildFields /\ child'.state \in {"none", "alive", "dead"}
        /\ deaths' \in Nat /\ (child'.state = "dead" => deaths' > 0)
    BY <1>1, <1>2 DEF PassTypes
  <2> QED
    BY <1>5, <2>1, <2>2 DEF PassTypes
<1>8. ASSUME InStep' PROVE StepInv'
  <2>1. StepInv
    BY <1>1, <1>8, InStepStays DEF PassInv
  <2>2. ASSUME NEW d \in PassCallers PROVE Own(call'[d], deaths')
    <3>1. CASE d = c
      BY <1>4, <1>5, <3>1 DEF Own
    <3>2. CASE d # c
      BY <1>1, <1>5, <2>1, <3>2 DEF StepInv
    <3> QED
      BY <3>1, <3>2
  <2>3. lock' \in PassCallers => Held(call'[lock'], child', script')
    BY <1>1, <1>5, <1>6, <2>1 DEF StepInv
  <2>4. (lock' = NoCaller => Unasked(child')) /\ lock' \in PassCallers \cup {NoCaller}
    BY <1>1, <2>1 DEF StepInv
  <2> QED
    BY <2>2, <2>3, <2>4 DEF StepInv
<1> QED
  BY <1>7, <1>8 DEF PassInv

\* A call that ends without having had the lock.
LEMMA FinishTypes ==
  ASSUME PassTypes, NEW c \in PassCallers, call[c].at # "reading", NEW ls, Finish(c, ls),
         UNCHANGED <<script, lock, deaths>>, DOMAIN child' = ChildFields,
         child'.state \in {"none", "alive", "dead"}, child'.state = "dead" => deaths > 0
  PROVE  PassTypes'
<1>1. /\ DOMAIN call' = PassCallers /\ \A d \in PassCallers : DOMAIN call'[d] = PassFields
      /\ \A d \in PassCallers : d # c => call'[d] = call[d]
      /\ call'[c].at = "done" /\ call'[c].buffer = <<>> /\ call'[c].lines = <<>>
  BY FinishIs
<1>2. lock # c
  BY DEF PassTypes
<1>3. ASSUME NEW d \in PassCallers
      PROVE  /\ call'[d].at = "reading" <=> lock' = d
             /\ call'[d].at # "reading" => call'[d].buffer = <<>> /\ call'[d].lines = <<>>
  <2>1. CASE d = c
    BY <1>1, <1>2, <2>1
  <2>2. CASE d # c
    BY <1>1, <2>2 DEF PassTypes
  <2> QED
    BY <2>1, <2>2
<1>4. script' \in Scripts /\ deaths' \in Nat
  BY DEF PassTypes
<1> QED
  BY <1>1, <1>3, <1>4 DEF PassTypes

\* The reader of its own process.
LEMMA PassOneshot ==
  ASSUME PassInv, NEW c \in PassCallers, RunOneshot(c)
  PROVE  PassInv'
<1>1. call[c].at = "start" /\ UNCHANGED <<script, child, lock, deaths>>
  BY DEF RunOneshot
<1>2. PassTypes
  BY DEF PassInv
<1>3. PICK ls : Finish(c, ls) /\ (ls = <<>> \/ ls \in Replies(Request(c)))
  BY DEF RunOneshot
<1>4. /\ IsSeq(ls) /\ \A i \in 1..Len(ls) : ls[i].id = call[c].id /\ ls[i].place = i
      /\ ls # <<>> /\ IsOid(ls[1].text) => Len(ls) >= 3 \/ deaths > 0
  <2>1. CASE ls = <<>>
    <3>1. IsSeq(<<>>) /\ Len(<<>>) = 0
      BY DEF IsSeq
    <3> QED
      BY <2>1, <3>1
  <2>2. CASE ls \in Replies(Request(c))
    <3>1. PICK q : q = Request(c)
      OBVIOUS
    <3>2. q.id = call[c].id
      BY <3>1 DEF Request
    <3>3. /\ IsSeq(ls) /\ \A i \in 1..Len(ls) : ls[i].id = q.id /\ ls[i].place = i
          /\ IsOid(ls[1].text) => Len(ls) = 3
      BY <2>2, <3>1, RepliesAre
    <3>4. IsOid(ls[1].text) => Len(ls) >= 3
      BY <3>3
    <3>5. \A i \in 1..Len(ls) : ls[i].id = call[c].id /\ ls[i].place = i
      BY <3>2, <3>3
    <3> QED
      BY <3>3, <3>4, <3>5
  <2> QED
    BY <1>3, <2>1, <2>2
<1>5. PassTypes'
  <2>1. DOMAIN child' = ChildFields /\ child'.state \in {"none", "alive", "dead"} /\ (child'.state = "dead" => deaths > 0)
    BY <1>1, <1>2 DEF PassTypes
  <2> QED
    BY <1>1, <1>2, <1>3, <2>1, FinishTypes
<1>6. ASSUME InStep' PROVE StepInv'
  <2>1. StepInv
    BY <1>1, <1>6, InStepStays DEF PassInv
  <2>2. \A d \in PassCallers : Own(call[d], deaths)
    BY <2>1 DEF StepInv
  <2>3. \A d \in PassCallers : Own(call'[d], deaths')
    BY <1>1, <1>2, <1>3, <1>4, <2>2, FinishOwn
  <2>4. \A d \in PassCallers : d # c => call'[d] = call[d]
    BY <1>2, <1>3, FinishIs
  <2>5. lock # c
    BY <1>1, <1>2 DEF PassTypes
  <2>6. lock' \in PassCallers => Held(call'[lock'], child', script')
    BY <1>1, <2>1, <2>4, <2>5 DEF StepInv
  <2>7. (lock' = NoCaller => Unasked(child')) /\ lock' \in PassCallers \cup {NoCaller}
    BY <1>1, <2>1 DEF StepInv
  <2> QED
    BY <2>3, <2>6, <2>7 DEF StepInv
<1> QED
  BY <1>5, <1>6 DEF PassInv

\* The child a request is written to.
LEMMA ReadyChild ==
  ASSUME DOMAIN child = ChildFields, child.state \in {"none", "alive", "dead"},
         NEW first, first = (IF child.state = "none" THEN spawn_persist_child ELSE child),
         NEW ready, ready = (IF first.state = "alive" THEN first ELSE spawn_persist_child)
  PROVE  /\ DOMAIN ready = ChildFields /\ ready.state \in {"none", "alive"}
         /\ Unasked(child) => Unasked(ready)
<1>1. PICK s : s = spawn_persist_child
  OBVIOUS
<1>2. s = NoChild \/ s = FreshChild
  BY <1>1 DEF spawn_persist_child
<1>3. DOMAIN s = ChildFields /\ s.state \in {"none", "alive"} /\ Unasked(s)
  BY <1>2 DEF NoChild, FreshChild, ChildFields, Unasked
<1>4. (first = s \/ first = child) /\ ((ready = first /\ first.state = "alive") \/ ready = s)
  BY <1>1
<1> QED
  BY <1>3, <1>4

\* The lock is taken and the request written.
LEMMA PassPersist ==
  ASSUME PassInv, NEW c \in PassCallers, RunPersist(c)
  PROVE  PassInv'
<1>1. call[c].at = "start" /\ lock = NoCaller /\ UNCHANGED <<script, deaths>>
  BY DEF RunPersist, LockFree
<1>2. PassTypes
  BY DEF PassInv
<1>3. PICK first : first = (IF child.state = "none" THEN spawn_persist_child ELSE child)
  OBVIOUS
<1>4. PICK ready : ready = (IF first.state = "alive" THEN first ELSE spawn_persist_child)
  OBVIOUS
<1>5. /\ child' = SendPersistRequest(ready, c)
      /\ IF ready.state = "none" THEN Finish(c, <<>>) /\ UNCHANGED lock
         ELSE call' = [call EXCEPT ![c].at = "reading"] /\ lock' = c
  BY <1>3, <1>4 DEF RunPersist
<1>6. /\ DOMAIN ready = ChildFields /\ ready.state \in {"none", "alive"}
      /\ Unasked(child) => Unasked(ready)
  BY <1>2, <1>3, <1>4, ReadyChild DEF PassTypes
<1>7. CASE ready.state = "none"
  <2>1. child' = ready /\ Finish(c, <<>>) /\ lock' = lock
    BY <1>5, <1>7 DEF SendPersistRequest
  <2>2. PassTypes'
    BY <1>1, <1>2, <1>6, <1>7, <2>1, FinishTypes
  <2>3. ASSUME InStep' PROVE StepInv'
    <3>1. StepInv
      BY <1>1, <2>3, InStepStays DEF PassInv
    <3>2. Unasked(child')
      BY <1>1, <1>6, <2>1, <3>1 DEF StepInv
    <3>3. IsSeq(<<>>) /\ Len(<<>>) = 0
      BY DEF IsSeq
    <3>4. \A d \in PassCallers : Own(call[d], deaths)
      BY <3>1 DEF StepInv
    <3>5. \A i \in 1..Len(<<>>) : <<>>[i].id = call[c].id /\ <<>>[i].place = i
      BY <3>3
    <3>6. \A d \in PassCallers : Own(call'[d], deaths')
      BY <1>1, <1>2, <2>1, <3>3, <3>4, <3>5, FinishOwn
    <3>7. lock' = NoCaller /\ lock' \notin PassCallers
      BY <1>1, <2>1, PassAssumption
    <3> QED
      BY <3>2, <3>6, <3>7 DEF StepInv
  <2> QED
    BY <2>2, <2>3 DEF PassInv
<1>8. CASE ready.state = "alive"
  <2>1. child' = [ready EXCEPT !.asked = Append(@, Request(c))]
    BY <1>5, <1>8 DEF SendPersistRequest
  <2>2. /\ DOMAIN child' = ChildFields /\ child'.state = "alive" /\ child'.asked = Append(ready.asked, Request(c))
        /\ child'.unsent = ready.unsent /\ child'.pipe = ready.pipe
    BY <1>6, <1>8, <2>1 DEF ChildFields
  <2>3. call' = [call EXCEPT ![c].at = "reading"] /\ lock' = c
    BY <1>5, <1>8
  <2>4. DOMAIN call' = PassCallers /\ call'[c] = [call[c] EXCEPT !.at = "reading"] /\ \A d \in PassCallers : d # c => call'[d] = call[d]
    BY <1>2, <2>3 DEF PassTypes
  <2>5. DOMAIN call[c] = PassFields /\ call[c].buffer = <<>> /\ call[c].lines = <<>>
    BY <1>1, <1>2 DEF PassTypes
  <2>6. /\ DOMAIN call'[c] = PassFields /\ call'[c].at = "reading" /\ call'[c].id = call[c].id
        /\ call'[c].op = call[c].op /\ call'[c].value = call[c].value /\ call'[c].buffer = <<>>
        /\ call'[c].lines = <<>> /\ call'[c].answer = call[c].answer
    BY <2>4, <2>5 DEF PassFields
  <2>7. PassTypes'
    <3>1. ASSUME NEW d \in PassCallers
          PROVE  /\ DOMAIN call'[d] = PassFields /\ (call'[d].at = "reading" <=> lock' = d)
                 /\ call'[d].at # "reading" => call'[d].buffer = <<>> /\ call'[d].lines = <<>>
      <4>1. CASE d = c
        BY <2>3, <2>6, <4>1
      <4>2. CASE d # c
        <5>1. call[d].at # "reading"
          BY <1>1, <1>2, PassAssumption DEF PassTypes
        <5> QED
          BY <1>2, <2>3, <2>4, <4>2, <5>1 DEF PassTypes
      <4> QED
        BY <4>1, <4>2
    <3>2. script' \in Scripts /\ deaths' \in Nat
      BY <1>1, <1>2 DEF PassTypes
    <3> QED
      BY <2>2, <2>4, <3>1, <3>2 DEF PassTypes
  <2>8. ASSUME InStep' PROVE StepInv'
    <3>1. StepInv
      BY <1>1, <2>8, InStepStays DEF PassInv
    <3>2. Unasked(ready)
      BY <1>1, <1>6, <3>1 DEF StepInv
    <3>3. PICK q : q = Request(c)
      OBVIOUS
    <3>4. q = RequestOf(call'[c])
      BY <2>6, <3>3 DEF Request, RequestOf
    <3>5. child'.asked = <<q>> /\ child'.unsent = <<>> /\ child'.pipe = <<>>
      <4>1. Append(<<>>, q) = <<q>>
        OBVIOUS
      <4> QED
        BY <2>2, <3>2, <3>3, <4>1 DEF Unasked
    <3>6. Len(<<>>) = 0
      OBVIOUS
    <3>7. Held(call'[c], child', script')
      BY <2>2, <2>6, <3>4, <3>5, <3>6 DEF Held
    <3>8. ASSUME NEW d \in PassCallers PROVE Own(call'[d], deaths')
      <4>1. Own(call[d], deaths)
        BY <3>1 DEF StepInv
      <4>2. CASE d = c
        BY <1>1, <2>6, <4>1, <4>2 DEF Own
      <4>3. CASE d # c
        BY <1>1, <2>4, <4>1, <4>3
      <4> QED
        BY <4>2, <4>3
    <3>9. lock' = c /\ lock' # NoCaller
      BY <2>3, PassAssumption
    <3> QED
      BY <3>7, <3>8, <3>9 DEF StepInv
  <2> QED
    BY <2>7, <2>8 DEF PassInv
<1> QED
  BY <1>6, <1>7, <1>8

\* A step of the holder that keeps the lock.
LEMMA ReadingTypes ==
  ASSUME PassTypes, NEW c \in PassCallers, call[c].at = "reading", NEW k,
         call' = [call EXCEPT ![c] = k], DOMAIN k = PassFields, k.at = "reading",
         UNCHANGED <<script, lock, deaths>>, DOMAIN child' = ChildFields, child'.state = child.state
  PROVE  /\ PassTypes' /\ call'[c] = k /\ lock = c /\ lock' = c
         /\ \A d \in PassCallers : d # c => call'[d] = call[d]
<1>1. DOMAIN call' = PassCallers /\ call'[c] = k /\ \A d \in PassCallers : d # c => call'[d] = call[d]
  BY DEF PassTypes
<1>2. lock = c /\ lock' = c
  BY DEF PassTypes
<1>3. ASSUME NEW d \in PassCallers
      PROVE  /\ DOMAIN call'[d] = PassFields /\ (call'[d].at = "reading" <=> lock' = d)
             /\ call'[d].at # "reading" => call'[d].buffer = <<>> /\ call'[d].lines = <<>>
  <2>1. CASE d = c
    BY <1>1, <1>2, <2>1
  <2>2. CASE d # c
    BY <1>1, <1>2, <2>2 DEF PassTypes
  <2> QED
    BY <2>1, <2>2
<1>4. /\ script' \in Scripts /\ deaths' \in Nat /\ child'.state \in {"none", "alive", "dead"}
      /\ child'.state = "dead" => deaths' > 0
  BY DEF PassTypes
<1> QED
  BY <1>1, <1>2, <1>3, <1>4 DEF PassTypes

LEMMA ReadingStep ==
  ASSUME PassTypes, StepInv, NEW c \in PassCallers, lock' = c, UNCHANGED <<script, deaths>>,
         Held(call'[c], child', script), call'[c].id = call[c].id, call'[c].answer = call[c].answer,
         \A d \in PassCallers : d # c => call'[d] = call[d]
  PROVE  StepInv'
<1>1. ASSUME NEW d \in PassCallers PROVE Own(call'[d], deaths')
  <2>1. Own(call[d], deaths)
    BY DEF StepInv
  <2>2. CASE d = c
    BY <2>1, <2>2 DEF Own
  <2>3. CASE d # c
    BY <2>1, <2>3
  <2> QED
    BY <2>2, <2>3
<1>2. lock' # NoCaller
  BY PassAssumption
<1> QED
  BY <1>1, <1>2 DEF StepInv

LEMMA PassFills ==
  ASSUME PassInv, NEW c \in PassCallers, FillBuf(c)
  PROVE  PassInv'
<1>1. /\ call[c].at = "reading" /\ call[c].buffer = <<>> /\ child.pipe # <<>>
      /\ call' = [call EXCEPT ![c].buffer = child.pipe] /\ child' = [child EXCEPT !.pipe = <<>>]
      /\ UNCHANGED <<script, lock, deaths>>
  BY DEF FillBuf
<1>2. PassTypes
  BY DEF PassInv
<1>3. PICK k : k = [call[c] EXCEPT !.buffer = child.pipe]
  OBVIOUS
<1>4. DOMAIN call[c] = PassFields /\ DOMAIN child = ChildFields
  BY <1>2 DEF PassTypes
<1>5. /\ DOMAIN k = PassFields /\ k.at = "reading" /\ k.id = call[c].id /\ k.op = call[c].op
      /\ k.value = call[c].value /\ k.lines = call[c].lines /\ k.buffer = child.pipe /\ k.answer = call[c].answer
  BY <1>1, <1>3, <1>4 DEF PassFields
<1>6. /\ DOMAIN child' = ChildFields /\ child'.state = child.state /\ child'.asked = child.asked
      /\ child'.unsent = child.unsent /\ child'.pipe = <<>>
  BY <1>1, <1>4 DEF ChildFields
<1>7. call' = [call EXCEPT ![c] = k]
  BY <1>1, <1>3
<1>8. /\ PassTypes' /\ call'[c] = k /\ lock = c /\ lock' = c
      /\ \A d \in PassCallers : d # c => call'[d] = call[d]
  BY <1>1, <1>2, <1>5, <1>6, <1>7, ReadingTypes
<1>9. ASSUME InStep' PROVE StepInv'
  <2>1. StepInv
    BY <1>1, <1>9, InStepStays DEF PassInv
  <2>2. Held(call[c], child, script) /\ script \in Scripts
    BY <1>2, <1>8, <2>1 DEF StepInv, PassTypes
  <2>3. Held(k, child', script)
    BY <1>1, <1>5, <1>6, <2>2, HeldFills
  <2> QED
    BY <1>1, <1>2, <1>5, <1>8, <2>1, <2>3, ReadingStep
<1> QED
  BY <1>8, <1>9 DEF PassInv

\* The holder lets go: nothing is left, and what it has in hand is its own.
LEMMA ReleaseStep ==
  ASSUME PassTypes, StepInv, NEW c \in PassCallers, call[c].at = "reading", NEW ls, Release(c, ls),
         UNCHANGED <<script, child, deaths>>, Unasked(child), IsSeq(ls),
         \A i \in 1..Len(ls) : ls[i].id = call[c].id /\ ls[i].place = i,
         ls # <<>> /\ IsOid(ls[1].text) => Len(ls) >= 3 \/ deaths > 0
  PROVE  StepInv'
<1>1. Finish(c, ls) /\ lock' = NoCaller
  BY DEF Release
<1>2. \A d \in PassCallers : Own(call[d], deaths)
  BY DEF StepInv
<1>3. \A d \in PassCallers : Own(call'[d], deaths')
  BY <1>1, <1>2, FinishOwn
<1>4. lock' \notin PassCallers
  BY <1>1, PassAssumption
<1> QED
  BY <1>1, <1>3, <1>4 DEF StepInv

LEMMA PassReads ==
  ASSUME PassInv, NEW c \in PassCallers, ReadLine(c)
  PROVE  PassInv'
<1>1. call[c].at = "reading" /\ call[c].buffer # <<>> /\ UNCHANGED <<script, child, deaths>>
  BY DEF ReadLine
<1>2. PassTypes
  BY DEF PassInv
<1>3. PICK line : line = Head(call[c].buffer)
  OBVIOUS
<1>4. PICK lines : lines = Append(call[c].lines, line)
  OBVIOUS
<1>5. IF line.place = 0 THEN Release(c, call[c].lines)
      ELSE IF Len(lines) >= 3 THEN Release(c, lines)
      ELSE call' = [call EXCEPT ![c].buffer = Tail(@), ![c].lines = lines] /\ UNCHANGED lock
  BY <1>3, <1>4 DEF ReadLine
<1>6. script \in Scripts /\ lock = c /\ (InStep' => StepInv /\ InStepOf(script) /\ Held(call[c], child, script))
  <2>1. script \in Scripts /\ lock = c
    BY <1>1, <1>2 DEF PassTypes
  <2> QED
    BY <1>1, <2>1, InStepStays DEF PassInv, StepInv
<1>7. CASE line.place = 0
  <2>1. Release(c, call[c].lines)
    BY <1>5, <1>7
  <2>2. PassTypes'
    BY <1>1, <1>2, <2>1, ReleaseTypes
  <2>3. ASSUME InStep' PROVE StepInv'
    <3>1. Unasked(child) /\ (call[c].lines # <<>> => ~IsOid(call[c].lines[1].text))
      BY <1>1, <1>3, <1>6, <1>7, <2>3, BlankEnds
    <3>2. /\ IsSeq(call[c].lines)
          /\ \A i \in 1..Len(call[c].lines) : call[c].lines[i].id = call[c].id /\ call[c].lines[i].place = i
      BY <1>6, <2>3, LinesInHand
    <3>3. PICK ls : ls = call[c].lines
      OBVIOUS
    <3>4. /\ Release(c, ls) /\ IsSeq(ls) /\ \A i \in 1..Len(ls) : ls[i].id = call[c].id /\ ls[i].place = i
      BY <2>1, <3>2, <3>3
    <3>5. ls # <<>> /\ IsOid(ls[1].text) => Len(ls) >= 3 \/ deaths > 0
      BY <3>1, <3>3
    <3> QED
      BY <1>1, <1>2, <1>6, <2>3, <3>1, <3>4, <3>5, ReleaseStep
  <2> QED
    BY <2>2, <2>3 DEF PassInv
<1>8. CASE line.place # 0 /\ Len(lines) >= 3
  <2>1. Release(c, lines)
    BY <1>5, <1>8
  <2>2. PassTypes'
    BY <1>1, <1>2, <2>1, ReleaseTypes
  <2>3. ASSUME InStep' PROVE StepInv'
    <3>1. /\ Unasked(child) /\ IsSeq(lines) /\ Len(lines) = 3
          /\ \A i \in 1..Len(lines) : lines[i].id = call[c].id /\ lines[i].place = i
      <4>1. PICK k, h, sc : k = call[c] /\ h = child /\ sc = script
        OBVIOUS
      <4>2. /\ sc \in Scripts /\ Held(k, h, sc) /\ InStepOf(sc) /\ k.buffer # <<>> /\ Head(k.buffer).place # 0
            /\ lines = Append(k.lines, Head(k.buffer)) /\ Len(lines) >= 3
        BY <1>1, <1>3, <1>4, <1>6, <1>8, <2>3, <4>1
      <4>3. Unasked(h) /\ IsSeq(lines) /\ Len(lines) = 3
        BY <4>2, ThirdEnds
      <4>4. \A i \in 1..Len(lines) : lines[i].id = k.id /\ lines[i].place = i
        BY <4>2, ThirdEnds
      <4> QED
        BY <4>1, <4>3, <4>4
    <3>2. lines # <<>> /\ IsOid(lines[1].text) => Len(lines) >= 3 \/ deaths > 0
      BY <1>8
    <3> QED
      BY <1>1, <1>2, <1>6, <2>1, <2>3, <3>1, <3>2, ReleaseStep
  <2> QED
    BY <2>2, <2>3 DEF PassInv
<1>9. CASE line.place # 0 /\ ~(Len(lines) >= 3)
  <2>1. call' = [call EXCEPT ![c].buffer = Tail(@), ![c].lines = lines] /\ lock' = lock
    BY <1>5, <1>9
  <2>2. PICK k : k = [call[c] EXCEPT !.buffer = Tail(@), !.lines = lines]
    OBVIOUS
  <2>3. DOMAIN call[c] = PassFields /\ DOMAIN child' = ChildFields /\ child'.state = child.state
    BY <1>1, <1>2 DEF PassTypes
  <2>4. /\ DOMAIN k = PassFields /\ k.at = "reading" /\ k.id = call[c].id /\ k.op = call[c].op
        /\ k.value = call[c].value /\ k.lines = lines /\ k.buffer = Tail(call[c].buffer) /\ k.answer = call[c].answer
    BY <1>1, <2>2, <2>3 DEF PassFields
  <2>5. call' = [call EXCEPT ![c] = k]
    BY <2>1, <2>2
  <2>6. /\ PassTypes' /\ call'[c] = k /\ lock' = c
        /\ \A d \in PassCallers : d # c => call'[d] = call[d]
    BY <1>1, <1>2, <2>1, <2>3, <2>4, <2>5, ReadingTypes
  <2>7. ASSUME InStep' PROVE StepInv'
    <3>1. Held(k, child, script)
      BY <1>1, <1>3, <1>4, <1>6, <1>9, <2>4, <2>7, HeldReads
    <3>2. Held(call'[c], child', script) /\ call'[c].id = call[c].id /\ call'[c].answer = call[c].answer
      BY <1>1, <2>4, <2>6, <3>1
    <3> QED
      BY <1>1, <1>2, <1>6, <2>6, <2>7, <3>2, ReadingStep
  <2> QED
    BY <2>6, <2>7 DEF PassInv
<1> QED
  BY <1>7, <1>8, <1>9

LEMMA PassEnds ==
  ASSUME PassInv, NEW c \in PassCallers, EndOfFile(c)
  PROVE  PassInv'
<1>1. /\ call[c].at = "reading" /\ child.pipe = <<>> /\ child.state = "dead"
      /\ Release(c, call[c].lines) /\ UNCHANGED <<script, child, deaths>>
  BY DEF EndOfFile
<1>2. PassTypes
  BY DEF PassInv
<1>3. PassTypes'
  BY <1>1, <1>2, ReleaseTypes
<1>4. script \in Scripts /\ lock = c /\ deaths > 0
  BY <1>1, <1>2 DEF PassTypes
<1>5. ASSUME InStep' PROVE StepInv'
  <2>1. StepInv
    BY <1>1, <1>5, InStepStays DEF PassInv
  <2>2. Held(call[c], child, script)
    BY <1>4, <2>1 DEF StepInv
  <2>3. Unasked(child)
    BY <1>1, <2>2 DEF Held, Unasked
  <2>4. PICK ls : ls = call[c].lines
    OBVIOUS
  <2>5. IsSeq(ls) /\ \A i \in 1..Len(ls) : ls[i].id = call[c].id /\ ls[i].place = i
    BY <1>4, <2>2, <2>4, LinesInHand
  <2>6. Release(c, ls)
    BY <1>1, <2>4
  <2>7. ls # <<>> /\ IsOid(ls[1].text) => Len(ls) >= 3 \/ deaths > 0
    BY <1>4
  <2> QED
    BY <1>1, <1>2, <2>1, <2>3, <2>5, <2>6, <2>7, ReleaseStep
<1> QED
  BY <1>3, <1>5 DEF PassInv

LEMMA PassDeadline ==
  ASSUME PassInv, NEW c \in PassCallers, ReplyDeadline(c)
  PROVE  PassInv'
<1>1. /\ call[c].at = "reading" /\ script.slow /\ call[c].lines # <<>>
      /\ Release(c, <<>>) /\ UNCHANGED <<script, child, deaths>>
  BY DEF ReplyDeadline
<1>2. PassTypes
  BY DEF PassInv
<1>3. PassTypes'
  BY <1>1, <1>2, ReleaseTypes
<1>4. script \in Scripts /\ lock = c
  BY <1>1, <1>2 DEF PassTypes
<1>5. ASSUME InStep' PROVE StepInv'
  <2>1. StepInv
    BY <1>1, <1>5, InStepStays DEF PassInv
  <2>2. Held(call[c], child, script)
    BY <1>4, <2>1 DEF StepInv
  <2>3. script.whole
    BY <1>1, <1>5, InStepStays DEF InStepOf
  <2>4. Unasked(child)
    BY <1>1, <2>2, <2>3 DEF Held, Unasked
  <2>5. IsSeq(<<>>) /\ Len(<<>>) = 0
    BY DEF IsSeq
  <2>6. \A i \in 1..Len(<<>>) : <<>>[i].id = call[c].id /\ <<>>[i].place = i
    BY <2>5
  <2> QED
    BY <1>1, <1>2, <2>1, <2>4, <2>5, <2>6, ReleaseStep
<1> QED
  BY <1>3, <1>5 DEF PassInv

\* A step of the script that keeps the holder's reply whole.
LEMMA ScriptStep ==
  ASSUME PassTypes, StepInv, UNCHANGED <<script, lock, call>>, deaths' \in Nat, deaths' >= deaths,
         lock = NoCaller => Unasked(child'), lock \in PassCallers => Held(call[lock], child', script)
  PROVE  StepInv'
<1>1. ASSUME NEW d \in PassCallers PROVE Own(call'[d], deaths')
  <2>1. Own(call[d], deaths) /\ deaths \in Nat
    BY DEF StepInv, PassTypes
  <2>2. deaths > 0 => deaths' > 0
    BY <2>1
  <2> QED
    BY <2>1, <2>2 DEF Own
<1> QED
  BY <1>1 DEF StepInv

LEMMA PassAnswered ==
  ASSUME PassInv, ScriptAnswers
  PROVE  PassInv'
<1>1. PICK r \in Replies(Head(child.asked)) :
        child' = [child EXCEPT !.asked = Tail(@),
                    !.pipe = IF script.whole THEN @ \o (r \o (IF script.blank THEN BlankLine(r[1].id) ELSE <<>>)) ELSE @,
                    !.unsent = IF script.whole THEN <<>> ELSE (r \o (IF script.blank THEN BlankLine(r[1].id) ELSE <<>>))]
  BY DEF ScriptAnswers
<1>2. PICK all : all = r \o (IF script.blank THEN BlankLine(r[1].id) ELSE <<>>)
  OBVIOUS
<1>3. child' = [child EXCEPT !.asked = Tail(@), !.pipe = IF script.whole THEN @ \o all ELSE @,
                             !.unsent = IF script.whole THEN <<>> ELSE all]
  BY <1>1, <1>2
<1>4. child.state = "alive" /\ child.asked # <<>> /\ UNCHANGED <<script, lock, call, deaths>>
  BY DEF ScriptAnswers
<1>5. PassTypes
  BY DEF PassInv
<1>6. /\ DOMAIN child' = ChildFields /\ child'.state = child.state /\ child'.asked = Tail(child.asked)
      /\ child'.pipe = (IF script.whole THEN child.pipe \o all ELSE child.pipe)
      /\ child'.unsent = (IF script.whole THEN <<>> ELSE all)
  BY <1>3, <1>5 DEF ChildFields, PassTypes
<1>7. deaths' \in Nat /\ deaths' >= deaths /\ script \in Scripts
  BY <1>4, <1>5 DEF PassTypes
<1>8. PassTypes'
  BY <1>4, <1>5, <1>6, <1>7, ScriptTypes
<1>9. ASSUME InStep' PROVE StepInv'
  <2>1. StepInv
    BY <1>4, <1>9, InStepStays DEF PassInv
  <2>2. lock # NoCaller
    BY <1>4, <2>1 DEF StepInv, Unasked
  <2>3. ASSUME lock \in PassCallers PROVE Held(call[lock], child', script)
    <3>1. PICK k, h, h2, sc : k = call[lock] /\ h = child /\ h2 = child' /\ sc = script
      OBVIOUS
    <3>2. Held(k, h, sc) /\ sc \in Scripts /\ h.asked # <<>> /\ h.state = "alive" /\ r \in Replies(Head(h.asked))
      BY <1>1, <1>4, <1>7, <2>1, <2>3, <3>1 DEF StepInv
    <3>3. /\ all = r \o (IF sc.blank THEN BlankLine(r[1].id) ELSE <<>>)
          /\ h2.state = h.state /\ h2.asked = Tail(h.asked)
          /\ h2.pipe = (IF sc.whole THEN h.pipe \o all ELSE h.pipe)
          /\ h2.unsent = (IF sc.whole THEN <<>> ELSE all)
      BY <1>2, <1>6, <3>1
    <3>4. Held(k, h2, sc)
      BY <3>2, <3>3, HeldAnswered
    <3> QED
      BY <3>1, <3>4
  <2> QED
    BY <1>4, <1>5, <1>7, <2>1, <2>2, <2>3, ScriptStep
<1> QED
  BY <1>8, <1>9 DEF PassInv

LEMMA PassWritten ==
  ASSUME PassInv, ScriptWrites
  PROVE  PassInv'
<1>1. /\ child.state = "alive" /\ child.unsent # <<>> /\ UNCHANGED <<script, lock, call, deaths>>
      /\ child' = [child EXCEPT !.pipe = Append(@, Head(child.unsent)), !.unsent = Tail(@)]
  BY DEF ScriptWrites
<1>2. PassTypes
  BY DEF PassInv
<1>3. /\ DOMAIN child' = ChildFields /\ child'.state = child.state /\ child'.asked = child.asked
      /\ child'.pipe = Append(child.pipe, Head(child.unsent)) /\ child'.unsent = Tail(child.unsent)
  BY <1>1, <1>2 DEF ChildFields, PassTypes
<1>4. deaths' \in Nat /\ deaths' >= deaths /\ script \in Scripts
  BY <1>1, <1>2 DEF PassTypes
<1>5. PassTypes'
  BY <1>1, <1>2, <1>3, <1>4, ScriptTypes
<1>6. ASSUME InStep' PROVE StepInv'
  <2>1. StepInv
    BY <1>1, <1>6, InStepStays DEF PassInv
  <2>2. lock # NoCaller
    BY <1>1, <2>1 DEF StepInv, Unasked
  <2>3. ASSUME lock \in PassCallers PROVE Held(call[lock], child', script)
    <3>1. Held(call[lock], child, script)
      BY <2>1, <2>3 DEF StepInv
    <3> QED
      BY <1>1, <1>3, <1>4, <3>1, HeldWritten
  <2> QED
    BY <1>1, <1>2, <1>4, <2>1, <2>2, <2>3, ScriptStep
<1> QED
  BY <1>5, <1>6 DEF PassInv

LEMMA PassDies ==
  ASSUME PassInv, ScriptDies
  PROVE  PassInv'
<1>1. /\ child.state = "alive" /\ UNCHANGED <<script, lock, call>> /\ deaths' = deaths + 1
      /\ child' = [child EXCEPT !.state = "dead", !.unsent = <<>>, !.asked = <<>>]
  BY DEF ScriptDies
<1>2. PassTypes
  BY DEF PassInv
<1>3. /\ DOMAIN child' = ChildFields /\ child'.state = "dead" /\ child'.asked = <<>>
      /\ child'.pipe = child.pipe /\ child'.unsent = <<>>
  BY <1>1, <1>2 DEF ChildFields, PassTypes
<1>4. deaths' \in Nat /\ deaths' >= deaths /\ deaths' > 0 /\ script \in Scripts
  BY <1>1, <1>2 DEF PassTypes
<1>5. PassTypes'
  BY <1>1, <1>2, <1>3, <1>4, ScriptTypes
<1>6. ASSUME InStep' PROVE StepInv'
  <2>1. StepInv
    BY <1>1, <1>6, InStepStays DEF PassInv
  <2>2. lock = NoCaller => Unasked(child')
    BY <1>3, <2>1 DEF StepInv, Unasked
  <2>3. ASSUME lock \in PassCallers PROVE Held(call[lock], child', script)
    <3>1. Held(call[lock], child, script)
      BY <2>1, <2>3 DEF StepInv
    <3> QED
      BY <1>1, <1>3, <1>4, <3>1, HeldDead
  <2> QED
    BY <1>1, <1>2, <1>4, <2>1, <2>2, <2>3, ScriptStep
<1> QED
  BY <1>5, <1>6 DEF PassInv

LEMMA PassStays ==
  ASSUME PassInv, [PassNext]_passVars
  PROVE  PassInv'
<1>1. CASE UNCHANGED passVars
  <2>1. UNCHANGED <<script, child, lock, call, deaths>>
    BY <1>1 DEF passVars
  <2>2. PassTypes'
    BY <2>1 DEF PassInv, PassTypes
  <2>3. ASSUME InStep' PROVE StepInv'
    <3>1. StepInv
      BY <2>1, <2>3, InStepStays DEF PassInv
    <3> QED
      BY <2>1, <3>1 DEF StepInv
  <2> QED
    BY <2>2, <2>3 DEF PassInv
<1>2. ASSUME NEW c \in PassCallers,
             \/ Call(c, "get", "Integer") \/ Call(c, "getnext", "Integer") \/ Call(c, "set", "Opaque")
             \/ RunOneshot(c) \/ RunPersist(c) \/ FillBuf(c) \/ ReadLine(c) \/ EndOfFile(c)
             \/ ReplyDeadline(c)
      PROVE  PassInv'
  <2>1. ASSUME Call(c, "get", "Integer") \/ Call(c, "getnext", "Integer") \/ Call(c, "set", "Opaque")
        PROVE  PassInv'
    BY <2>1, PassCalls
  <2> QED
    BY <1>2, <2>1, PassOneshot, PassPersist, PassFills, PassReads, PassEnds, PassDeadline
<1>3. CASE ScriptAnswers \/ ScriptWrites \/ ScriptDies
  BY <1>3, PassAnswered, PassWritten, PassDies
<1> QED
  BY <1>1, <1>2, <1>3 DEF PassNext

(* run_persist (pass.rs): with a script whose replies are found whole, or   *)
(* that ends them with their third line, a call answers with lines written  *)
(* for this very call, and cut short only when the script died.             *)
THEOREM ScriptAnswersAreMine == PassSpec => []PassAnswersMine
<1>1. PassInit => PassInv
  BY PassStart
<1>2. PassInv /\ [PassNext]_passVars => PassInv'
  BY PassStays
<1>3. PassInv => PassAnswersMine
  BY DEF PassInv, StepInv, Own, PassAnswersMine
<1> QED
  BY <1>1, <1>2, <1>3, PTL DEF PassSpec
=============================================================================
