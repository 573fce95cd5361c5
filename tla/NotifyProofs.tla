---------------------------- MODULE NotifyProofs ----------------------------
(***************************************************************************)
(* Proofs about the notification originator and the trap receiver, for any *)
(* configuration, senders, receivers and network: the log shows the most   *)
(* recent notifications, an inform that is acknowledged was surfaced, and  *)
(* a send that has returned left no target out.                            *)
(***************************************************************************)
EXTENDS Notify, SequenceTheorems, WellFoundedInduction, TLAPS

---------------------------------------------------------------------------
(* Sequences of anything.                                                  *)

IsSeq(s) == \E S : s \in Seq(S)

\* Appending to a sequence makes a sequence.
LEMMA AppendIsSeq ==
  ASSUME NEW s, NEW x, IsSeq(s)
  PROVE  IsSeq(Append(s, x))
<1>1. PICK S : s \in Seq(S)
  BY DEF IsSeq
<1>2. s \in Seq(S \cup {x})
  BY <1>1
<1>3. Append(s, x) \in Seq(S \cup {x})
  BY <1>2
<1> QED
  BY <1>3 DEF IsSeq

\* Its elements are the old ones and the new one.
LEMMA AppendElements ==
  ASSUME NEW s, NEW x, IsSeq(s)
  PROVE  /\ Len(s) \in Nat /\ Len(Append(s, x)) = Len(s) + 1
         /\ DOMAIN s = 1..Len(s)
         /\ \A i \in 1..Len(s) : Append(s, x)[i] = s[i]
         /\ Append(s, x)[Len(s) + 1] = x
<1>1. PICK S : s \in Seq(S)
  BY DEF IsSeq
<1>2. s \in Seq(S \cup {x})
  BY <1>1
<1> QED
  BY <1>2

\* The rest of a sequence.
LEMMA TailProperties ==
  ASSUME NEW s, IsSeq(s), Len(s) # 0
  PROVE  /\ IsSeq(Tail(s)) /\ Len(Tail(s)) = Len(s) - 1
         /\ \A i \in 1..(Len(s) - 1) : Tail(s)[i] = s[i + 1]
<1>1. PICK S : s \in Seq(S)
  BY DEF IsSeq
<1>2. s # <<>>
  OBVIOUS
<1> QED
  BY <1>1, <1>2 DEF IsSeq

\* An index that was reduced can be counted on.
LEMMA ModuloSuccessor ==
  ASSUME NEW n \in Nat, NEW m \in Nat, m > 1
  PROVE  ((n % m) + 1) % m = (n + 1) % m /\ 1 % m = 1 /\ n % m \in Nat
<1>1. PICK q \in Nat, r \in Nat : n = m * q + r /\ r < m /\ r = n % m
  <2>1. n = m * (n \div m) + (n % m) /\ n \div m \in Nat /\ n % m \in Nat /\ n % m < m
    OBVIOUS
  <2> QED
    BY <2>1
<1>2. ASSUME NEW a \in Nat, NEW b \in Nat, b < m PROVE (m * a + b) % m = b
  BY <1>2
<1>3. CASE r + 1 < m
  <2>1. n + 1 = m * q + (r + 1) /\ r + 1 = m * 0 + (r + 1)
    BY <1>1
  <2>2. (m * q + (r + 1)) % m = r + 1 /\ (m * 0 + (r + 1)) % m = r + 1
    BY <1>2, <1>3
  <2> QED
    BY <1>1, <2>1, <2>2
<1>4. CASE r + 1 = m
  <2>1. n + 1 = m * (q + 1) + 0 /\ r + 1 = m * 1 + 0
    BY <1>1, <1>4
  <2>2. (m * (q + 1) + 0) % m = 0 /\ (m * 1 + 0) % m = 0
    BY <1>2
  <2>3. (n + 1) % m = 0 /\ (r + 1) % m = 0
    BY <2>1, <2>2
  <2> QED
    BY <1>1, <2>3
<1>5. 1 % m = 1
  OBVIOUS
<1> QED
  BY <1>1, <1>3, <1>4, <1>5

---------------------------------------------------------------------------
(* The notification log.                                                   *)

\* What the log of a receiver is, given all it has surfaced.
Recent(entries, notes) ==
    LET n == Len(notes)
        k == IF n < Cap THEN n ELSE Cap
    IN  /\ Len(entries) = k
        /\ \A i \in 1 .. k : /\ entries[i].trap = notes[n - k + i].trap
                             /\ entries[i].index = (n - k + i) % IndexSpace

LogInv ==
    /\ DOMAIN log = Hosts /\ DOMAIN seen = Hosts
    /\ \A h \in Hosts : IsSeq(log[h]) /\ IsSeq(seen[h]) /\ Recent(log[h], seen[h])

\* NotificationLog::record keeps the log recent, before and after it is full.
LEMMA RecordProperties ==
  ASSUME NEW entries, NEW notes, NEW note, IsSeq(entries), IsSeq(notes), Recent(entries, notes)
  PROVE  /\ IsSeq(Record(entries, note.trap))
         /\ Recent(Record(entries, note.trap), Append(notes, note))
<1>1. PICK n \in Nat, k \in Nat : n = Len(notes) /\ k = IF n < Cap THEN n ELSE Cap
  BY AppendElements, NotifyAssumption
<1>2. /\ Len(entries) = k
      /\ \A i \in 1 .. k : entries[i].trap = notes[n - k + i].trap /\ entries[i].index = (n - k + i) % IndexSpace
  BY <1>1 DEF Recent
<1>3. Cap \in Nat /\ Cap > 0 /\ IndexSpace \in Nat /\ IndexSpace > 1 /\ k <= n /\ k <= Cap
  BY <1>1, NotifyAssumption
<1>4. NextIndex(entries) = (n + 1) % IndexSpace
  <2>1. CASE k = 0
    <3>1. n = 0
      BY <1>1, <1>3, <2>1
    <3>2. entries = <<>>
      <4>1. PICK S : entries \in Seq(S)
        BY DEF IsSeq
      <4> QED
        BY <1>2, <2>1, <4>1
    <3>3. 1 % IndexSpace = 1
      BY <1>3, ModuloSuccessor
    <3> QED
      BY <3>1, <3>2, <3>3 DEF NextIndex
  <2>2. CASE k # 0
    <3>1. entries # <<>> /\ k \in 1..k
      BY <1>1, <1>2, <2>2
    <3>2. entries[k].index = n % IndexSpace
      <4>1. n - k + k = n
        BY <1>1
      <4> QED
        BY <1>2, <3>1, <4>1
    <3>3. NextIndex(entries) = ((n % IndexSpace) + 1) % IndexSpace
      BY <1>2, <3>1, <3>2 DEF NextIndex, Last
    <3> QED
      BY <1>1, <1>3, <3>3, ModuloSuccessor
  <2> QED
    BY <2>1, <2>2
<1>e. PICK e : e = [index |-> NextIndex(entries), trap |-> note.trap]
  OBVIOUS
<1>5. e.index = (n + 1) % IndexSpace /\ e.trap = note.trap
  BY <1>4, <1>e
<1>6. /\ Len(Append(notes, note)) = n + 1 /\ Append(notes, note)[n + 1] = note
      /\ \A i \in 1..n : Append(notes, note)[i] = notes[i]
  BY <1>1, AppendElements
<1>7. CASE n < Cap
  <2>1. k = n /\ Record(entries, note.trap) = Append(entries, e)
    BY <1>1, <1>2, <1>3, <1>e, <1>7 DEF Record
  <2>2. /\ IsSeq(Append(entries, e)) /\ Len(Append(entries, e)) = n + 1 /\ Append(entries, e)[n + 1] = e
        /\ \A i \in 1..n : Append(entries, e)[i] = entries[i]
    <3>1. Len(entries) = n
      BY <1>2, <2>1
    <3>2. IsSeq(Append(entries, e))
      BY AppendIsSeq
    <3>3. /\ Len(Append(entries, e)) = n + 1 /\ Append(entries, e)[n + 1] = e
          /\ \A i \in 1..n : Append(entries, e)[i] = entries[i]
      BY <3>1, AppendElements
    <3> QED
      BY <3>2, <3>3
  <2>3. ASSUME NEW i \in 1..(n + 1)
        PROVE  /\ Append(entries, e)[i].trap = Append(notes, note)[i].trap
               /\ Append(entries, e)[i].index = i % IndexSpace
    <3>1. CASE i = n + 1
      BY <1>5, <1>6, <2>2, <3>1
    <3>2. CASE i # n + 1
      <4>1. i \in 1..n /\ i \in 1..k /\ n - k + i = i
        BY <1>1, <2>1, <2>3, <3>2
      <4> QED
        BY <1>2, <1>6, <2>2, <4>1
    <3> QED
      BY <3>1, <3>2
  <2>4. (IF n + 1 < Cap THEN n + 1 ELSE Cap) = n + 1 /\ \A i \in 1..(n + 1) : (n + 1) - (n + 1) + i = i
    BY <1>1, <1>3, <1>7
  <2> QED
    BY <1>6, <2>1, <2>2, <2>3, <2>4 DEF Recent
<1>8. CASE ~(n < Cap)
  <2>1. k = Cap /\ Len(entries) # 0 /\ Record(entries, note.trap) = Append(Tail(entries), e)
    BY <1>1, <1>2, <1>3, <1>e, <1>8 DEF Record
  <2>2. /\ IsSeq(Tail(entries)) /\ Len(Tail(entries)) = Cap - 1
        /\ \A i \in 1..(Cap - 1) : Tail(entries)[i] = entries[i + 1]
    BY <1>2, <2>1, TailProperties
  <2>3. /\ IsSeq(Append(Tail(entries), e)) /\ Len(Append(Tail(entries), e)) = (Cap - 1) + 1
        /\ Append(Tail(entries), e)[(Cap - 1) + 1] = e
        /\ \A i \in 1..(Cap - 1) : Append(Tail(entries), e)[i] = Tail(entries)[i]
    <3>1. PICK rest : rest = Tail(entries) /\ IsSeq(rest) /\ Len(rest) = Cap - 1
      BY <2>2
    <3>2. IsSeq(Append(rest, e))
      BY <3>1, AppendIsSeq
    <3>3. /\ Len(Append(rest, e)) = (Cap - 1) + 1 /\ Append(rest, e)[(Cap - 1) + 1] = e
          /\ \A i \in 1..(Cap - 1) : Append(rest, e)[i] = rest[i]
      BY <3>1, AppendElements
    <3> QED
      BY <3>1, <3>2, <3>3
  <2>4. (Cap - 1) + 1 = Cap
    BY <1>3
  <2>5. ASSUME NEW i \in 1..Cap
        PROVE  /\ Append(Tail(entries), e)[i].trap = Append(notes, note)[(n + 1) - Cap + i].trap
               /\ Append(Tail(entries), e)[i].index = ((n + 1) - Cap + i) % IndexSpace
    <3>1. CASE i = Cap
      <4>1. (n + 1) - Cap + i = n + 1
        BY <1>1, <1>3, <3>1
      <4> QED
        BY <1>5, <1>6, <2>3, <2>4, <3>1, <4>1
    <3>2. CASE i # Cap
      <4>1. /\ i \in 1..(Cap - 1) /\ i + 1 \in 1..k /\ n - k + (i + 1) = (n + 1) - Cap + i
            /\ (n + 1) - Cap + i \in 1..n
        BY <1>1, <1>3, <1>8, <2>1, <2>5, <3>2
      <4> QED
        BY <1>2, <1>6, <2>2, <2>3, <4>1
    <3> QED
      BY <3>1, <3>2
  <2>6. (IF n + 1 < Cap THEN n + 1 ELSE Cap) = Cap
    BY <1>1, <1>3, <1>8
  <2> QED
    BY <1>6, <2>1, <2>3, <2>4, <2>5, <2>6 DEF Recent
<1> QED
  BY <1>7, <1>8

(* nlmLogTable shows the most recent notifications a receiver surfaced, as *)
(* many as fit, oldest first and under consecutive indices                 *)
(* (NotificationLog::record), for every capacity and for indices that wrap *)
(* around any number of times.                                             *)
THEOREM LogShowsRecent == Spec => []LogIsRecent
<1>1. Init => LogInv
  <2> SUFFICES ASSUME Init PROVE LogInv
    OBVIOUS
  <2>1. log = [h \in Hosts |-> <<>>] /\ seen = [h \in Hosts |-> <<>>]
    BY DEF Init
  <2>2. IsSeq(<<>>)
    BY DEF IsSeq
  <2>3. Recent(<<>>, <<>>)
    <3>1. Cap \in Nat \ {0}
      BY NotifyAssumption
    <3> QED
      BY <3>1 DEF Recent
  <2> QED
    BY <2>1, <2>2, <2>3 DEF LogInv
<1>2. LogInv /\ [Next]_vars => LogInv'
  <2> SUFFICES ASSUME LogInv, [Next]_vars PROVE LogInv'
    OBVIOUS
  <2>1. ASSUME UNCHANGED <<log, seen>> PROVE LogInv'
    BY <2>1 DEF LogInv
  <2>2. ASSUME NEW m, Deliver(m), Surfaced(m) # <<>> PROVE LogInv'
    <3>1. PICK note : /\ log' = [log EXCEPT ![m.to] = Record(@, note.trap)]
                      /\ seen' = [seen EXCEPT ![m.to] = Append(@, note)]
      BY <2>2 DEF Deliver
    <3>2. ASSUME NEW h \in Hosts PROVE IsSeq(log'[h]) /\ IsSeq(seen'[h]) /\ Recent(log'[h], seen'[h])
      <4>1. IsSeq(log[h]) /\ IsSeq(seen[h]) /\ Recent(log[h], seen[h])
        BY DEF LogInv
      <4>2. CASE h = m.to
        <5>1. log'[h] = Record(log[h], note.trap) /\ seen'[h] = Append(seen[h], note)
          BY <3>1, <4>2 DEF LogInv
        <5> QED
          <6>1. PICK entries, notes : entries = log[h] /\ notes = seen[h]
            OBVIOUS
          <6>2. IsSeq(Record(entries, note.trap)) /\ Recent(Record(entries, note.trap), Append(notes, note))
            BY <4>1, <6>1, RecordProperties
          <6>3. IsSeq(Append(notes, note))
            BY <4>1, <6>1, AppendIsSeq, AppendElements, Zenon
          <6> QED
            BY <5>1, <6>1, <6>2, <6>3
      <4>3. CASE h # m.to
        BY <3>1, <4>1, <4>3 DEF LogInv
      <4> QED
        BY <4>2, <4>3
    <3>3. DOMAIN log' = Hosts /\ DOMAIN seen' = Hosts
      BY <3>1 DEF LogInv
    <3> QED
      BY <3>2, <3>3 DEF LogInv
  <2>3. ASSUME NEW m, Deliver(m), Surfaced(m) = <<>> PROVE UNCHANGED <<log, seen>>
    BY <2>3 DEF Deliver
  <2>4. ASSUME NEW s \in Senders, SenderStep(s) \/ InformFails(s) \/ \E t \in Traps : Start(s, t)
        PROVE  UNCHANGED <<log, seen>>
    BY <2>4, Zenon DEF SenderStep, CopyTable, FanOut, Acknowledged, Timeout, InformFails, Return, Start
  <2>5. CASE BeginAdd \/ AddNextRow \/ Tick \/ (\E a \in acks : LoseAck(a)) \/ \E m \in net : Lose(m)
    BY <2>1, <2>5 DEF BeginAdd, AddNextRow, Tick, LoseAck, Lose
  <2>6. CASE UNCHANGED vars
    BY <2>1, <2>6 DEF vars
  <2> QED
    BY <2>1, <2>2, <2>3, <2>4, <2>5, <2>6 DEF Next
<1>3. LogInv => LogIsRecent
  BY DEF LogInv, LogIsRecent, Recent
<1> QED
  BY <1>1, <1>2, <1>3, PTL DEF Spec

---------------------------------------------------------------------------
(* Informs.  The invariant follows one from the datagrams under way over   *)
(* the acknowledgement to the call that waits for it.                      *)

Fields == {"pc", "n", "trap", "uptime", "copy", "row", "attempt", "due", "tried"}

InformIds == Senders \X Nat \X Nat

Host(c) == TargetOf(c.copy, c.copy.notifies[c.row])[1].address

Note(c) == [uptime |-> c.uptime, trap |-> c.trap, varbinds |-> <<Payload>>]

\* The inform of an earlier call, or of an earlier row of this one.
Past(id) == LET c == send[id[1]] IN id[2] < c.n \/ (id[2] = c.n /\ id[3] < c.row)

\* The inform the sender waits for.
Now(id) == LET c == send[id[1]] IN id[2] = c.n /\ id[3] = c.row /\ c.pc = "wait"

\* What send_inform writes, at any attempt.
Written(m, c) == m.to = Host(c) /\ m.v1 = <<>> /\ m.varbinds = build_notification(c.uptime, c.trap, <<Payload>>)

SendTypes ==
    /\ DOMAIN send = Senders
    /\ \A s \in Senders : /\ DOMAIN send[s] = Fields /\ send[s].n \in Nat /\ send[s].row \in Nat
                          /\ send[s].pc = "wait" => Host(send[s]) \in Hosts

SeenTypes == DOMAIN seen = Hosts /\ \A h \in Hosts : IsSeq(seen[h])

InformInv(m) ==
    m.type = "inform" /\ m.mp = 1 /\ m.id \in InformIds =>
      Past(m.id) \/ (Now(m.id) /\ Written(m, send[m.id[1]]))

HasSeen(h, note) == h \in Hosts /\ \E i \in DOMAIN seen[h] : seen[h][i] = note

AckInv(a) ==
    a \in InformIds => Past(a) \/ (Now(a) /\ HasSeen(Host(send[a[1]]), Note(send[a[1]])))

AnsweredInv ==
    /\ SendTypes /\ SeenTypes
    /\ \A m \in net : InformInv(m)
    /\ \A a \in acks : AckInv(a)
    /\ \A k \in oks : HasSeen(k.host, k.note)

\* The two bindings in front and the one behind them.
LEMMA ThreeBindings ==
  ASSUME NEW a, NEW b, NEW c, NEW s, s = <<a, b>> \o <<c>>
  PROVE  Len(s) = 3 /\ s[1] = a /\ s[2] = b /\ SubSeq(s, 3, 3) = <<c>>
<1>1. PICK S : S = {a, b, c}
  OBVIOUS
<1>2. <<a, b>> \in Seq(S) /\ <<c>> \in Seq(S) /\ Len(<<a, b>>) = 2 /\ Len(<<c>>) = 1
  BY <1>1
<1>3. /\ s \in Seq(S) /\ Len(s) = Len(<<a, b>>) + Len(<<c>>)
      /\ \A i \in 1..(Len(<<a, b>>) + Len(<<c>>)) :
           s[i] = IF i <= Len(<<a, b>>) THEN <<a, b>>[i] ELSE <<c>>[i - Len(<<a, b>>)]
  BY <1>2, ConcatProperties
<1>4. Len(s) = 3 /\ \A i \in 1..3 : s[i] = IF i <= 2 THEN <<a, b>>[i] ELSE <<c>>[i - 2]
  BY <1>2, <1>3
<1>5. s[1] = a /\ s[2] = b
  BY <1>4
<1>6. s[3] = c
  <2>1. 3 \in 1..3 /\ ~(3 <= 2) /\ 3 - 2 = 1
    OBVIOUS
  <2>2. s[3] = <<c>>[1]
    BY <1>4, <2>1
  <2> QED
    BY <2>2
<1>7. SubSeq(s, 3, 3) = <<c>>
  <2>1. \A i \in 3..3 : s[i] \in {c}
    BY <1>6
  <2>2. /\ SubSeq(s, 3, 3) \in Seq({c})
        /\ Len(SubSeq(s, 3, 3)) = IF 3 <= 3 THEN 3 - 3 + 1 ELSE 0
        /\ \A i \in 1..(3 - 3 + 1) : SubSeq(s, 3, 3)[i] = s[3 + i - 1]
    BY <2>1, SubSeqProperties
  <2>3. Len(SubSeq(s, 3, 3)) = 1 /\ <<c>> \in Seq({c}) /\ Len(<<c>>) = 1
    BY <2>2
  <2>4. \A i \in 1..1 : SubSeq(s, 3, 3)[i] = <<c>>[i]
    BY <2>2, <2>3
  <2> QED
    BY <2>2, <2>3, <2>4, SeqEqual
<1> QED
  BY <1>4, <1>5, <1>7

\* What the session adds and the receiver takes off again.
LEMMA BuildProperties ==
  ASSUME NEW u, NEW t, NEW full, full = build_notification(u, t, <<Payload>>)
  PROVE  /\ full[1].val[1] = u /\ SubSeq(full, 3, Len(full)) = <<Payload>>
         /\ parse_notification(full) = [uptime |-> u, trap |-> t, varbinds |-> <<Payload>>]
<1>1. full[1] = Ticks(u) /\ full[2] = OidVal(t) /\ SubSeq(full, 3, Len(full)) = <<Payload>>
  <2>1. PICK a, b, c : a = Ticks(u) /\ b = OidVal(t) /\ c = Payload
    OBVIOUS
  <2>2. full = <<a, b>> \o <<c>>
    BY <2>1 DEF build_notification
  <2>3. full[1] = a /\ full[2] = b /\ Len(full) = 3
    BY <2>2, ThreeBindings
  <2>4. SubSeq(full, 3, 3) = <<c>>
    BY <2>2, ThreeBindings
  <2> QED
    BY <2>1, <2>3, <2>4
<1>2. Ticks(u).val[1] = u /\ OidVal(t).val = t
  BY DEF Ticks, OidVal
<1> QED
  BY <1>1, <1>2 DEF parse_notification

\* Every attempt of an inform to a v2c target is the same message.
LEMMA DatagramProperties ==
  ASSUME NEW s, NEW n, NEW t, NEW p, NEW k, NEW m, m = Datagram(s, n, t, p, k)
  PROVE  /\ m.id = <<s, send[s].n, send[s].row>> /\ m.to = t.address /\ m.mp = p.mp /\ m.type = n.type
         /\ p.mp = 1 => /\ m.v1 = <<>>
                        /\ m.varbinds = build_notification(send[s].uptime, send[s].trap, <<Payload>>)
<1>1. PICK c, full, extra : /\ c = send[s] /\ full = build_notification(c.uptime, c.trap, <<Payload>>)
                            /\ extra = SubSeq(full, 3, Len(full))
  OBVIOUS
<1>2. full[1].val[1] = c.uptime /\ extra = <<Payload>>
  BY <1>1, BuildProperties
<1>3. PICK v1, vbs : /\ v1 = (IF p.mp = 0 THEN <<V1Trap(c.uptime, c.trap, extra)>> ELSE <<>>)
                     /\ vbs = (CASE p.mp = 0 -> <<>>
                                 [] p.mp = 1 -> build_notification(full[1].val[1], c.trap, extra)
                                 [] p.mp = 3 -> build_notification(0, c.trap, full))
  OBVIOUS
<1>4. m = [id |-> <<s, c.n, c.row>>, attempt |-> k, to |-> t.address, mp |-> p.mp, security |-> p.security,
           type |-> n.type, v1 |-> v1, varbinds |-> vbs]
  BY <1>1, <1>3, Zenon DEF Datagram
<1>5. p.mp = 1 => v1 = <<>> /\ vbs = build_notification(c.uptime, c.trap, <<Payload>>)
  <2> SUFFICES ASSUME p.mp = 1 PROVE v1 = <<>> /\ vbs = build_notification(c.uptime, c.trap, <<Payload>>)
    OBVIOUS
  <2>1. vbs = build_notification(full[1].val[1], c.trap, extra)
    BY <1>3
  <2> QED
    BY <1>2, <1>3, <2>1
<1> QED
  BY <1>1, <1>4, <1>5

\* The receiver surfaces what was written, or nothing.
LEMMA SurfacedProperties ==
  ASSUME NEW m, NEW c, Written(m, c), m.mp = 1, Surfaced(m) # <<>>
  PROVE  Surfaced(m) = <<Note(c)>>
<1>1. m.v1 = <<>> /\ parse_notification(m.varbinds) = Note(c)
  BY BuildProperties DEF Written, Note
<1>2. Surfaced(m) = <<parse_notification(m.varbinds)>>
  BY <1>1 DEF Surfaced
<1> QED
  BY <1>1, <1>2

\* A row of the fan-out is done with.
LEMMA NextRowProperties ==
  ASSUME NEW c, DOMAIN c = Fields, c.row \in Nat, NEW d, d = NextRow(c)
  PROVE  DOMAIN d = Fields /\ d.pc = "fan" /\ d.n = c.n /\ d.row = c.row + 1
  BY DEF NextRow, Fields

\* Once something was surfaced it stays so.
LEMMA SeenGrows ==
  ASSUME SeenTypes, NEW m, Deliver(m), NEW h, NEW note, HasSeen(h, note)
  PROVE  SeenTypes' /\ HasSeen(h, note)'
<1>1. CASE Surfaced(m) = <<>>
  <2>1. seen' = seen
    BY <1>1 DEF Deliver
  <2> QED
    BY <2>1 DEF SeenTypes, HasSeen
<1>2. CASE Surfaced(m) # <<>>
  <2>1. PICK x : seen' = [seen EXCEPT ![m.to] = Append(@, x)]
    BY <1>2 DEF Deliver
  <2>2. DOMAIN seen' = Hosts /\ \A g \in Hosts : seen'[g] = IF g = m.to THEN Append(seen[g], x) ELSE seen[g]
    BY <2>1 DEF SeenTypes
  <2>3. ASSUME NEW g \in Hosts PROVE IsSeq(seen'[g])
    <3>1. PICK old : old = seen[g] /\ IsSeq(old)
      BY DEF SeenTypes
    <3>2. IsSeq(Append(old, x))
      BY <3>1, AppendIsSeq
    <3> QED
      BY <2>2, <3>1, <3>2
  <2>4. HasSeen(h, note)'
    <3>1. PICK i \in DOMAIN seen[h] : h \in Hosts /\ seen[h][i] = note
      BY DEF HasSeen
    <3>2. PICK old : old = seen[h] /\ IsSeq(old)
      BY <3>1 DEF SeenTypes
    <3>3. Len(old) \in Nat /\ i \in 1..Len(old) /\ Append(old, x)[i] = note /\ i \in DOMAIN Append(old, x)
      <4>1. /\ Len(old) \in Nat /\ DOMAIN old = 1..Len(old) /\ Len(Append(old, x)) = Len(old) + 1
            /\ \A j \in 1..Len(old) : Append(old, x)[j] = old[j]
        BY <3>2, AppendElements
      <4>2. IsSeq(Append(old, x))
        BY <3>2, AppendIsSeq
      <4>3. DOMAIN Append(old, x) = 1..(Len(old) + 1)
        <5>1. PICK new : new = Append(old, x)
          OBVIOUS
        <5>2. DOMAIN new = 1..Len(new)
          BY <4>2, <5>1, AppendElements
        <5> QED
          BY <4>1, <5>1, <5>2
      <4>4. i \in 1..Len(old) /\ i \in 1..(Len(old) + 1)
        BY <3>1, <3>2, <4>1
      <4> QED
        BY <3>1, <3>2, <4>1, <4>3, <4>4
    <3> QED
      BY <2>2, <3>1, <3>2, <3>3 DEF HasSeen
  <2> QED
    BY <2>2, <2>3, <2>4 DEF SeenTypes
<1> QED
  BY <1>1, <1>2

\* A sender's call goes on: to a later one, to a later row, or, unless it leaves an
\* inform it was waiting for, on the same row.
GoesOn(c, d) ==
    /\ DOMAIN d = Fields /\ d.n \in Nat /\ d.row \in Nat
    /\ d.pc = "wait" => Host(d) \in Hosts
    /\ \/ c.n < d.n
       \/ d.n = c.n /\ c.row < d.row
       \/ d.n = c.n /\ d.row = c.row /\ c.pc # "wait"
       \/ /\ d.n = c.n /\ d.row = c.row /\ d.pc = c.pc
          /\ d.copy = c.copy /\ d.uptime = c.uptime /\ d.trap = c.trap

\* What was written for a call, and what was surfaced of it, is not disturbed when it
\* goes on.
LEMMA SendMoves ==
  ASSUME AnsweredInv, NEW s \in Senders, NEW d, send' = [send EXCEPT ![s] = d], GoesOn(send[s], d),
         seen' = seen
  PROVE  /\ SendTypes' /\ SeenTypes'
         /\ \A m : InformInv(m) => InformInv(m)'
         /\ \A a : AckInv(a) => AckInv(a)'
         /\ \A h, note : HasSeen(h, note) => HasSeen(h, note)'
<1>0. SendTypes /\ SeenTypes
  BY DEF AnsweredInv
<1>1. /\ DOMAIN send' = Senders /\ send'[s] = d
      /\ \A u \in Senders \ {s} : send'[u] = send[u]
  BY <1>0 DEF SendTypes
<1>2. SendTypes'
  BY <1>0, <1>1 DEF SendTypes, GoesOn
<1>3. SeenTypes' /\ \A h, note : HasSeen(h, note) => HasSeen(h, note)'
  BY <1>0 DEF SeenTypes, HasSeen
<1>4. PICK c : c = send[s] /\ c.n \in Nat /\ c.row \in Nat
  BY <1>0 DEF SendTypes
<1>5. ASSUME NEW id \in InformIds
      PROVE  /\ Past(id) => Past(id)'
             /\ Now(id) => \/ Past(id)'
                           \/ /\ Now(id)' /\ Host(send[id[1]])' = Host(send[id[1]])
                              /\ send'[id[1]].uptime = send[id[1]].uptime /\ send'[id[1]].trap = send[id[1]].trap
  <2>1. id[1] \in Senders /\ id[2] \in Nat /\ id[3] \in Nat
    BY DEF InformIds
  <2>2. CASE id[1] # s
    <3>1. send'[id[1]] = send[id[1]]
      BY <1>1, <2>1, <2>2
    <3>2. Host(send[id[1]])' = Host(send[id[1]])
      BY <3>1 DEF Host, TargetOf
    <3> QED
      BY <3>1, <3>2 DEF Past, Now
  <2>3. CASE id[1] = s
    <3>1. d.n \in Nat /\ d.row \in Nat /\ send'[id[1]] = d /\ send[id[1]] = c
      BY <1>1, <1>4, <2>3 DEF GoesOn
    <3>2. CASE c.n < d.n \/ (d.n = c.n /\ c.row < d.row)
      <4>1. id[2] <= c.n /\ (id[2] = c.n => id[3] <= c.row) => id[2] < d.n \/ (id[2] = d.n /\ id[3] < d.row)
        BY <1>4, <2>1, <3>1, <3>2
      <4>2. Past(id) \/ Now(id) => id[2] <= c.n /\ (id[2] = c.n => id[3] <= c.row)
        BY <1>4, <2>1, <3>1 DEF Past, Now
      <4> QED
        BY <3>1, <4>1, <4>2 DEF Past
    <3>3. CASE d.n = c.n /\ d.row = c.row /\ c.pc # "wait"
      BY <3>1, <3>3 DEF Past, Now
    <3>4. CASE /\ d.n = c.n /\ d.row = c.row /\ d.pc = c.pc
               /\ d.copy = c.copy /\ d.uptime = c.uptime /\ d.trap = c.trap
      <4>1. Host(send[id[1]])' = Host(send[id[1]])
        BY <3>1, <3>4 DEF Host, TargetOf
      <4> QED
        BY <3>1, <3>4, <4>1 DEF Past, Now
    <3> QED
      BY <1>4, <3>2, <3>3, <3>4 DEF GoesOn
  <2> QED
    BY <2>2, <2>3
<1>6. ASSUME NEW m, InformInv(m) PROVE InformInv(m)'
  BY <1>5, <1>6 DEF InformInv, Written
<1>7. ASSUME NEW a, AckInv(a) PROVE AckInv(a)'
  BY <1>3, <1>5, <1>7 DEF AckInv, Note
<1> QED
  BY <1>2, <1>3, <1>6, <1>7

\* The steps of a call that send nothing and hear nothing.
LEMMA QuietStep ==
  ASSUME AnsweredInv, NEW s \in Senders, CopyTable(s) \/ Return(s) \/ \E t \in Traps : Start(s, t)
  PROVE  AnsweredInv'
<1>0. DOMAIN send = Senders /\ DOMAIN send[s] = Fields /\ send[s].n \in Nat /\ send[s].row \in Nat
  BY DEF AnsweredInv, SendTypes
<1>1. UNCHANGED <<net, acks, oks, seen>>
  BY DEF CopyTable, Return, Start
<1>2. \E d : send' = [send EXCEPT ![s] = d] /\ GoesOn(send[s], d)
  <2>1. ASSUME CopyTable(s) PROVE \E d : send' = [send EXCEPT ![s] = d] /\ GoesOn(send[s], d)
    <3>1. send[s].pc \in {"notifies", "params", "targets"}
      BY <2>1 DEF CopyTable, AfterCopy
    <3>2. PICK pc \in {"params", "targets", "fan"} : pc = AfterCopy[send[s].pc]
      BY <3>1 DEF AfterCopy
    <3>3. PICK copy : copy = [send[s].copy EXCEPT ![send[s].pc] = table[send[s].pc]]
      OBVIOUS
    <3>4. PICK d : d = [send[s] EXCEPT !.copy = copy, !.pc = pc]
      OBVIOUS
    <3>5. send' = [send EXCEPT ![s] = d]
      BY <1>0, <2>1, <3>2, <3>3, <3>4 DEF CopyTable
    <3>6. DOMAIN d = Fields /\ d.n = send[s].n /\ d.row = send[s].row /\ d.pc = pc
      BY <1>0, <3>4 DEF Fields
    <3>7. GoesOn(send[s], d)
      BY <1>0, <3>1, <3>2, <3>6 DEF GoesOn
    <3> QED
      BY <3>5, <3>7
  <2>2. ASSUME Return(s) PROVE \E d : send' = [send EXCEPT ![s] = d] /\ GoesOn(send[s], d)
    <3>1. PICK d : d = [send[s] EXCEPT !.pc = "done"]
      OBVIOUS
    <3>2. send' = [send EXCEPT ![s] = d] /\ send[s].pc = "fan"
      BY <1>0, <2>2, <3>1 DEF Return
    <3>3. DOMAIN d = Fields /\ d.n = send[s].n /\ d.row = send[s].row /\ d.pc = "done"
      BY <1>0, <3>1 DEF Fields
    <3>4. GoesOn(send[s], d)
      BY <1>0, <3>2, <3>3 DEF GoesOn
    <3> QED
      BY <3>2, <3>4
  <2>3. ASSUME NEW t \in Traps, Start(s, t) PROVE \E d : send' = [send EXCEPT ![s] = d] /\ GoesOn(send[s], d)
    <3>1. PICK pc \in {"done", "notifies"}, n \in Nat : /\ pc = IF table.targets = <<>> THEN "done" ELSE "notifies"
                                                        /\ n = send[s].n + 1
      BY <1>0
    <3>2. PICK d : d = [NoSend EXCEPT !.pc = pc, !.n = n, !.trap = t, !.uptime = clock, !.due = table.notifies]
      OBVIOUS
    <3>3. send' = [send EXCEPT ![s] = d]
      BY <2>3, <3>1, <3>2 DEF Start
    <3>4. DOMAIN NoSend = Fields /\ NoSend.row = 1
      BY DEF NoSend, Fields
    <3>5. DOMAIN d = Fields /\ d.n = n /\ d.row = 1 /\ d.pc = pc
      BY <3>2, <3>4 DEF Fields
    <3>6. GoesOn(send[s], d)
      BY <1>0, <3>1, <3>5 DEF GoesOn
    <3> QED
      BY <3>3, <3>6
  <2> QED
    BY <2>1, <2>2, <2>3
<1> QED
  BY <1>1, <1>2, SendMoves DEF AnsweredInv

\* A datagram of the row the sender is now waiting for is as it should be.
LEMMA NewDatagram ==
  ASSUME SendTypes, SendTypes', NEW s \in Senders, NEW n, NEW t, NEW p, NEW k, NEW m,
         m = Datagram(s, n, t, p, k),
         send'[s].n = send[s].n, send'[s].row = send[s].row, send'[s].copy = send[s].copy,
         send'[s].uptime = send[s].uptime, send'[s].trap = send[s].trap, send'[s].pc = "wait",
         t.address = Host(send[s])
  PROVE  InformInv(m)'
<1>1. /\ m.id = <<s, send[s].n, send[s].row>> /\ m.to = t.address /\ m.mp = p.mp /\ m.type = n.type
      /\ p.mp = 1 => /\ m.v1 = <<>>
                     /\ m.varbinds = build_notification(send[s].uptime, send[s].trap, <<Payload>>)
  BY DatagramProperties
<1>2. Host(send[s])' = Host(send[s])
  BY DEF Host, TargetOf
<1>3. m.id[1] = s /\ m.id[2] = send[s].n /\ m.id[3] = send[s].row
  BY <1>1
<1>4. Now(m.id)'
  BY <1>3 DEF Now
<1>5. m.mp = 1 => Written(m, send[m.id[1]])'
  BY <1>1, <1>2, <1>3 DEF Written
<1> QED
  BY <1>4, <1>5 DEF InformInv

\* One turn of the fan-out.
LEMMA FanOutStep ==
  ASSUME AnsweredInv, NEW s \in Senders, FanOut(s)
  PROVE  AnsweredInv'
<1>0. SendTypes /\ DOMAIN send = Senders /\ DOMAIN send[s] = Fields /\ send[s].n \in Nat /\ send[s].row \in Nat
  BY DEF AnsweredInv, SendTypes
<1>1. UNCHANGED <<acks, oks, seen>> /\ send[s].pc = "fan"
  BY DEF FanOut
<1>2. PICK c, n, t, p, tried : /\ c = send[s] /\ n = c.copy.notifies[c.row] /\ t = TargetOf(c.copy, n)
                               /\ p = ParamsOf(c.copy, n) /\ tried = [c EXCEPT !.tried = Append(@, n.name)]
  OBVIOUS
<1>3. /\ DOMAIN tried = Fields /\ tried.n = c.n /\ tried.row = c.row /\ tried.copy = c.copy
      /\ tried.uptime = c.uptime /\ tried.trap = c.trap
  BY <1>0, <1>2 DEF Fields
<1>4. \/ send' = [send EXCEPT ![s] = NextRow(c)] /\ net' = net
      \/ send' = [send EXCEPT ![s] = NextRow(tried)] /\ net' = net
      \/ /\ t[1].address \in Hosts /\ net' = net \cup {Datagram(s, n, t[1], p[1], 1)}
         /\ send' = [send EXCEPT ![s] = IF n.type = "trap" THEN NextRow(tried)
                                        ELSE [tried EXCEPT !.pc = "wait", !.attempt = 1]]
  BY <1>2, Zenon DEF FanOut
<1>5. ASSUME NEW b, DOMAIN b = Fields, b.n = c.n, b.row = c.row, send' = [send EXCEPT ![s] = NextRow(b)]
      PROVE  /\ SendTypes' /\ SeenTypes' /\ (\A m : InformInv(m) => InformInv(m)')
             /\ (\A a : AckInv(a) => AckInv(a)') /\ (\A h, note : HasSeen(h, note) => HasSeen(h, note)')
  <2>1. PICK d : d = NextRow(b)
    OBVIOUS
  <2>2. DOMAIN d = Fields /\ d.pc = "fan" /\ d.n = c.n /\ d.row = c.row + 1
    BY <1>0, <1>2, <1>5, <2>1, NextRowProperties
  <2>3. GoesOn(send[s], d)
    BY <1>0, <1>2, <2>2 DEF GoesOn
  <2> QED
    BY <1>1, <1>5, <2>1, <2>3, SendMoves
<1>6. CASE send' = [send EXCEPT ![s] = NextRow(c)] /\ net' = net
  BY <1>0, <1>1, <1>2, <1>5, <1>6 DEF AnsweredInv
<1>7. CASE send' = [send EXCEPT ![s] = NextRow(tried)] /\ net' = net
  BY <1>1, <1>3, <1>5, <1>7 DEF AnsweredInv
<1>8. CASE /\ t[1].address \in Hosts /\ net' = net \cup {Datagram(s, n, t[1], p[1], 1)}
           /\ send' = [send EXCEPT ![s] = IF n.type = "trap" THEN NextRow(tried)
                                          ELSE [tried EXCEPT !.pc = "wait", !.attempt = 1]]
  <2>1. PICK m : m = Datagram(s, n, t[1], p[1], 1)
    OBVIOUS
  <2>2. CASE n.type = "trap"
    <3>1. m.type = "trap"
      BY <2>1, <2>2, DatagramProperties
    <3>2. InformInv(m)'
      BY <3>1 DEF InformInv
    <3> QED
      BY <1>1, <1>3, <1>5, <1>8, <2>1, <2>2, <3>2 DEF AnsweredInv
  <2>3. CASE n.type # "trap"
    <3>1. PICK d : d = [tried EXCEPT !.pc = "wait", !.attempt = 1] /\ send' = [send EXCEPT ![s] = d]
      BY <1>8, <2>3
    <3>2. /\ DOMAIN d = Fields /\ d.n = c.n /\ d.row = c.row /\ d.copy = c.copy
          /\ d.uptime = c.uptime /\ d.trap = c.trap /\ d.pc = "wait"
      BY <1>3, <3>1 DEF Fields
    <3>3. Host(d) = t[1].address /\ Host(send[s]) = t[1].address
      BY <1>2, <3>2 DEF Host
    <3>4. GoesOn(send[s], d)
      BY <1>0, <1>1, <1>2, <1>8, <3>2, <3>3 DEF GoesOn
    <3>5. /\ SendTypes' /\ SeenTypes' /\ (\A x : InformInv(x) => InformInv(x)')
          /\ (\A a : AckInv(a) => AckInv(a)') /\ (\A h, note : HasSeen(h, note) => HasSeen(h, note)')
      BY <1>1, <3>1, <3>4, SendMoves
    <3>6. send'[s] = d
      BY <1>0, <3>1
    <3>7. InformInv(m)'
      BY <1>0, <1>2, <2>1, <3>2, <3>3, <3>5, <3>6, NewDatagram
    <3> QED
      BY <1>1, <1>8, <2>1, <3>5, <3>7 DEF AnsweredInv
  <2> QED
    BY <2>2, <2>3
<1> QED
  BY <1>4, <1>6, <1>7, <1>8

\* The inform is repeated, or given up.
LEMMA TimeoutStep ==
  ASSUME AnsweredInv, NEW s \in Senders, Timeout(s) \/ InformFails(s)
  PROVE  AnsweredInv'
<1>0. SendTypes /\ DOMAIN send = Senders /\ DOMAIN send[s] = Fields /\ send[s].n \in Nat /\ send[s].row \in Nat
  BY DEF AnsweredInv, SendTypes
<1>1. UNCHANGED <<acks, oks, seen>> /\ send[s].pc = "wait" /\ Host(send[s]) \in Hosts
  BY DEF Timeout, InformFails, AnsweredInv, SendTypes
<1>2. PICK c, n : c = send[s] /\ n = c.copy.notifies[c.row]
  OBVIOUS
<1>3. \/ /\ send' = [send EXCEPT ![s].attempt = @ + 1]
         /\ net' = net \cup {Datagram(s, n, TargetOf(c.copy, n)[1], ParamsOf(c.copy, n)[1], c.attempt + 1)}
      \/ send' = [send EXCEPT ![s] = NextRow(@)] /\ net' = net
  BY <1>2 DEF Timeout, InformFails
<1>4. CASE /\ send' = [send EXCEPT ![s].attempt = @ + 1]
           /\ net' = net \cup {Datagram(s, n, TargetOf(c.copy, n)[1], ParamsOf(c.copy, n)[1], c.attempt + 1)}
  <2>1. PICK d : d = [c EXCEPT !.attempt = @ + 1] /\ send' = [send EXCEPT ![s] = d]
    BY <1>0, <1>2, <1>4
  <2>2. /\ DOMAIN d = Fields /\ d.n = c.n /\ d.row = c.row /\ d.copy = c.copy
        /\ d.uptime = c.uptime /\ d.trap = c.trap /\ d.pc = c.pc
    BY <1>0, <1>2, <2>1 DEF Fields
  <2>3. Host(d) = Host(c)
    BY <2>2 DEF Host
  <2>4. GoesOn(send[s], d)
    BY <1>0, <1>1, <1>2, <2>2, <2>3 DEF GoesOn
  <2>5. /\ SendTypes' /\ SeenTypes' /\ (\A x : InformInv(x) => InformInv(x)')
        /\ (\A a : AckInv(a) => AckInv(a)') /\ (\A h, note : HasSeen(h, note) => HasSeen(h, note)')
    BY <1>1, <2>1, <2>4, SendMoves
  <2>6. PICK t, p, k, m : /\ t = TargetOf(c.copy, n)[1] /\ p = ParamsOf(c.copy, n)[1] /\ k = c.attempt + 1
                          /\ m = Datagram(s, n, t, p, k)
    OBVIOUS
  <2>7. t.address = Host(send[s])
    BY <1>2, <2>6 DEF Host
  <2>8. send'[s] = d
    BY <1>0, <2>1
  <2>9. InformInv(m)'
    BY <1>0, <1>1, <1>2, <2>2, <2>5, <2>6, <2>7, <2>8, NewDatagram
  <2> QED
    BY <1>1, <1>4, <2>5, <2>6, <2>9 DEF AnsweredInv
<1>5. CASE send' = [send EXCEPT ![s] = NextRow(@)] /\ net' = net
  <2>1. PICK d : d = NextRow(c) /\ send' = [send EXCEPT ![s] = d]
    BY <1>0, <1>2, <1>5
  <2>2. DOMAIN d = Fields /\ d.pc = "fan" /\ d.n = c.n /\ d.row = c.row + 1
    BY <1>0, <1>2, <2>1, NextRowProperties
  <2>3. GoesOn(send[s], d)
    BY <1>0, <1>2, <2>2 DEF GoesOn
  <2> QED
    BY <1>1, <1>5, <2>1, <2>3, SendMoves DEF AnsweredInv
<1> QED
  BY <1>3, <1>4, <1>5

\* The acknowledgement of the inform the sender waits for.
LEMMA AcknowledgedStep ==
  ASSUME AnsweredInv, NEW s \in Senders, Acknowledged(s)
  PROVE  AnsweredInv'
<1>0. SendTypes /\ DOMAIN send = Senders /\ DOMAIN send[s] = Fields /\ send[s].n \in Nat /\ send[s].row \in Nat
  BY DEF AnsweredInv, SendTypes
<1>1. /\ UNCHANGED <<net, seen>> /\ send[s].pc = "wait" /\ Pending(s) \in acks
      /\ acks' = acks \ {Pending(s)} /\ send' = [send EXCEPT ![s] = NextRow(@)]
      /\ oks' = oks \cup {[host |-> Host(send[s]), note |-> Note(send[s])]}
  BY DEF Acknowledged, Host, Note
<1>2. HasSeen(Host(send[s]), Note(send[s]))
  <2>1. Pending(s) \in InformIds /\ AckInv(Pending(s))
    BY <1>0, <1>1 DEF Pending, InformIds, AnsweredInv
  <2>2. PICK id : id = <<s, send[s].n, send[s].row>>
    OBVIOUS
  <2>3. id = Pending(s) /\ id[1] = s /\ id[2] = send[s].n /\ id[3] = send[s].row
    BY <2>2 DEF Pending
  <2>4. ~Past(id)
    BY <1>0, <2>3 DEF Past
  <2> QED
    BY <2>1, <2>3, <2>4 DEF AckInv
<1>3. PICK h, note : h = Host(send[s]) /\ note = Note(send[s])
  OBVIOUS
<1>4. PICK d : d = NextRow(send[s]) /\ send' = [send EXCEPT ![s] = d]
  BY <1>0, <1>1
<1>5. DOMAIN d = Fields /\ d.pc = "fan" /\ d.n = send[s].n /\ d.row = send[s].row + 1
  BY <1>0, <1>4, NextRowProperties
<1>6. GoesOn(send[s], d)
  BY <1>0, <1>5 DEF GoesOn
<1>7. /\ SendTypes' /\ SeenTypes' /\ (\A x : InformInv(x) => InformInv(x)')
      /\ (\A a : AckInv(a) => AckInv(a)') /\ (\A g, n : HasSeen(g, n) => HasSeen(g, n)')
  BY <1>1, <1>4, <1>6, SendMoves
<1>8. \A x \in oks' : HasSeen(x.host, x.note)
  <2>1. [host |-> h, note |-> note].host = h /\ [host |-> h, note |-> note].note = note
    OBVIOUS
  <2>2. oks' = oks \cup {[host |-> h, note |-> note]} /\ HasSeen(h, note)
    BY <1>1, <1>2, <1>3
  <2> QED
    BY <2>1, <2>2 DEF AnsweredInv
<1>9. \A x \in oks' : HasSeen(x.host, x.note)'
  BY <1>7, <1>8
<1> QED
  BY <1>1, <1>7, <1>9 DEF AnsweredInv

\* A receiver handles a datagram: what it acknowledges it has surfaced.
LEMMA DeliverStep ==
  ASSUME AnsweredInv, NEW m \in net, Deliver(m)
  PROVE  AnsweredInv'
<1>0. SendTypes /\ SeenTypes /\ InformInv(m)
  BY DEF AnsweredInv
<1>1. UNCHANGED <<send, oks>>
  BY DEF Deliver
<1>2. /\ SendTypes' /\ (\A x : InformInv(x)' = InformInv(x))
      /\ \A id : Past(id)' = Past(id) /\ Now(id)' = Now(id) /\ Host(send[id[1]])' = Host(send[id[1]])
                                      /\ Note(send[id[1]])' = Note(send[id[1]])
  BY <1>0, <1>1 DEF SendTypes, InformInv, Past, Now, Written, Host, TargetOf, Note
<1>3. ASSUME NEW h, NEW note, HasSeen(h, note) PROVE HasSeen(h, note)'
  BY <1>0, <1>3, SeenGrows
<1>4. ASSUME NEW a, AckInv(a) PROVE AckInv(a)'
  BY <1>2, <1>3, <1>4 DEF AckInv
<1>5. CASE Surfaced(m) = <<>>
  <2>1. net' = net \ {m} /\ UNCHANGED <<seen, acks>>
    BY <1>5 DEF Deliver
  <2>2. SeenTypes'
    BY <1>0, <2>1 DEF SeenTypes
  <2> QED
    BY <1>1, <1>2, <1>3, <1>4, <2>1, <2>2 DEF AnsweredInv
<1>6. CASE Surfaced(m) # <<>>
  <2>1. PICK x : x = Surfaced(m)[1]
    OBVIOUS
  <2>2. /\ seen' = [seen EXCEPT ![m.to] = Append(@, x)]
        /\ net' = (net \ {m}) \cup Forwarded(m, x)
        /\ acks' = IF m.type = "inform" /\ m.mp = 1 THEN acks \cup {m.id} ELSE acks
    BY <1>6, <2>1 DEF Deliver
  <2>3. SeenTypes'
    <3>1. DOMAIN seen' = Hosts /\ \A g \in Hosts : seen'[g] = IF g = m.to THEN Append(seen[g], x) ELSE seen[g]
      BY <1>0, <2>2 DEF SeenTypes
    <3>2. ASSUME NEW g \in Hosts PROVE IsSeq(seen'[g])
      <4>1. PICK old : old = seen[g] /\ IsSeq(old)
        BY <1>0 DEF SeenTypes
      <4>2. IsSeq(Append(old, x))
        BY <4>1, AppendIsSeq
      <4> QED
        BY <3>1, <4>1, <4>2
    <3> QED
      BY <3>1, <3>2 DEF SeenTypes
  <2>4. \A y \in net' : InformInv(y)'
    <3>1. \A y \in Forwarded(m, x) : y.type = "trap"
      BY DEF Forwarded
    <3>2. \A y \in Forwarded(m, x) : InformInv(y)
      BY <3>1 DEF InformInv
    <3> QED
      BY <1>2, <2>2, <3>2 DEF AnsweredInv
  <2>5. ASSUME m.type = "inform", m.mp = 1 PROVE AckInv(m.id)'
    <3>1. CASE m.id \notin InformIds
      BY <3>1 DEF AckInv
    <3>2. CASE m.id \in InformIds /\ Past(m.id)
      BY <1>2, <3>2 DEF AckInv
    <3>3. CASE m.id \in InformIds /\ Now(m.id) /\ Written(m, send[m.id[1]])
      <4>1. PICK c, id : c = send[m.id[1]] /\ id = m.id /\ id[1] \in Senders
        BY <3>3 DEF InformIds
      <4>2. x = Note(c) /\ m.to = Host(c)
        BY <1>6, <2>1, <2>5, <3>3, <4>1, SurfacedProperties DEF Written
      <4>3. Host(c) \in Hosts
        BY <1>0, <3>3, <4>1 DEF SendTypes, Now
      <4>4. HasSeen(Host(c), Note(c))'
        <5>1. PICK old, h : h = Host(c) /\ old = seen[h] /\ IsSeq(old)
          BY <1>0, <4>3 DEF SeenTypes
        <5>2. seen'[h] = Append(old, x)
          BY <1>0, <2>2, <4>2, <4>3, <5>1 DEF SeenTypes
        <5>3. Len(old) \in Nat /\ Append(old, x)[Len(old) + 1] = x /\ Len(Append(old, x)) = Len(old) + 1
          BY <5>1, AppendElements
        <5>4. DOMAIN seen'[h] = 1..(Len(old) + 1)
          <6>1. PICK new : new = Append(old, x) /\ IsSeq(new)
            BY <5>1, AppendIsSeq
          <6>2. DOMAIN new = 1..Len(new)
            BY <6>1, AppendElements
          <6> QED
            BY <5>2, <5>3, <6>1, <6>2
        <5>5. Len(old) + 1 \in DOMAIN seen'[h] /\ seen'[h][Len(old) + 1] = Note(c)
          BY <4>2, <5>2, <5>3, <5>4
        <5>6. Host(c)' = h /\ Note(c)' = Note(c)
          BY <5>1 DEF Host, TargetOf, Note
        <5> QED
          BY <4>3, <5>1, <5>5, <5>6 DEF HasSeen
      <4>5. Now(id)' /\ Host(send[id[1]])' = Host(c) /\ Note(send[id[1]])' = Note(c)
        BY <1>2, <3>3, <4>1
      <4> QED
        BY <4>1, <4>4, <4>5 DEF AckInv, HasSeen
    <3> QED
      BY <1>0, <2>5, <3>1, <3>2, <3>3 DEF InformInv
  <2> QED
    BY <1>1, <1>2, <1>3, <1>4, <2>2, <2>3, <2>4, <2>5 DEF AnsweredInv
<1> QED
  BY <1>5, <1>6

(* An inform counts as delivered only after its receiver surfaced it, with *)
(* the uptime, identity and bindings that were sent: whatever the network  *)
(* loses or repeats, whoever forwards it, and whatever rows are added to   *)
(* the tables meanwhile (send_to_target, handle_community).                *)
THEOREM OkWasSurfaced == Spec => []InformOkWasSurfaced
<1>1. Init => AnsweredInv
  <2> SUFFICES ASSUME Init PROVE AnsweredInv
    OBVIOUS
  <2>1. /\ send = [s \in Senders |-> NoSend] /\ seen = [h \in Hosts |-> <<>>]
        /\ net = Strays /\ acks = {} /\ oks = {}
    BY DEF Init
  <2>2. DOMAIN NoSend = Fields /\ NoSend.n = 0 /\ NoSend.row = 1 /\ NoSend.pc = "done"
    BY DEF NoSend, Fields
  <2>3. SendTypes
    BY <2>1, <2>2 DEF SendTypes
  <2>4. IsSeq(<<>>)
    BY DEF IsSeq
  <2>5. SeenTypes
    BY <2>1, <2>4 DEF SeenTypes
  <2>6. \A m \in net : InformInv(m)
    BY <2>1, NotifyAssumption DEF InformInv, InformIds
  <2> QED
    BY <2>1, <2>3, <2>5, <2>6 DEF AnsweredInv
<1>2. AnsweredInv /\ [Next]_vars => AnsweredInv'
  <2> SUFFICES ASSUME AnsweredInv, [Next]_vars PROVE AnsweredInv'
    OBVIOUS
  <2>1. ASSUME UNCHANGED <<send, seen, oks>>, net' \subseteq net, acks' \subseteq acks PROVE AnsweredInv'
    <3>1. SendTypes' /\ SeenTypes'
      BY <2>1 DEF AnsweredInv, SendTypes, SeenTypes, Host, TargetOf
    <3>2. /\ \A x : InformInv(x)' = InformInv(x)
          /\ \A x : AckInv(x)' = AckInv(x)
          /\ \A h, note : HasSeen(h, note)' = HasSeen(h, note)
      BY <2>1 DEF InformInv, AckInv, HasSeen, Past, Now, Written, Host, TargetOf, Note
    <3> QED
      BY <2>1, <3>1, <3>2 DEF AnsweredInv
  <2>2. CASE BeginAdd \/ AddNextRow \/ Tick \/ (\E a \in acks : LoseAck(a)) \/ \E m \in net : Lose(m)
    BY <2>1, <2>2 DEF BeginAdd, AddNextRow, Tick, LoseAck, Lose
  <2>3. CASE UNCHANGED vars
    BY <2>1, <2>3 DEF vars
  <2> QED
    BY <2>2, <2>3, QuietStep, FanOutStep, TimeoutStep, AcknowledgedStep, DeliverStep DEF Next, SenderStep
<1>3. AnsweredInv => InformOkWasSurfaced
  BY DEF AnsweredInv, InformOkWasSurfaced, HasSeen
<1> QED
  BY <1>1, <1>2, <1>3, PTL DEF Spec

---------------------------------------------------------------------------
(* The fan-out.  The rows a directive adds have one name, and the notify   *)
(* row comes last; a call copies the notify rows first.  So whatever is    *)
(* added meanwhile, a notify row that was copied has its target and its    *)
(* parameters in the copies made after it.                                 *)

\* What a table was is the beginning of what it is.
Starts(a, b) == Len(a) <= Len(b) /\ \A i \in 1..Len(a) : a[i] = b[i]

Holds(rows, name) == \E j \in DOMAIN rows : rows[j].name = name

Served(ns, rows) == \A i \in DOMAIN ns : Holds(rows, ns[i].name)

OwnName(n) == n.tag = n.name /\ n.params = n.name

OwnNames(ns) == \A i \in DOMAIN ns : OwnName(ns[i])

ThreeTables(t) == DOMAIN t = DOMAIN Empty /\ \A k \in DOMAIN Empty : IsSeq(t[k])

TableInv(t) ==
    /\ ThreeTables(t) /\ OwnNames(t.notifies)
    /\ Served(t.notifies, t.params) /\ Served(t.notifies, t.targets)

\* The rows of one directive.
Together(r) ==
    /\ DOMAIN r = DOMAIN Empty /\ OwnName(r.notifies)
    /\ r.params.name = r.notifies.name /\ r.targets.name = r.notifies.name

AddingInv(a, t) ==
    /\ a.at \in 0..3 /\ DOMAIN a = {"todo", "rows", "at"}
    /\ a.at > 0 => Together(a.rows[1])
    /\ a.at > 1 => Holds(t.params, a.rows[1].notifies.name)
    /\ a.at > 2 => Holds(t.targets, a.rows[1].notifies.name)

\* The rows before the k-th were tried, in order.
TriedUpTo(c, k) ==
    /\ k \in 0..Len(c.copy.notifies) /\ Len(c.tried) = k
    /\ \A i \in 1..k : c.tried[i] = c.copy.notifies[i].name

CallInv(c, t) ==
    /\ DOMAIN c = Fields /\ ThreeTables(c.copy) /\ IsSeq(c.due) /\ IsSeq(c.tried)
    /\ c.pc \in {"done", "notifies", "params", "targets", "fan", "wait"} /\ c.row \in Nat
    /\ c.pc = "notifies" => Starts(c.due, t.notifies)
    /\ c.pc # "notifies" => Starts(c.due, c.copy.notifies) /\ OwnNames(c.copy.notifies)
    /\ c.pc \in {"notifies", "params", "targets"} => c.row = 1 /\ c.tried = <<>>
    /\ c.pc = "params" => Served(c.copy.notifies, t.params)
    /\ c.pc \in {"params", "targets"} => Served(c.copy.notifies, t.targets)
    /\ c.pc \in {"targets", "fan", "wait"} => Served(c.copy.notifies, c.copy.params)
    /\ c.pc \in {"fan", "wait"} => Served(c.copy.notifies, c.copy.targets)
    /\ c.pc = "fan" => TriedUpTo(c, c.row - 1)
    /\ c.pc = "wait" => TriedUpTo(c, c.row)
    /\ c.pc = "done" => TriedUpTo(c, Len(c.copy.notifies))

FanInv ==
    /\ TableInv(table) /\ AddingInv(adding, table)
    /\ DOMAIN send = Senders /\ \A s \in Senders : CallInv(send[s], table)

\* Sequences have the indices of their lengths.
LEMMA SeqDomain ==
  ASSUME NEW s, IsSeq(s)
  PROVE  Len(s) \in Nat /\ DOMAIN s = 1..Len(s)
<1>1. PICK S : s \in Seq(S)
  BY DEF IsSeq
<1> QED
  BY <1>1

\* A row more.
LEMMA RowMore ==
  ASSUME NEW s, NEW x, IsSeq(s)
  PROVE  /\ IsSeq(Append(s, x)) /\ DOMAIN Append(s, x) = 1..(Len(s) + 1)
         /\ Starts(s, Append(s, x)) /\ Holds(Append(s, x), x.name)
<1>1. PICK u : u = Append(s, x)
  OBVIOUS
<1>2. IsSeq(u)
  BY <1>1, AppendIsSeq
<1>3. /\ Len(s) \in Nat /\ Len(u) = Len(s) + 1 /\ DOMAIN s = 1..Len(s)
      /\ \A i \in 1..Len(s) : u[i] = s[i]
      /\ u[Len(s) + 1] = x
  BY <1>1, AppendElements
<1>4. DOMAIN u = 1..(Len(s) + 1)
  BY <1>2, <1>3, SeqDomain
<1>5. Starts(s, u)
  BY <1>3 DEF Starts
<1>6. Holds(u, x.name)
  <2>1. Len(s) + 1 \in DOMAIN u
    BY <1>3, <1>4
  <2> QED
    BY <1>3, <2>1 DEF Holds
<1> QED
  BY <1>1, <1>2, <1>4, <1>5, <1>6

\* What a table holds it goes on holding.
LEMMA HoldsOn ==
  ASSUME NEW a, NEW b, IsSeq(a), IsSeq(b), Starts(a, b), NEW x, Holds(a, x)
  PROVE  Holds(b, x)
<1>1. Len(a) \in Nat /\ Len(b) \in Nat /\ DOMAIN a = 1..Len(a) /\ DOMAIN b = 1..Len(b)
  BY SeqDomain
<1>2. PICK j \in 1..Len(a) : a[j].name = x
  BY <1>1 DEF Holds
<1>3. j \in 1..Len(b) /\ b[j] = a[j]
  BY <1>1, <1>2 DEF Starts
<1> QED
  BY <1>1, <1>2, <1>3 DEF Holds

\* So it goes on serving the notify rows it served.
LEMMA ServesOn ==
  ASSUME NEW a, NEW b, IsSeq(a), IsSeq(b), Starts(a, b), NEW ns, Served(ns, a)
  PROVE  Served(ns, b)
BY HoldsOn DEF Served

\* Tables only grow.
Grows(t, u) == \A k \in DOMAIN Empty : Starts(t[k], u[k])

\* The beginning of the beginning.
LEMMA StartsOn ==
  ASSUME NEW a, NEW b, NEW c, IsSeq(a), IsSeq(b), IsSeq(c), Starts(a, b), Starts(b, c)
  PROVE  Starts(a, c)
<1>1. Len(a) \in Nat /\ Len(b) \in Nat /\ Len(c) \in Nat
  BY SeqDomain
<1>2. \A i \in 1..Len(a) : i \in 1..Len(b)
  BY <1>1 DEF Starts
<1> QED
  BY <1>1, <1>2 DEF Starts

\* The tables by name.
LEMMA TableNames ==
  /\ DOMAIN Empty = {"params", "targets", "notifies"}
  /\ Empty.params = <<>> /\ Empty.targets = <<>> /\ Empty.notifies = <<>>
BY DEF Empty

\* A call does not notice.
LEMMA CallGrows ==
  ASSUME NEW t, NEW u, ThreeTables(t), ThreeTables(u), Grows(t, u), NEW c, CallInv(c, t)
  PROVE  CallInv(c, u)
<1>1. /\ IsSeq(t.params) /\ IsSeq(t.targets) /\ IsSeq(t.notifies)
      /\ IsSeq(u.params) /\ IsSeq(u.targets) /\ IsSeq(u.notifies)
      /\ Starts(t.params, u.params) /\ Starts(t.targets, u.targets) /\ Starts(t.notifies, u.notifies)
  BY TableNames DEF ThreeTables, Grows
<1>2. c.pc = "notifies" => Starts(c.due, u.notifies)
  <2>1. ASSUME c.pc = "notifies" PROVE Starts(c.due, u.notifies)
    <3>1. IsSeq(c.due) /\ Starts(c.due, t.notifies)
      BY <2>1 DEF CallInv
    <3> QED
      BY <1>1, <3>1, StartsOn
  <2> QED
    BY <2>1
<1>3. c.pc = "params" => Served(c.copy.notifies, u.params)
  <2>1. ASSUME c.pc = "params" PROVE Served(c.copy.notifies, u.params)
    <3>1. Served(c.copy.notifies, t.params)
      BY <2>1 DEF CallInv
    <3> QED
      BY <1>1, <3>1, ServesOn
  <2> QED
    BY <2>1
<1>4. c.pc \in {"params", "targets"} => Served(c.copy.notifies, u.targets)
  <2>1. ASSUME c.pc \in {"params", "targets"} PROVE Served(c.copy.notifies, u.targets)
    <3>1. Served(c.copy.notifies, t.targets)
      BY <2>1 DEF CallInv
    <3> QED
      BY <1>1, <3>1, ServesOn
  <2> QED
    BY <2>1
<1> QED
  BY <1>2, <1>3, <1>4 DEF CallInv

\* The rows of a directive go together.
LEMMA RowsTogether ==
  ASSUME NEW d, NEW t
  PROVE  Together(Rows(d, t))
BY TableNames DEF Together, Rows, OwnName

\* One directive of the configuration file.
LEMMA ApplyKeeps ==
  ASSUME NEW t, TableInv(t), NEW d
  PROVE  TableInv(ApplyDirective(t, d))
<1>1. CASE ~Accepted(d)
  BY <1>1 DEF ApplyDirective
<1>2. CASE Accepted(d)
  <2>1. PICK r : r = Rows(d, t) /\ Together(r)
    BY RowsTogether
  <2>2. PICK u : u = ApplyDirective(t, d)
    OBVIOUS
  <2>3. /\ DOMAIN u = DOMAIN Empty /\ u.params = Append(t.params, r.params)
        /\ u.targets = Append(t.targets, r.targets) /\ u.notifies = Append(t.notifies, r.notifies)
    BY <1>2, <2>1, <2>2, TableNames DEF ApplyDirective, TableInv, ThreeTables
  <2>4. IsSeq(t.params) /\ IsSeq(t.targets) /\ IsSeq(t.notifies)
    BY TableNames DEF TableInv, ThreeTables
  <2>5. PICK a, b, c, x, y, z : /\ a = t.params /\ b = t.targets /\ c = t.notifies
                                /\ x = r.params /\ y = r.targets /\ z = r.notifies
    OBVIOUS
  <2>6. /\ IsSeq(Append(a, x)) /\ Starts(a, Append(a, x)) /\ Holds(Append(a, x), x.name)
        /\ IsSeq(Append(b, y)) /\ Starts(b, Append(b, y)) /\ Holds(Append(b, y), y.name)
        /\ IsSeq(Append(c, z)) /\ DOMAIN Append(c, z) = 1..(Len(c) + 1)
    BY <2>4, <2>5, RowMore
  <2>7. \A i \in 1..(Len(c) + 1) : \/ i \in DOMAIN c /\ Append(c, z)[i] = c[i]
                                   \/ Append(c, z)[i] = z
    <3>1. /\ Len(c) \in Nat /\ DOMAIN c = 1..Len(c)
          /\ \A i \in 1..Len(c) : Append(c, z)[i] = c[i]
          /\ Append(c, z)[Len(c) + 1] = z
      BY <2>4, <2>5, AppendElements
    <3> QED
      BY <3>1
  <2>8. OwnNames(u.notifies)
    BY <2>1, <2>3, <2>5, <2>6, <2>7 DEF OwnNames, TableInv, Together
  <2>9. Served(u.notifies, u.params)
    <3>1. Served(c, Append(a, x))
      BY <2>4, <2>5, <2>6, ServesOn DEF TableInv
    <3> QED
      BY <2>1, <2>3, <2>5, <2>6, <2>7, <3>1 DEF Served, Together
  <2>10. Served(u.notifies, u.targets)
    <3>1. Served(c, Append(b, y))
      BY <2>4, <2>5, <2>6, ServesOn DEF TableInv
    <3> QED
      BY <2>1, <2>3, <2>5, <2>6, <2>7, <3>1 DEF Served, Together
  <2>11. ThreeTables(u)
    BY <2>3, <2>5, <2>6, TableNames DEF ThreeTables
  <2> QED
    BY <2>2, <2>8, <2>9, <2>10, <2>11 DEF TableInv
<1> QED
  BY <1>1, <1>2

\* Induction up to n, over a set of numbers in place of a predicate.
LEMMA UpTo ==
  ASSUME NEW n \in Nat, NEW S, 0 \in S, \A m \in 0..(n - 1) : m \in S => m + 1 \in S
  PROVE  \A m \in 0..n : m \in S
<1> DEFINE Bad == {m \in 0..n : m \notin S}
<1>1. ASSUME Bad # {} PROVE FALSE
  <2>1. PICK R : R = {r \in Nat \X Nat : r[1] < r[2]}
    OBVIOUS
  <2>2. IsWellFoundedOn(R, Nat)
    <3>1. R = OpToRel(<, Nat)
      BY <2>1 DEF OpToRel
    <3> QED
      BY <3>1, NatLessThanWellFounded
  <2>3. PICK m \in Bad : \A k \in Bad : ~(<<k, m>> \in R)
    <3>1. Bad \subseteq Nat
      OBVIOUS
    <3> HIDE DEF Bad
    <3> QED
      BY <1>1, <2>2, <3>1, WFMin
  <2>4. m - 1 \in 0..(n - 1) /\ (m - 1) + 1 = m
    BY <2>3
  <2>5. m - 1 \notin Bad
    <3>1. <<m - 1, m>> \in R
      BY <2>1, <2>3, <2>4
    <3> QED
      BY <2>3, <3>1
  <2> QED
    BY <2>3, <2>4, <2>5
<1> QED
  BY <1>1

\* The function inside FoldLeft, on sets of the first n directives.
Folds(g, ds, n) ==
    g = [s \in SUBSET (1..n) |-> IF s = {} THEN Empty
                                 ELSE ApplyDirective(g[s \ {Max(s)}], ds[Max(s)])]

\* The last of some directives.
LEMMA LastDirective ==
  ASSUME NEW n \in Nat, NEW s \in SUBSET (1..n)
  PROVE  n + 1 \notin s /\ Max(s \cup {n + 1}) = n + 1
<1>1. PICK T : T = s \cup {n + 1}
  OBVIOUS
<1>2. n + 1 \notin s /\ n + 1 \in T /\ \A y \in T : y \in Nat /\ n + 1 >= y
  BY <1>1
<1>3. Max(T) \in T /\ \A y \in T : Max(T) >= y
  BY <1>2 DEF Max
<1>4. PICK x : x = Max(T)
  OBVIOUS
<1>5. x \in Nat /\ n + 1 >= x /\ x >= n + 1
  BY <1>2, <1>3, <1>4
<1>6. x = n + 1
  BY <1>5
<1> QED
  BY <1>1, <1>2, <1>4, <1>6

\* There is such a function, and what it returns keeps the tables in order.
LEMMA FoldExists ==
  ASSUME NEW n \in Nat, NEW ds
  PROVE  \E g : Folds(g, ds, n)
<1> DEFINE S == {m \in 0..n : \E g : Folds(g, ds, m)}
<1>1. 0 \in S
  <2>1. PICK g : g = [s \in SUBSET (1..0) |-> Empty]
    OBVIOUS
  <2>2. \A s \in SUBSET (1..0) : s = {}
    OBVIOUS
  <2>3. Folds(g, ds, 0)
    BY <2>1, <2>2 DEF Folds
  <2> QED
    BY <2>3
<1>2. ASSUME NEW m \in 0..(n - 1), m \in S PROVE m + 1 \in S
  <2>1. PICK g : Folds(g, ds, m)
    BY <1>2
  <2>2. PICK f : f = [s \in SUBSET (1..(m + 1)) |->
                        IF m + 1 \in s THEN ApplyDirective(g[s \ {m + 1}], ds[m + 1]) ELSE g[s]]
    OBVIOUS
  <2>3. ASSUME NEW s \in SUBSET (1..(m + 1))
        PROVE  f[s] = IF s = {} THEN Empty ELSE ApplyDirective(f[s \ {Max(s)}], ds[Max(s)])
    <3>1. CASE m + 1 \in s
      <4>1. PICK t : t = s \ {m + 1}
        OBVIOUS
      <4>2. t \in SUBSET (1..m) /\ t \in SUBSET (1..(m + 1)) /\ s = t \cup {m + 1} /\ m + 1 \notin t
        BY <3>1, <4>1
      <4>3. Max(s) = m + 1
        BY <4>2, LastDirective
      <4>4. f[t] = g[t]
        BY <2>2, <4>2
      <4>5. f[s] = ApplyDirective(g[t], ds[m + 1])
        BY <2>2, <3>1, <4>1
      <4> QED
        BY <3>1, <4>1, <4>3, <4>4, <4>5
    <3>2. CASE m + 1 \notin s
      <4>1. s \in SUBSET (1..m)
        BY <3>2
      <4>2. f[s] = g[s]
        BY <2>2, <3>2
      <4>3. g[s] = IF s = {} THEN Empty ELSE ApplyDirective(g[s \ {Max(s)}], ds[Max(s)])
        BY <2>1, <4>1 DEF Folds
      <4>4. f[s \ {Max(s)}] = g[s \ {Max(s)}]
        <5>1. PICK t : t = s \ {Max(s)}
          OBVIOUS
        <5>2. t \in SUBSET (1..(m + 1)) /\ m + 1 \notin t
          BY <3>2, <5>1
        <5>3. f[t] = g[t]
          BY <2>2, <5>2
        <5> QED
          BY <5>1, <5>3
      <4> QED
        BY <4>2, <4>3, <4>4
    <3> QED
      BY <3>1, <3>2
  <2>4. Folds(f, ds, m + 1)
    BY <2>2, <2>3 DEF Folds
  <2> QED
    BY <2>4
<1>3. \A m \in 0..n : m \in S
  <2> HIDE DEF S
  <2> QED
    BY <1>1, <1>2, UpTo
<1> QED
  BY <1>3

\* The configuration file leaves complete rows.
LEMMA ConfigKeeps == TableInv(from_config_directives(Config))
<1>1. PICK n \in Nat : DOMAIN Config = 1..n
  BY NotifyAssumption
<1>2. PICK g : g = CHOOSE f : Folds(f, Config, n)
  OBVIOUS
<1>3. Folds(g, Config, n)
  BY <1>2, FoldExists
<1>4. from_config_directives(Config) = g[1..n]
  <2>1. from_config_directives(Config) = (CHOOSE f : f = [s \in SUBSET DOMAIN Config |->
                       IF s = {} THEN Empty
                       ELSE ApplyDirective(f[s \ {Max(s)}], Config[Max(s)])])[DOMAIN Config]
    BY DEF from_config_directives, FoldLeft, MapThenFoldSet
  <2> QED
    BY <1>1, <1>2, <2>1 DEF Folds
<1> DEFINE S == {m \in 0..n : TableInv(g[1..m])}
<1>5. 0 \in S
  <2>1. 1..0 = {} /\ {} \in SUBSET (1..n)
    OBVIOUS
  <2>2. g[{}] = Empty
    BY <1>3, <2>1 DEF Folds
  <2>3. IsSeq(<<>>) /\ DOMAIN <<>> = {}
    BY DEF IsSeq
  <2>4. TableInv(Empty)
    BY <2>3, TableNames DEF TableInv, ThreeTables, OwnNames, Served
  <2> QED
    BY <2>1, <2>2, <2>4
<1>6. ASSUME NEW m \in 0..(n - 1), m \in S PROVE m + 1 \in S
  <2>1. /\ 1..(m + 1) \in SUBSET (1..n) /\ 1..(m + 1) # {}
        /\ 1..(m + 1) = (1..m) \cup {m + 1} /\ m + 1 \notin 1..m /\ m + 1 \in 0..n
    <3>1. m \in Nat /\ m + 1 <= n
      OBVIOUS
    <3>2. 1..(m + 1) = (1..m) \cup {m + 1}
      BY <3>1
    <3> QED
      BY <3>1, <3>2
  <2>2. Max(1..(m + 1)) = m + 1
    <3>1. m \in Nat /\ 1..m \in SUBSET (1..m)
      OBVIOUS
    <3> QED
      BY <2>1, <3>1, LastDirective
  <2>3. (1..(m + 1)) \ {m + 1} = 1..m
    BY <2>1
  <2>4. g[1..(m + 1)] = ApplyDirective(g[1..m], Config[m + 1])
    BY <1>3, <2>1, <2>2, <2>3 DEF Folds
  <2>5. TableInv(ApplyDirective(g[1..m], Config[m + 1]))
    BY <1>6, ApplyKeeps
  <2> QED
    BY <2>1, <2>4, <2>5
<1>7. \A m \in 0..n : m \in S
  <2> HIDE DEF S
  <2> QED
    BY <1>5, <1>6, UpTo
<1>8. n \in S
  BY <1>7
<1> QED
  BY <1>4, <1>8

\* A row of a directive is added while the agent runs.
LEMMA AddNextRowKeeps ==
  ASSUME TableInv(table), AddingInv(adding, table), AddNextRow
  PROVE  TableInv(table)' /\ AddingInv(adding, table)' /\ Grows(table, table')
<1>1. PICK t, r, at, k : t = table /\ r = adding.rows[1] /\ at = adding.at /\ k = RowOrder[at]
  OBVIOUS
<1>2. at \in 1..3 /\ Together(r) /\ DOMAIN adding = {"todo", "rows", "at"}
  BY <1>1 DEF AddingInv, AddNextRow
<1>3. PICK u : u = table' /\ u = [t EXCEPT ![k] = Append(@, r[k])]
  BY <1>1 DEF AddNextRow, AddRow
<1>4. k = (IF at = 1 THEN "params" ELSE IF at = 2 THEN "targets" ELSE "notifies") /\ k \in DOMAIN Empty
  BY <1>1, <1>2, TableNames DEF RowOrder
<1>5. TableInv(t) /\ DOMAIN t = DOMAIN Empty /\ \A j \in DOMAIN Empty : IsSeq(t[j])
  BY <1>1 DEF TableInv, ThreeTables
<1>6. PICK a, x : a = t[k] /\ x = r[k] /\ IsSeq(a)
  BY <1>4, <1>5
<1>7. DOMAIN u = DOMAIN Empty /\ u[k] = Append(a, x) /\ \A j \in DOMAIN Empty : j # k => u[j] = t[j]
  BY <1>3, <1>4, <1>5, <1>6
<1>8. IsSeq(Append(a, x)) /\ Starts(a, Append(a, x)) /\ Holds(Append(a, x), x.name)
  BY <1>6, RowMore
<1>9. ThreeTables(u)
  BY <1>5, <1>7, <1>8 DEF ThreeTables
<1>10. Grows(t, u)
  <2>1. ASSUME NEW j \in DOMAIN Empty, j # k PROVE Starts(t[j], u[j])
    <3>1. u[j] = t[j] /\ Len(t[j]) \in Nat
      BY <1>5, <1>7, <2>1, SeqDomain
    <3> QED
      BY <3>1 DEF Starts
  <2>2. Starts(t[k], u[k])
    BY <1>6, <1>7, <1>8
  <2> QED
    BY <2>1, <2>2 DEF Grows
<1>11. /\ IsSeq(t.params) /\ IsSeq(t.targets) /\ IsSeq(t.notifies)
       /\ IsSeq(u.params) /\ IsSeq(u.targets) /\ IsSeq(u.notifies)
       /\ Starts(t.params, u.params) /\ Starts(t.targets, u.targets) /\ Starts(t.notifies, u.notifies)
  BY <1>5, <1>9, <1>10, TableNames DEF ThreeTables, Grows
<1>12. Served(t.notifies, u.params) /\ Served(t.notifies, u.targets)
  <2>1. Served(t.notifies, t.params) /\ Served(t.notifies, t.targets)
    BY <1>5 DEF TableInv
  <2>2. Served(t.notifies, u.params)
    BY <1>11, <2>1, ServesOn
  <2>3. Served(t.notifies, u.targets)
    BY <1>11, <2>1, ServesOn
  <2> QED
    BY <2>2, <2>3
<1>13. at > 1 => Holds(u.params, r.notifies.name)
  <2>1. ASSUME at > 1 PROVE Holds(u.params, r.notifies.name)
    <3>1. Holds(t.params, r.notifies.name)
      BY <1>1, <2>1 DEF AddingInv
    <3> QED
      BY <1>11, <3>1, HoldsOn
  <2> QED
    BY <2>1
<1>14. at > 2 => Holds(u.targets, r.notifies.name)
  <2>1. ASSUME at > 2 PROVE Holds(u.targets, r.notifies.name)
    <3>1. Holds(t.targets, r.notifies.name)
      BY <1>1, <2>1 DEF AddingInv
    <3> QED
      BY <1>11, <3>1, HoldsOn
  <2> QED
    BY <2>1
<1>15. TableInv(u)
  <2>1. CASE at # 3
    <3>1. u.notifies = t.notifies
      BY <1>2, <1>4, <1>7, <2>1, TableNames
    <3> QED
      BY <1>5, <1>9, <1>12, <3>1 DEF TableInv
  <2>2. CASE at = 3
    <3>1. k = "notifies" /\ u.notifies = Append(a, x) /\ a = t.notifies /\ x = r.notifies
      BY <1>4, <1>6, <1>7, <2>2
    <3>2. DOMAIN Append(a, x) = 1..(Len(a) + 1)
      BY <1>6, RowMore
    <3>3. \A i \in 1..(Len(a) + 1) : \/ i \in DOMAIN a /\ Append(a, x)[i] = a[i]
                                     \/ Append(a, x)[i] = x
      <4>1. /\ Len(a) \in Nat /\ DOMAIN a = 1..Len(a)
            /\ \A i \in 1..Len(a) : Append(a, x)[i] = a[i]
            /\ Append(a, x)[Len(a) + 1] = x
        BY <1>6, AppendElements
      <4> QED
        BY <4>1
    <3>4. OwnNames(u.notifies)
      BY <1>2, <1>5, <3>1, <3>2, <3>3 DEF OwnNames, TableInv, Together
    <3>5. Served(u.notifies, u.params)
      BY <1>12, <1>13, <2>2, <3>1, <3>2, <3>3 DEF Served
    <3>6. Served(u.notifies, u.targets)
      BY <1>12, <1>14, <2>2, <3>1, <3>2, <3>3 DEF Served
    <3> QED
      BY <1>9, <3>4, <3>5, <3>6 DEF TableInv
  <2> QED
    BY <2>1, <2>2
<1>16. AddingInv(adding', u)
  <2>1. CASE at < 3
    <3>1. adding' = [adding EXCEPT !.at = @ + 1]
      BY <1>1, <2>1 DEF AddNextRow, RowOrder
    <3>2. adding'.at = at + 1 /\ adding'.rows = adding.rows /\ DOMAIN adding' = {"todo", "rows", "at"}
      BY <1>1, <1>2, <3>1
    <3>3. adding'.rows[1] = r /\ at + 1 \in 0..3
      BY <1>1, <1>2, <2>1, <3>2
    <3>4. Holds(u.params, r.notifies.name)
      <4>1. CASE at = 1
        BY <1>2, <1>4, <1>6, <1>7, <1>8, <4>1 DEF Together
      <4>2. CASE at # 1
        BY <1>2, <1>13, <4>2
      <4> QED
        BY <4>1, <4>2
    <3>5. at + 1 > 2 => Holds(u.targets, r.notifies.name)
      <4>1. ASSUME at + 1 > 2 PROVE at = 2
        BY <1>2, <2>1, <4>1
      <4>2. ASSUME at = 2 PROVE Holds(u.targets, r.notifies.name)
        <5>1. k = "targets"
          BY <1>4, <4>2
        <5>2. u.targets = Append(a, x) /\ x = r.targets
          BY <1>6, <1>7, <5>1
        <5>3. x.name = r.notifies.name
          BY <1>2, <5>2 DEF Together
        <5> QED
          BY <1>8, <5>2, <5>3
      <4> QED
        BY <4>1, <4>2
    <3> QED
      BY <1>2, <3>2, <3>3, <3>4, <3>5 DEF AddingInv
  <2>2. CASE ~(at < 3)
    <3>1. adding' = [adding EXCEPT !.at = 0, !.rows = <<>>]
      BY <1>1, <2>2 DEF AddNextRow, RowOrder
    <3>2. adding'.at = 0 /\ DOMAIN adding' = {"todo", "rows", "at"}
      BY <1>2, <3>1
    <3> QED
      BY <3>2 DEF AddingInv
  <2> QED
    BY <2>1, <2>2
<1> QED
  BY <1>1, <1>3, <1>10, <1>15, <1>16

\* The rows of the next directive are made up.
LEMMA BeginAddKeeps ==
  ASSUME AddingInv(adding, table), BeginAdd
  PROVE  AddingInv(adding, table)'
<1>1. PICK d : d = Head(adding.todo)
  OBVIOUS
<1>2. table' = table
  BY DEF BeginAdd
<1>3. CASE Accepted(d)
  <2>1. PICK r : r = Rows(d, table) /\ Together(r)
    BY RowsTogether
  <2>2. adding' = [todo |-> Tail(adding.todo), rows |-> <<r>>, at |-> 1]
    BY <1>1, <1>3, <2>1 DEF BeginAdd
  <2>3. adding'.at = 1 /\ adding'.rows[1] = r /\ DOMAIN adding' = {"todo", "rows", "at"}
    BY <2>2
  <2> QED
    BY <2>1, <2>3 DEF AddingInv
<1>4. CASE ~Accepted(d)
  <2>1. adding' = [adding EXCEPT !.todo = Tail(@)] /\ adding.at = 0
    BY <1>1, <1>4 DEF BeginAdd
  <2>2. adding'.at = 0 /\ DOMAIN adding' = {"todo", "rows", "at"}
    BY <2>1 DEF AddingInv
  <2> QED
    BY <2>2 DEF AddingInv
<1> QED
  BY <1>3, <1>4

\* One call goes on and the others do not notice.
LEMMA OneCall ==
  ASSUME FanInv, NEW s \in Senders, NEW d, send' = [send EXCEPT ![s] = d], CallInv(d, table),
         UNCHANGED <<table, adding>>
  PROVE  FanInv'
<1>1. DOMAIN send' = Senders /\ send'[s] = d /\ \A u \in Senders \ {s} : send'[u] = send[u]
  BY DEF FanInv
<1>2. ASSUME NEW u \in Senders PROVE CallInv(send'[u], table)
  BY <1>1 DEF FanInv
<1> QED
  BY <1>1, <1>2 DEF FanInv

\* The call begins.
LEMMA StartFan ==
  ASSUME FanInv, NEW s \in Senders, NEW trap \in Traps, Start(s, trap)
  PROVE  FanInv'
<1>1. TableInv(table) /\ UNCHANGED <<table, adding>>
  BY DEF FanInv, Start
<1>2. PICK d : d = [NoSend EXCEPT !.pc = IF table.targets = <<>> THEN "done" ELSE "notifies",
                                  !.n = send[s].n + 1, !.trap = trap, !.uptime = clock,
                                  !.due = table.notifies]
  OBVIOUS
<1>3. send' = [send EXCEPT ![s] = d]
  BY <1>2 DEF Start
<1>4. /\ DOMAIN d = Fields /\ d.copy = Empty /\ d.row = 1 /\ d.tried = <<>> /\ d.due = table.notifies
      /\ d.pc = IF table.targets = <<>> THEN "done" ELSE "notifies"
  BY <1>2 DEF NoSend, Fields
<1>5. IsSeq(<<>>) /\ Len(<<>>) = 0 /\ DOMAIN <<>> = {}
  BY DEF IsSeq
<1>6. ThreeTables(Empty) /\ OwnNames(Empty.notifies)
  BY <1>5, TableNames DEF ThreeTables, OwnNames
<1>7. IsSeq(table.notifies) /\ Len(table.notifies) \in Nat /\ DOMAIN table.notifies = 1..Len(table.notifies)
  BY <1>1, TableNames, SeqDomain DEF TableInv, ThreeTables
<1>8. CallInv(d, table)
  <2>1. CASE table.targets # <<>>
    <3>1. Starts(table.notifies, table.notifies)
      BY <1>7 DEF Starts
    <3>2. d.pc = "notifies"
      BY <1>4, <2>1
    <3> QED
      BY <1>4, <1>5, <1>6, <1>7, <3>1, <3>2 DEF CallInv
  <2>2. CASE table.targets = <<>>
    <3>1. Len(table.notifies) = 0
      <4>1. ASSUME Len(table.notifies) # 0 PROVE FALSE
        <5>1. 1 \in DOMAIN table.notifies
          BY <1>7, <4>1
        <5>2. Holds(table.targets, table.notifies[1].name)
          BY <1>1, <5>1 DEF TableInv, Served
        <5> QED
          BY <1>5, <2>2, <5>2 DEF Holds
      <4> QED
        BY <4>1
    <3>2. Starts(table.notifies, <<>>)
      BY <1>5, <3>1 DEF Starts
    <3>3. TriedUpTo(d, 0)
      BY <1>4, <1>5, TableNames DEF TriedUpTo
    <3>4. d.pc = "done"
      BY <1>4, <2>2
    <3> QED
      BY <1>4, <1>5, <1>6, <1>7, <3>2, <3>3, <3>4, TableNames DEF CallInv
  <2> QED
    BY <2>1, <2>2
<1> QED
  BY <1>1, <1>3, <1>8, OneCall

\* A table is copied.
LEMMA CopyFan ==
  ASSUME FanInv, NEW s \in Senders, CopyTable(s)
  PROVE  FanInv'
<1>1. PICK c, t, pc : c = send[s] /\ t = table /\ pc = c.pc
  OBVIOUS
<1>2. /\ UNCHANGED <<table, adding>> /\ TableInv(t) /\ CallInv(c, t)
      /\ DOMAIN c = Fields /\ DOMAIN c.copy = DOMAIN Empty /\ DOMAIN send = Senders
  BY <1>1 DEF FanInv, CopyTable, CallInv, ThreeTables
<1>3. pc \in {"notifies", "params", "targets"}
  BY <1>1 DEF CopyTable, AfterCopy
<1>4. PICK next, copy : next = AfterCopy[pc] /\ copy = [c.copy EXCEPT ![pc] = t[pc]]
  OBVIOUS
<1>5. PICK d : d = [c EXCEPT !.copy = copy, !.pc = next]
  OBVIOUS
<1>6. send' = [send EXCEPT ![s] = d]
  BY <1>1, <1>2, <1>4, <1>5 DEF CopyTable
<1>7. /\ DOMAIN d = Fields /\ d.copy = copy /\ d.pc = next /\ d.row = c.row /\ d.due = c.due
      /\ d.tried = c.tried
  BY <1>2, <1>5 DEF Fields
<1>8. DOMAIN copy = DOMAIN Empty /\ copy[pc] = t[pc] /\ \A k \in DOMAIN Empty : k # pc => copy[k] = c.copy[k]
  BY <1>2, <1>3, <1>4, TableNames
<1>9. ThreeTables(copy)
  BY <1>2, <1>8 DEF ThreeTables, CallInv, TableInv
<1>10. IsSeq(d.due) /\ IsSeq(d.tried) /\ d.row \in Nat /\ d.row = 1 /\ d.tried = <<>>
  BY <1>1, <1>2, <1>3, <1>7 DEF CallInv
<1>11. CASE pc = "notifies"
  <2>1. next = "params" /\ copy.notifies = t.notifies
    BY <1>4, <1>8, <1>11 DEF AfterCopy
  <2>2. Starts(d.due, copy.notifies) /\ OwnNames(copy.notifies)
    BY <1>1, <1>2, <1>7, <1>11, <2>1 DEF CallInv, TableInv
  <2>3. Served(copy.notifies, t.params) /\ Served(copy.notifies, t.targets)
    BY <1>2, <2>1 DEF TableInv
  <2>4. CallInv(d, t)
    BY <1>7, <1>9, <1>10, <2>1, <2>2, <2>3 DEF CallInv
  <2> QED
    BY <1>1, <1>2, <1>6, <2>4, OneCall
<1>12. CASE pc = "params"
  <2>1. next = "targets" /\ copy.params = t.params /\ copy.notifies = c.copy.notifies
    BY <1>4, <1>8, <1>12, TableNames DEF AfterCopy
  <2>2. /\ Starts(d.due, copy.notifies) /\ OwnNames(copy.notifies)
        /\ Served(copy.notifies, copy.params) /\ Served(copy.notifies, t.targets)
    BY <1>1, <1>2, <1>7, <1>12, <2>1 DEF CallInv
  <2>3. CallInv(d, t)
    BY <1>7, <1>9, <1>10, <2>1, <2>2 DEF CallInv
  <2> QED
    BY <1>1, <1>2, <1>6, <2>3, OneCall
<1>13. CASE pc = "targets"
  <2>1. /\ next = "fan" /\ copy.targets = t.targets
        /\ copy.notifies = c.copy.notifies /\ copy.params = c.copy.params
    BY <1>4, <1>8, <1>13, TableNames DEF AfterCopy
  <2>2. /\ Starts(d.due, copy.notifies) /\ OwnNames(copy.notifies)
        /\ Served(copy.notifies, copy.params) /\ Served(copy.notifies, copy.targets)
    BY <1>1, <1>2, <1>7, <1>13, <2>1 DEF CallInv
  <2>3. Len(copy.notifies) \in Nat
    BY <1>9, TableNames, SeqDomain DEF ThreeTables
  <2>4. TriedUpTo(d, 0)
    BY <1>7, <1>10, <2>3 DEF TriedUpTo
  <2>5. d.row - 1 = 0
    BY <1>10
  <2>6. CallInv(d, t)
    BY <1>7, <1>9, <1>10, <2>1, <2>2, <2>4, <2>5 DEF CallInv
  <2> QED
    BY <1>1, <1>2, <1>6, <2>6, OneCall
<1> QED
  BY <1>3, <1>11, <1>12, <1>13

\* A notify row that was copied has its target and its parameters.
LEMMA RowComplete ==
  ASSUME NEW c, NEW t, CallInv(c, t), c.pc \in {"fan", "wait"}, c.row \in DOMAIN c.copy.notifies
  PROVE  /\ TargetOf(c.copy, c.copy.notifies[c.row]) # <<>>
         /\ ParamsOf(c.copy, c.copy.notifies[c.row]) # <<>>
<1>1. PICK n : n = c.copy.notifies[c.row]
  OBVIOUS
<1>2. n.tag = n.name /\ n.params = n.name /\ Holds(c.copy.targets, n.name) /\ Holds(c.copy.params, n.name)
  BY <1>1 DEF CallInv, OwnNames, OwnName, Served
<1>3. ASSUME NEW rows, Holds(rows, n.name) PROVE Named(rows, n.name) # <<>>
  <2>1. {i \in DOMAIN rows : rows[i].name = n.name} # {}
    BY <1>3 DEF Holds
  <2> QED
    BY <2>1 DEF Named
<1> QED
  BY <1>1, <1>2, <1>3 DEF TargetOf, ParamsOf

\* The row after the one that was waited for.
LEMMA NextFan ==
  ASSUME NEW c, NEW t, CallInv(c, t), c.pc = "wait"
  PROVE  CallInv(NextRow(c), t)
<1>1. PICK d : d = NextRow(c)
  OBVIOUS
<1>2. DOMAIN c = Fields /\ c.row \in Nat
  BY DEF CallInv
<1>3. /\ DOMAIN d = Fields /\ d.pc = "fan" /\ d.row = c.row + 1 /\ d.copy = c.copy /\ d.due = c.due
      /\ d.tried = c.tried
  BY <1>1, <1>2 DEF NextRow, Fields
<1>4. TriedUpTo(d, c.row)
  BY <1>3 DEF CallInv, TriedUpTo
<1>5. d.row - 1 = c.row /\ d.row \in Nat
  BY <1>2, <1>3
<1>6. CallInv(d, t)
  BY <1>3, <1>4, <1>5 DEF CallInv
<1> QED
  BY <1>1, <1>6

\* The row at which the loop is was tried.
LEMMA TriedOne ==
  ASSUME NEW c, NEW t, CallInv(c, t), c.pc = "fan", c.row <= Len(c.copy.notifies),
         NEW d, d = [c EXCEPT !.tried = Append(@, c.copy.notifies[c.row].name), !.pc = "wait"]
  PROVE  CallInv(d, t)
<1>1. DOMAIN c = Fields /\ c.row \in Nat /\ IsSeq(c.tried) /\ TriedUpTo(c, c.row - 1)
  BY DEF CallInv
<1>2. PICK n, x, k : n = c.copy.notifies /\ x = n[c.row].name /\ k = c.row
  OBVIOUS
<1>3. /\ DOMAIN d = Fields /\ d.pc = "wait" /\ d.row = k /\ d.copy = c.copy /\ d.due = c.due
      /\ d.tried = Append(c.tried, x)
  BY <1>1, <1>2 DEF Fields
<1>4. Len(n) \in Nat /\ k \in 1..Len(n) /\ Len(c.tried) = k - 1 /\ \A i \in 1..(k - 1) : c.tried[i] = n[i].name
  <2>1. Len(n) \in Nat
    BY <1>2, TableNames, SeqDomain DEF CallInv, ThreeTables
  <2> QED
    BY <1>1, <1>2, <2>1 DEF TriedUpTo
<1>5. PICK old : old = c.tried
  OBVIOUS
<1>6. /\ IsSeq(Append(old, x)) /\ Len(Append(old, x)) = (k - 1) + 1
      /\ \A i \in 1..(k - 1) : Append(old, x)[i] = old[i]
      /\ Append(old, x)[(k - 1) + 1] = x
  BY <1>1, <1>4, <1>5, AppendIsSeq, AppendElements
<1>7. (k - 1) + 1 = k
  BY <1>4
<1>8. ASSUME NEW i \in 1..k PROVE d.tried[i] = n[i].name
  <2>1. CASE i = k
    BY <1>2, <1>3, <1>5, <1>6, <1>7, <2>1
  <2>2. CASE i # k
    <3>1. i \in 1..(k - 1)
      BY <1>4, <2>2
    <3> QED
      BY <1>3, <1>4, <1>5, <1>6, <3>1
  <2> QED
    BY <2>1, <2>2
<1>9. TriedUpTo(d, k)
  <2>1. k \in 0..Len(n)
    BY <1>4
  <2> QED
    BY <1>2, <1>3, <1>5, <1>6, <1>7, <1>8, <2>1 DEF TriedUpTo
<1> QED
  BY <1>2, <1>3, <1>5, <1>6, <1>9 DEF CallInv

\* One turn of the loop.
LEMMA FanOutFan ==
  ASSUME FanInv, NEW s \in Senders, FanOut(s)
  PROVE  FanInv'
<1>1. PICK c, n, t, p, tried : /\ c = send[s] /\ n = c.copy.notifies[c.row] /\ t = TargetOf(c.copy, n)
                               /\ p = ParamsOf(c.copy, n) /\ tried = [c EXCEPT !.tried = Append(@, n.name)]
  OBVIOUS
<1>2. /\ UNCHANGED <<table, adding>> /\ CallInv(c, table) /\ DOMAIN c = Fields
      /\ c.pc = "fan" /\ c.row <= Len(c.copy.notifies)
  BY <1>1 DEF FanInv, FanOut, CallInv
<1>3. \/ t = <<>> \/ p = <<>>
      \/ send' = [send EXCEPT ![s] = NextRow(tried)]
      \/ send' = [send EXCEPT ![s] = IF n.type = "trap" THEN NextRow(tried)
                                     ELSE [tried EXCEPT !.pc = "wait", !.attempt = 1]]
  BY <1>1, Zenon DEF FanOut
<1>4. t # <<>> /\ p # <<>>
  <2>1. c.row \in DOMAIN c.copy.notifies
    <3>1. Len(c.copy.notifies) \in Nat /\ DOMAIN c.copy.notifies = 1..Len(c.copy.notifies)
      BY <1>2, TableNames, SeqDomain DEF CallInv, ThreeTables
    <3>2. c.row \in Nat /\ c.row - 1 \in 0..Len(c.copy.notifies)
      BY <1>2 DEF CallInv, TriedUpTo
    <3> QED
      BY <1>2, <3>1, <3>2
  <2> QED
    BY <1>1, <1>2, <2>1, RowComplete
<1>5. PICK w : w = [c EXCEPT !.tried = Append(@, n.name), !.pc = "wait"] /\ CallInv(w, table)
  BY <1>1, <1>2, TriedOne
<1>6. CallInv(NextRow(w), table)
  BY <1>2, <1>5, NextFan DEF Fields
<1>7. NextRow(tried) = NextRow(w)
  BY <1>1, <1>2, <1>5 DEF NextRow, Fields
<1>8. CASE send' = [send EXCEPT ![s] = NextRow(tried)]
  BY <1>2, <1>6, <1>7, <1>8, OneCall
<1>9. CASE n.type # "trap" /\ send' = [send EXCEPT ![s] = [tried EXCEPT !.pc = "wait", !.attempt = 1]]
  <2>1. PICK d : d = [tried EXCEPT !.pc = "wait", !.attempt = 1]
    OBVIOUS
  <2>2. /\ DOMAIN d = Fields /\ d.pc = w.pc /\ d.row = w.row /\ d.copy = w.copy /\ d.due = w.due
        /\ d.tried = w.tried
    BY <1>1, <1>2, <1>5, <2>1 DEF Fields
  <2>3. CallInv(d, table)
    BY <1>5, <2>2 DEF CallInv, TriedUpTo
  <2> QED
    BY <1>2, <1>9, <2>1, <2>3, OneCall
<1> QED
  BY <1>3, <1>4, <1>8, <1>9

\* The inform is answered, repeated, or given up; or the loop ends.
LEMMA OtherFan ==
  ASSUME FanInv, NEW s \in Senders, Acknowledged(s) \/ Timeout(s) \/ InformFails(s) \/ Return(s)
  PROVE  FanInv'
<1>1. PICK c : c = send[s]
  OBVIOUS
<1>2. UNCHANGED <<table, adding>> /\ CallInv(c, table) /\ DOMAIN c = Fields /\ DOMAIN send = Senders
  BY <1>1 DEF FanInv, CallInv, Acknowledged, Timeout, InformFails, Return
<1>3. CASE c.pc = "wait" /\ send' = [send EXCEPT ![s] = NextRow(@)]
  <2>1. send' = [send EXCEPT ![s] = NextRow(c)]
    BY <1>1, <1>2, <1>3
  <2>2. CallInv(NextRow(c), table)
    BY <1>2, <1>3, NextFan
  <2> QED
    BY <1>2, <2>1, <2>2, OneCall
<1>4. CASE c.pc = "wait" /\ send' = [send EXCEPT ![s].attempt = @ + 1]
  <2>1. PICK d : d = [c EXCEPT !.attempt = @ + 1] /\ send' = [send EXCEPT ![s] = d]
    BY <1>1, <1>2, <1>4
  <2>2. /\ DOMAIN d = Fields /\ d.pc = c.pc /\ d.row = c.row /\ d.copy = c.copy /\ d.due = c.due
        /\ d.tried = c.tried
    BY <1>2, <2>1 DEF Fields
  <2>3. CallInv(d, table)
    BY <1>2, <2>2 DEF CallInv, TriedUpTo
  <2> QED
    BY <1>2, <2>1, <2>3, OneCall
<1>5. CASE c.pc = "fan" /\ c.row > Len(c.copy.notifies) /\ send' = [send EXCEPT ![s].pc = "done"]
  <2>1. PICK d : d = [c EXCEPT !.pc = "done"] /\ send' = [send EXCEPT ![s] = d]
    BY <1>1, <1>2, <1>5
  <2>2. /\ DOMAIN d = Fields /\ d.pc = "done" /\ d.row = c.row /\ d.copy = c.copy /\ d.due = c.due
        /\ d.tried = c.tried
    BY <1>2, <2>1 DEF Fields
  <2>3. c.row - 1 = Len(c.copy.notifies)
    <3>1. Len(c.copy.notifies) \in Nat
      BY <1>2, TableNames, SeqDomain DEF CallInv, ThreeTables
    <3>2. c.row \in Nat /\ c.row - 1 \in 0..Len(c.copy.notifies)
      BY <1>2, <1>5 DEF CallInv, TriedUpTo
    <3> QED
      BY <1>5, <3>1, <3>2
  <2>4. TriedUpTo(c, Len(c.copy.notifies))
    BY <1>2, <1>5, <2>3 DEF CallInv
  <2>5. TriedUpTo(d, Len(d.copy.notifies))
    BY <2>2, <2>4 DEF TriedUpTo
  <2>6. CallInv(d, table)
    BY <1>2, <1>5, <2>2, <2>5 DEF CallInv
  <2> QED
    BY <1>2, <2>1, <2>6, OneCall
<1> QED
  BY <1>1, <1>3, <1>4, <1>5 DEF Acknowledged, Timeout, InformFails, Return

(* A send that has returned tried every notify row it copied, in order and *)
(* once each, and those were at least the rows that were complete when it  *)
(* began: for every configuration, every row that is added while it runs,  *)
(* and whatever becomes of the targets (NotificationOriginator::send).     *)
THEOREM FanOutIsComplete == Spec => []FanOutComplete
<1>1. Init => FanInv
  <2> SUFFICES ASSUME Init PROVE FanInv
    OBVIOUS
  <2>1. TableInv(table)
    BY ConfigKeeps DEF Init
  <2>2. AddingInv(adding, table)
    BY DEF Init, Idle, AddingInv
  <2>3. send = [s \in Senders |-> NoSend]
    BY DEF Init
  <2>4. IsSeq(<<>>) /\ Len(<<>>) = 0 /\ DOMAIN <<>> = {}
    BY DEF IsSeq
  <2>5. /\ DOMAIN NoSend = Fields /\ NoSend.pc = "done" /\ NoSend.row = 1 /\ NoSend.copy = Empty
        /\ NoSend.due = <<>> /\ NoSend.tried = <<>>
    BY DEF NoSend, Fields
  <2>6. ThreeTables(Empty) /\ OwnNames(Empty.notifies) /\ Starts(<<>>, Empty.notifies)
    BY <2>4, TableNames DEF ThreeTables, OwnNames, Starts
  <2>7. TriedUpTo(NoSend, Len(NoSend.copy.notifies))
    BY <2>4, <2>5, TableNames DEF TriedUpTo
  <2>8. CallInv(NoSend, table)
    BY <2>4, <2>5, <2>6, <2>7 DEF CallInv
  <2> QED
    BY <2>1, <2>2, <2>3, <2>8 DEF FanInv
<1>2. FanInv /\ [Next]_vars => FanInv'
  <2> SUFFICES ASSUME FanInv, [Next]_vars PROVE FanInv'
    OBVIOUS
  <2>1. ASSUME UNCHANGED <<table, adding, send>> PROVE FanInv'
    BY <2>1 DEF FanInv
  <2>2. CASE BeginAdd
    <3>1. UNCHANGED <<table, send>>
      BY <2>2 DEF BeginAdd
    <3>2. AddingInv(adding, table)'
      BY <2>2, BeginAddKeeps DEF FanInv
    <3> QED
      BY <3>1, <3>2 DEF FanInv
  <2>3. CASE AddNextRow
    <3>1. TableInv(table') /\ AddingInv(adding', table') /\ Grows(table, table') /\ TableInv(table)
      BY <2>3, AddNextRowKeeps DEF FanInv
    <3>2. PICK t, u : t = table /\ u = table' /\ ThreeTables(t) /\ ThreeTables(u) /\ Grows(t, u)
      BY <3>1 DEF TableInv
    <3>3. ASSUME NEW s \in Senders PROVE CallInv(send[s], table')
      <4>1. PICK c : c = send[s] /\ CallInv(c, t)
        BY <3>2 DEF FanInv
      <4>2. CallInv(c, u)
        BY <3>2, <4>1, CallGrows
      <4> QED
        BY <3>2, <4>1, <4>2
    <3>4. send' = send
      BY <2>3 DEF AddNextRow
    <3> QED
      BY <3>1, <3>3, <3>4 DEF FanInv
  <2>4. ASSUME NEW m, Deliver(m) \/ Lose(m) \/ LoseAck(m) \/ Tick PROVE FanInv'
    BY <2>1, <2>4 DEF Deliver, Lose, LoseAck, Tick
  <2>5. CASE UNCHANGED vars
    BY <2>1, <2>5 DEF vars
  <2> QED
    BY <2>2, <2>3, <2>4, <2>5, StartFan, CopyFan, FanOutFan, OtherFan DEF Next, SenderStep
<1>3. FanInv => FanOutComplete
  <2> SUFFICES ASSUME FanInv, NEW s \in Senders, send[s].pc = "done"
               PROVE  /\ send[s].tried = Names(send[s].copy.notifies)
                      /\ IsPrefix(Names(send[s].due), send[s].tried)
    BY DEF FanOutComplete
  <2>1. PICK tried, ns, due : tried = send[s].tried /\ ns = send[s].copy.notifies /\ due = send[s].due
    OBVIOUS
  <2>2. /\ IsSeq(tried) /\ IsSeq(ns) /\ IsSeq(due) /\ Starts(due, ns)
        /\ Len(tried) = Len(ns) /\ \A i \in 1..Len(ns) : tried[i] = ns[i].name
    BY <2>1, TableNames DEF FanInv, CallInv, ThreeTables, TriedUpTo
  <2>3. /\ Len(ns) \in Nat /\ DOMAIN ns = 1..Len(ns) /\ Len(due) \in Nat /\ DOMAIN due = 1..Len(due)
        /\ DOMAIN tried = 1..Len(ns)
    BY <2>2, SeqDomain
  <2>4. PICK S : tried \in Seq(S)
    BY <2>2 DEF IsSeq
  <2>5. tried = Names(ns)
    <3>1. tried = [i \in 1..Len(ns) |-> tried[i]]
      BY <2>2, <2>4
    <3> QED
      BY <2>2, <2>3, <3>1 DEF Names
  <2>6. PICK a : a = Names(due)
    OBVIOUS
  <2>7. a = [i \in 1..Len(due) |-> due[i].name]
    BY <2>3, <2>6 DEF Names
  <2>8. Len(due) <= Len(ns) /\ \A i \in 1..Len(due) : i \in 1..Len(ns) /\ a[i] = tried[i] /\ a[i] \in S
    <3>1. Len(due) <= Len(ns) /\ \A i \in 1..Len(due) : i \in 1..Len(ns) /\ due[i] = ns[i]
      BY <2>2, <2>3 DEF Starts
    <3>2. \A i \in 1..Len(ns) : tried[i] \in S
      BY <2>2, <2>4
    <3> QED
      BY <2>2, <2>7, <3>1, <3>2
  <2>9. a \in Seq(S) /\ Len(a) = Len(due)
    BY <2>3, <2>7, <2>8
  <2>10. SubSeq(a, 1, Len(a)) = SubSeq(tried, 1, Len(a))
    <3>1. PICK x, y : x = SubSeq(a, 1, Len(a)) /\ y = SubSeq(tried, 1, Len(a))
      OBVIOUS
    <3>2. /\ x \in Seq(S) /\ y \in Seq(S) /\ Len(x) = Len(due) /\ Len(y) = Len(due)
          /\ \A i \in 1..Len(due) : x[i] = a[i] /\ y[i] = tried[i]
      BY <2>2, <2>3, <2>4, <2>8, <2>9, <3>1
    <3>3. \A i \in 1..Len(x) : x[i] = y[i]
      BY <2>8, <3>2
    <3> QED
      BY <3>1, <3>2, <3>3, SeqEqual
  <2> QED
    BY <2>1, <2>2, <2>5, <2>6, <2>8, <2>9, <2>10 DEF IsPrefix
<1> QED
  BY <1>1, <1>2, <1>3, PTL DEF Spec
=============================================================================
