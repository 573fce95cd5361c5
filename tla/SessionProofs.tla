---------------------------- MODULE SessionProofs ----------------------------
(***************************************************************************)
(* Proofs about the client sessions, for any number of them, of retries,   *)
(* of requests and of lost, duplicated and reordered datagrams: an answer  *)
(* that is taken is the own, a session that waits on the shared socket has *)
(* its route there, and a call that fails has a cause.                     *)
(***************************************************************************)
EXTENDS Session, Integers, FunctionTheorems, FiniteSetTheorems, SequenceTheorems, TLAPS

---------------------------------------------------------------------------
(* The steps of a call, field by field.                                    *)

CallFields == {"pc", "op", "id", "route", "attempt", "lastErr", "result", "answer", "late", "foreign"}

IsCall(c) == DOMAIN c = CallFields

\* The call stays the same one, at the same place in its loop or not.
Same(c, d) == IsCall(d) /\ d.id = c.id /\ d.op = c.op /\ d.foreign = c.foreign

Finished(c, d, result) ==
    /\ Same(c, d) /\ d.pc = "idle" /\ d.result = result /\ d.answer = c.answer
    /\ d.late = c.late /\ d.attempt = c.attempt

Failed(c, d, err, late) ==
    /\ Same(c, d) /\ d.answer = c.answer /\ d.late = (c.late \/ late)
    /\ \/ c.attempt < Retries /\ d.pc = "send" /\ d.attempt = c.attempt + 1 /\ d.result = c.result
       \/ ~(c.attempt < Retries) /\ d.pc = "idle" /\ d.attempt = c.attempt /\ d.result = err

Answered(c, d, m) ==
    /\ Same(c, d) /\ d.pc = "idle" /\ d.result \in {"ok", "snmpError"} /\ d.answer = m /\ m.id = c.id
    /\ d.late = c.late /\ d.attempt = c.attempt

\* The call of one session has changed, from c to d.
Turned(s, c, d) == c = call[s] /\ call' = [call EXCEPT ![s] = d]

\* A call that ends without an answer.
LEMMA FinishFields ==
  ASSUME DOMAIN call = Sessions, NEW s \in Sessions, IsCall(call[s]), NEW result, Finish(s, result)
  PROVE  \E c, d : Turned(s, c, d) /\ Finished(c, d, result)
<1>1. PICK c, d : c = call[s] /\ d = [c EXCEPT !.pc = "idle", !.result = result]
  OBVIOUS
<1>2. call' = [call EXCEPT ![s] = d]
  BY <1>1 DEF Finish
<1>3. Finished(c, d, result)
  BY <1>1 DEF Finished, Same, IsCall, CallFields
<1> QED
  BY <1>1, <1>2, <1>3 DEF Turned

\* An attempt that fails.
LEMMA AttemptFailsFields ==
  ASSUME DOMAIN call = Sessions, NEW s \in Sessions, IsCall(call[s]), NEW err, NEW late \in BOOLEAN,
         AttemptFails(s, err, late)
  PROVE  \E c, d : Turned(s, c, d) /\ Failed(c, d, err, late)
<1>1. PICK c, b, l : c = call[s] /\ l = (c.late \/ late) /\ b = [c EXCEPT !.lastErr = err, !.late = l]
  OBVIOUS
<1>2. /\ IsCall(b) /\ b.id = c.id /\ b.op = c.op /\ b.foreign = c.foreign /\ b.answer = c.answer /\ b.pc = c.pc
      /\ b.late = l /\ b.attempt = c.attempt /\ b.result = c.result
  BY <1>1 DEF IsCall, CallFields
<1>3. call' = [call EXCEPT ![s] = IF MoreAttempts(s) THEN [b EXCEPT !.pc = "send", !.attempt = @ + 1]
                                  ELSE [b EXCEPT !.pc = "idle", !.result = err]]
  BY <1>1, Zenon DEF AttemptFails
<1>4. CASE MoreAttempts(s)
  <2>1. PICK d : d = [b EXCEPT !.pc = "send", !.attempt = b.attempt + 1]
    OBVIOUS
  <2>2. call' = [call EXCEPT ![s] = d]
    BY <1>3, <1>4, <2>1
  <2>3. Failed(c, d, err, late)
    <3>1. c.attempt < Retries
      BY <1>1, <1>4 DEF MoreAttempts
    <3>2. /\ IsCall(d) /\ d.id = b.id /\ d.op = b.op /\ d.foreign = b.foreign /\ d.answer = b.answer
          /\ d.pc = "send" /\ d.late = b.late /\ d.attempt = b.attempt + 1 /\ d.result = b.result
      BY <1>2, <2>1 DEF IsCall, CallFields
    <3> QED
      BY <1>1, <1>2, <3>1, <3>2 DEF Failed, Same
  <2> QED
    BY <1>1, <2>2, <2>3 DEF Turned
<1>5. CASE ~MoreAttempts(s)
  <2>1. PICK d : d = [b EXCEPT !.pc = "idle", !.result = err]
    OBVIOUS
  <2>2. call' = [call EXCEPT ![s] = d]
    BY <1>3, <1>5, <2>1
  <2>3. Failed(c, d, err, late)
    <3>1. ~(c.attempt < Retries)
      BY <1>1, <1>5 DEF MoreAttempts
    <3>2. /\ IsCall(d) /\ d.id = b.id /\ d.op = b.op /\ d.foreign = b.foreign /\ d.answer = b.answer
          /\ d.pc = "idle" /\ d.late = b.late /\ d.attempt = b.attempt /\ d.result = err
      BY <1>2, <2>1 DEF IsCall, CallFields
    <3> QED
      BY <1>1, <1>2, <3>1, <3>2 DEF Failed, Same
  <2> QED
    BY <1>1, <2>2, <2>3 DEF Turned
<1> QED
  BY <1>4, <1>5

\* A datagram that is looked at.
LEMMA TakeFields ==
  ASSUME DOMAIN call = Sessions, NEW s \in Sessions, IsCall(call[s]), NEW m, Take(s, m)
  PROVE  \E c, d : Turned(s, c, d) /\ (Answered(c, d, m) \/ (m.id # c.id /\ Failed(c, d, "mismatch", FALSE)))
<1>1. CASE Matches(s, m)
  <2>r. PICK result \in {"ok", "snmpError"} :
          call' = [call EXCEPT ![s].pc = "idle", ![s].answer = m, ![s].result = result]
    BY <1>1 DEF Take
  <2>1. PICK c : c = call[s] /\ m.id = c.id
    BY <1>1 DEF Matches
  <2>2. PICK d : d = [c EXCEPT !.pc = "idle", !.answer = m, !.result = result]
    OBVIOUS
  <2>3. call' = [call EXCEPT ![s] = d]
    BY <2>r, <2>1, <2>2
  <2>4. Answered(c, d, m)
    BY <2>r, <2>1, <2>2 DEF Answered, Same, IsCall, CallFields
  <2> QED
    BY <2>1, <2>3, <2>4 DEF Turned
<1>2. CASE ~Matches(s, m)
  <2>1. AttemptFails(s, "mismatch", FALSE) /\ m.id # call[s].id
    BY <1>2 DEF Take, Matches
  <2>2. PICK c, d : Turned(s, c, d) /\ Failed(c, d, "mismatch", FALSE)
    BY <2>1, AttemptFailsFields
  <2> QED
    BY <2>1, <2>2 DEF Turned
<1> QED
  BY <1>1, <1>2

---------------------------------------------------------------------------
(* The calls and their ids.                                                *)

\* A call as the loop leaves it.
CallTypes ==
    /\ nextId \in Nat \ {0} /\ DOMAIN call = Sessions /\ DOMAIN slot = Sessions
    /\ \A s \in Sessions :
         /\ IsCall(call[s]) /\ call[s].id \in Nat /\ call[s].pc \in {"idle", "send", "wait"}
         /\ call[s].pc # "idle" => call[s].result = "none" /\ (call[s].op # "trapV1" => call[s].id # 0)
         /\ call[s].pc = "wait" => call[s].op \notin OneShot
         /\ call[s].pc = "wait" /\ Version[s] # "v3" => call[s].route = call[s].id
         /\ slot[s] \in {Taken, Open, Closed} \/ slot[s].is = "full"

\* On a shared socket no two sessions have used the same request id.
IdsDiffer ==
    kind = "shared" =>
      \A s \in Sessions : /\ call[s].id < nextId
                          /\ \A t \in Sessions : call[s].id = call[t].id /\ call[s].id # 0 => s = t

CallInv == CallTypes /\ IdsDiffer

\* What a session on this transport would look at next.
Held(s, m) ==
    \/ kind = "shared" /\ slot[s].is = "full" /\ m = slot[s].answer
    \/ kind # "shared" /\ inbox[s] # <<>> /\ m = Head(inbox[s])

\* The outcome of a receive.
Outcome(s, c, d) ==
    /\ c.pc # "idle"
    /\ \/ \E result \in {"io", "garbled"} : Finished(c, d, result)
       \/ kind = "shared" /\ c.pc = "wait" /\ slot[s] = Closed /\ Finished(c, d, "closed")
       \/ Failed(c, d, "timeout", TRUE)
       \/ \E m : Held(s, m) /\ (Answered(c, d, m) \/ (m.id # c.id /\ Failed(c, d, "mismatch", FALSE)))

Receives(s) == ReceiveUdp(s) \/ ReceiveShared(s) \/ ReadHeader(s) \/ ReadContent(s) \/ Timeout(s) \/ TransportFails(s)

\* What a receive, on any transport, does with the call.
LEMMA ReceiveFields ==
  ASSUME CallTypes, NEW s \in Sessions, Receives(s)
  PROVE  \/ ReadHeader(s) /\ UNCHANGED call
         \/ \E c, d : Turned(s, c, d) /\ Outcome(s, c, d)
<1> DOMAIN call = Sessions /\ IsCall(call[s])
  BY DEF CallTypes
<1>1. CASE ReceiveUdp(s)
  <2>1. Take(s, Head(inbox[s])) /\ Held(s, Head(inbox[s])) /\ call[s].pc # "idle"
    BY <1>1 DEF ReceiveUdp, Held
  <2>2. PICK m : m = Head(inbox[s])
    OBVIOUS
  <2>3. PICK c, d : Turned(s, c, d) /\ (Answered(c, d, m) \/ (m.id # c.id /\ Failed(c, d, "mismatch", FALSE)))
    BY <2>1, <2>2, TakeFields
  <2> QED
    BY <2>1, <2>2, <2>3 DEF Outcome, Turned
<1>2. CASE ReceiveShared(s)
  <2>1. kind = "shared" /\ call[s].pc = "wait" /\ slot[s].is \in {"full", "closed"}
    BY <1>2 DEF ReceiveShared
  <2>2. CASE slot[s] = Closed
    <3>1. Finish(s, "closed")
      BY <1>2, <2>2 DEF ReceiveShared
    <3>2. PICK c, d : Turned(s, c, d) /\ Finished(c, d, "closed")
      BY <3>1, FinishFields
    <3> QED
      BY <2>1, <2>2, <3>2 DEF Outcome, Turned
  <2>3. CASE slot[s] # Closed
    <3>1. PICK m : m = slot[s].answer
      OBVIOUS
    <3>2. Take(s, m)
      BY <1>2, <2>3, <3>1 DEF ReceiveShared
    <3>3. Held(s, m)
      BY <2>1, <2>3, <3>1 DEF Held, CallTypes, Taken, Open
    <3>4. PICK c, d : Turned(s, c, d) /\ (Answered(c, d, m) \/ (m.id # c.id /\ Failed(c, d, "mismatch", FALSE)))
      BY <3>2, TakeFields
    <3> QED
      BY <2>1, <3>3, <3>4 DEF Outcome, Turned
  <2> QED
    BY <2>2, <2>3
<1>3. CASE ReadHeader(s)
  <2>1. call[s].pc # "idle" /\ (UNCHANGED call \/ Finish(s, "garbled"))
    BY <1>3 DEF ReadHeader
  <2>2. CASE Finish(s, "garbled")
    <3>1. PICK c, d : Turned(s, c, d) /\ Finished(c, d, "garbled")
      BY <2>2, FinishFields
    <3> QED
      BY <2>1, <3>1 DEF Outcome, Turned
  <2> QED
    BY <1>3, <2>1, <2>2
<1>4. CASE ReadContent(s)
  <2>1. PICK m : m = Head(inbox[s])
    OBVIOUS
  <2>2. call[s].pc # "idle" /\ Held(s, m) /\ (Take(s, m) \/ Finish(s, "garbled"))
    BY <1>4, <2>1 DEF ReadContent, Held
  <2>3. CASE Finish(s, "garbled")
    <3>1. PICK c, d : Turned(s, c, d) /\ Finished(c, d, "garbled")
      BY <2>3, FinishFields
    <3> QED
      BY <2>2, <3>1 DEF Outcome, Turned
  <2>4. CASE Take(s, m)
    <3>1. PICK c, d : Turned(s, c, d) /\ (Answered(c, d, m) \/ (m.id # c.id /\ Failed(c, d, "mismatch", FALSE)))
      BY <2>4, TakeFields
    <3> QED
      BY <2>2, <3>1 DEF Outcome, Turned
  <2> QED
    BY <2>2, <2>3, <2>4
<1>5. CASE Timeout(s)
  <2>1. call[s].pc # "idle" /\ AttemptFails(s, "timeout", TRUE)
    BY <1>5 DEF Timeout
  <2>2. PICK c, d : Turned(s, c, d) /\ Failed(c, d, "timeout", TRUE)
    BY <2>1, AttemptFailsFields
  <2> QED
    BY <2>1, <2>2 DEF Outcome, Turned
<1>6. CASE TransportFails(s)
  <2>1. call[s].pc # "idle" /\ Finish(s, "io")
    BY <1>6 DEF TransportFails
  <2>2. PICK c, d : Turned(s, c, d) /\ Finished(c, d, "io")
    BY <2>1, FinishFields
  <2> QED
    BY <2>1, <2>2 DEF Outcome, Turned
<1> QED
  BY <1>1, <1>2, <1>3, <1>4, <1>5, <1>6 DEF Receives

\* A call goes on or ends, with its id; it waits only after sending.
LEMMA OutcomeProperties ==
  ASSUME NEW s, NEW c, NEW d, Outcome(s, c, d)
  PROVE  /\ IsCall(d) /\ d.id = c.id /\ d.op = c.op /\ d.pc \in {"idle", "send"} /\ c.pc # "idle"
         /\ d.pc = "send" => d.result = c.result
BY DEF Outcome, Finished, Failed, Answered, Same

\* A call that begins, or is refused at once.
Begun(s, op, d) ==
    /\ IsCall(d) /\ d.op = op /\ d.answer = NoAnswer /\ d.late = FALSE /\ d.attempt = 0
    /\ \/ d.pc = "idle" /\ d.id = 0 /\ d.result = "refused" /\ UNCHANGED nextId
       \/ /\ d.pc = "send" /\ d.result = "none" /\ d.foreign = Foreign(s)
          /\ d.id = IF op = "trapV1" THEN 0 ELSE nextId
          /\ nextId' = IF op = "trapV1" THEN nextId ELSE NextId

LEMMA BeginFields ==
  ASSUME DOMAIN call = Sessions, NEW s \in Sessions, NEW op, Begin(s, op)
  PROVE  \E d : call' = [call EXCEPT ![s] = d] /\ Begun(s, op, d) /\ call[s].pc = "idle"
<1>0. call[s].pc = "idle"
  BY DEF Begin
<1>1. CASE Refused(s, op)
  <2>1. PICK d : d = [NoCall EXCEPT !.op = op, !.result = "refused"]
    OBVIOUS
  <2>2. call' = [call EXCEPT ![s] = d] /\ UNCHANGED nextId
    BY <1>1, <2>1 DEF Begin
  <2>3. Begun(s, op, d)
    BY <2>1, <2>2 DEF Begun, NoCall, IsCall, CallFields
  <2> QED
    BY <1>0, <2>2, <2>3
<1>2. CASE ~Refused(s, op)
  <2>1. PICK f, i : f = Foreign(s) /\ i = IF op = "trapV1" THEN 0 ELSE nextId
    OBVIOUS
  <2>2. PICK d : d = [NoCall EXCEPT !.pc = "send", !.op = op, !.foreign = f, !.id = i]
    OBVIOUS
  <2>3. call' = [call EXCEPT ![s] = d] /\ nextId' = IF op = "trapV1" THEN nextId ELSE NextId
    BY <1>2, <2>1, <2>2 DEF Begin
  <2>4. /\ IsCall(d) /\ d.op = op /\ d.answer = NoAnswer /\ d.late = FALSE /\ d.attempt = 0
        /\ d.pc = "send" /\ d.result = "none" /\ d.foreign = f /\ d.id = i
    BY <2>2 DEF NoCall, IsCall, CallFields
  <2>5. Begun(s, op, d)
    BY <2>1, <2>3, <2>4 DEF Begun
  <2> QED
    BY <1>0, <2>3, <2>5
<1> QED
  BY <1>1, <1>2

\* A request that is sent: a notification is done, the others wait for an answer.
Sent(s, c, d) ==
    /\ Same(c, d) /\ c.pc = "send" /\ d.attempt = c.attempt /\ d.late = c.late /\ d.answer = c.answer
    /\ \/ c.op \in OneShot /\ d.pc = "idle" /\ d.result = "sent"
       \/ c.op \notin OneShot /\ d.pc = "wait" /\ d.result = c.result /\ d.route = RoutingId(s, c.id)

LEMMA SendFields ==
  ASSUME DOMAIN call = Sessions, NEW s \in Sessions, IsCall(call[s]), Send(s)
  PROVE  \E c, d : Turned(s, c, d) /\ Sent(s, c, d)
<1>1. PICK c, r : c = call[s] /\ r = RoutingId(s, c.id)
  OBVIOUS
<1>2. /\ c.pc = "send"
      /\ call' = IF c.op \in OneShot THEN [call EXCEPT ![s].pc = "idle", ![s].result = "sent"]
                 ELSE [call EXCEPT ![s].pc = "wait", ![s].route = r]
  BY <1>1 DEF Send
<1>3. CASE c.op \in OneShot
  <2>1. PICK d : d = [c EXCEPT !.pc = "idle", !.result = "sent"]
    OBVIOUS
  <2>2. call' = [call EXCEPT ![s] = d]
    BY <1>1, <1>2, <1>3, <2>1
  <2>3. Sent(s, c, d)
    BY <1>1, <1>2, <1>3, <2>1 DEF Sent, Same, IsCall, CallFields
  <2> QED
    BY <1>1, <2>2, <2>3 DEF Turned
<1>4. CASE c.op \notin OneShot
  <2>1. PICK d : d = [c EXCEPT !.pc = "wait", !.route = r]
    OBVIOUS
  <2>2. call' = [call EXCEPT ![s] = d]
    BY <1>1, <1>2, <1>4, <2>1
  <2>3. Sent(s, c, d)
    BY <1>1, <1>2, <1>4, <2>1 DEF Sent, Same, IsCall, CallFields
  <2> QED
    BY <1>1, <2>2, <2>3 DEF Turned
<1> QED
  BY <1>3, <1>4

\* A datagram that the network doubles.
Counted(c, d) ==
    /\ IsCall(d) /\ d.id = c.id /\ d.op = c.op /\ d.pc = c.pc /\ d.result = c.result /\ d.route = c.route
    /\ d.answer = c.answer /\ d.late = c.late /\ d.attempt = c.attempt

LEMMA DuplicateFields ==
  ASSUME DOMAIN call = Sessions, NEW s \in Sessions, IsCall(call[s]), Duplicate(s)
  PROVE  UNCHANGED call \/ \E c, d : Turned(s, c, d) /\ Counted(c, d)
<1>1. PICK c : c = call[s]
  OBVIOUS
<1>2. call' = call \/ call' = [call EXCEPT ![s].foreign = @ + 1]
  BY DEF Duplicate
<1>4. CASE call' = [call EXCEPT ![s].foreign = @ + 1]
  <2>1. PICK d : d = [c EXCEPT !.foreign = c.foreign + 1]
    OBVIOUS
  <2>2. Turned(s, c, d)
    BY <1>1, <1>4, <2>1 DEF Turned
  <2>3. Counted(c, d)
    BY <1>1, <2>1 DEF Counted, IsCall, CallFields
  <2> QED
    BY <2>2, <2>3
<1> QED
  BY <1>2, <1>4

\* The counter has not come round: no id has been given out twice.  With i32 ids that
\* takes 2^31 - 1 requests of one process while an answer to the first is under way.
IdsLast == kind = "shared" => nextId < MaxId

LEMMA SlotStep ==
  ASSUME CallTypes, [Next]_vars
  PROVE  /\ DOMAIN slot' = Sessions /\ UNCHANGED kind
         /\ \A s \in Sessions : slot'[s] \in {Taken, Open, Closed} \/ slot'[s].is = "full"
<1> DEFINE Ok == /\ DOMAIN slot' = Sessions /\ UNCHANGED kind
                 /\ \A s \in Sessions : slot'[s] \in {Taken, Open, Closed} \/ slot'[s].is = "full"
<1>0. /\ DOMAIN slot = Sessions
      /\ \A s \in Sessions : slot[s] \in {Taken, Open, Closed} \/ slot[s].is = "full"
  BY DEF CallTypes
<1>1. CASE UNCHANGED <<kind, slot>>
  BY <1>0, <1>1
<1>2. ASSUME NEW s \in Sessions, Send(s) PROVE Ok
  <2>1. UNCHANGED kind
    BY <1>2 DEF Send
  <2>2. PICK r : r = RoutingId(s, call[s].id)
    OBVIOUS
  <2>3. UNCHANGED slot \/ slot' = [t \in Sessions |->
                  CASE t = s -> Open
                    [] t # s /\ <<r, t>> \in routes /\ call[t].route = r /\ slot[t] = Open -> Closed
                    [] OTHER -> slot[t]]
    BY <1>2, <2>2, Zenon DEF Send, AddRoute
  <2> QED
    BY <1>0, <2>1, <2>3
<1>3. ASSUME NEW s \in Sessions, ReceiveShared(s) \/ Timeout(s) PROVE Ok
  <2>1. UNCHANGED kind /\ (UNCHANGED slot \/ slot' = [slot EXCEPT ![s] = Taken])
    BY <1>3 DEF ReceiveShared, Timeout
  <2> QED
    BY <1>0, <2>1
<1>4. ASSUME NEW s \in Sessions, Deliver(s) PROVE Ok
  <2>1. PICK i \in Deliverable(wire[s]) :
          /\ UNCHANGED kind
          /\ \/ kind = "shared" /\ Dispatch(wire[s][i])
             \/ UNCHANGED slot
    BY <1>4 DEF Deliver
  <2>2. UNCHANGED slot \/ \E t, m : slot' = [slot EXCEPT ![t] = [is |-> "full", answer |-> m]]
    BY <2>1, Zenon DEF Dispatch
  <2> QED
    BY <1>0, <2>1, <2>2
<1> QED
  <2>1. CASE UNCHANGED vars
    BY <1>1, <2>1 DEF vars
  <2>2. CASE Next
    <3>1. PICK s \in Sessions : (\E op \in Uses[s] : Begin(s, op)) \/ Step(s) \/ TransportFails(s) \/ Network(s)
      BY <2>2 DEF Next
    <3>2. CASE Send(s) \/ ReceiveShared(s) \/ Timeout(s) \/ Deliver(s)
      BY <1>2, <1>3, <1>4, <3>2
    <3>3. CASE (\E op \in Uses[s] : Begin(s, op)) \/ ReceiveUdp(s) \/ ReadHeader(s) \/ ReadContent(s) \/ TransportFails(s)
               \/ Lose(s) \/ Duplicate(s)
      <4>1. UNCHANGED <<kind, slot>>
        BY <3>3 DEF Begin, ReceiveUdp, ReadHeader, ReadContent, TransportFails, Lose, Duplicate
      <4> QED
        BY <1>1, <4>1
    <3> QED
      BY <3>1, <3>2, <3>3 DEF Step, Network
  <2> QED
    BY <2>1, <2>2

\* A session's call, and the counter, are all that a step of the session changes here.
CallTurns(s, d) ==
    /\ call' = [call EXCEPT ![s] = d] /\ IsCall(d) /\ d.id \in Nat /\ d.pc \in {"idle", "send", "wait"}
    /\ d.pc # "idle" => d.result = "none" /\ (d.op # "trapV1" => d.id # 0)
    /\ d.pc = "wait" => d.op \notin OneShot
    /\ d.pc = "wait" /\ Version[s] # "v3" => d.route = d.id
    /\ \/ d.id = call[s].id /\ UNCHANGED nextId
       \/ d.id = 0 /\ UNCHANGED nextId
       \/ d.id = nextId /\ nextId' = NextId

LEMMA CallStep ==
  ASSUME CallInv, [Next]_vars
  PROVE  UNCHANGED <<call, nextId>> \/ \E s \in Sessions : \E d : CallTurns(s, d)
<1>0. /\ CallTypes /\ DOMAIN call = Sessions /\ nextId \in Nat /\ nextId # 0
      /\ \A s \in Sessions :
           /\ IsCall(call[s]) /\ call[s].id \in Nat /\ call[s].pc \in {"idle", "send", "wait"}
           /\ call[s].pc # "idle" => call[s].result = "none" /\ (call[s].op # "trapV1" => call[s].id # 0)
           /\ call[s].pc = "wait" => call[s].op \notin OneShot
           /\ call[s].pc = "wait" /\ Version[s] # "v3" => call[s].route = call[s].id
  BY DEF CallInv, CallTypes
<1>1. ASSUME NEW s \in Sessions, NEW op, Begin(s, op) PROVE \E d : CallTurns(s, d)
  <2>1. PICK d : call' = [call EXCEPT ![s] = d] /\ Begun(s, op, d)
    BY <1>0, <1>1, BeginFields
  <2>2. IsCall(d) /\ d.op = op
    BY <2>1 DEF Begun
  <2>3. CASE d.pc = "idle" /\ d.id = 0 /\ UNCHANGED nextId
    <3>1. CallTurns(s, d)
      BY <2>1, <2>2, <2>3 DEF CallTurns
    <3> QED
      BY <3>1
  <2>4. CASE d.pc = "send" /\ d.result = "none" /\ op = "trapV1" /\ d.id = 0 /\ UNCHANGED nextId
    <3>1. CallTurns(s, d)
      BY <2>1, <2>2, <2>4 DEF CallTurns
    <3> QED
      BY <3>1
  <2>5. CASE d.pc = "send" /\ d.result = "none" /\ d.id = nextId /\ nextId' = NextId
    BY <1>0, <2>1, <2>2, <2>5 DEF CallTurns
  <2> QED
    BY <2>1, <2>3, <2>4, <2>5 DEF Begun
<1>2. ASSUME NEW s \in Sessions, Send(s) PROVE \E d : CallTurns(s, d)
  <2>1. PICK c, d : Turned(s, c, d) /\ Sent(s, c, d)
    BY <1>0, <1>2, SendFields
  <2>2. UNCHANGED nextId
    BY <1>2 DEF Send
  <2>3. c = call[s] /\ call' = [call EXCEPT ![s] = d]
    BY <2>1 DEF Turned
  <2>4. d.pc = "wait" /\ Version[s] # "v3" => d.route = d.id
    BY <2>1 DEF Sent, Same, RoutingId
  <2>5. /\ c.id \in Nat /\ c.pc = "send" /\ c.result = "none" /\ (c.op # "trapV1" => c.id # 0)
        /\ IsCall(d) /\ d.id = c.id /\ d.op = c.op
    BY <1>0, <2>1, <2>3 DEF Sent, Same
  <2>6. CASE d.pc = "idle"
    BY <2>2, <2>3, <2>5, <2>6 DEF CallTurns
  <2>7. CASE d.op \notin OneShot /\ d.pc = "wait" /\ d.result = c.result
    BY <2>2, <2>3, <2>4, <2>5, <2>7 DEF CallTurns
  <2> QED
    BY <2>1, <2>5, <2>6, <2>7 DEF Sent
<1>3. ASSUME NEW s \in Sessions, Receives(s) PROVE UNCHANGED <<call, nextId>> \/ \E d : CallTurns(s, d)
  <2>1. UNCHANGED nextId
    BY <1>3 DEF Receives, ReceiveUdp, ReceiveShared, ReadHeader, ReadContent, Timeout, TransportFails
  <2>2. CASE UNCHANGED call
    BY <2>1, <2>2
  <2>3. ASSUME NEW c, NEW d, Turned(s, c, d), Outcome(s, c, d) PROVE CallTurns(s, d)
    <3>1. c = call[s] /\ call' = [call EXCEPT ![s] = d]
      BY <2>3 DEF Turned
    <3>2. /\ IsCall(d) /\ d.id = c.id /\ d.op = c.op /\ d.pc \in {"idle", "send"} /\ c.pc # "idle"
          /\ d.pc = "send" => d.result = c.result
      BY <2>3, OutcomeProperties
    <3> QED
      BY <1>0, <2>1, <3>1, <3>2 DEF CallTurns
  <2> QED
    BY <1>0, <1>3, <2>1, <2>3, ReceiveFields
<1>4. ASSUME NEW s \in Sessions, Duplicate(s) PROVE UNCHANGED <<call, nextId>> \/ \E d : CallTurns(s, d)
  <2>1. UNCHANGED nextId
    BY <1>4 DEF Duplicate
  <2>2. ASSUME NEW c, NEW d, Turned(s, c, d), Counted(c, d) PROVE CallTurns(s, d)
    <3>1. c = call[s] /\ call' = [call EXCEPT ![s] = d]
      BY <2>2 DEF Turned
    <3> QED
      BY <1>0, <2>1, <2>2, <3>1 DEF Counted, CallTurns
  <2> QED
    BY <1>0, <1>4, <2>1, <2>2, DuplicateFields
<1>5. ASSUME NEW s \in Sessions, Deliver(s) \/ Lose(s) PROVE UNCHANGED <<call, nextId>>
  BY <1>5 DEF Deliver, Lose
<1> QED
  <2>1. CASE UNCHANGED vars
    BY <2>1 DEF vars
  <2>2. CASE Next
    BY <1>1, <1>2, <1>3, <1>4, <1>5, <2>2 DEF Next, Step, Network, Receives
  <2> QED
    BY <2>1, <2>2

\* NextId is above every id given out, as long as the counter has not come round.
LEMMA CallInvStep ==
  ASSUME CallInv, IdsLast, [Next]_vars
  PROVE  CallInv'
<1>0. nextId \in Nat /\ nextId # 0 /\ NextId \in Nat /\ NextId # 0
  BY SessionAssumption DEF CallInv, CallTypes, NextId
<1>1. CASE UNCHANGED <<call, nextId>>
  <2>1. CallTypes'
    BY <1>1, SlotStep DEF CallInv, CallTypes
  <2>2. IdsDiffer'
    BY <1>1, SlotStep DEF CallInv, IdsDiffer
  <2> QED
    BY <2>1, <2>2 DEF CallInv
<1>2. ASSUME NEW s \in Sessions, NEW d, CallTurns(s, d) PROVE CallInv'
  <2>1. /\ DOMAIN call' = Sessions /\ call'[s] = d
        /\ \A t \in Sessions : t # s => call'[t] = call[t]
    BY <1>2 DEF CallTurns, CallInv, CallTypes
  <2>2. CallTypes'
    <3>1. nextId' \in Nat \ {0}
      BY <1>0, <1>2 DEF CallTurns
    <3>2. DOMAIN slot' = Sessions /\ \A t \in Sessions : slot'[t] \in {Taken, Open, Closed} \/ slot'[t].is = "full"
      BY SlotStep DEF CallInv
    <3>3. /\ IsCall(d) /\ d.id \in Nat /\ d.pc \in {"idle", "send", "wait"}
          /\ d.pc # "idle" => d.result = "none" /\ (d.op # "trapV1" => d.id # 0)
          /\ d.pc = "wait" => d.op \notin OneShot
          /\ d.pc = "wait" /\ Version[s] # "v3" => d.route = d.id
      BY <1>2 DEF CallTurns
    <3> QED
      BY <2>1, <3>1, <3>2, <3>3 DEF CallInv, CallTypes
  <2>3. ASSUME kind' = "shared" PROVE IdsDiffer'
    <3>1. kind = "shared" /\ nextId < MaxId
      BY <2>3, SlotStep DEF CallInv, IdsLast
    <3>2. NextId = nextId + 1
      BY <1>0, <3>1 DEF NextId
    <3>3. \A t \in Sessions : call[t].id < nextId /\ call[t].id \in Nat
      BY <3>1 DEF CallInv, IdsDiffer, CallTypes
    <3>4. \A t, u \in Sessions : call[t].id = call[u].id /\ call[t].id # 0 => t = u
      BY <3>1 DEF CallInv, IdsDiffer
    <3>5. \/ d.id = call[s].id /\ nextId' = nextId
          \/ d.id = 0 /\ nextId' = nextId
          \/ d.id = nextId /\ nextId' = nextId + 1
      BY <1>2, <3>2 DEF CallTurns
    <3>6. \A t \in Sessions : call'[t].id < nextId'
      BY <1>0, <2>1, <3>3, <3>5
    <3>7. \A t, u \in Sessions : call'[t].id = call'[u].id /\ call'[t].id # 0 => t = u
      BY <1>0, <2>1, <3>3, <3>4, <3>5
    <3> QED
      BY <3>6, <3>7 DEF IdsDiffer
  <2> QED
    BY <2>2, <2>3 DEF CallInv, IdsDiffer
<1> QED
  BY <1>1, <1>2, CallStep

LEMMA CallInvInit ==
  ASSUME Init PROVE CallInv
<1>1. nextId = 1 /\ call = [s \in Sessions |-> NoCall] /\ slot = [s \in Sessions |-> Taken]
  BY DEF Init
<1>2. IsCall(NoCall) /\ NoCall.id = 0 /\ NoCall.pc = "idle"
  BY DEF NoCall, IsCall, CallFields
<1>3. CallTypes
  BY <1>1, <1>2 DEF CallTypes
<1>4. IdsDiffer
  BY <1>1, <1>2 DEF IdsDiffer
<1> QED
  BY <1>3, <1>4 DEF CallInv

---------------------------------------------------------------------------
(* The answers under way.                                                  *)

IsSeq(q) == \E S : q \in Seq(S)

\* Every element of the one sequence is one of the other.
LEMMA RemoveAtElements ==
  ASSUME NEW q, IsSeq(q), NEW i \in DOMAIN q
  PROVE  /\ IsSeq(RemoveAt(q, i))
         /\ \A k \in DOMAIN RemoveAt(q, i) : \E j \in DOMAIN q : RemoveAt(q, i)[k] = q[j]
<1>0. PICK S : q \in Seq(S)
  BY DEF IsSeq
<1>1. /\ Len(q) \in Nat /\ i \in 1..Len(q) /\ DOMAIN q = 1..Len(q)
      /\ \A j \in 1..Len(q) : q[j] \in S
  BY <1>0
<1> DEFINE a == SubSeq(q, 1, i - 1)
           b == SubSeq(q, i + 1, Len(q))
<1>2. /\ a \in Seq(S) /\ Len(a) = i - 1
      /\ \A k \in 1..(i - 1) : a[k] = q[k]
  BY <1>0, <1>1, SubSeqProperties
<1>3. /\ b \in Seq(S) /\ Len(b) = Len(q) - i
      /\ \A k \in 1..(Len(q) - i) : b[k] = q[i + k]
  BY <1>0, <1>1, SubSeqProperties
<1>4. RemoveAt(q, i) = a \o b
  BY DEF RemoveAt
<1> HIDE DEF a, b
<1>5. /\ a \o b \in Seq(S) /\ Len(a \o b) = Len(a) + Len(b)
      /\ \A k \in 1..(Len(a) + Len(b)) : (a \o b)[k] = IF k <= Len(a) THEN a[k] ELSE b[k - Len(a)]
  BY <1>2, <1>3, ConcatProperties
<1>6. ASSUME NEW k \in DOMAIN (a \o b) PROVE \E j \in DOMAIN q : (a \o b)[k] = q[j]
  <2>1. k \in 1..(Len(a) + Len(b))
    BY <1>5
  <2>2. CASE k <= i - 1
    BY <1>1, <1>2, <1>3, <1>5, <2>1, <2>2
  <2>3. CASE ~(k <= i - 1)
    <3>1. k - (i - 1) \in 1..(Len(q) - i) /\ i + (k - (i - 1)) \in 1..Len(q)
      BY <1>1, <1>2, <1>3, <2>1, <2>3
    <3>2. (a \o b)[k] = b[k - (i - 1)]
      BY <1>2, <1>5, <2>1, <2>3
    <3> QED
      BY <1>1, <1>3, <3>1, <3>2
  <2> QED
    BY <2>2, <2>3
<1> QED
  BY <1>4, <1>5, <1>6 DEF IsSeq

LEMMA ConcatElements ==
  ASSUME NEW p, NEW q, IsSeq(p), IsSeq(q)
  PROVE  /\ IsSeq(p \o q)
         /\ \A k \in DOMAIN (p \o q) :
              (\E j \in DOMAIN p : (p \o q)[k] = p[j]) \/ (\E j \in DOMAIN q : (p \o q)[k] = q[j])
<1>0. PICK A, B : p \in Seq(A) /\ q \in Seq(B)
  BY DEF IsSeq
<1>1. p \in Seq(A \cup B) /\ q \in Seq(A \cup B)
  BY <1>0
<1>2. /\ p \o q \in Seq(A \cup B) /\ Len(p \o q) = Len(p) + Len(q)
      /\ \A k \in 1..(Len(p) + Len(q)) : (p \o q)[k] = IF k <= Len(p) THEN p[k] ELSE q[k - Len(p)]
  BY <1>1, ConcatProperties
<1>3. /\ DOMAIN p = 1..Len(p) /\ DOMAIN q = 1..Len(q) /\ Len(p) \in Nat /\ Len(q) \in Nat
      /\ DOMAIN (p \o q) = 1..(Len(p) + Len(q))
  BY <1>1, <1>2
<1>4. ASSUME NEW k \in 1..(Len(p) + Len(q))
      PROVE  (\E j \in DOMAIN p : (p \o q)[k] = p[j]) \/ (\E j \in DOMAIN q : (p \o q)[k] = q[j])
  <2>1. CASE k <= Len(p)
    BY <1>2, <1>3, <2>1
  <2>2. CASE ~(k <= Len(p))
    <3>1. k - Len(p) \in 1..Len(q) /\ (p \o q)[k] = q[k - Len(p)]
      BY <1>2, <1>3, <2>2
    <3> QED
      BY <1>3, <3>1
  <2> QED
    BY <2>1, <2>2
<1> QED
  BY <1>2, <1>3, <1>4 DEF IsSeq

LEMMA AppendElements ==
  ASSUME NEW q, NEW x, IsSeq(q)
  PROVE  /\ IsSeq(Append(q, x))
         /\ \A k \in DOMAIN Append(q, x) : Append(q, x)[k] = x \/ \E j \in DOMAIN q : Append(q, x)[k] = q[j]
<1>1. PICK S : q \in Seq(S)
  BY DEF IsSeq
<1>2. q \in Seq(S \cup {x})
  BY <1>1
<1>3. Append(q, x) \in Seq(S \cup {x})
  BY <1>2
<1>4. \A k \in DOMAIN Append(q, x) : Append(q, x)[k] = x \/ \E j \in DOMAIN q : Append(q, x)[k] = q[j]
  BY <1>2
<1> QED
  BY <1>3, <1>4 DEF IsSeq

LEMMA TailElements ==
  ASSUME NEW q, IsSeq(q), q # <<>>
  PROVE  /\ IsSeq(Tail(q)) /\ \E j \in DOMAIN q : Head(q) = q[j]
         /\ \A k \in DOMAIN Tail(q) : \E j \in DOMAIN q : Tail(q)[k] = q[j]
<1>1. PICK S : q \in Seq(S)
  BY DEF IsSeq
<1>2. Tail(q) \in Seq(S)
  BY <1>1
<1>3. Len(q) \in Nat /\ Len(q) # 0 /\ DOMAIN q = 1..Len(q) /\ 1 \in DOMAIN q /\ Head(q) = q[1]
  BY <1>1
<1>4. \A k \in DOMAIN Tail(q) : k + 1 \in DOMAIN q /\ Tail(q)[k] = q[k + 1]
  BY <1>1, <1>3
<1> QED
  BY <1>2, <1>3, <1>4 DEF IsSeq

\* What an agent answers, on a datagram socket or a stream.
LEMMA ExchangeElements ==
  ASSUME NEW s \in Sessions, NEW id, NEW r
  PROVE  /\ IsSeq(Exchange(s, id, r))
         /\ \A k \in DOMAIN Exchange(s, id, r) : Exchange(s, id, r)[k].of = s /\ Exchange(s, id, r)[k].id = id
         /\ \A k \in DOMAIN Exchange(s, id, r) : Exchange(s, id, r)[k].route = r
<1>1. PICK w : w = [id |-> id, route |-> r, of |-> s, part |-> "whole"]
  OBVIOUS
<1>2. PICK h, b : h = [w EXCEPT !.part = "head"] /\ b = [w EXCEPT !.part = "body"]
  OBVIOUS
<1>3. /\ w.of = s /\ w.id = id /\ h.of = s /\ h.id = id /\ b.of = s /\ b.id = id
      /\ w.route = r /\ h.route = r /\ b.route = r
  BY <1>1, <1>2
<1>4. Exchange(s, id, r) = IF kind = "stream" THEN <<h, b>> ELSE <<w>>
  BY <1>1, <1>2, Zenon DEF Exchange
<1>5. <<h, b>> \in Seq({h, b}) /\ <<w>> \in Seq({w})
  OBVIOUS
<1>6. CASE kind = "stream"
  <2>1. PICK q : q = <<h, b>> /\ q = Exchange(s, id, r)
    BY <1>4, <1>6
  <2>2. IsSeq(q)
    BY <1>5, <2>1 DEF IsSeq
  <2>3. \A k \in DOMAIN q : q[k] = h \/ q[k] = b
    BY <2>1
  <2> QED
    BY <1>3, <2>1, <2>2, <2>3
<1>7. CASE kind # "stream"
  <2>1. PICK q : q = <<w>> /\ q = Exchange(s, id, r)
    BY <1>4, <1>7
  <2>2. IsSeq(q)
    BY <1>5, <2>1 DEF IsSeq
  <2>3. \A k \in DOMAIN q : q[k] = w
    BY <2>1
  <2> QED
    BY <1>3, <2>1, <2>2, <2>3
<1> QED
  BY <1>6, <1>7

\* An answer with the id of a session's call is that session's, on a shared socket.
Unique(m) ==
    /\ m.id \in Nat \ {0}
    /\ kind = "shared" => m.id < nextId /\ \A v \in Sessions : m.id = call[v].id => m.of = v

\* No answer under way is taken for another's.
MailInv ==
    /\ DOMAIN wire = Sessions /\ DOMAIN inbox = Sessions
    /\ \A s \in Sessions :
         /\ IsSeq(wire[s]) /\ IsSeq(inbox[s])
         /\ \A i \in DOMAIN wire[s] : wire[s][i].of = s /\ Unique(wire[s][i])
         /\ \A i \in DOMAIN inbox[s] : inbox[s][i].of = s /\ Unique(inbox[s][i])
         /\ slot[s].is = "full" => Unique(slot[s].answer)

\* An answer under way stays apart from later requests.
LEMMA UniqueStep ==
  ASSUME CallInv, IdsLast, [Next]_vars, NEW m, Unique(m)
  PROVE  Unique(m)'
<1>0. kind' = kind /\ m.id \in Nat \ {0} /\ nextId \in Nat
  BY SlotStep DEF CallInv, Unique, CallTypes
<1>1. CASE kind # "shared"
  BY <1>0, <1>1 DEF Unique
<1>2. CASE kind = "shared"
  <2>1. nextId < MaxId /\ m.id < nextId /\ \A v \in Sessions : m.id = call[v].id => m.of = v
    BY <1>2 DEF IdsLast, Unique
  <2>2. NextId = nextId + 1
    BY <1>0, <2>1 DEF NextId
  <2>3. CASE UNCHANGED <<call, nextId>>
    BY <1>0, <2>1, <2>3 DEF Unique
  <2>4. ASSUME NEW s \in Sessions, NEW d, CallTurns(s, d) PROVE Unique(m)'
    <3>1. /\ call'[s] = d
          /\ \A t \in Sessions : t # s => call'[t] = call[t]
      BY <2>4 DEF CallTurns, CallInv, CallTypes
    <3>2. \/ d.id = call[s].id /\ nextId' = nextId
          \/ d.id = 0 /\ nextId' = nextId
          \/ d.id = nextId /\ nextId' = nextId + 1
      BY <2>2, <2>4 DEF CallTurns
    <3>3. m.id < nextId'
      BY <1>0, <2>1, <3>2
    <3>4. ASSUME NEW v \in Sessions, m.id = call'[v].id PROVE m.of = v
      BY <1>0, <2>1, <3>1, <3>2, <3>4
    <3> QED
      BY <1>0, <3>3, <3>4 DEF Unique
  <2> QED
    BY <2>3, <2>4, CallStep
<1> QED
  BY <1>1, <1>2

\* An answer to the request that a session is about to send.
LEMMA ExchangeIsUnique ==
  ASSUME CallInv, NEW s \in Sessions, NEW m, call[s].pc = "send", call[s].op \notin OneShot,
         m.id = call[s].id, m.of = s
  PROVE  Unique(m)
<1>1. m.id \in Nat \ {0}
  BY DEF CallInv, CallTypes, OneShot
<1>2. kind = "shared" => m.id < nextId /\ \A v \in Sessions : m.id = call[v].id => v = s
  BY <1>1 DEF CallInv, IdsDiffer
<1> QED
  BY <1>1, <1>2 DEF Unique

\* Where the answers of the next state come from: the agent answers a request that is
\* sent, the network delivers, loses and doubles.
FromWire(s, m) == \E j \in DOMAIN wire[s] : m = wire[s][j]

Answering(s, m) ==
    /\ m.of = s /\ m.id = call[s].id /\ m.route = RoutingId(s, call[s].id)
    /\ call[s].pc = "send" /\ call[s].op \notin OneShot

LEMMA WireStep ==
  ASSUME MailInv, [Next]_vars
  PROVE  /\ DOMAIN wire' = Sessions
         /\ \A s \in Sessions :
              /\ IsSeq(wire'[s])
              /\ \A i \in DOMAIN wire'[s] : FromWire(s, wire'[s][i]) \/ Answering(s, wire'[s][i])
<1> DEFINE Ok(w) == /\ DOMAIN w = Sessions
                    /\ \A s \in Sessions :
                         /\ IsSeq(w[s])
                         /\ \A i \in DOMAIN w[s] : FromWire(s, w[s][i]) \/ Answering(s, w[s][i])
<1>0. DOMAIN wire = Sessions /\ \A s \in Sessions : IsSeq(wire[s])
  BY DEF MailInv
<1>1. CASE UNCHANGED wire
  BY <1>0, <1>1 DEF FromWire
<1>2. ASSUME NEW s \in Sessions, NEW q, IsSeq(q), wire' = [wire EXCEPT ![s] = q],
             \A i \in DOMAIN q : FromWire(s, q[i]) \/ Answering(s, q[i])
      PROVE  Ok(wire')
  <2>1. /\ DOMAIN wire' = Sessions /\ wire'[s] = q
        /\ \A t \in Sessions : t # s => wire'[t] = wire[t]
    BY <1>0, <1>2
  <2>2. \A t \in Sessions : \A i \in DOMAIN wire[t] : FromWire(t, wire[t][i])
    BY DEF FromWire
  <2> QED
    BY <1>0, <1>2, <2>1, <2>2
<1>3. ASSUME NEW s \in Sessions, Send(s) PROVE Ok(wire')
  <2>1. CASE call[s].op \in OneShot
    BY <1>1, <1>3, <2>1 DEF Send
  <2>2. CASE call[s].op \notin OneShot
    <3>1. PICK id, r : id = call[s].id /\ r = RoutingId(s, call[s].id)
      OBVIOUS
    <3>2. PICK p, q : p = wire[s] /\ q = Exchange(s, id, r)
      OBVIOUS
    <3>3. call[s].pc = "send" /\ wire' = [wire EXCEPT ![s] = p \o q]
      BY <1>3, <2>2, <3>1, <3>2 DEF Send
    <3>4. IsSeq(q) /\ \A k \in DOMAIN q : q[k].of = s /\ q[k].id = id /\ q[k].route = r
      BY <3>2, ExchangeElements
    <3>5. /\ IsSeq(p \o q)
          /\ \A k \in DOMAIN (p \o q) :
               (\E j \in DOMAIN p : (p \o q)[k] = p[j]) \/ (\E j \in DOMAIN q : (p \o q)[k] = q[j])
      BY <1>0, <3>2, <3>4, ConcatElements
    <3>6. \A k \in DOMAIN (p \o q) : FromWire(s, (p \o q)[k]) \/ Answering(s, (p \o q)[k])
      <4>1. \A j \in DOMAIN p : FromWire(s, p[j])
        BY <3>2 DEF FromWire
      <4>2. \A j \in DOMAIN q : Answering(s, q[j])
        BY <2>2, <3>1, <3>3, <3>4 DEF Answering
      <4> QED
        BY <3>5, <4>1, <4>2
    <3> QED
      BY <1>2, <3>3, <3>5, <3>6
  <2> QED
    BY <2>1, <2>2
<1>4. ASSUME NEW s \in Sessions, Deliver(s) \/ Lose(s) PROVE Ok(wire')
  <2>1. PICK i \in DOMAIN wire[s] : wire' = [wire EXCEPT ![s] = RemoveAt(wire[s], i)]
    BY <1>4 DEF Deliver, Lose, Deliverable
  <2>2. PICK p, q : p = wire[s] /\ q = RemoveAt(p, i)
    OBVIOUS
  <2>3. IsSeq(q) /\ \A k \in DOMAIN q : \E j \in DOMAIN p : q[k] = p[j]
    BY <1>0, <2>1, <2>2, RemoveAtElements
  <2>4. \A k \in DOMAIN q : FromWire(s, q[k])
    BY <2>2, <2>3 DEF FromWire
  <2> QED
    BY <1>2, <2>1, <2>2, <2>3, <2>4
<1>5. ASSUME NEW s \in Sessions, Duplicate(s) PROVE Ok(wire')
  <2>1. PICK i \in DOMAIN wire[s] : wire' = [wire EXCEPT ![s] = Append(wire[s], wire[s][i])]
    BY <1>5 DEF Duplicate
  <2>2. PICK p, x, q : p = wire[s] /\ x = wire[s][i] /\ q = Append(p, x)
    OBVIOUS
  <2>3. IsSeq(q) /\ \A k \in DOMAIN q : q[k] = x \/ \E j \in DOMAIN p : q[k] = p[j]
    BY <1>0, <2>1, <2>2, AppendElements
  <2>4. \A k \in DOMAIN q : FromWire(s, q[k])
    BY <2>1, <2>2, <2>3 DEF FromWire
  <2> QED
    BY <1>2, <2>1, <2>2, <2>3, <2>4
<1> QED
  <2>1. CASE UNCHANGED vars
    BY <1>1, <2>1 DEF vars
  <2>2. CASE Next
    <3>1. PICK s \in Sessions : (\E op \in Uses[s] : Begin(s, op)) \/ Step(s) \/ TransportFails(s) \/ Network(s)
      BY <2>2 DEF Next
    <3>2. CASE Send(s) \/ Deliver(s) \/ Lose(s) \/ Duplicate(s)
      BY <1>3, <1>4, <1>5, <3>2
    <3>3. CASE (\E op \in Uses[s] : Begin(s, op)) \/ Receives(s)
      <4>1. UNCHANGED wire
        BY <3>3 DEF Begin, Receives, ReceiveUdp, ReceiveShared, ReadHeader, ReadContent, Timeout, TransportFails
      <4> QED
        BY <1>1, <4>1
    <3> QED
      BY <3>1, <3>2, <3>3 DEF Step, Network, Receives
  <2> QED
    BY <2>1, <2>2

LEMMA InboxStep ==
  ASSUME MailInv, [Next]_vars
  PROVE  /\ DOMAIN inbox' = Sessions
         /\ \A s \in Sessions :
              /\ IsSeq(inbox'[s])
              /\ \A i \in DOMAIN inbox'[s] :
                   FromWire(s, inbox'[s][i]) \/ \E j \in DOMAIN inbox[s] : inbox'[s][i] = inbox[s][j]
<1> DEFINE Ok(w) == /\ DOMAIN w = Sessions
                    /\ \A s \in Sessions :
                         /\ IsSeq(w[s])
                         /\ \A i \in DOMAIN w[s] : FromWire(s, w[s][i]) \/ \E j \in DOMAIN inbox[s] : w[s][i] = inbox[s][j]
<1>0. DOMAIN inbox = Sessions /\ \A s \in Sessions : IsSeq(inbox[s])
  BY DEF MailInv
<1>1. CASE UNCHANGED inbox
  BY <1>0, <1>1
<1>2. ASSUME NEW s \in Sessions, NEW q, IsSeq(q), inbox' = [inbox EXCEPT ![s] = q],
             \A i \in DOMAIN q : FromWire(s, q[i]) \/ \E j \in DOMAIN inbox[s] : q[i] = inbox[s][j]
      PROVE  Ok(inbox')
  <2>1. /\ DOMAIN inbox' = Sessions /\ inbox'[s] = q
        /\ \A t \in Sessions : t # s => inbox'[t] = inbox[t]
    BY <1>0, <1>2
  <2> QED
    BY <1>0, <1>2, <2>1
<1>3. ASSUME NEW s \in Sessions, Receives(s) PROVE Ok(inbox')
  <2>1. UNCHANGED inbox \/ (inbox[s] # <<>> /\ inbox' = [inbox EXCEPT ![s] = Tail(inbox[s])])
    BY <1>3 DEF Receives, ReceiveUdp, ReceiveShared, ReadHeader, ReadContent, Timeout, TransportFails
  <2>2. CASE inbox[s] # <<>> /\ inbox' = [inbox EXCEPT ![s] = Tail(inbox[s])]
    <3>1. PICK p, q : p = inbox[s] /\ q = Tail(p)
      OBVIOUS
    <3>2. IsSeq(q) /\ \A k \in DOMAIN q : \E j \in DOMAIN p : q[k] = p[j]
      BY <1>0, <2>2, <3>1, TailElements
    <3> QED
      BY <1>2, <2>2, <3>1, <3>2
  <2> QED
    BY <1>1, <2>1, <2>2
<1>4. ASSUME NEW s \in Sessions, Deliver(s) PROVE Ok(inbox')
  <2>1. PICK i \in DOMAIN wire[s] :
          UNCHANGED inbox \/ inbox' = [inbox EXCEPT ![s] = Append(inbox[s], wire[s][i])]
    BY <1>4 DEF Deliver, Deliverable
  <2>2. CASE inbox' = [inbox EXCEPT ![s] = Append(inbox[s], wire[s][i])]
    <3>1. PICK p, x, q : p = inbox[s] /\ x = wire[s][i] /\ q = Append(p, x)
      OBVIOUS
    <3>2. IsSeq(q) /\ \A k \in DOMAIN q : q[k] = x \/ \E j \in DOMAIN p : q[k] = p[j]
      BY <1>0, <3>1, AppendElements
    <3>3. FromWire(s, x)
      BY <2>1, <3>1 DEF FromWire
    <3>4. \A k \in DOMAIN q : FromWire(s, q[k]) \/ \E j \in DOMAIN inbox[s] : q[k] = inbox[s][j]
      BY <3>1, <3>2, <3>3
    <3>5. inbox' = [inbox EXCEPT ![s] = q]
      BY <2>2, <3>1
    <3> QED
      BY <1>2, <3>2, <3>4, <3>5, Zenon
  <2> QED
    BY <1>1, <2>1, <2>2
<1> QED
  <2>1. CASE UNCHANGED vars
    BY <1>1, <2>1 DEF vars
  <2>2. CASE Next
    <3>1. PICK s \in Sessions : (\E op \in Uses[s] : Begin(s, op)) \/ Step(s) \/ TransportFails(s) \/ Network(s)
      BY <2>2 DEF Next
    <3>2. CASE Receives(s) \/ Deliver(s)
      BY <1>3, <1>4, <3>2
    <3>3. CASE (\E op \in Uses[s] : Begin(s, op)) \/ Send(s) \/ Lose(s) \/ Duplicate(s)
      <4>1. UNCHANGED inbox
        BY <3>3 DEF Begin, Send, Lose, Duplicate
      <4> QED
        BY <1>1, <4>1
    <3> QED
      BY <3>1, <3>2, <3>3 DEF Step, Network, Receives
  <2> QED
    BY <2>1, <2>2

\* A filled slot holds what it held or what the receive task put there.
LEMMA SlotSource ==
  ASSUME CallTypes, MailInv, [Next]_vars, NEW s \in Sessions, slot'[s].is = "full"
  PROVE  \/ slot[s].is = "full" /\ slot'[s].answer = slot[s].answer
         \/ \E t \in Sessions : FromWire(t, slot'[s].answer)
<1>0. DOMAIN slot = Sessions /\ Taken.is # "full" /\ Open.is # "full" /\ Closed.is # "full"
  BY DEF CallTypes, Taken, Open, Closed
<1>1. CASE UNCHANGED slot
  BY <1>1
<1>2. ASSUME NEW u \in Sessions, Send(u) PROVE slot'[s] \in {Open, Closed, slot[s]}
  <2>1. PICK r : r = RoutingId(u, call[u].id)
    OBVIOUS
  <2>2. UNCHANGED slot \/ slot' = [t \in Sessions |->
                  CASE t = u -> Open
                    [] t # u /\ <<r, t>> \in routes /\ call[t].route = r /\ slot[t] = Open -> Closed
                    [] OTHER -> slot[t]]
    BY <1>2, <2>1, Zenon DEF Send, AddRoute
  <2> QED
    BY <2>2
<1>3. ASSUME NEW u \in Sessions, ReceiveShared(u) \/ Timeout(u) PROVE slot'[s] \in {Taken, slot[s]}
  <2>1. UNCHANGED slot \/ slot' = [slot EXCEPT ![u] = Taken]
    BY <1>3 DEF ReceiveShared, Timeout
  <2> QED
    BY <1>0, <2>1
<1>4. ASSUME NEW u \in Sessions, Deliver(u) PROVE slot'[s] = slot[s] \/ FromWire(u, slot'[s].answer)
  <2>1. PICK i \in DOMAIN wire[u] : UNCHANGED slot \/ Dispatch(wire[u][i])
    BY <1>4 DEF Deliver, Deliverable
  <2>2. PICK m : m = wire[u][i]
    OBVIOUS
  <2>3. UNCHANGED slot \/ \E t : slot' = [slot EXCEPT ![t] = [is |-> "full", answer |-> m]]
    BY <2>1, <2>2, Zenon DEF Dispatch
  <2>4. slot'[s] = slot[s] \/ slot'[s] = [is |-> "full", answer |-> m]
    BY <1>0, <2>3
  <2> QED
    BY <2>1, <2>2, <2>4 DEF FromWire
<1> QED
  <2>1. CASE UNCHANGED vars
    BY <1>1, <2>1 DEF vars
  <2>2. CASE Next
    <3>1. PICK u \in Sessions : (\E op \in Uses[u] : Begin(u, op)) \/ Step(u) \/ TransportFails(u) \/ Network(u)
      BY <2>2 DEF Next
    <3>2. CASE Send(u) \/ ReceiveShared(u) \/ Timeout(u) \/ Deliver(u)
      BY <1>0, <1>2, <1>3, <1>4, <3>2
    <3>3. CASE (\E op \in Uses[u] : Begin(u, op)) \/ ReceiveUdp(u) \/ ReadHeader(u) \/ ReadContent(u) \/ TransportFails(u)
               \/ Lose(u) \/ Duplicate(u)
      <4>1. UNCHANGED slot
        BY <3>3 DEF Begin, ReceiveUdp, ReadHeader, ReadContent, TransportFails, Lose, Duplicate
      <4> QED
        BY <1>1, <4>1
    <3> QED
      BY <3>1, <3>2, <3>3 DEF Step, Network
  <2> QED
    BY <2>1, <2>2

LEMMA MailInvStep ==
  ASSUME CallInv, MailInv, IdsLast, [Next]_vars
  PROVE  MailInv'
<1>1. ASSUME NEW s \in Sessions, NEW m, FromWire(s, m) PROVE m.of = s /\ Unique(m)'
  BY <1>1, UniqueStep DEF FromWire, MailInv
<1>2. ASSUME NEW s \in Sessions, NEW m, Answering(s, m) PROVE m.of = s /\ Unique(m)'
  BY <1>2, ExchangeIsUnique, UniqueStep DEF Answering
<1>3. ASSUME NEW s \in Sessions, NEW i \in DOMAIN wire'[s] PROVE wire'[s][i].of = s /\ Unique(wire[s][i])'
  <2>1. PICK m : m = wire'[s][i]
    OBVIOUS
  <2>2. FromWire(s, m) \/ Answering(s, m)
    BY <2>1, WireStep
  <2>3. m.of = s /\ Unique(m)'
    BY <1>1, <1>2, <2>2
  <2> QED
    BY <2>1, <2>3 DEF Unique
<1>4. ASSUME NEW s \in Sessions, NEW i \in DOMAIN inbox'[s] PROVE inbox'[s][i].of = s /\ Unique(inbox[s][i])'
  <2>1. PICK m : m = inbox'[s][i]
    OBVIOUS
  <2>2. FromWire(s, m) \/ \E j \in DOMAIN inbox[s] : m = inbox[s][j]
    BY <2>1, InboxStep
  <2>3. m.of = s /\ Unique(m)'
    BY <1>1, <2>2, UniqueStep DEF MailInv
  <2> QED
    BY <2>1, <2>3 DEF Unique
<1>5. ASSUME NEW s \in Sessions, slot'[s].is = "full" PROVE Unique(slot[s].answer)'
  <2>1. PICK m : m = slot'[s].answer
    OBVIOUS
  <2>2. (slot[s].is = "full" /\ m = slot[s].answer) \/ \E t \in Sessions : FromWire(t, m)
    BY <1>5, <2>1, SlotSource DEF CallInv
  <2>3. Unique(m)'
    BY <1>1, <2>2, UniqueStep DEF MailInv
  <2> QED
    BY <2>1, <2>3 DEF Unique
<1> QED
  BY <1>3, <1>4, <1>5, WireStep, InboxStep DEF MailInv

---------------------------------------------------------------------------
(* An answer that is taken.                                                *)

LEMMA OkIsMineStep ==
  ASSUME CallInv, MailInv, OkIsMine, [Next]_vars
  PROVE  OkIsMine'
<1> DEFINE Good(s, c) == c.result \in {"ok", "snmpError"} => c.answer.of = s /\ c.answer.id = c.id
<1>0. /\ CallTypes /\ DOMAIN call = Sessions
      /\ \A s \in Sessions : IsCall(call[s]) /\ Good(s, call[s]) /\ (call[s].pc # "idle" => call[s].result = "none")
  BY DEF CallInv, CallTypes, OkIsMine
<1>1. CASE UNCHANGED call
  BY <1>1 DEF OkIsMine
<1>2. ASSUME NEW s \in Sessions, NEW d, call' = [call EXCEPT ![s] = d], Good(s, d)
      PROVE  OkIsMine'
  BY <1>0, <1>2 DEF OkIsMine
<1>3. ASSUME NEW s \in Sessions, NEW op, Begin(s, op) PROVE OkIsMine'
  <2>1. PICK d : call' = [call EXCEPT ![s] = d] /\ Begun(s, op, d)
    BY <1>0, <1>3, BeginFields
  <2>2. d.result \notin {"ok", "snmpError"}
    BY <2>1 DEF Begun
  <2> QED
    BY <1>2, <2>1, <2>2
<1>4. ASSUME NEW s \in Sessions, Send(s) PROVE OkIsMine'
  <2>1. PICK c, d : Turned(s, c, d) /\ Sent(s, c, d)
    BY <1>0, <1>4, SendFields
  <2>2. c = call[s] /\ call' = [call EXCEPT ![s] = d]
    BY <2>1 DEF Turned
  <2>3. d.result \notin {"ok", "snmpError"}
    BY <1>0, <2>1, <2>2 DEF Sent
  <2> QED
    BY <1>2, <2>2, <2>3
<1>5. ASSUME NEW s \in Sessions, Receives(s) PROVE OkIsMine'
  <2>1. ASSUME NEW c, NEW d, Turned(s, c, d), Outcome(s, c, d) PROVE OkIsMine'
    <3>1. c = call[s] /\ call' = [call EXCEPT ![s] = d] /\ c.pc # "idle" /\ c.result = "none"
      BY <1>0, <2>1 DEF Turned, Outcome
    <3>2. ASSUME NEW m, Held(s, m), Answered(c, d, m) PROVE Good(s, d)
      <4>1. d.answer = m /\ m.id = c.id /\ d.id = c.id
        BY <3>2 DEF Answered, Same
      <4>2. CASE kind = "shared"
        <5>1. Unique(m)
          BY <3>2, <4>2 DEF Held, MailInv
        <5> QED
          BY <3>1, <4>1, <4>2, <5>1 DEF Unique
      <4>3. CASE kind # "shared"
        <5>1. inbox[s] # <<>> /\ m = Head(inbox[s])
          BY <3>2, <4>3 DEF Held
        <5>2. \E j \in DOMAIN inbox[s] : m = inbox[s][j]
          <6>1. PICK q : q = inbox[s] /\ IsSeq(q)
            BY DEF MailInv
          <6> QED
            BY <5>1, <6>1, TailElements
        <5> QED
          BY <4>1, <5>2 DEF MailInv
      <4> QED
        BY <4>2, <4>3
    <3>3. CASE d.result \notin {"ok", "snmpError"}
      BY <1>2, <3>1, <3>3
    <3>4. CASE d.result \in {"ok", "snmpError"}
      <4>1. PICK m : Held(s, m) /\ Answered(c, d, m)
        BY <2>1, <3>1, <3>4 DEF Outcome, Finished, Failed
      <4>2. Good(s, d)
        BY <3>2, <4>1
      <4> QED
        BY <1>2, <3>1, <4>2
    <3> QED
      BY <3>3, <3>4
  <2> QED
    BY <1>0, <1>1, <1>5, <2>1, ReceiveFields
<1>6. ASSUME NEW s \in Sessions, Duplicate(s) PROVE OkIsMine'
  <2>1. ASSUME NEW c, NEW d, Turned(s, c, d), Counted(c, d) PROVE OkIsMine'
    <3>1. c = call[s] /\ call' = [call EXCEPT ![s] = d]
      BY <2>1 DEF Turned
    <3>2. Good(s, d)
      BY <1>0, <2>1, <3>1 DEF Counted
    <3> QED
      BY <1>2, <3>1, <3>2
  <2> QED
    BY <1>0, <1>1, <1>6, <2>1, DuplicateFields
<1>7. ASSUME NEW s \in Sessions, Deliver(s) \/ Lose(s) PROVE OkIsMine'
  <2>1. UNCHANGED call
    BY <1>7 DEF Deliver, Lose
  <2> QED
    BY <1>1, <2>1
<1> QED
  <2>1. CASE UNCHANGED vars
    BY <1>1, <2>1 DEF vars
  <2>2. CASE Next
    <3> HIDE DEF Good
    <3> QED
      BY <1>3, <1>4, <1>5, <1>6, <1>7, <2>2 DEF Next, Step, Network, Receives
  <2> QED
    BY <2>1, <2>2

\* A call that succeeds returns the answer that its own agent gave to its own request,
\* however answers are lost, doubled, delayed and misrouted: with any number of sessions
\* on one shared socket, as long as no id has been given out twice (Session::request).
THEOREM AnswerIsOwn == Spec /\ []IdsLast => []OkIsMine
<1> DEFINE Inv == CallInv /\ MailInv /\ OkIsMine
<1>1. Init => Inv
  <2> SUFFICES ASSUME Init PROVE Inv
    OBVIOUS
  <2>1. wire = [s \in Sessions |-> <<>>] /\ inbox = wire /\ slot = [s \in Sessions |-> Taken]
    BY DEF Init
  <2>2. Taken.is # "full"
    BY DEF Taken
  <2>3. IsSeq(<<>>) /\ \A i \in DOMAIN <<>> : FALSE
    <3>1. <<>> \in Seq({})
      OBVIOUS
    <3> QED
      BY <3>1 DEF IsSeq
  <2>4. MailInv
    BY <2>1, <2>2, <2>3 DEF MailInv
  <2>5. call = [s \in Sessions |-> NoCall] /\ NoCall.result = "none"
    BY DEF Init, NoCall
  <2>6. OkIsMine
    BY <2>5 DEF OkIsMine
  <2> QED
    BY <2>4, <2>6, CallInvInit
<1>2. Inv /\ IdsLast /\ [Next]_vars => Inv'
  BY CallInvStep, MailInvStep, OkIsMineStep
<1>3. Inv => OkIsMine
  OBVIOUS
<1> QED
  BY <1>1, <1>2, <1>3, PTL DEF Spec

---------------------------------------------------------------------------
(* The routes of the shared socket.                                        *)

Community == \A s \in Sessions : Version[s] # "v3"

\* A community session is routed by its request id, which no other session uses.
LEMMA RouteStep ==
  ASSUME Community, CallInv, WaitingHasRoute, [Next]_vars
  PROVE  WaitingHasRoute'
<1> DEFINE Has(s) == slot[s].is = "full" \/ (slot[s] = Open /\ <<call[s].route, s>> \in routes)
<1>0. /\ CallTypes /\ kind' = kind /\ DOMAIN slot = Sessions /\ DOMAIN call = Sessions
      /\ Taken.is # "full" /\ Open.is # "full" /\ Closed.is # "full"
      /\ \A s \in Sessions : IsCall(call[s]) /\ (call[s].pc = "wait" => call[s].route = call[s].id)
  BY SlotStep DEF CallInv, CallTypes, Community, Taken, Open, Closed
<1>1. CASE UNCHANGED <<slot, routes>> /\ \A t \in Sessions : call'[t].pc = "wait" => call[t].pc = "wait" /\ call'[t].route = call[t].route
  BY <1>0, <1>1 DEF WaitingHasRoute
<1>2. CASE kind # "shared"
  BY <1>0, <1>2 DEF WaitingHasRoute
<1>3. ASSUME NEW s \in Sessions, NEW op, Begin(s, op) PROVE WaitingHasRoute'
  <2>1. PICK d : call' = [call EXCEPT ![s] = d] /\ Begun(s, op, d)
    BY <1>0, <1>3, BeginFields
  <2>2. UNCHANGED <<slot, routes>> /\ d.pc # "wait"
    BY <1>3, <2>1 DEF Begin, Begun
  <2> QED
    BY <1>0, <1>1, <2>1, <2>2
<1>4. ASSUME NEW s \in Sessions, Send(s), kind = "shared" PROVE WaitingHasRoute'
  <2>1. PICK c, d : Turned(s, c, d) /\ Sent(s, c, d)
    BY <1>0, <1>4, SendFields
  <2>2. c = call[s] /\ call'[s] = d /\ \A t \in Sessions : t # s => call'[t] = call[t]
    BY <1>0, <2>1 DEF Turned
  <2>3. PICK r : r = c.id
    OBVIOUS
  <2>4. RoutingId(s, call[s].id) = r
    BY <2>2, <2>3 DEF RoutingId, Community
  <2>5. /\ routes' = {e \in routes : e[1] # r} \cup {<<r, s>>}
        /\ slot' = [t \in Sessions |->
                      CASE t = s -> Open
                        [] t # s /\ <<r, t>> \in routes /\ call[t].route = r /\ slot[t] = Open -> Closed
                        [] OTHER -> slot[t]]
    BY <1>4, <2>4, Zenon DEF Send, AddRoute
  <2>6. ASSUME NEW t \in Sessions, t # s, call'[t].pc = "wait" PROVE Has(t)'
    <3>1. call[t].pc = "wait" /\ call[t].route = call[t].id /\ call'[t] = call[t] /\ Has(t)
      BY <1>0, <1>4, <2>2, <2>6 DEF WaitingHasRoute
    <3>2. call[t].id # 0
      BY <3>1 DEF CallInv, CallTypes, OneShot
    <3>3. call[t].route # r
      BY <1>4, <2>2, <2>3, <2>6, <3>1, <3>2 DEF CallInv, IdsDiffer
    <3>4. slot'[t] = slot[t]
      BY <2>5, <2>6, <3>3
    <3>5. <<call[t].route, t>> \in routes => <<call[t].route, t>> \in routes'
      BY <2>5, <3>3
    <3> QED
      BY <3>1, <3>4, <3>5
  <2>7. ASSUME call'[s].pc = "wait" PROVE Has(s)'
    <3>1. d.route = r
      BY <2>1, <2>2, <2>4, <2>7 DEF Sent
    <3>2. slot'[s] = Open /\ <<r, s>> \in routes'
      BY <2>5
    <3> QED
      BY <2>2, <3>1, <3>2
  <2> QED
    BY <2>6, <2>7 DEF WaitingHasRoute
<1>5. ASSUME NEW s \in Sessions, Receives(s) PROVE WaitingHasRoute'
  <2>1. UNCHANGED routes /\ \A t \in Sessions : t # s => slot'[t] = slot[t]
    BY <1>0, <1>5 DEF Receives, ReceiveUdp, ReceiveShared, ReadHeader, ReadContent, Timeout, TransportFails
  <2>2. ASSUME NEW c, NEW d, Turned(s, c, d), Outcome(s, c, d) PROVE WaitingHasRoute'
    <3>1. call'[s] = d /\ d.pc # "wait" /\ \A t \in Sessions : t # s => call'[t] = call[t]
      BY <1>0, <2>2, OutcomeProperties DEF Turned
    <3> QED
      BY <1>0, <2>1, <3>1 DEF WaitingHasRoute
  <2>3. CASE ReadHeader(s) /\ UNCHANGED call
    BY <1>1, <2>3 DEF ReadHeader
  <2> QED
    BY <1>0, <1>5, <2>2, <2>3, ReceiveFields
<1>6. ASSUME NEW s \in Sessions, Duplicate(s) PROVE WaitingHasRoute'
  <2>1. UNCHANGED <<slot, routes>>
    BY <1>6 DEF Duplicate
  <2>2. ASSUME NEW c, NEW d, Turned(s, c, d), Counted(c, d) PROVE WaitingHasRoute'
    <3>1. /\ call'[s] = d /\ d.pc = call[s].pc /\ d.route = call[s].route
          /\ \A t \in Sessions : t # s => call'[t] = call[t]
      BY <1>0, <2>2 DEF Turned, Counted
    <3> QED
      BY <1>1, <2>1, <3>1
  <2> QED
    BY <1>0, <1>1, <1>6, <2>1, <2>2, DuplicateFields
<1>7. ASSUME NEW s \in Sessions, Deliver(s), kind = "shared" PROVE WaitingHasRoute'
  <2>1. PICK i \in Deliverable(wire[s]) : Dispatch(wire[s][i]) /\ UNCHANGED call
    BY <1>7 DEF Deliver
  <2>2. PICK m : m = wire[s][i]
    OBVIOUS
  <2>3. CASE \E t \in Sessions : <<m.route, t>> \in routes
    <3>1. PICK t \in Sessions : <<m.route, t>> \in routes /\ t = CHOOSE x \in Sessions : <<m.route, x>> \in routes
      BY <2>3
    <3>2. /\ routes' = routes \ {<<m.route, t>>}
          /\ slot' = IF call[t].pc = "wait" /\ call[t].route = m.route /\ slot[t] = Open
                       THEN [slot EXCEPT ![t] = [is |-> "full", answer |-> m]] ELSE slot
      BY <2>1, <2>2, <2>3, <3>1, Zenon DEF Dispatch
    <3>3. ASSUME NEW u \in Sessions, call'[u].pc = "wait" PROVE Has(u)'
      <4>1. call' = call /\ call[u].pc = "wait" /\ Has(u)
        BY <1>7, <2>1, <3>3 DEF WaitingHasRoute
      <4>2. CASE slot[u].is = "full"
        BY <1>0, <3>2, <4>1, <4>2
      <4>3. CASE slot[u] = Open /\ u = t /\ call[u].route = m.route
        <5>1. slot'[u] = [is |-> "full", answer |-> m]
          BY <1>0, <3>2, <4>1, <4>3
        <5> QED
          BY <5>1
      <4>4. CASE slot[u] = Open /\ ~(u = t /\ call[u].route = m.route)
        <5>1. slot'[u] = slot[u]
          BY <1>0, <3>2, <4>4
        <5>2. <<call[u].route, u>> \in routes'
          BY <1>0, <3>2, <4>1, <4>4
        <5> QED
          BY <4>1, <4>4, <5>1, <5>2
      <4> QED
        BY <4>1, <4>2, <4>3, <4>4
    <3> QED
      BY <3>3 DEF WaitingHasRoute
  <2>4. CASE ~\E t \in Sessions : <<m.route, t>> \in routes
    <3>1. UNCHANGED <<routes, slot>>
      BY <2>1, <2>2, <2>4 DEF Dispatch
    <3> QED
      BY <1>1, <2>1, <3>1
  <2> QED
    BY <2>3, <2>4
<1>8. ASSUME NEW s \in Sessions, Lose(s) PROVE WaitingHasRoute'
  BY <1>1, <1>8 DEF Lose
<1> QED
  <2> HIDE DEF Has
  <2>1. CASE UNCHANGED vars
    BY <1>1, <2>1 DEF vars
  <2>2. CASE Next
    BY <1>2, <1>3, <1>4, <1>5, <1>6, <1>7, <1>8, <2>2 DEF Next, Step, Network, Receives
  <2> QED
    BY <2>1, <2>2

LEMMA NoRouteStolenStep ==
  ASSUME CallInv, WaitingHasRoute, NoRouteStolen, [Next]_vars
  PROVE  NoRouteStolen'
<1>0. /\ CallTypes /\ DOMAIN call = Sessions
      /\ \A s \in Sessions : /\ IsCall(call[s]) /\ call[s].result # "closed"
                             /\ call[s].pc # "idle" => call[s].result = "none"
  BY DEF CallInv, CallTypes, NoRouteStolen
<1>1. CASE UNCHANGED call
  BY <1>1 DEF NoRouteStolen
<1>2. ASSUME NEW s \in Sessions, NEW d, call' = [call EXCEPT ![s] = d], d.result # "closed"
      PROVE  NoRouteStolen'
  BY <1>0, <1>2 DEF NoRouteStolen
<1>3. ASSUME NEW s \in Sessions, NEW op, Begin(s, op) PROVE NoRouteStolen'
  <2>1. PICK d : call' = [call EXCEPT ![s] = d] /\ Begun(s, op, d)
    BY <1>0, <1>3, BeginFields
  <2>2. d.result # "closed"
    BY <2>1 DEF Begun
  <2> QED
    BY <1>2, <2>1, <2>2
<1>4. ASSUME NEW s \in Sessions, Send(s) PROVE NoRouteStolen'
  <2>1. PICK c, d : Turned(s, c, d) /\ Sent(s, c, d)
    BY <1>0, <1>4, SendFields
  <2>2. c = call[s] /\ call' = [call EXCEPT ![s] = d]
    BY <2>1 DEF Turned
  <2>3. d.result # "closed"
    BY <1>0, <2>1, <2>2 DEF Sent
  <2> QED
    BY <1>2, <2>2, <2>3
<1>5. ASSUME NEW s \in Sessions, Receives(s) PROVE NoRouteStolen'
  <2>1. ASSUME NEW c, NEW d, Turned(s, c, d), Outcome(s, c, d) PROVE NoRouteStolen'
    <3>1. c = call[s] /\ call' = [call EXCEPT ![s] = d] /\ c.pc # "idle" /\ c.result = "none"
      BY <1>0, <2>1 DEF Turned, Outcome
    <3>2. ~(kind = "shared" /\ c.pc = "wait" /\ slot[s] = Closed)
      <4>1. Closed.is = "closed" /\ Open.is = "open"
        BY DEF Open, Closed
      <4> QED
        BY <3>1, <4>1 DEF WaitingHasRoute
    <3>3. d.result # "closed"
      BY <2>1, <3>1, <3>2 DEF Outcome, Finished, Failed, Answered
    <3> QED
      BY <1>2, <3>1, <3>3
  <2> QED
    BY <1>0, <1>1, <1>5, <2>1, ReceiveFields
<1>6. ASSUME NEW s \in Sessions, Duplicate(s) PROVE NoRouteStolen'
  <2>1. ASSUME NEW c, NEW d, Turned(s, c, d), Counted(c, d) PROVE NoRouteStolen'
    <3>1. c = call[s] /\ call' = [call EXCEPT ![s] = d]
      BY <2>1 DEF Turned
    <3>2. d.result # "closed"
      BY <1>0, <2>1, <3>1 DEF Counted
    <3> QED
      BY <1>2, <3>1, <3>2
  <2> QED
    BY <1>0, <1>1, <1>6, <2>1, DuplicateFields
<1>7. ASSUME NEW s \in Sessions, Deliver(s) \/ Lose(s) PROVE NoRouteStolen'
  <2>1. UNCHANGED call
    BY <1>7 DEF Deliver, Lose
  <2> QED
    BY <1>1, <2>1
<1> QED
  <2>1. CASE UNCHANGED vars
    BY <1>1, <2>1 DEF vars
  <2>2. CASE Next
    BY <1>3, <1>4, <1>5, <1>6, <1>7, <2>2 DEF Next, Step, Network, Receives
  <2> QED
    BY <2>1, <2>2

\* Any number of community sessions share a socket: one that waits has its route there
\* or its answer in the slot (UdpShared::route).
THEOREM RouteIsOwn == Community => (Spec /\ []IdsLast => []WaitingHasRoute)
<1> SUFFICES ASSUME Community PROVE Spec /\ []IdsLast => []WaitingHasRoute
  OBVIOUS
<1> DEFINE Inv == CallInv /\ WaitingHasRoute
<1>1. Init => Inv
  <2>1. Init => WaitingHasRoute
    BY DEF Init, NoCall, WaitingHasRoute
  <2> QED
    BY <2>1, CallInvInit
<1>2. Inv /\ IdsLast /\ [Next]_vars => Inv'
  BY CallInvStep, RouteStep
<1>3. Inv => WaitingHasRoute
  OBVIOUS
<1> QED
  BY <1>1, <1>2, <1>3, PTL DEF Spec

\* No call of a community session ends because another session took its route: what
\* udp_shared.rs promises holds for the protocol versions that are routed by request id.
THEOREM CommunityUndisturbed == Community => (Spec /\ []IdsLast => []NoRouteStolen)
<1> SUFFICES ASSUME Community PROVE Spec /\ []IdsLast => []NoRouteStolen
  OBVIOUS
<1> DEFINE Inv == CallInv /\ WaitingHasRoute /\ NoRouteStolen
<1>1. Init => Inv
  <2>1. Init => WaitingHasRoute /\ NoRouteStolen
    BY DEF Init, NoCall, WaitingHasRoute, NoRouteStolen
  <2> QED
    BY <2>1, CallInvInit
<1>2. Inv /\ IdsLast /\ [Next]_vars => Inv'
  BY CallInvStep, RouteStep, NoRouteStolenStep
<1>3. Inv => NoRouteStolen
  OBVIOUS
<1> QED
  BY <1>1, <1>2, <1>3, PTL DEF Spec

---------------------------------------------------------------------------
(* Queues, position by position.                                           *)

LEMMA QueueLength ==
  ASSUME NEW q, IsSeq(q)
  PROVE  Len(q) \in Nat /\ DOMAIN q = 1..Len(q)
<1>1. PICK S : q \in Seq(S)
  BY DEF IsSeq
<1> QED
  BY <1>1

\* Two queues with the same elements are the same.
LEMMA QueueEqual ==
  ASSUME NEW p, NEW q, IsSeq(p), IsSeq(q), Len(p) = Len(q), \A k \in 1..Len(p) : p[k] = q[k]
  PROVE  p = q
<1>1. PICK A, B : p \in Seq(A) /\ q \in Seq(B)
  BY DEF IsSeq
<1>2. p \in Seq(A \cup B) /\ q \in Seq(A \cup B)
  BY <1>1
<1> QED
  BY <1>2, SeqEqual

\* Removing a position moves the later ones forward.
Shift(k, i) == IF k < i THEN k ELSE k + 1

LEMMA RemoveAtShift ==
  ASSUME NEW q, IsSeq(q), NEW i \in DOMAIN q
  PROVE  /\ IsSeq(RemoveAt(q, i)) /\ Len(RemoveAt(q, i)) = Len(q) - 1
         /\ \A k \in 1..(Len(q) - 1) : Shift(k, i) \in DOMAIN q /\ RemoveAt(q, i)[k] = q[Shift(k, i)]
<1>0. PICK S : q \in Seq(S)
  BY DEF IsSeq
<1>1. Len(q) \in Nat /\ i \in 1..Len(q) /\ DOMAIN q = 1..Len(q)
  BY <1>0
<1> DEFINE a == SubSeq(q, 1, i - 1)
           b == SubSeq(q, i + 1, Len(q))
<1>2. /\ a \in Seq(S) /\ Len(a) = i - 1
      /\ \A k \in 1..(i - 1) : a[k] = q[k]
  BY <1>0, <1>1, SubSeqProperties
<1>3. /\ b \in Seq(S) /\ Len(b) = Len(q) - i
      /\ \A k \in 1..(Len(q) - i) : b[k] = q[i + k]
  BY <1>0, <1>1, SubSeqProperties
<1>4. RemoveAt(q, i) = a \o b
  BY DEF RemoveAt
<1> HIDE DEF a, b
<1>5. /\ a \o b \in Seq(S) /\ Len(a \o b) = Len(a) + Len(b)
      /\ \A k \in 1..(Len(a) + Len(b)) : (a \o b)[k] = IF k <= Len(a) THEN a[k] ELSE b[k - Len(a)]
  BY <1>2, <1>3, ConcatProperties
<1>6. ASSUME NEW k \in 1..(Len(q) - 1) PROVE Shift(k, i) \in DOMAIN q /\ (a \o b)[k] = q[Shift(k, i)]
  <2>1. CASE k < i
    BY <1>1, <1>2, <1>3, <1>5, <2>1 DEF Shift
  <2>2. CASE ~(k < i)
    <3>1. k - (i - 1) \in 1..(Len(q) - i) /\ i + (k - (i - 1)) = k + 1 /\ k + 1 \in 1..Len(q)
      BY <1>1, <2>2
    <3>2. (a \o b)[k] = b[k - (i - 1)]
      BY <1>1, <1>2, <1>3, <1>5, <2>2
    <3>3. b[k - (i - 1)] = q[i + (k - (i - 1))]
      BY <1>3, <3>1
    <3> QED
      BY <1>1, <2>2, <3>1, <3>2, <3>3 DEF Shift
  <2> QED
    BY <2>1, <2>2
<1>7. IsSeq(a \o b) /\ Len(a \o b) = Len(q) - 1
  BY <1>1, <1>2, <1>3, <1>5 DEF IsSeq
<1> QED
  BY <1>4, <1>6, <1>7

LEMMA TailShift ==
  ASSUME NEW q, IsSeq(q), q # <<>>
  PROVE  /\ IsSeq(Tail(q)) /\ Len(Tail(q)) = Len(q) - 1 /\ 1 \in DOMAIN q /\ Head(q) = q[1]
         /\ \A k \in 1..(Len(q) - 1) : Shift(k, 1) \in DOMAIN q /\ Tail(q)[k] = q[Shift(k, 1)]
<1>1. PICK S : q \in Seq(S)
  BY DEF IsSeq
<1>2. Tail(q) \in Seq(S) /\ Len(Tail(q)) = Len(q) - 1
  BY <1>1
<1>3. Len(q) \in Nat /\ Len(q) # 0 /\ DOMAIN q = 1..Len(q) /\ 1 \in DOMAIN q /\ Head(q) = q[1]
  BY <1>1
<1>4. ASSUME NEW k \in 1..(Len(q) - 1) PROVE Shift(k, 1) \in DOMAIN q /\ Tail(q)[k] = q[Shift(k, 1)]
  <2>1. Shift(k, 1) = k + 1 /\ k + 1 \in 1..Len(q)
    BY <1>3 DEF Shift
  <2>2. Tail(q)[k] = q[k + 1]
    BY <1>1, <1>3
  <2> QED
    BY <1>3, <2>1, <2>2
<1> QED
  BY <1>2, <1>3, <1>4 DEF IsSeq

LEMMA ConcatShift ==
  ASSUME NEW p, NEW q, IsSeq(p), IsSeq(q)
  PROVE  /\ IsSeq(p \o q) /\ Len(p \o q) = Len(p) + Len(q)
         /\ \A k \in 1..(Len(p) + Len(q)) : (p \o q)[k] = IF k <= Len(p) THEN p[k] ELSE q[k - Len(p)]
<1>1. PICK A, B : p \in Seq(A) /\ q \in Seq(B)
  BY DEF IsSeq
<1>2. p \in Seq(A \cup B) /\ q \in Seq(A \cup B)
  BY <1>1
<1>3. /\ p \o q \in Seq(A \cup B) /\ Len(p \o q) = Len(p) + Len(q)
      /\ \A k \in 1..(Len(p) + Len(q)) : (p \o q)[k] = IF k <= Len(p) THEN p[k] ELSE q[k - Len(p)]
  BY <1>2, ConcatProperties
<1> QED
  BY <1>3 DEF IsSeq

LEMMA AppendShift ==
  ASSUME NEW q, NEW x, IsSeq(q)
  PROVE  /\ IsSeq(Append(q, x)) /\ Len(Append(q, x)) = Len(q) + 1 /\ Append(q, x)[Len(q) + 1] = x
         /\ \A k \in 1..Len(q) : Append(q, x)[k] = q[k]
<1>1. PICK S : q \in Seq(S)
  BY DEF IsSeq
<1>2. q \in Seq(S \cup {x})
  BY <1>1
<1>3. Append(q, x) \in Seq(S \cup {x})
  BY <1>2
<1>4. Len(Append(q, x)) = Len(q) + 1 /\ Append(q, x)[Len(q) + 1] = x /\ \A k \in 1..Len(q) : Append(q, x)[k] = q[k]
  BY <1>2
<1> QED
  BY <1>3, <1>4 DEF IsSeq

---------------------------------------------------------------------------
(* Answers to something else, counted.                                     *)

Strange(q, id) == {i \in DOMAIN q : q[i].id # id}

Strangers(q, id) == Cardinality(Strange(q, id))

LEMMA StrangersType ==
  ASSUME NEW q, NEW id, IsSeq(q)
  PROVE  IsFiniteSet(Strange(q, id)) /\ Strangers(q, id) \in Nat /\ Strangers(q, id) <= Len(q)
<1>1. Len(q) \in Nat /\ DOMAIN q = 1..Len(q)
  BY QueueLength
<1>2. IsFiniteSet(1..Len(q)) /\ Cardinality(1..Len(q)) = Len(q)
  <2>1. PICK n \in Nat : n = Len(q)
    BY <1>1
  <2>2. IsFiniteSet(1..n) /\ Cardinality(1..n) = IF 1 > n THEN 0 ELSE n - 1 + 1
    BY FS_Interval
  <2>3. Cardinality(1..n) = n
    BY <2>2
  <2> QED
    BY <2>1, <2>2, <2>3
<1>3. Strange(q, id) \in SUBSET (1..Len(q))
  BY <1>1 DEF Strange
<1>4. IsFiniteSet(Strange(q, id)) /\ Cardinality(Strange(q, id)) <= Len(q)
  BY <1>2, <1>3, FS_Subset
<1> QED
  BY <1>4, FS_CardinalityType DEF Strangers

\* Taking an element out takes it out of the count.
LEMMA StrangersRemoved ==
  ASSUME NEW q, NEW r, NEW id, NEW i \in DOMAIN q, IsSeq(q), IsSeq(r), Len(r) = Len(q) - 1,
         \A k \in 1..(Len(q) - 1) : Shift(k, i) \in DOMAIN q /\ r[k] = q[Shift(k, i)]
  PROVE  /\ Strangers(r, id) <= Strangers(q, id)
         /\ q[i].id # id => Strangers(r, id) + 1 <= Strangers(q, id)
<1>1. /\ Len(q) \in Nat /\ DOMAIN q = 1..Len(q) /\ i \in 1..Len(q) /\ DOMAIN r = 1..(Len(q) - 1)
      /\ Strangers(q, id) \in Nat /\ Strangers(r, id) \in Nat /\ IsFiniteSet(Strange(q, id))
  BY QueueLength, StrangersType
<1> DEFINE T == Strange(q, id) \ {i}
           S == Strange(r, id)
           f == [k \in S |-> Shift(k, i)]
<1>2. ASSUME NEW k \in S PROVE Shift(k, i) \in T
  <2>1. k \in 1..(Len(q) - 1) /\ r[k].id # id
    BY <1>1 DEF Strange
  <2>2. Shift(k, i) # i
    BY <1>1, <2>1 DEF Shift
  <2> QED
    BY <2>1, <2>2 DEF Strange
<1>3. ASSUME NEW k \in S, NEW l \in S, Shift(k, i) = Shift(l, i) PROVE k = l
  <2>1. k \in 1..(Len(q) - 1) /\ l \in 1..(Len(q) - 1)
    BY <1>1 DEF Strange
  <2> QED
    BY <1>1, <1>3, <2>1 DEF Shift
<1>4. f \in [S -> T] /\ \A k, l \in S : f[k] = f[l] => k = l
  BY <1>2, <1>3
<1>5. f \in Injection(S, T)
  BY <1>4, Fun_IsInj
<1>6. IsFiniteSet(T) /\ Cardinality(T) = IF i \in Strange(q, id) THEN Strangers(q, id) - 1 ELSE Strangers(q, id)
  BY <1>1, FS_RemoveElement DEF Strangers
<1>7. Cardinality(S) <= Cardinality(T)
  <2> HIDE DEF S, T, f
  <2> QED
    BY <1>5, <1>6, FS_Injection
<1>8. q[i].id # id => i \in Strange(q, id)
  BY DEF Strange
<1>9. Strangers(r, id) = Cardinality(S)
  BY DEF Strangers
<1> HIDE DEF S, T
<1> QED
  BY <1>1, <1>6, <1>7, <1>8, <1>9

\* A new element counts when its id is another.
LEMMA StrangersAppended ==
  ASSUME NEW q, NEW x, NEW id, IsSeq(q)
  PROVE  Strangers(Append(q, x), id) = IF x.id # id THEN Strangers(q, id) + 1 ELSE Strangers(q, id)
<1>1. /\ Len(q) \in Nat /\ DOMAIN q = 1..Len(q) /\ IsFiniteSet(Strange(q, id))
  BY QueueLength, StrangersType
<1> DEFINE p == Append(q, x)
<1>2. /\ IsSeq(p) /\ Len(p) = Len(q) + 1 /\ p[Len(q) + 1] = x
      /\ \A k \in 1..Len(q) : p[k] = q[k]
  BY AppendShift
<1>3. DOMAIN p = 1..(Len(q) + 1)
  BY <1>2, QueueLength
<1> HIDE DEF p
<1>4. \A k \in 1..(Len(q) + 1) : k \in 1..Len(q) \/ k = Len(q) + 1
  BY <1>1
<1>5. Len(q) + 1 \notin Strange(q, id)
  BY <1>1 DEF Strange
<1>6. CASE x.id # id
  <2>1. Strange(p, id) = Strange(q, id) \cup {Len(q) + 1}
    BY <1>1, <1>2, <1>3, <1>4, <1>6 DEF Strange
  <2> QED
    BY <1>1, <1>5, <1>6, <2>1, FS_AddElement DEF Strangers, p
<1>7. CASE ~(x.id # id)
  <2>1. Strange(p, id) = Strange(q, id)
    BY <1>1, <1>2, <1>3, <1>4, <1>7 DEF Strange
  <2> QED
    BY <1>7, <2>1 DEF Strangers, p
<1> QED
  BY <1>6, <1>7

\* Answers to the call itself do not count.
LEMMA StrangersOwn ==
  ASSUME NEW q, NEW p, NEW id, IsSeq(q), IsSeq(p), \A k \in DOMAIN p : p[k].id = id
  PROVE  Strangers(q \o p, id) = Strangers(q, id)
<1>1. Len(q) \in Nat /\ DOMAIN q = 1..Len(q) /\ Len(p) \in Nat /\ DOMAIN p = 1..Len(p)
  BY QueueLength
<1>2. /\ IsSeq(q \o p) /\ Len(q \o p) = Len(q) + Len(p)
      /\ \A k \in 1..(Len(q) + Len(p)) : (q \o p)[k] = IF k <= Len(q) THEN q[k] ELSE p[k - Len(q)]
  BY ConcatShift
<1>3. DOMAIN (q \o p) = 1..(Len(q) + Len(p))
  BY <1>2, QueueLength
<1>4. ASSUME NEW k \in 1..(Len(q) + Len(p)), ~(k <= Len(q)) PROVE (q \o p)[k].id = id
  <2>1. k - Len(q) \in 1..Len(p)
    BY <1>1, <1>4
  <2> QED
    BY <1>1, <1>2, <1>4, <2>1
<1>5. Strange(q \o p, id) = Strange(q, id)
  <2>1. ASSUME NEW k \in Strange(q \o p, id) PROVE k \in Strange(q, id)
    <3>1. k \in 1..(Len(q) + Len(p)) /\ (q \o p)[k].id # id
      BY <1>3 DEF Strange
    <3>2. k <= Len(q)
      BY <1>4, <3>1
    <3> QED
      BY <1>1, <1>2, <3>1, <3>2 DEF Strange
  <2>2. ASSUME NEW k \in Strange(q, id) PROVE k \in Strange(q \o p, id)
    <3>1. k \in 1..Len(q) /\ q[k].id # id
      BY <1>1 DEF Strange
    <3>2. k \in 1..(Len(q) + Len(p)) /\ k <= Len(q)
      BY <1>1, <3>1
    <3> QED
      BY <1>2, <1>3, <3>1, <3>2 DEF Strange
  <2> QED
    BY <2>1, <2>2
<1> QED
  BY <1>5 DEF Strangers
---------------------------------------------------------------------------
(* The frames of a stream.                                                 *)

\* A stream that nobody has lost the place in: headers and contents take turns, and
\* r is the header that has been read already.
Framed(q, r) ==
    /\ \A i \in DOMAIN q :
         /\ q[i].part \in {"head", "body"}
         /\ q[i].part = "head" => i + 1 \in DOMAIN q /\ q[i + 1].part = "body" /\ q[i + 1].id = q[i].id
         /\ q[i].part = "body" /\ i # 1 => q[i - 1].part = "head"
    /\ r = 0 => q = <<>> \/ q[1].part = "head"
    /\ r # 0 => q # <<>> /\ q[1].part = "body" /\ q[1].id = r

\* The octets under way stay the same when the transport delivers some of them.
LEMMA DeliveredStream ==
  ASSUME NEW p, NEW q, IsSeq(p), IsSeq(q), 1 \in DOMAIN q
  PROVE  Append(p, q[1]) \o RemoveAt(q, 1) = p \o q
<1> DEFINE a == Append(p, q[1])
           b == RemoveAt(q, 1)
<1>1. Len(p) \in Nat /\ Len(q) \in Nat /\ Len(q) >= 1 /\ DOMAIN q = 1..Len(q)
  <2>1. Len(p) \in Nat /\ Len(q) \in Nat /\ DOMAIN q = 1..Len(q)
    BY QueueLength
  <2> QED
    BY <2>1
<1>2. IsSeq(a) /\ Len(a) = Len(p) + 1 /\ a[Len(p) + 1] = q[1] /\ \A k \in 1..Len(p) : a[k] = p[k]
  BY AppendShift
<1>3. IsSeq(b) /\ Len(b) = Len(q) - 1 /\ \A k \in 1..(Len(q) - 1) : b[k] = q[Shift(k, 1)]
  BY RemoveAtShift
<1> HIDE DEF a, b
<1>4. /\ IsSeq(a \o b) /\ Len(a \o b) = Len(a) + Len(b)
      /\ \A k \in 1..(Len(a) + Len(b)) : (a \o b)[k] = IF k <= Len(a) THEN a[k] ELSE b[k - Len(a)]
  BY <1>2, <1>3, ConcatShift
<1>5. /\ IsSeq(p \o q) /\ Len(p \o q) = Len(p) + Len(q)
      /\ \A k \in 1..(Len(p) + Len(q)) : (p \o q)[k] = IF k <= Len(p) THEN p[k] ELSE q[k - Len(p)]
  BY ConcatShift
<1>6. Len(a) + Len(b) = Len(p) + Len(q)
  BY <1>1, <1>2, <1>3
<1>7. ASSUME NEW k \in 1..(Len(p) + Len(q)) PROVE (a \o b)[k] = (p \o q)[k]
  <2>1. CASE k <= Len(p)
    BY <1>1, <1>2, <1>4, <1>5, <1>6, <2>1
  <2>2. CASE k = Len(p) + 1
    BY <1>1, <1>2, <1>4, <1>5, <1>6, <2>2
  <2>3. CASE k > Len(p) + 1
    <3>1. k - (Len(p) + 1) \in 1..(Len(q) - 1) /\ Shift(k - (Len(p) + 1), 1) = k - Len(p)
      BY <1>1, <2>3 DEF Shift
    <3>2. (a \o b)[k] = b[k - (Len(p) + 1)]
      BY <1>1, <1>2, <1>4, <1>6, <2>3
    <3>3. b[k - (Len(p) + 1)] = q[k - Len(p)]
      BY <1>3, <3>1
    <3>4. (p \o q)[k] = q[k - Len(p)]
      BY <1>1, <1>5, <2>3
    <3> QED
      BY <3>2, <3>3, <3>4
  <2>4. k <= Len(p) \/ k = Len(p) + 1 \/ k > Len(p) + 1
    BY <1>1
  <2> QED
    BY <2>1, <2>2, <2>3, <2>4
<1>8. a \o b = p \o q
  BY <1>4, <1>5, <1>6, <1>7, QueueEqual
<1> QED
  BY <1>8 DEF a, b

\* A read takes the first octets.
LEMMA ReadStream ==
  ASSUME NEW p, NEW q, IsSeq(p), IsSeq(q), p # <<>>
  PROVE  Tail(p) \o q = Tail(p \o q) /\ p \o q # <<>> /\ Head(p) = (p \o q)[1]
<1> DEFINE a == Tail(p)
           c == p \o q
<1>1. Len(p) \in Nat /\ Len(q) \in Nat /\ DOMAIN p = 1..Len(p)
  BY QueueLength
<1>2. /\ IsSeq(a) /\ Len(a) = Len(p) - 1 /\ 1 \in DOMAIN p /\ Head(p) = p[1]
      /\ \A k \in 1..(Len(p) - 1) : a[k] = p[Shift(k, 1)]
  BY TailShift
<1>3. /\ IsSeq(c) /\ Len(c) = Len(p) + Len(q)
      /\ \A k \in 1..(Len(p) + Len(q)) : c[k] = IF k <= Len(p) THEN p[k] ELSE q[k - Len(p)]
  BY ConcatShift
<1> HIDE DEF a, c
<1>4. Len(p) >= 1 /\ c # <<>> /\ c[1] = p[1]
  BY <1>1, <1>2, <1>3
<1>5. /\ IsSeq(Tail(c)) /\ Len(Tail(c)) = Len(c) - 1
      /\ \A k \in 1..(Len(c) - 1) : Tail(c)[k] = c[Shift(k, 1)]
  BY <1>3, <1>4, TailShift
<1>6. /\ IsSeq(a \o q) /\ Len(a \o q) = Len(a) + Len(q)
      /\ \A k \in 1..(Len(a) + Len(q)) : (a \o q)[k] = IF k <= Len(a) THEN a[k] ELSE q[k - Len(a)]
  BY <1>2, ConcatShift
<1>7. Len(a) + Len(q) = Len(c) - 1
  BY <1>1, <1>2, <1>3
<1>8. ASSUME NEW k \in 1..(Len(c) - 1) PROVE (a \o q)[k] = Tail(c)[k]
  <2>1. Shift(k, 1) = k + 1 /\ k + 1 \in 1..(Len(p) + Len(q)) /\ Tail(c)[k] = c[k + 1]
    BY <1>1, <1>3, <1>5 DEF Shift
  <2>2. CASE k <= Len(p) - 1
    <3>1. k \in 1..(Len(p) - 1) /\ k + 1 <= Len(p) /\ k \in 1..(Len(a) + Len(q)) /\ k <= Len(a)
      BY <1>1, <1>2, <1>7, <2>2
    <3>2. c[k + 1] = p[k + 1]
      BY <1>3, <2>1, <3>1
    <3>3. (a \o q)[k] = a[k] /\ a[k] = p[k + 1]
      BY <1>2, <1>6, <2>1, <3>1
    <3> QED
      BY <2>1, <3>2, <3>3
  <2>3. CASE ~(k <= Len(p) - 1)
    <3>1. c[k + 1] = q[k + 1 - Len(p)]
      BY <1>1, <1>3, <2>1, <2>3
    <3>2. (a \o q)[k] = q[k - (Len(p) - 1)]
      BY <1>1, <1>2, <1>6, <1>7, <2>3
    <3>3. k + 1 - Len(p) = k - (Len(p) - 1)
      BY <1>1
    <3> QED
      BY <2>1, <3>1, <3>2, <3>3
  <2> QED
    BY <2>2, <2>3
<1>9. a \o q = Tail(c)
  BY <1>5, <1>6, <1>7, <1>8, QueueEqual
<1> QED
  BY <1>2, <1>4, <1>9 DEF a, c

\* Sending puts the answer behind what is under way.
LEMMA SentStream ==
  ASSUME NEW p, NEW q, NEW e, IsSeq(p), IsSeq(q), IsSeq(e)
  PROVE  p \o (q \o e) = (p \o q) \o e
<1>1. PICK A, B, C : p \in Seq(A) /\ q \in Seq(B) /\ e \in Seq(C)
  BY DEF IsSeq
<1>2. p \in Seq(A \cup B \cup C) /\ q \in Seq(A \cup B \cup C) /\ e \in Seq(A \cup B \cup C)
  BY <1>1
<1> QED
  BY <1>2, ConcatAssociative

\* After a header its content is next, and after the content another header.
LEMMA FramedTail ==
  ASSUME NEW q, NEW r, IsSeq(q), q # <<>>, Framed(q, r), q[1].id # 0
  PROVE  /\ r = 0 => q[1].part = "head" /\ Framed(Tail(q), q[1].id)
         /\ r # 0 => q[1].part = "body" /\ q[1].id = r /\ Framed(Tail(q), 0)
<1> DEFINE t == Tail(q)
<1>1. Len(q) \in Nat /\ DOMAIN q = 1..Len(q)
  BY QueueLength
<1>2. /\ IsSeq(t) /\ Len(t) = Len(q) - 1 /\ 1 \in DOMAIN q
      /\ \A k \in 1..(Len(q) - 1) : t[k] = q[Shift(k, 1)]
  BY TailShift
<1>3. DOMAIN t = 1..(Len(q) - 1)
  BY <1>2, QueueLength
<1> HIDE DEF t
<1>4. \A k \in 1..(Len(q) - 1) : t[k] = q[k + 1] /\ k + 1 \in 1..Len(q)
  BY <1>1, <1>2 DEF Shift
<1>5. ASSUME NEW k \in DOMAIN t
      PROVE  /\ t[k].part \in {"head", "body"}
             /\ t[k].part = "head" => k + 1 \in DOMAIN t /\ t[k + 1].part = "body" /\ t[k + 1].id = t[k].id
             /\ t[k].part = "body" /\ k # 1 => t[k - 1].part = "head"
  <2>1. k \in 1..(Len(q) - 1) /\ t[k] = q[k + 1] /\ k + 1 \in DOMAIN q /\ k + 1 # 1
    BY <1>1, <1>3, <1>4
  <2>2. /\ q[k + 1].part \in {"head", "body"}
        /\ q[k + 1].part = "head" =>
             (k + 1) + 1 \in DOMAIN q /\ q[(k + 1) + 1].part = "body" /\ q[(k + 1) + 1].id = q[k + 1].id
        /\ q[k + 1].part = "body" => q[(k + 1) - 1].part = "head"
    BY <2>1 DEF Framed
  <2>3. ASSUME (k + 1) + 1 \in DOMAIN q PROVE k + 1 \in DOMAIN t /\ t[k + 1] = q[(k + 1) + 1]
    <3>1. k + 1 \in 1..(Len(q) - 1)
      BY <1>1, <2>1, <2>3
    <3> QED
      BY <1>3, <1>4, <3>1
  <2>4. ASSUME k # 1 PROVE t[k - 1] = q[(k + 1) - 1]
    <3>1. k - 1 \in 1..(Len(q) - 1) /\ (k - 1) + 1 = (k + 1) - 1
      BY <1>1, <2>1, <2>4
    <3> QED
      BY <1>4, <3>1
  <2> QED
    BY <2>1, <2>2, <2>3, <2>4
<1>6. CASE r = 0
  <2>1. q[1].part = "head"
    BY <1>2, <1>6 DEF Framed
  <2>2. 1 + 1 \in DOMAIN q /\ q[1 + 1].part = "body" /\ q[1 + 1].id = q[1].id
    BY <1>2, <2>1 DEF Framed
  <2>3. 1 \in 1..(Len(q) - 1) /\ t[1] = q[1 + 1]
    BY <1>1, <1>4, <2>2
  <2>4. t # <<>>
    BY <1>3, <2>3
  <2> QED
    BY <1>5, <1>6, <2>1, <2>2, <2>3, <2>4 DEF Framed, t
<1>7. CASE r # 0
  <2>1. q[1].part = "body" /\ q[1].id = r
    BY <1>7 DEF Framed
  <2>2. ASSUME t # <<>> PROVE t[1].part = "head"
    <3>1. 1 \in 1..(Len(q) - 1)
      <4>1. Len(q) - 1 # 0
        BY <1>2, <2>2, EmptySeq DEF IsSeq
      <4> QED
        BY <1>1, <1>2, <4>1
    <3>2. t[1] = q[1 + 1] /\ 1 + 1 \in DOMAIN q
      BY <1>1, <1>4, <3>1
    <3>3. q[1 + 1].part = "head" \/ (q[1 + 1].part = "body" /\ q[(1 + 1) - 1].part = "head")
      <4>1. 1 + 1 # 1
        OBVIOUS
      <4>2. PICK i : i = 1 + 1
        OBVIOUS
      <4>3. q[i].part \in {"head", "body"} /\ (q[i].part = "body" /\ i # 1 => q[i - 1].part = "head")
        BY <3>2, <4>2 DEF Framed
      <4> QED
        BY <4>1, <4>2, <4>3
    <3>4. (1 + 1) - 1 = 1
      OBVIOUS
    <3> QED
      BY <2>1, <3>2, <3>3, <3>4
  <2> QED
    BY <1>5, <1>7, <2>1, <2>2 DEF Framed, t
<1> QED
  BY <1>6, <1>7

\* An answer that is put behind a framed stream.
LEMMA FramedSent ==
  ASSUME NEW q, NEW r, NEW h, NEW b, NEW e, IsSeq(q), Framed(q, r), e = <<h, b>>, IsSeq(e),
         h.part = "head", b.part = "body", h.id = b.id
  PROVE  Framed(q \o e, r)
<1> DEFINE c == q \o e
<1>1. Len(q) \in Nat /\ DOMAIN q = 1..Len(q) /\ Len(e) = 2 /\ e[1] = h /\ e[2] = b
  BY QueueLength
<1>2. /\ IsSeq(c) /\ Len(c) = Len(q) + 2
      /\ \A k \in 1..(Len(q) + 2) : c[k] = IF k <= Len(q) THEN q[k] ELSE e[k - Len(q)]
  BY <1>1, ConcatShift
<1>3. DOMAIN c = 1..(Len(q) + 2)
  BY <1>2, QueueLength
<1> HIDE DEF c
<1>4. c[Len(q) + 1] = h /\ c[Len(q) + 2] = b /\ \A k \in 1..Len(q) : c[k] = q[k]
  BY <1>1, <1>2
<1>5. \A k \in 1..(Len(q) + 2) : k \in 1..Len(q) \/ k = Len(q) + 1 \/ k = Len(q) + 2
  BY <1>1
<1>6. ASSUME NEW k \in 1..Len(q)
      PROVE  /\ c[k].part \in {"head", "body"}
             /\ c[k].part = "head" => k + 1 \in DOMAIN c /\ c[k + 1].part = "body" /\ c[k + 1].id = c[k].id
             /\ c[k].part = "body" /\ k # 1 => c[k - 1].part = "head"
  <2>1. /\ q[k].part \in {"head", "body"}
        /\ q[k].part = "head" => k + 1 \in DOMAIN q /\ q[k + 1].part = "body" /\ q[k + 1].id = q[k].id
        /\ q[k].part = "body" /\ k # 1 => q[k - 1].part = "head"
    BY <1>1 DEF Framed
  <2>2. c[k] = q[k] /\ (k + 1 \in 1..Len(q) => c[k + 1] = q[k + 1] /\ k + 1 \in 1..(Len(q) + 2))
    BY <1>1, <1>4
  <2>3. k # 1 => c[k - 1] = q[k - 1]
    BY <1>1, <1>4
  <2> QED
    BY <1>1, <1>3, <2>1, <2>2, <2>3
<1>7. /\ Len(q) + 1 \in DOMAIN c /\ Len(q) + 2 \in DOMAIN c
      /\ (Len(q) + 1) + 1 = Len(q) + 2 /\ (Len(q) + 2) - 1 = Len(q) + 1
  BY <1>1, <1>3
<1>8. ASSUME NEW k \in DOMAIN c
      PROVE  /\ c[k].part \in {"head", "body"}
             /\ c[k].part = "head" => k + 1 \in DOMAIN c /\ c[k + 1].part = "body" /\ c[k + 1].id = c[k].id
             /\ c[k].part = "body" /\ k # 1 => c[k - 1].part = "head"
  <2>1. CASE k \in 1..Len(q)
    BY <1>6, <2>1
  <2>2. CASE k = Len(q) + 1
    BY <1>4, <1>7, <2>2
  <2>3. CASE k = Len(q) + 2
    BY <1>4, <1>7, <2>3
  <2> QED
    BY <1>3, <1>5, <2>1, <2>2, <2>3
<1>9. CASE q = <<>>
  <2>1. Len(q) = 0 /\ r = 0 /\ c[1] = h
    BY <1>4, <1>9 DEF Framed
  <2> QED
    BY <1>8, <2>1 DEF Framed, c
<1>10. CASE q # <<>>
  <2>1. 1 \in 1..Len(q)
    <3>1. 1 \in DOMAIN q
      BY <1>10, TailShift
    <3> QED
      BY <1>1, <3>1
  <2>2. c[1] = q[1] /\ c # <<>>
    BY <1>3, <1>4, <1>7, <2>1
  <2> QED
    BY <1>8, <1>10, <2>2 DEF Framed, c
<1> QED
  BY <1>9, <1>10

---------------------------------------------------------------------------
(* Why calls fail.                                                         *)

\* A call that had no timeout has lost one attempt for each stranger that it met, and
\* those it still may meet were counted when it began or when they were doubled.
Counts(c, w, i) ==
    /\ c.foreign \in Nat /\ c.attempt \in Nat
    /\ c.pc # "idle" /\ ~c.late /\ kind # "shared" =>
         c.attempt + Strangers(w, c.id) + Strangers(i, c.id) <= c.foreign
    /\ c.result \in {"timeout", "mismatch"} /\ ~c.late => c.foreign > Retries

CountInv == \A s \in Sessions : Counts(call[s], wire[s], inbox[s])

\* A stream keeps its frames until a timeout or an error cuts a message.
FrameAt(s) ==
    /\ kind = "stream" /\ ~cut[s] => Framed(inbox[s] \o wire[s], reading[s])
    /\ call[s].result = "garbled" => cut[s]

FrameInv == DOMAIN reading = Sessions /\ DOMAIN cut = Sessions /\ \A s \in Sessions : FrameAt(s)

Still(s) == inbox'[s] = inbox[s] /\ wire'[s] = wire[s] /\ reading'[s] = reading[s] /\ cut'[s] = cut[s]

Arrives(s) ==
    /\ 1 \in DOMAIN wire[s] /\ inbox'[s] = Append(inbox[s], wire[s][1]) /\ wire'[s] = RemoveAt(wire[s], 1)
    /\ reading'[s] = reading[s] /\ cut'[s] = cut[s]

Replies(s) ==
    /\ \E id, r : wire'[s] = wire[s] \o Exchange(s, id, r)
    /\ inbox'[s] = inbox[s] /\ reading'[s] = reading[s] /\ cut'[s] = cut[s]

Consumes(s) ==
    /\ inbox[s] # <<>> /\ inbox'[s] = Tail(inbox[s]) /\ wire'[s] = wire[s] /\ cut'[s] = cut[s]
    /\ reading[s] = 0 /\ Head(inbox[s]).part = "head" => reading'[s] = Head(inbox[s]).id
    /\ reading[s] # 0 => reading'[s] = 0

Drops(s) ==
    /\ inbox'[s] = inbox[s] /\ wire'[s] = wire[s] /\ reading'[s] = 0
    /\ cut[s] => cut'[s]
    /\ cut'[s] \/ (~cut[s] /\ reading[s] = 0)

\* What a step does to the stream of a session.
LEMMA StreamStep ==
  ASSUME MailInv, DOMAIN reading = Sessions, DOMAIN cut = Sessions, kind = "stream", [Next]_vars,
         NEW s \in Sessions
  PROVE  Still(s) \/ Arrives(s) \/ Replies(s) \/ Consumes(s) \/ Drops(s)
<1>0. DOMAIN wire = Sessions /\ DOMAIN inbox = Sessions
  BY DEF MailInv
<1>1. ASSUME UNCHANGED <<wire, inbox, reading, cut>> PROVE Still(s)
  BY <1>1 DEF Still
<1>2. ASSUME NEW u \in Sessions, Send(u) PROVE Still(s) \/ Replies(s)
  <2>1. CASE wire' = wire
    BY <1>2, <2>1 DEF Send, Still
  <2>2. CASE wire' # wire
    <3>1. PICK id, r : wire' = [wire EXCEPT ![u] = wire[u] \o Exchange(u, id, r)] /\ UNCHANGED <<inbox, reading, cut>>
      BY <1>2, <2>2 DEF Send
    <3>2. CASE u = s
      BY <1>0, <3>1, <3>2 DEF Replies
    <3>3. CASE u # s
      BY <1>0, <3>1, <3>3 DEF Still
    <3> QED
      BY <3>2, <3>3
  <2> QED
    BY <2>1, <2>2
<1>3. ASSUME NEW u \in Sessions, Deliver(u) PROVE Still(s) \/ Arrives(s)
  <2>1. PICK i \in Deliverable(wire[u]) :
          /\ wire' = [wire EXCEPT ![u] = RemoveAt(wire[u], i)]
          /\ inbox' = [inbox EXCEPT ![u] = Append(inbox[u], wire[u][i])]
          /\ UNCHANGED <<reading, cut>>
    BY <1>3 DEF Deliver
  <2>2. i = 1 /\ 1 \in DOMAIN wire[u]
    BY <2>1 DEF Deliverable
  <2>3. CASE u = s
    BY <1>0, <2>1, <2>2, <2>3 DEF Arrives
  <2>4. CASE u # s
    BY <1>0, <2>1, <2>4 DEF Still
  <2> QED
    BY <2>3, <2>4
<1>4. ASSUME NEW u \in Sessions, ReadHeader(u) PROVE Still(s) \/ Consumes(s)
  <2>1. /\ reading[u] = 0 /\ inbox[u] # <<>> /\ inbox' = [inbox EXCEPT ![u] = Tail(inbox[u])] /\ UNCHANGED <<wire, cut>>
        /\ \/ reading' = [reading EXCEPT ![u] = IF Head(inbox[u]).part = "head" THEN Head(inbox[u]).id ELSE Garbage]
           \/ Head(inbox[u]).part # "head" /\ UNCHANGED reading
    BY <1>4 DEF ReadHeader
  <2>2. CASE u = s
    BY <1>0, <2>1, <2>2 DEF Consumes
  <2>3. CASE u # s
    BY <1>0, <2>1, <2>3 DEF Still
  <2> QED
    BY <2>2, <2>3
<1>5. ASSUME NEW u \in Sessions, ReadContent(u) PROVE Still(s) \/ Consumes(s)
  <2>1. /\ reading[u] # 0 /\ inbox[u] # <<>> /\ inbox' = [inbox EXCEPT ![u] = Tail(inbox[u])] /\ UNCHANGED <<wire, cut>>
        /\ reading' = [reading EXCEPT ![u] = 0]
    BY <1>5 DEF ReadContent
  <2>2. CASE u = s
    BY <1>0, <2>1, <2>2 DEF Consumes
  <2>3. CASE u # s
    BY <1>0, <2>1, <2>3 DEF Still
  <2> QED
    BY <2>2, <2>3
<1>6. ASSUME NEW u \in Sessions, Timeout(u) \/ TransportFails(u) PROVE Still(s) \/ Drops(s)
  <2>1. PICK w : w = (cut[u] \/ reading[u] # 0)
    OBVIOUS
  <2>2. /\ reading' = [reading EXCEPT ![u] = 0] /\ cut' = [cut EXCEPT ![u] = w] /\ UNCHANGED <<wire, inbox>>
    BY <1>6, <2>1, Zenon DEF Timeout, TransportFails
  <2>3. CASE u = s
    <3>1. cut'[s] = w /\ reading'[s] = 0
      BY <2>2, <2>3
    <3>2. cut[s] => w
      BY <2>1, <2>3, Zenon
    <3>3. w \/ (~cut[s] /\ reading[s] = 0)
      BY <2>1, <2>3, Zenon
    <3> QED
      BY <2>2, <3>1, <3>2, <3>3, Zenon DEF Drops
  <2>4. CASE u # s
    BY <2>2, <2>4 DEF Still
  <2> QED
    BY <2>3, <2>4
<1>7. ASSUME NEW u \in Sessions, (\E op \in Uses[u] : Begin(u, op)) PROVE Still(s)
  <2>1. UNCHANGED <<wire, inbox, reading, cut>>
    BY <1>7 DEF Begin
  <2> QED
    BY <1>1, <2>1
<1>8. ASSUME NEW u \in Sessions PROVE ~ReceiveUdp(u) /\ ~ReceiveShared(u) /\ ~Lose(u) /\ ~Duplicate(u)
  BY DEF ReceiveUdp, ReceiveShared, Lose, Duplicate
<1>9. CASE UNCHANGED vars
  BY <1>1, <1>9 DEF vars
<1> QED
  BY <1>2, <1>3, <1>4, <1>5, <1>6, <1>7, <1>8, <1>9, Zenon DEF Next, Step, Network

\* A call ends garbled only over a stream that has lost its frames.
Garbles(s) ==
    /\ kind = "stream" /\ inbox[s] # <<>>
    /\ \/ reading[s] = 0 /\ Head(inbox[s]).part # "head"
       \/ reading[s] # 0 /\ ~(Head(inbox[s]).part = "body" /\ Head(inbox[s]).id = reading[s])

LEMMA GarbledStep ==
  ASSUME CallTypes, [Next]_vars, NEW s \in Sessions, call'[s].result = "garbled", call[s].result # "garbled"
  PROVE  Garbles(s) /\ UNCHANGED cut
<1>0. DOMAIN call = Sessions /\ IsCall(call[s]) /\ \A u \in Sessions : IsCall(call[u])
  BY DEF CallTypes
<1>1. ASSUME NEW u \in Sessions, NEW c, NEW d, Turned(u, c, d)
      PROVE  u = s /\ d.result = "garbled" /\ c = call[s] /\ c.result # "garbled"
  BY <1>0, <1>1 DEF Turned
<1>2. ASSUME NEW u \in Sessions, NEW m, Take(u, m) PROVE FALSE
  <2>1. PICK c, d : Turned(u, c, d) /\ (Answered(c, d, m) \/ (m.id # c.id /\ Failed(c, d, "mismatch", FALSE)))
    BY <1>0, <1>2, TakeFields
  <2> QED
    BY <1>1, <2>1 DEF Answered, Failed
<1>3. ASSUME NEW u \in Sessions, NEW r, r # "garbled", Finish(u, r) PROVE FALSE
  <2>1. PICK c, d : Turned(u, c, d) /\ Finished(c, d, r)
    BY <1>0, <1>3, FinishFields
  <2> QED
    BY <1>1, <1>3, <2>1 DEF Finished
<1>4. ASSUME NEW u \in Sessions, Finish(u, "garbled") PROVE u = s
  <2>1. PICK c, d : Turned(u, c, d)
    BY <1>0, <1>4, FinishFields
  <2> QED
    BY <1>1, <2>1
<1>5. ASSUME NEW u \in Sessions, (\E op \in Uses[u] : Begin(u, op)) PROVE FALSE
  <2>1. PICK op \in Uses[u] : Begin(u, op)
    BY <1>5
  <2>2. PICK d : call' = [call EXCEPT ![u] = d] /\ Begun(u, op, d)
    BY <1>0, <2>1, BeginFields
  <2> QED
    BY <1>0, <2>2 DEF Begun
<1>6. ASSUME NEW u \in Sessions, Send(u) PROVE FALSE
  <2>1. PICK c, d : Turned(u, c, d) /\ Sent(u, c, d)
    BY <1>0, <1>6, SendFields
  <2> QED
    BY <1>1, <2>1 DEF Sent
<1>7. ASSUME NEW u \in Sessions, Duplicate(u) PROVE FALSE
  <2>1. UNCHANGED call \/ \E c, d : Turned(u, c, d) /\ Counted(c, d)
    BY <1>0, <1>7, DuplicateFields
  <2> QED
    BY <1>1, <2>1 DEF Counted
<1>8. ASSUME NEW u \in Sessions, Deliver(u) \/ Lose(u) PROVE FALSE
  BY <1>8 DEF Deliver, Lose
<1>9. ASSUME NEW u \in Sessions, ReceiveUdp(u) \/ ReceiveShared(u) PROVE FALSE
  <2>1. (\E m : Take(u, m)) \/ Finish(u, "closed")
    BY <1>9 DEF ReceiveUdp, ReceiveShared
  <2> QED
    BY <1>2, <1>3, <2>1
<1>10. ASSUME NEW u \in Sessions, Timeout(u) PROVE FALSE
  <2>1. AttemptFails(u, "timeout", TRUE)
    BY <1>10 DEF Timeout
  <2>2. PICK c, d : Turned(u, c, d) /\ Failed(c, d, "timeout", TRUE)
    BY <1>0, <2>1, AttemptFailsFields
  <2> QED
    BY <1>1, <2>2 DEF Failed
<1>11. ASSUME NEW u \in Sessions, TransportFails(u) PROVE FALSE
  BY <1>3, <1>11 DEF TransportFails
<1>12. ASSUME NEW u \in Sessions, ReadHeader(u) PROVE Garbles(s) /\ UNCHANGED cut
  <2>1. /\ kind = "stream" /\ reading[u] = 0 /\ inbox[u] # <<>> /\ UNCHANGED cut
        /\ UNCHANGED call \/ (Head(inbox[u]).part # "head" /\ Finish(u, "garbled"))
    BY <1>12 DEF ReadHeader
  <2> QED
    BY <1>4, <2>1 DEF Garbles
<1>13. ASSUME NEW u \in Sessions, ReadContent(u) PROVE Garbles(s) /\ UNCHANGED cut
  <2>1. PICK m : m = Head(inbox[u])
    OBVIOUS
  <2>2. /\ kind = "stream" /\ reading[u] # 0 /\ inbox[u] # <<>> /\ UNCHANGED cut
        /\ Take(u, m) \/ (~(m.part = "body" /\ m.id = reading[u]) /\ Finish(u, "garbled"))
    BY <1>13, <2>1 DEF ReadContent
  <2> QED
    BY <1>2, <1>4, <2>1, <2>2 DEF Garbles
<1>14. CASE UNCHANGED vars
  BY <1>14 DEF vars
<1> QED
  BY <1>5, <1>6, <1>7, <1>8, <1>9, <1>10, <1>11, <1>12, <1>13, <1>14, Zenon DEF Next, Step, Network

\* What an error or a timeout cuts stays cut.
LEMMA CutStep ==
  ASSUME DOMAIN reading = Sessions, DOMAIN cut = Sessions, [Next]_vars
  PROVE  /\ DOMAIN reading' = Sessions /\ DOMAIN cut' = Sessions
         /\ \A s \in Sessions : cut[s] => cut'[s]
<1>1. DOMAIN reading' = Sessions
  BY DEF Next, vars, Step, Network, Begin, Send, ReceiveUdp, ReceiveShared, ReadHeader, ReadContent, Timeout,
         TransportFails, Deliver, Lose, Duplicate
<1>2. UNCHANGED cut \/ \E u \in Sessions : cut' = [cut EXCEPT ![u] = (cut[u] \/ reading[u] # 0)]
  BY Zenon
  DEF Next, vars, Step, Network, Begin, Send, ReceiveUdp, ReceiveShared, ReadHeader, ReadContent, Timeout,
      TransportFails, Deliver, Lose, Duplicate
<1>3. CASE UNCHANGED cut
  BY <1>1, <1>3
<1>4. ASSUME NEW u \in Sessions, cut' = [cut EXCEPT ![u] = (cut[u] \/ reading[u] # 0)]
      PROVE  DOMAIN cut' = Sessions /\ \A s \in Sessions : cut[s] => cut'[s]
  <2>1. PICK w : w = (cut[u] \/ reading[u] # 0)
    OBVIOUS
  <2>2. cut[u] => w
    BY <2>1, Zenon
  <2>3. DOMAIN cut' = Sessions /\ cut'[u] = w /\ \A s \in Sessions : s # u => cut'[s] = cut[s]
    BY <1>4, <2>1
  <2> QED
    BY <2>2, <2>3
<1> QED
  BY <1>1, <1>2, <1>3, <1>4

LEMMA FrameInvStep ==
  ASSUME CallTypes, MailInv, FrameInv, [Next]_vars
  PROVE  FrameInv'
<1>0. /\ DOMAIN reading = Sessions /\ DOMAIN cut = Sessions /\ kind' = kind
      /\ DOMAIN reading' = Sessions /\ DOMAIN cut' = Sessions
      /\ \A s \in Sessions : cut[s] => cut'[s]
  BY CutStep, SlotStep DEF FrameInv
<1>1. ASSUME NEW s \in Sessions
      PROVE  /\ IsSeq(inbox[s]) /\ IsSeq(wire[s])
             /\ \A i \in DOMAIN inbox[s] : inbox[s][i].id # 0
  BY DEF MailInv, Unique
<1>2. ASSUME NEW s \in Sessions, call'[s].result = "garbled" PROVE cut'[s]
  <2>1. CASE call[s].result = "garbled"
    BY <1>0, <2>1 DEF FrameInv, FrameAt
  <2>2. CASE call[s].result # "garbled"
    <3>1. Garbles(s) /\ UNCHANGED cut
      BY <1>2, <2>2, GarbledStep
    <3>2. ASSUME ~cut[s] PROVE FALSE
      <4>1. PICK q, r : q = inbox[s] \o wire[s] /\ r = reading[s]
        OBVIOUS
      <4>2. Framed(q, r) /\ q # <<>> /\ Head(inbox[s]) = q[1]
        BY <1>1, <3>1, <3>2, <4>1, ReadStream DEF FrameInv, FrameAt, Garbles
      <4> QED
        BY <3>1, <4>1, <4>2 DEF Framed, Garbles
    <3> QED
      BY <3>1, <3>2
  <2> QED
    BY <2>1, <2>2
<1>3. ASSUME NEW s \in Sessions, kind = "stream", ~cut'[s] PROVE Framed(inbox'[s] \o wire'[s], reading'[s])
  <2>0. PICK i, w, r : i = inbox[s] /\ w = wire[s] /\ r = reading[s]
    OBVIOUS
  <2>1. Framed(i \o w, r) /\ IsSeq(i) /\ IsSeq(w) /\ \A k \in DOMAIN i : i[k].id # 0
    BY <1>0, <1>1, <1>3, <2>0 DEF FrameInv, FrameAt
  <2>2. CASE Still(s)
    BY <2>0, <2>1, <2>2 DEF Still
  <2>3. CASE Arrives(s)
    BY <2>0, <2>1, <2>3, DeliveredStream DEF Arrives
  <2>4. CASE Replies(s)
    <3>1. PICK id, x : wire'[s] = w \o Exchange(s, id, x) /\ inbox'[s] = i /\ reading'[s] = r
      BY <2>0, <2>4 DEF Replies
    <3>2. PICK h, b : /\ h = [id |-> id, route |-> x, of |-> s, part |-> "head"]
                      /\ b = [id |-> id, route |-> x, of |-> s, part |-> "body"]
      OBVIOUS
    <3>3. PICK e : e = Exchange(s, id, x)
      OBVIOUS
    <3>4. e = <<h, b>>
      BY <1>3, <3>2, <3>3 DEF Exchange
    <3>5. IsSeq(e)
      BY <3>3, ExchangeElements
    <3>6. h.part = "head" /\ b.part = "body" /\ h.id = b.id
      BY <3>2
    <3>7. IsSeq(i \o w)
      BY <2>1, ConcatShift
    <3>8. Framed((i \o w) \o e, r)
      BY <2>1, <3>4, <3>5, <3>6, <3>7, FramedSent
    <3>9. i \o (w \o e) = (i \o w) \o e
      BY <2>1, <3>5, SentStream
    <3> QED
      BY <3>1, <3>3, <3>8, <3>9
  <2>5. CASE Consumes(s)
    <3>1. PICK q : q = i \o w
      OBVIOUS
    <3>2. /\ i # <<>> /\ inbox'[s] = Tail(i) /\ wire'[s] = w
          /\ r = 0 /\ Head(i).part = "head" => reading'[s] = Head(i).id
          /\ r # 0 => reading'[s] = 0
      BY <2>0, <2>5 DEF Consumes
    <3>3. Tail(i) \o w = Tail(q) /\ q # <<>> /\ Head(i) = q[1] /\ IsSeq(q)
      BY <2>1, <3>1, <3>2, ReadStream, ConcatShift
    <3>4. q[1].id # 0
      BY <2>1, <3>2, <3>3, TailShift
    <3>5. /\ r = 0 => q[1].part = "head" /\ Framed(Tail(q), q[1].id)
          /\ r # 0 => Framed(Tail(q), 0)
      BY <2>1, <3>1, <3>3, <3>4, FramedTail
    <3> QED
      BY <3>2, <3>3, <3>5
  <2>6. CASE Drops(s)
    BY <1>3, <2>0, <2>1, <2>6 DEF Drops
  <2> QED
    BY <1>0, <1>3, <2>2, <2>3, <2>4, <2>5, <2>6, StreamStep
<1> QED
  BY <1>0, <1>2, <1>3 DEF FrameInv, FrameAt

\* Over a shared socket a community session meets no stranger: it is routed by the
\* request id.
RoutedById == "shared" \in Kinds => Community

MatchInv ==
    /\ kind \in Kinds
    /\ kind = "shared" => \A s \in Sessions :
         /\ \A i \in DOMAIN wire[s] : wire[s][i].route = wire[s][i].id
         /\ call[s].pc = "wait" /\ slot[s].is = "full" => slot[s].answer.id = call[s].id

LEMMA MatchInvStep ==
  ASSUME RoutedById, CallTypes, MailInv, MatchInv, [Next]_vars
  PROVE  MatchInv'
<1>0. /\ kind' = kind /\ kind \in Kinds /\ DOMAIN slot = Sessions /\ DOMAIN call = Sessions
      /\ Taken.is # "full" /\ Open.is # "full" /\ Closed.is # "full"
      /\ \A s \in Sessions : IsCall(call[s])
  BY SlotStep DEF CallTypes, MatchInv, Taken, Open, Closed
<1>1. CASE kind # "shared"
  BY <1>0, <1>1 DEF MatchInv
<1>2. CASE kind = "shared"
  <2>0. Community /\ \A s \in Sessions : call[s].pc = "wait" => call[s].route = call[s].id
    BY <1>0, <1>2 DEF RoutedById, Community, CallTypes
  <2>1. ASSUME NEW s \in Sessions, NEW i \in DOMAIN wire'[s] PROVE wire'[s][i].route = wire'[s][i].id
    <3>1. PICK m : m = wire'[s][i]
      OBVIOUS
    <3>2. FromWire(s, m) \/ Answering(s, m)
      BY <3>1, WireStep
    <3>3. FromWire(s, m) => m.route = m.id
      BY <1>2 DEF FromWire, MatchInv
    <3>4. Answering(s, m) => m.route = m.id
      BY <2>0 DEF Answering, RoutingId, Community
    <3> QED
      BY <3>1, <3>2, <3>3, <3>4
  <2> DEFINE Ok == \A s \in Sessions : call'[s].pc = "wait" /\ slot'[s].is = "full" => slot'[s].answer.id = call'[s].id
  <2>2. ASSUME NEW u \in Sessions, NEW d, call' = [call EXCEPT ![u] = d], d.pc # "wait",
               \A s \in Sessions : s # u => slot'[s] = slot[s]
        PROVE  Ok
    BY <1>0, <1>2, <2>2 DEF MatchInv
  <2>3. ASSUME NEW u \in Sessions, (\E op \in Uses[u] : Begin(u, op)) PROVE Ok
    <3>1. PICK op \in Uses[u] : Begin(u, op)
      BY <2>3
    <3>2. PICK d : call' = [call EXCEPT ![u] = d] /\ Begun(u, op, d)
      BY <1>0, <3>1, BeginFields
    <3>3. UNCHANGED slot /\ d.pc # "wait"
      BY <3>1, <3>2 DEF Begin, Begun
    <3> QED
      BY <2>2, <3>2, <3>3
  <2>4. ASSUME NEW u \in Sessions, Send(u) PROVE Ok
    <3>1. PICK c, d : Turned(u, c, d) /\ Sent(u, c, d)
      BY <1>0, <2>4, SendFields
    <3>2. PICK r : r = RoutingId(u, call[u].id)
      OBVIOUS
    <3>3. slot' = [t \in Sessions |->
                    CASE t = u -> Open
                      [] t # u /\ <<r, t>> \in routes /\ call[t].route = r /\ slot[t] = Open -> Closed
                      [] OTHER -> slot[t]]
      BY <1>2, <2>4, <3>2, Zenon DEF Send, AddRoute
    <3>4. slot'[u] = Open /\ \A s \in Sessions : s # u => slot'[s] \in {Closed, slot[s]}
      BY <3>3
    <3>5. \A s \in Sessions : s # u => call'[s] = call[s]
      BY <1>0, <3>1 DEF Turned
    <3> QED
      BY <1>0, <1>2, <3>4, <3>5 DEF MatchInv
  <2>5. ASSUME NEW u \in Sessions, Receives(u) PROVE Ok
    <3>1. \A s \in Sessions : s # u => slot'[s] = slot[s]
      BY <1>0, <2>5 DEF Receives, ReceiveUdp, ReceiveShared, ReadHeader, ReadContent, Timeout, TransportFails
    <3>2. ASSUME NEW c, NEW d, Turned(u, c, d), Outcome(u, c, d) PROVE Ok
      <4>1. d.pc # "wait" /\ call' = [call EXCEPT ![u] = d]
        BY <3>2, OutcomeProperties DEF Turned
      <4> QED
        BY <2>2, <3>1, <4>1
    <3>3. ~ReadHeader(u)
      BY <1>2 DEF ReadHeader
    <3> QED
      BY <2>5, <3>2, <3>3, ReceiveFields
  <2>6. ASSUME NEW u \in Sessions, Duplicate(u) PROVE Ok
    <3>1. UNCHANGED slot
      BY <2>6 DEF Duplicate
    <3>2. ASSUME NEW c, NEW d, Turned(u, c, d), Counted(c, d) PROVE Ok
      <4>1. /\ call'[u] = d /\ d.pc = call[u].pc /\ d.id = call[u].id
            /\ \A s \in Sessions : s # u => call'[s] = call[s]
        BY <1>0, <3>2 DEF Turned, Counted
      <4> QED
        BY <1>2, <3>1, <4>1 DEF MatchInv
    <3>3. UNCHANGED call \/ \E c, d : Turned(u, c, d) /\ Counted(c, d)
      BY <1>0, <2>6, DuplicateFields
    <3>4. CASE UNCHANGED call
      BY <1>2, <3>1, <3>4 DEF MatchInv
    <3> QED
      BY <3>2, <3>3, <3>4
  <2>7. ASSUME NEW u \in Sessions, Deliver(u) PROVE Ok
    <3>1. PICK i \in DOMAIN wire[u] : Dispatch(wire[u][i]) /\ UNCHANGED call
      BY <1>2, <2>7 DEF Deliver, Deliverable
    <3>2. PICK m : m = wire[u][i] /\ m.route = m.id
      BY <1>2 DEF MatchInv
    <3>3. \/ UNCHANGED slot
          \/ \E t \in Sessions : /\ call[t].pc = "wait" /\ call[t].route = m.route
                                 /\ slot' = [slot EXCEPT ![t] = [is |-> "full", answer |-> m]]
      <4>1. CASE \E t \in Sessions : <<m.route, t>> \in routes
        <5>1. PICK t \in Sessions : t = CHOOSE x \in Sessions : <<m.route, x>> \in routes
          BY <4>1
        <5>2. slot' = IF call[t].pc = "wait" /\ call[t].route = m.route /\ slot[t] = Open
                        THEN [slot EXCEPT ![t] = [is |-> "full", answer |-> m]] ELSE slot
          BY <3>1, <3>2, <4>1, <5>1, Zenon DEF Dispatch
        <5> QED
          BY <5>2
      <4>2. CASE ~\E t \in Sessions : <<m.route, t>> \in routes
        BY <3>1, <3>2, <4>2 DEF Dispatch
      <4> QED
        BY <4>1, <4>2
    <3>4. CASE UNCHANGED slot
      BY <1>2, <3>1, <3>4 DEF MatchInv
    <3>5. ASSUME NEW t \in Sessions, call[t].pc = "wait", call[t].route = m.route,
                 slot' = [slot EXCEPT ![t] = [is |-> "full", answer |-> m]]
          PROVE  Ok
      <4>1. call[t].id = m.id
        BY <2>0, <3>2, <3>5
      <4>2. slot'[t].answer = m /\ \A s \in Sessions : s # t => slot'[s] = slot[s]
        BY <1>0, <3>5
      <4> QED
        BY <1>2, <3>1, <4>1, <4>2 DEF MatchInv
    <3> QED
      BY <3>3, <3>4, <3>5
  <2>8. ASSUME UNCHANGED <<slot, call>> PROVE Ok
    BY <1>2, <2>8 DEF MatchInv
  <2>9. Ok
    <3> HIDE DEF Ok
    <3>1. ASSUME NEW u \in Sessions, Lose(u) PROVE Ok
      BY <2>8, <3>1 DEF Lose
    <3>2. CASE UNCHANGED vars
      BY <2>8, <3>2 DEF vars
    <3> QED
      BY <2>3, <2>4, <2>5, <2>6, <2>7, <3>1, <3>2, Zenon DEF Next, Step, Network, Receives
  <2> QED
    BY <1>0, <2>1, <2>9 DEF MatchInv
<1> QED
  BY <1>1, <1>2

\* A call that fails an attempt: it timed out, or it met a stranger that was counted.
LEMMA FailedCounts ==
  ASSUME NEW c, NEW d, NEW w, NEW i, NEW j, NEW err \in {"timeout", "mismatch"}, NEW late \in BOOLEAN,
         IsSeq(w), IsSeq(i), IsSeq(j), Counts(c, w, i), c.pc # "idle", c.result = "none", Failed(c, d, err, late),
         late \/ (kind # "shared" /\ Strangers(j, c.id) + 1 <= Strangers(i, c.id))
  PROVE  Counts(d, w, j)
<1>0. /\ c.foreign \in Nat /\ c.attempt \in Nat /\ d.foreign = c.foreign /\ d.id = c.id
      /\ c.pc # "idle" /\ ~c.late /\ kind # "shared" =>
           c.attempt + Strangers(w, c.id) + Strangers(i, c.id) <= c.foreign
  BY DEF Counts, Failed, Same
<1>1. Retries \in Nat /\ Strangers(w, c.id) \in Nat /\ Strangers(i, c.id) \in Nat /\ Strangers(j, c.id) \in Nat
  BY StrangersType, SessionAssumption
<1>2. ~d.late => ~c.late /\ ~late
  BY Zenon DEF Failed
<1>3. CASE c.attempt < Retries
  <2>1. d.attempt = c.attempt + 1 /\ d.result = c.result
    BY <1>0, <1>1, <1>3 DEF Failed
  <2>2. ASSUME ~d.late, kind # "shared" PROVE d.attempt + Strangers(w, d.id) + Strangers(j, d.id) <= d.foreign
    BY <1>0, <1>1, <1>2, <2>1, <2>2
  <2> QED
    BY <1>0, <2>1, <2>2 DEF Counts
<1>4. CASE ~(c.attempt < Retries)
  <2>1. d.attempt = c.attempt /\ d.pc = "idle"
    BY <1>0, <1>1, <1>4 DEF Failed
  <2>2. ASSUME ~d.late PROVE d.foreign > Retries
    BY <1>0, <1>1, <1>2, <1>4, <2>2
  <2> QED
    BY <1>0, <2>1, <2>2 DEF Counts
<1> QED
  BY <1>3, <1>4

\* A call that ends otherwise.
LEMMA EndedCounts ==
  ASSUME NEW c, NEW d, NEW w, NEW i, NEW w2, NEW i2, Counts(c, w, i), d.pc = "idle", d.foreign = c.foreign,
         d.attempt = c.attempt, d.result \notin {"timeout", "mismatch"}
  PROVE  Counts(d, w2, i2)
BY DEF Counts

LEMMA CountInvStep ==
  ASSUME CallTypes, MailInv, MatchInv, CountInv, [Next]_vars
  PROVE  CountInv'
<1>0. /\ kind' = kind /\ DOMAIN call = Sessions /\ DOMAIN wire = Sessions /\ DOMAIN inbox = Sessions
      /\ \A s \in Sessions : /\ IsCall(call[s]) /\ IsSeq(wire[s]) /\ IsSeq(inbox[s])
                             /\ Counts(call[s], wire[s], inbox[s])
                             /\ call[s].pc # "idle" => call[s].result = "none"
  BY SlotStep DEF CallTypes, MailInv, CountInv
<1>1. ASSUME NEW u \in Sessions, Counts(call'[u], wire'[u], inbox'[u]),
             \A s \in Sessions : s # u => call'[s] = call[s] /\ wire'[s] = wire[s] /\ inbox'[s] = inbox[s]
      PROVE  CountInv'
  <2>1. ASSUME NEW s \in Sessions PROVE Counts(call'[s], wire'[s], inbox'[s])
    BY <1>0, <1>1
  <2>2. ASSUME NEW c, NEW w, NEW i, Counts(c, w, i) PROVE Counts(c, w, i)'
    BY <1>0, <2>2 DEF Counts, Strangers, Strange
  <2> QED
    BY <1>0, <2>1 DEF CountInv, Counts, Strangers, Strange
<1>2. CASE UNCHANGED <<call, wire, inbox>>
  BY <1>0, <1>2 DEF CountInv, Counts, Strangers, Strange
<1>3. ASSUME NEW u \in Sessions, NEW d, call' = [call EXCEPT ![u] = d], Counts(d, wire'[u], inbox'[u]),
             \A s \in Sessions : s # u => wire'[s] = wire[s] /\ inbox'[s] = inbox[s]
      PROVE  CountInv'
  <2>1. call'[u] = d /\ \A s \in Sessions : s # u => call'[s] = call[s]
    BY <1>0, <1>3
  <2> QED
    BY <1>1, <1>3, <2>1
<1>4. ASSUME NEW u \in Sessions, NEW m, Take(u, m), call[u].pc # "idle", UNCHANGED wire,
             \/ kind = "shared" /\ m.id = call[u].id /\ UNCHANGED inbox
             \/ /\ kind # "shared" /\ inbox[u] # <<>> /\ m = Head(inbox[u])
                /\ inbox' = [inbox EXCEPT ![u] = Tail(inbox[u])]
      PROVE  CountInv'
  <2>1. PICK c, d : Turned(u, c, d) /\ (Answered(c, d, m) \/ (m.id # c.id /\ Failed(c, d, "mismatch", FALSE)))
    BY <1>0, <1>4, TakeFields
  <2>2. c = call[u] /\ call' = [call EXCEPT ![u] = d] /\ \A s \in Sessions : s # u => inbox'[s] = inbox[s]
    BY <1>0, <1>4, <2>1 DEF Turned
  <2>3. CASE Answered(c, d, m)
    <3>1. Counts(d, wire'[u], inbox'[u])
      BY <1>0, <2>2, <2>3, EndedCounts DEF Answered, Same
    <3> QED
      BY <1>3, <1>4, <2>2, <3>1
  <2>4. CASE m.id # c.id /\ Failed(c, d, "mismatch", FALSE)
    <3>1. PICK w, i, j : w = wire[u] /\ i = inbox[u] /\ j = Tail(i)
      OBVIOUS
    <3>2. kind # "shared" /\ i # <<>> /\ m = Head(i) /\ inbox'[u] = j /\ wire'[u] = w
      BY <1>0, <1>4, <2>2, <2>4, <3>1
    <3>3. IsSeq(w) /\ IsSeq(i) /\ Counts(c, w, i) /\ c.pc # "idle" /\ c.result = "none"
      BY <1>0, <1>4, <2>2, <3>1
    <3>4. /\ IsSeq(j) /\ Len(j) = Len(i) - 1 /\ 1 \in DOMAIN i /\ m = i[1]
          /\ \A k \in 1..(Len(i) - 1) : Shift(k, 1) \in DOMAIN i /\ j[k] = i[Shift(k, 1)]
      BY <3>1, <3>2, <3>3, TailShift
    <3>5. Strangers(j, c.id) + 1 <= Strangers(i, c.id)
      BY <2>4, <3>3, <3>4, StrangersRemoved
    <3>6. Counts(d, w, j)
      BY <2>4, <3>2, <3>3, <3>4, <3>5, FailedCounts
    <3> QED
      BY <1>3, <1>4, <2>2, <3>2, <3>6
  <2> QED
    BY <2>1, <2>3, <2>4
<1>5. ASSUME NEW u \in Sessions, NEW r, r \notin {"timeout", "mismatch"}, Finish(u, r), UNCHANGED wire,
             \A s \in Sessions : s # u => inbox'[s] = inbox[s]
      PROVE  CountInv'
  <2>1. PICK c, d : Turned(u, c, d) /\ Finished(c, d, r)
    BY <1>0, <1>5, FinishFields
  <2>2. c = call[u] /\ call' = [call EXCEPT ![u] = d]
    BY <2>1 DEF Turned
  <2>3. Counts(d, wire'[u], inbox'[u])
    BY <1>0, <1>5, <2>1, <2>2, EndedCounts DEF Finished, Same
  <2> QED
    BY <1>3, <1>5, <2>2, <2>3
<1>6. ASSUME NEW u \in Sessions, (\E op \in Uses[u] : Begin(u, op)) PROVE CountInv'
  <2>1. PICK op \in Uses[u] : Begin(u, op)
    BY <1>6
  <2>2. PICK d : call' = [call EXCEPT ![u] = d] /\ Begun(u, op, d)
    BY <1>0, <2>1, BeginFields
  <2>3. UNCHANGED <<wire, inbox>>
    BY <2>1 DEF Begin
  <2>4. PICK w, i : w = wire[u] /\ i = inbox[u] /\ IsSeq(w) /\ IsSeq(i)
    BY <1>0
  <2>5. /\ Strangers(w, d.id) \in Nat /\ Strangers(w, d.id) <= Len(w) /\ Len(w) \in Nat
        /\ Strangers(i, d.id) \in Nat /\ Strangers(i, d.id) <= Len(i) /\ Len(i) \in Nat
    BY <2>4, StrangersType, QueueLength
  <2>6. CASE d.pc = "send" /\ d.foreign = Foreign(u) /\ d.result = "none"
    <3>1. d.foreign = Len(w) + Len(i) /\ d.attempt = 0
      BY <2>2, <2>4, <2>6 DEF Foreign, Begun
    <3>2. d.foreign \in Nat /\ d.attempt + Strangers(w, d.id) + Strangers(i, d.id) <= d.foreign
      BY <2>5, <3>1
    <3>3. Counts(d, w, i)
      BY <2>6, <3>1, <3>2 DEF Counts
    <3> QED
      BY <1>3, <2>2, <2>3, <2>4, <3>3
  <2>7. CASE d.pc = "idle" /\ d.result = "refused"
    <3>1. d.foreign \in Nat /\ d.attempt = 0
      <4>1. Refused(u, op)
        BY <1>0, <2>1, <2>2, <2>7 DEF Begin, NoCall
      <4>2. d = [NoCall EXCEPT !.op = op, !.result = "refused"]
        BY <1>0, <2>1, <2>2, <4>1 DEF Begin
      <4> QED
        BY <4>2 DEF NoCall
    <3>2. Counts(d, w, i)
      BY <2>7, <3>1 DEF Counts
    <3> QED
      BY <1>3, <2>2, <2>3, <2>4, <3>2
  <2> QED
    BY <2>2, <2>6, <2>7 DEF Begun
<1>7. ASSUME NEW u \in Sessions, Send(u) PROVE CountInv'
  <2>1. PICK c, d : Turned(u, c, d) /\ Sent(u, c, d)
    BY <1>0, <1>7, SendFields
  <2>2. c = call[u] /\ call' = [call EXCEPT ![u] = d] /\ UNCHANGED inbox
    BY <1>7, <2>1 DEF Turned, Send
  <2>3. CASE c.op \in OneShot
    <3>1. UNCHANGED wire
      BY <1>7, <2>2, <2>3 DEF Send
    <3>2. Counts(d, wire'[u], inbox'[u])
      BY <1>0, <2>1, <2>2, <2>3, EndedCounts DEF Sent, Same
    <3> QED
      BY <1>3, <2>2, <3>1, <3>2
  <2>4. CASE c.op \notin OneShot
    <3>1. PICK r : r = RoutingId(u, call[u].id)
      OBVIOUS
    <3>2. PICK w, i, e, id : w = wire[u] /\ i = inbox[u] /\ id = c.id /\ e = Exchange(u, id, r)
      OBVIOUS
    <3>3. wire' = [wire EXCEPT ![u] = w \o e]
      BY <1>7, <2>2, <2>4, <3>1, <3>2 DEF Send
    <3>4. IsSeq(e) /\ \A k \in DOMAIN e : e[k].id = id
      BY <3>2, ExchangeElements
    <3>5. Strangers(w \o e, id) = Strangers(w, id)
      BY <1>0, <3>2, <3>4, StrangersOwn
    <3>6. d.id = id /\ d.attempt = c.attempt /\ d.late = c.late /\ d.foreign = c.foreign /\ d.result = c.result /\ c.pc = "send"
      BY <2>1, <2>4, <3>2 DEF Sent, Same
    <3>7. Counts(c, w, i)
      BY <1>0, <2>2, <3>2
    <3>8. Counts(d, w \o e, i)
      BY <3>2, <3>5, <3>6, <3>7 DEF Counts
    <3>9. wire'[u] = w \o e /\ inbox'[u] = i /\ \A s \in Sessions : s # u => wire'[s] = wire[s]
      BY <1>0, <2>2, <3>2, <3>3
    <3> QED
      BY <1>3, <2>2, <3>8, <3>9
  <2> QED
    BY <2>3, <2>4
<1>8. ASSUME NEW u \in Sessions, Timeout(u) PROVE CountInv'
  <2>1. AttemptFails(u, "timeout", TRUE) /\ call[u].pc = "wait" /\ UNCHANGED <<wire, inbox>>
    BY <1>8 DEF Timeout
  <2>2. PICK c, d : Turned(u, c, d) /\ Failed(c, d, "timeout", TRUE)
    BY <1>0, <2>1, AttemptFailsFields
  <2>3. c = call[u] /\ call' = [call EXCEPT ![u] = d]
    BY <2>2 DEF Turned
  <2>4. PICK w, i : w = wire[u] /\ i = inbox[u]
    OBVIOUS
  <2>5. IsSeq(w) /\ IsSeq(i) /\ Counts(c, w, i) /\ c.pc # "idle" /\ c.result = "none"
    BY <1>0, <2>1, <2>3, <2>4
  <2>6. Counts(d, w, i)
    BY <2>2, <2>5, FailedCounts
  <2> QED
    BY <1>3, <2>1, <2>3, <2>4, <2>6
<1>9. ASSUME NEW u \in Sessions, TransportFails(u) PROVE CountInv'
  BY <1>5, <1>9 DEF TransportFails
<1>10. ASSUME NEW u \in Sessions, ReceiveUdp(u) PROVE CountInv'
  <2>1. PICK m : m = Head(inbox[u])
    OBVIOUS
  <2> QED
    BY <1>4, <1>10, <2>1 DEF ReceiveUdp
<1>11. ASSUME NEW u \in Sessions, ReceiveShared(u) PROVE CountInv'
  <2>1. PICK m : m = slot[u].answer
    OBVIOUS
  <2>2. kind = "shared" /\ call[u].pc = "wait" /\ slot[u].is \in {"full", "closed"} /\ UNCHANGED <<wire, inbox>>
    BY <1>11 DEF ReceiveShared
  <2>3. CASE slot[u] = Closed
    BY <1>5, <1>11, <2>2, <2>3 DEF ReceiveShared
  <2>4. CASE slot[u] # Closed
    <3>1. slot[u].is = "full"
      BY <2>2, <2>4 DEF CallTypes, Taken, Open
    <3>2. m.id = call[u].id /\ Take(u, m)
      BY <1>11, <2>1, <2>2, <2>4, <3>1 DEF MatchInv, ReceiveShared
    <3> QED
      BY <1>4, <2>2, <3>2
  <2> QED
    BY <2>3, <2>4
<1>12. ASSUME NEW u \in Sessions, ReadHeader(u) PROVE CountInv'
  <2>1. /\ kind = "stream" /\ inbox[u] # <<>> /\ inbox' = [inbox EXCEPT ![u] = Tail(inbox[u])] /\ UNCHANGED wire
        /\ UNCHANGED call \/ Finish(u, "garbled")
    BY <1>12 DEF ReadHeader
  <2>2. PICK c, w, i, j : c = call[u] /\ w = wire[u] /\ i = inbox[u] /\ j = Tail(i)
    OBVIOUS
  <2>3. IsSeq(w) /\ IsSeq(i) /\ Counts(c, w, i) /\ i # <<>>
    BY <1>0, <2>1, <2>2
  <2>4. /\ IsSeq(j) /\ Len(j) = Len(i) - 1 /\ 1 \in DOMAIN i
        /\ \A k \in 1..(Len(i) - 1) : Shift(k, 1) \in DOMAIN i /\ j[k] = i[Shift(k, 1)]
    BY <2>2, <2>3, TailShift
  <2>5. Strangers(j, c.id) <= Strangers(i, c.id)
    BY <2>3, <2>4, StrangersRemoved
  <2>6. Strangers(j, c.id) \in Nat /\ Strangers(i, c.id) \in Nat /\ Strangers(w, c.id) \in Nat
    BY <2>3, <2>4, StrangersType
  <2>7. Counts(c, w, j)
    BY <2>3, <2>5, <2>6 DEF Counts
  <2>8. wire'[u] = w /\ inbox'[u] = j /\ \A s \in Sessions : s # u => wire'[s] = wire[s] /\ inbox'[s] = inbox[s]
    BY <1>0, <2>1, <2>2
  <2>9. CASE UNCHANGED call
    BY <1>1, <2>2, <2>7, <2>8, <2>9
  <2>10. CASE Finish(u, "garbled")
    BY <1>5, <2>1, <2>8, <2>10
  <2> QED
    BY <2>1, <2>9, <2>10
<1>13. ASSUME NEW u \in Sessions, ReadContent(u) PROVE CountInv'
  <2>1. PICK m : m = Head(inbox[u])
    OBVIOUS
  <2>2. /\ kind = "stream" /\ call[u].pc = "wait" /\ inbox[u] # <<>> /\ UNCHANGED wire
        /\ inbox' = [inbox EXCEPT ![u] = Tail(inbox[u])] /\ (Take(u, m) \/ Finish(u, "garbled"))
    BY <1>13, <2>1 DEF ReadContent
  <2>3. \A s \in Sessions : s # u => inbox'[s] = inbox[s]
    BY <1>0, <2>2
  <2>4. CASE Take(u, m)
    BY <1>4, <2>1, <2>2, <2>4
  <2>5. CASE Finish(u, "garbled")
    BY <1>5, <2>2, <2>3, <2>5
  <2> QED
    BY <2>2, <2>4, <2>5
<1>14. ASSUME NEW u \in Sessions, Deliver(u) \/ Lose(u) PROVE CountInv'
  <2>1. PICK k \in DOMAIN wire[u] :
          /\ wire' = [wire EXCEPT ![u] = RemoveAt(wire[u], k)] /\ UNCHANGED call
          /\ \/ UNCHANGED inbox
             \/ inbox' = [inbox EXCEPT ![u] = Append(inbox[u], wire[u][k])]
    BY <1>14 DEF Deliver, Lose, Deliverable
  <2>2. PICK c, w, i, v, x : c = call[u] /\ w = wire[u] /\ i = inbox[u] /\ v = RemoveAt(w, k) /\ x = w[k]
    OBVIOUS
  <2>3. IsSeq(w) /\ IsSeq(i) /\ Counts(c, w, i) /\ k \in DOMAIN w
    BY <1>0, <2>1, <2>2
  <2>4. /\ IsSeq(v) /\ Len(v) = Len(w) - 1
        /\ \A l \in 1..(Len(w) - 1) : Shift(l, k) \in DOMAIN w /\ v[l] = w[Shift(l, k)]
    BY <2>2, <2>3, RemoveAtShift
  <2>5. /\ Strangers(v, c.id) <= Strangers(w, c.id)
        /\ x.id # c.id => Strangers(v, c.id) + 1 <= Strangers(w, c.id)
    BY <2>2, <2>3, <2>4, StrangersRemoved
  <2>6. Strangers(v, c.id) \in Nat /\ Strangers(i, c.id) \in Nat /\ Strangers(w, c.id) \in Nat
    BY <2>3, <2>4, StrangersType
  <2>7. wire'[u] = v /\ \A s \in Sessions : s # u => wire'[s] = wire[s] /\ inbox'[s] = inbox[s]
    BY <1>0, <2>1, <2>2
  <2>8. CASE UNCHANGED inbox
    <3>1. Counts(c, v, i)
      BY <2>3, <2>5, <2>6 DEF Counts
    <3> QED
      BY <1>1, <2>1, <2>2, <2>7, <2>8, <3>1
  <2>9. CASE inbox' = [inbox EXCEPT ![u] = Append(inbox[u], wire[u][k])]
    <3>1. PICK j : j = Append(i, x)
      OBVIOUS
    <3>2. Strangers(j, c.id) = IF x.id # c.id THEN Strangers(i, c.id) + 1 ELSE Strangers(i, c.id)
      BY <2>3, <3>1, StrangersAppended
    <3>3. Strangers(v, c.id) + Strangers(j, c.id) <= Strangers(w, c.id) + Strangers(i, c.id) /\ Strangers(j, c.id) \in Nat
      BY <2>5, <2>6, <3>2
    <3>4. Counts(c, v, j)
      BY <2>3, <2>6, <3>3 DEF Counts
    <3>5. inbox'[u] = j
      BY <1>0, <2>2, <2>9, <3>1
    <3> QED
      BY <1>1, <2>1, <2>2, <2>7, <3>4, <3>5
  <2> QED
    BY <2>1, <2>8, <2>9
<1>15. ASSUME NEW u \in Sessions, Duplicate(u) PROVE CountInv'
  <2>1. PICK k \in DOMAIN wire[u] :
          /\ wire' = [wire EXCEPT ![u] = Append(wire[u], wire[u][k])] /\ UNCHANGED inbox
          /\ call' = IF wire[u][k].id = call[u].id THEN call ELSE [call EXCEPT ![u].foreign = @ + 1]
    BY <1>15 DEF Duplicate
  <2>2. PICK c, w, i, v, x : c = call[u] /\ w = wire[u] /\ i = inbox[u] /\ x = w[k] /\ v = Append(w, x)
    OBVIOUS
  <2>3. IsSeq(w) /\ IsSeq(i) /\ Counts(c, w, i) /\ IsCall(c)
    BY <1>0, <2>2
  <2>4. Strangers(v, c.id) = IF x.id # c.id THEN Strangers(w, c.id) + 1 ELSE Strangers(w, c.id)
    BY <2>2, <2>3, StrangersAppended
  <2>5. Strangers(i, c.id) \in Nat /\ Strangers(w, c.id) \in Nat
    BY <2>3, StrangersType
  <2>6. wire'[u] = v /\ inbox'[u] = i /\ \A s \in Sessions : s # u => wire'[s] = wire[s] /\ inbox'[s] = inbox[s]
    BY <1>0, <2>1, <2>2
  <2>7. CASE x.id = c.id
    <3>1. Counts(c, v, i)
      BY <2>3, <2>4, <2>7 DEF Counts
    <3>2. UNCHANGED call
      BY <2>1, <2>2, <2>7
    <3> QED
      BY <1>1, <2>2, <2>6, <3>1, <3>2
  <2>8. CASE x.id # c.id
    <3>1. PICK d : d = [c EXCEPT !.foreign = c.foreign + 1]
      OBVIOUS
    <3>2. call' = [call EXCEPT ![u] = d]
      BY <2>1, <2>2, <2>8, <3>1
    <3>3. /\ d.foreign = c.foreign + 1 /\ d.id = c.id /\ d.attempt = c.attempt /\ d.pc = c.pc /\ d.late = c.late
          /\ d.result = c.result
      BY <2>3, <3>1 DEF IsCall, CallFields
    <3>4. Retries \in Nat
      BY SessionAssumption
    <3>5. Counts(d, v, i)
      BY <2>3, <2>4, <2>5, <2>8, <3>3, <3>4 DEF Counts
    <3> QED
      BY <1>3, <2>6, <3>2, <3>5
  <2> QED
    BY <2>7, <2>8
<1>16. CASE UNCHANGED vars
  BY <1>2, <1>16 DEF vars
<1> QED
  BY <1>6, <1>7, <1>8, <1>9, <1>10, <1>11, <1>12, <1>13, <1>14, <1>15, <1>16, Zenon DEF Next, Step, Network

\* A call fails for a reason: without a timeout it runs out of attempts only when more
\* foreign answers than retries were under way to its socket, and a stream is misframed
\* only after a message was cut (community.rs, Session::request).  For any number of
\* sessions, retries and duplicates; the v3 sessions that a shared socket mixes up are
\* left out.
THEOREM FailuresAreExplained == RoutedById => (Spec /\ []IdsLast => []FailureHasCause)
<1> SUFFICES ASSUME RoutedById PROVE Spec /\ []IdsLast => []FailureHasCause
  OBVIOUS
<1> DEFINE Inv == CallInv /\ MailInv /\ MatchInv /\ FrameInv /\ CountInv
<1>1. Init => Inv
  <2> SUFFICES ASSUME Init PROVE Inv
    OBVIOUS
  <2>1. /\ wire = [s \in Sessions |-> <<>>] /\ inbox = wire /\ slot = [s \in Sessions |-> Taken] /\ kind \in Kinds
        /\ call = [s \in Sessions |-> NoCall] /\ reading = [s \in Sessions |-> 0] /\ cut = [s \in Sessions |-> FALSE]
    BY DEF Init
  <2>2. Taken.is # "full" /\ NoCall.result = "none" /\ NoCall.pc = "idle" /\ NoCall.foreign = 0 /\ NoCall.attempt = 0
    BY DEF Taken, NoCall
  <2>3. IsSeq(<<>>) /\ \A i \in DOMAIN <<>> : FALSE
    <3>1. <<>> \in Seq({})
      OBVIOUS
    <3> QED
      BY <3>1 DEF IsSeq
  <2>4. MailInv
    BY <2>1, <2>2, <2>3 DEF MailInv
  <2>5. MatchInv
    BY <2>1, <2>2, <2>3 DEF MatchInv
  <2>6. FrameInv
    <3>1. <<>> \o <<>> = <<>>
      OBVIOUS
    <3>2. Framed(<<>>, 0)
      BY <2>3 DEF Framed
    <3>3. \A s \in Sessions : inbox[s] \o wire[s] = <<>> /\ reading[s] = 0 /\ call[s].result # "garbled"
      BY <2>1, <2>2, <3>1
    <3> QED
      BY <2>1, <3>2, <3>3 DEF FrameInv, FrameAt
  <2>7. CountInv
    BY <2>1, <2>2 DEF CountInv, Counts
  <2> QED
    BY <2>4, <2>5, <2>6, <2>7, CallInvInit
<1>2. Inv /\ IdsLast /\ [Next]_vars => Inv'
  BY CallInvStep, MailInvStep, MatchInvStep, FrameInvStep, CountInvStep DEF CallInv
<1>3. Inv => FailureHasCause
  BY DEF FrameInv, FrameAt, CountInv, Counts, FailureHasCause
<1> QED
  BY <1>1, <1>2, <1>3, PTL DEF Spec
=============================================================================
