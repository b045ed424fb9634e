--------------------------- MODULE RequestsProofs ---------------------------
(***************************************************************************)
(* Proofs about Requests, for any number of calls, devices and clusters,   *)
(* any width of the sequence number and any length of the queue.           *)
(***************************************************************************)
EXTENDS Requests, TLAPS

\* A call is in the channel exactly while it is queued (or was given up
\* there), at most once, and no entry waits for it yet.
QueueInv ==
  /\ \A i \in DOMAIN queue : status[queue[i]] \in {"queued", "gone"} /\ request[queue[i]] \in Target
  /\ \A i, j \in DOMAIN queue : queue[i] = queue[j] => i = j
  /\ \A c \in Call : status[c] = "queued" => \E i \in DOMAIN queue : queue[i] = c
  /\ \A i \in DOMAIN queue, k \in Key : pending[k] # queue[i]
  /\ phase = "stopped" => queue = <<>>

\* A call is in the ledgers exactly while it waits (or was given up there),
\* under one key, which is the number of the frame sent for it.
LedgerInv ==
  /\ \A k \in Key : pending[k] # None => status[pending[k]] \in {"waiting", "gone"}
  /\ \A k, l \in Key : pending[k] # None /\ pending[k] = pending[l] => k = l
  /\ \A c \in Call : status[c] = "waiting" => \E k \in Key : pending[k] = c
  /\ \A k \in Key : pending[k] # None => \E f \in FramesOf(pending[k]) : Entry(f, f.seq) = k
  /\ phase # "running" => \A k \in Key : pending[k] = None

IInv == TypeOK /\ QueueInv /\ LedgerInv /\ AnswersAreOwn /\ StoppedOnlyWhenStopped

LEMMA InitIInv == Init => IInv
<1> SUFFICES ASSUME Init PROVE IInv
  OBVIOUS
<1> USE NoneIsNoCall, SeqModPositive, CoordinatorIsADevice DEF Init
<1>1. TypeOK
  BY DEF TypeOK, Space, Sequence
<1>2. QueueInv
  BY DEF QueueInv
<1>3. LedgerInv
  BY DEF LedgerInv
<1>4. AnswersAreOwn /\ StoppedOnlyWhenStopped
  BY DEF AnswersAreOwn, StoppedOnlyWhenStopped
<1> QED BY <1>1, <1>2, <1>3, <1>4 DEF IInv

\* What a number taken for a target is, and the frame that carries it.
LEMMA NumbersFit ==
  ASSUME TypeOK, NEW t \in Target, NEW c \in Call \cup {None}
  PROVE  /\ Sequences(t.space).onAir \in Sequence
         /\ Sequences(t.space).waitedOn = Sequences(t.space).onAir
         /\ Entry(t, Sequences(t.space).onAir) \in Key
         /\ [space |-> t.space, dev |-> t.dev, cluster |-> t.cluster,
             seq |-> Sequences(t.space).onAir, call |-> c] \in Frame
<1>1. seq[t.space] \in Nat
  BY DEF TypeOK, Target, Sequence
<1>2. (seq[t.space] + 1) % SeqMod \in Sequence
  BY <1>1, SeqModPositive DEF Sequence
<1> QED BY <1>2 DEF Sequences, Entry, Key, Target, Frame

\* What becomes of the oldest request c, for target t: frame f carries it.
OwnFrame(c, t) ==
  [space |-> t.space, dev |-> t.dev, cluster |-> t.cluster,
   seq |-> Sequences(t.space).onAir, call |-> c]

Refused(c) == Settle(c, "unknown") /\ UNCHANGED <<seq, pending, sent, heard>>

Sent(t, f) ==
  /\ seq' = [seq EXCEPT ![t.space] = f.seq]
  /\ sent' = sent \cup {f}
  /\ f \in Frame

AnsweredInLine(c, f) ==
  /\ Settle(c, "response")
  /\ heard' = [heard EXCEPT ![c] = [frame |-> f, kind |-> "answer"]]
  /\ UNCHANGED pending

Taken(c, f) ==
  /\ status' = [d \in Call |-> IF d = c THEN Settled(c, "waiting")
                               ELSE IF d = pending[Entry(f, f.seq)] THEN Settled(d, "stopped")
                               ELSE status[d]]
  /\ Entry(f, f.seq) \in Key
  /\ pending' = [pending EXCEPT ![Entry(f, f.seq)] = c]
  /\ UNCHANGED heard

Failed(c) == Settle(c, "failed") /\ UNCHANGED <<pending, heard>>

SendStep(c, t, f) ==
  /\ phase = "running" /\ phase' = phase
  /\ queue # <<>> /\ c = queue[1] /\ queue' = Tail(queue)
  /\ UNCHANGED <<request, late, known>>
  /\ f.call = c
  /\ \/ Refused(c)
     \/ Sent(t, f) /\ (AnsweredInLine(c, f) \/ Taken(c, f) \/ Failed(c))

LEMMA SendSettles ==
  ASSUME IInv, Send
  PROVE  \E c \in Call, t \in Target, f \in Frame : SendStep(c, t, f)
<1> DEFINE c == queue[1]
           t == request[c]
           f == OwnFrame(c, t)
<1>1. queue \in Seq(Call) /\ queue # <<>> /\ 1 \in DOMAIN queue /\ c \in Call /\ Head(queue) = c
  <2>1. queue \in Seq(Call) /\ queue # <<>>
    BY DEF IInv, TypeOK, Send
  <2> QED BY <2>1
<1>2. t \in Target
  BY <1>1 DEF IInv, QueueInv
<1>3. /\ Sequences(t.space).waitedOn = f.seq /\ Sequences(t.space).onAir = f.seq
      /\ Entry(t, f.seq) \in Key /\ Entry(f, f.seq) = Entry(t, f.seq)
      /\ f \in Frame /\ f.call = c
  BY <1>1, <1>2, NumbersFit DEF IInv, OwnFrame, Entry
<1>4. f = [space |-> t.space, dev |-> t.dev, cluster |-> t.cluster, seq |-> f.seq, call |-> c]
  BY DEF OwnFrame
<1> HIDE DEF c, f, t
<1>5. c = queue[1] /\ t = request[c]
  BY DEF c, t
<1>7. Refused(c) \/ (Sent(t, f) /\ (AnsweredInLine(c, f) \/ Taken(c, f) \/ Failed(c)))
  BY <1>1, <1>3, <1>4, <1>5 DEF Send, Refused, Sent, AnsweredInLine, Taken, Failed, Transmit
<1>8. SendStep(c, t, f)
  BY <1>1, <1>3, <1>5, <1>7 DEF SendStep, Send
<1> QED BY <1>1, <1>2, <1>3, <1>8

LEMMA TypeStep == IInv /\ [Next]_vars => TypeOK'
<1> SUFFICES ASSUME IInv, [Next]_vars PROVE TypeOK'
  OBVIOUS
<1> USE NoneIsNoCall DEF IInv, TypeOK, Outcome, Answer
<1>1. ASSUME NEW c \in Call, Ask(c) PROVE TypeOK'
  BY <1>1 DEF Ask
<1>2. ASSUME NEW c \in Call, AskStopped(c) PROVE TypeOK'
  BY <1>2 DEF AskStopped
<1>3. ASSUME NEW c \in Call, GiveUp(c) PROVE TypeOK'
  BY <1>3 DEF GiveUp
<1>4. ASSUME NEW c \in Call, Deadline(c) PROVE TypeOK'
  BY <1>4 DEF Deadline
<1>5. CASE Send
  <2>1. PICK c \in Call, t \in Target, f \in Frame : SendStep(c, t, f)
    BY <1>5, SendSettles
  <2>2. queue' \in Seq(Call)
    BY <2>1 DEF SendStep
  <2>3. CASE Refused(c)
    BY <2>1, <2>2, <2>3 DEF SendStep, Refused, Settle, Settled
  <2>4. CASE Sent(t, f) /\ (AnsweredInLine(c, f) \/ Taken(c, f) \/ Failed(c))
    <3>1. seq' \in [Space -> Sequence] /\ sent' \subseteq Frame
      BY <2>4 DEF Sent, Frame
    <3>2. CASE AnsweredInLine(c, f)
      BY <2>1, <2>2, <3>1, <3>2 DEF SendStep, AnsweredInLine, Settle, Settled
    <3>3. CASE Taken(c, f)
      BY <2>1, <2>2, <3>1, <3>3 DEF SendStep, Taken, Settled
    <3>4. CASE Failed(c)
      BY <2>1, <2>2, <3>1, <3>4 DEF SendStep, Failed, Settle, Settled
    <3> QED BY <2>4, <3>2, <3>3, <3>4
  <2> QED BY <2>1, <2>3, <2>4 DEF SendStep
<1>6. ASSUME NEW t \in Target, SendOther(t) PROVE TypeOK'
  <2>1. Sequences(t.space).waitedOn \in Sequence /\ OwnFrame(None, t) \in Frame
    BY NumbersFit DEF OwnFrame
  <2> QED BY <1>6, <2>1 DEF SendOther, Transmit, OwnFrame
<1>7. ASSUME NEW d \in Device, Probe(d) PROVE TypeOK'
  <2>1. [space |-> "zcl", dev |-> d, cluster |-> Basic, seq |-> 0, call |-> None] \in Frame
    BY BasicIsACluster, SeqModPositive DEF Frame, Space, Sequence
  <2> QED BY <1>7, <2>1 DEF Probe, Transmit
<1>8. ASSUME NEW d \in Device, DeviceKnown(d) PROVE TypeOK'
  BY <1>8 DEF DeviceKnown
<1>9. ASSUME NEW f \in sent, NEW kind \in Answer, Receive(f, kind) PROVE TypeOK'
  <2>1. f \in Frame /\ Entry(f, f.seq) \in Key
    BY DEF Frame, Entry, Key
  <2> QED BY <1>9, <2>1 DEF Receive, Settle, Settled
<1>10. CASE Expire
  BY <1>10 DEF Expire, SettleAll, Settled
<1>11. CASE Shutdown
  BY <1>11 DEF Shutdown, SettleAll, Settled
<1>12. CASE TaskEnds
  BY <1>12 DEF TaskEnds, SettleAll, Settled
<1>13. CASE UNCHANGED vars
  BY <1>13 DEF vars
<1> QED BY <1>1, <1>2, <1>3, <1>4, <1>5, <1>6, <1>7, <1>8, <1>9, <1>10, <1>11, <1>12, <1>13 DEF Next

LEMMA QueueStep == IInv /\ [Next]_vars => QueueInv'
<1> SUFFICES ASSUME IInv, [Next]_vars PROVE QueueInv'
  OBVIOUS
<1>0. /\ QueueInv /\ LedgerInv /\ None \notin Call
      /\ queue \in Seq(Call) /\ status \in [Call -> {"new", "queued", "waiting", "gone"} \cup Outcome]
      /\ request \in [Call -> Target \cup {None}] /\ pending \in [Key -> Call \cup {None}]
  BY NoneIsNoCall DEF IInv, TypeOK
<1> USE <1>0 DEF Outcome
<1>1. ASSUME NEW c \in Call, Ask(c) PROVE QueueInv'
  <2>1. \A i \in DOMAIN queue : queue[i] # c
    BY <1>1 DEF QueueInv, Ask
  <2>2. \A k \in Key : pending[k] # c
    BY <1>1 DEF LedgerInv, Ask
  <2>3. /\ DOMAIN queue' = DOMAIN queue \cup {Len(queue) + 1}
        /\ \A i \in DOMAIN queue : queue'[i] = queue[i]
        /\ queue'[Len(queue) + 1] = c
    BY <1>1 DEF Ask
  <2>4. /\ request'[c] \in Target /\ status'[c] = "queued" /\ phase # "stopped" /\ phase' = phase
        /\ pending' = pending
        /\ \A d \in Call \ {c} : request'[d] = request[d] /\ status'[d] = status[d]
    BY <1>1 DEF Ask
  <2>5. \A i \in DOMAIN queue : queue[i] \in Call
    OBVIOUS
  <2> HIDE <1>0
  <2>6. QueueInv
    BY <1>0
  <2> QED BY <2>1, <2>2, <2>3, <2>4, <2>5, <2>6 DEF QueueInv
<1>2. ASSUME NEW c \in Call, AskStopped(c) PROVE QueueInv'
  BY <1>2 DEF AskStopped, QueueInv
<1>3. ASSUME NEW c \in Call, GiveUp(c) PROVE QueueInv'
  BY <1>3 DEF GiveUp, QueueInv
<1>4. CASE Send
  <2>1. PICK c \in Call, t \in Target, f \in Frame : SendStep(c, t, f)
    BY <1>4, SendSettles
  <2>2. /\ 1 \in DOMAIN queue /\ Len(queue) >= 1 /\ c = queue[1] /\ queue' = Tail(queue)
        /\ phase = "running" /\ phase' = phase /\ request' = request
    BY <2>1 DEF SendStep
  <2>3. /\ DOMAIN queue' = 1 .. Len(queue) - 1
        /\ \A i \in DOMAIN queue' : i + 1 \in DOMAIN queue /\ queue'[i] = queue[i + 1] /\ queue'[i] \in Call
        /\ \A j \in DOMAIN queue : j # 1 => j - 1 \in DOMAIN queue'
    BY <2>2
  <2>4. \A i \in DOMAIN queue' : queue'[i] # c
    BY <2>2, <2>3 DEF QueueInv
  <2>5. \A d \in Call \ {c} :
          \/ status'[d] = status[d]
          \/ status'[d] = "stopped" /\ \E k \in Key : d = pending[k]
    <3>1. CASE Taken(c, f)
      BY <3>1 DEF Taken, Settled
    <3>2. CASE Refused(c) \/ AnsweredInLine(c, f) \/ Failed(c)
      BY <3>2 DEF Refused, AnsweredInLine, Failed, Settle
    <3> QED BY <2>1, <3>1, <3>2 DEF SendStep
  <2>6. \A k \in Key : pending'[k] = pending[k] \/ pending'[k] = c
    BY <2>1 DEF SendStep, Refused, AnsweredInLine, Taken, Failed
  <2>7. status'[c] # "queued"
    BY <2>1 DEF SendStep, Refused, AnsweredInLine, Taken, Failed, Settle, Settled
  <2>8. \A i \in DOMAIN queue' : status'[queue'[i]] = status[queue'[i]]
    BY <2>3, <2>4, <2>5 DEF QueueInv
  <2>9. \A d \in Call : status'[d] = "queued" => \E i \in DOMAIN queue' : queue'[i] = d
    <3> SUFFICES ASSUME NEW d \in Call, status'[d] = "queued" PROVE \E i \in DOMAIN queue' : queue'[i] = d
      OBVIOUS
    <3>1. d # c /\ status[d] = "queued"
      BY <2>5, <2>7
    <3>2. PICK j \in DOMAIN queue : queue[j] = d
      BY <3>1 DEF QueueInv
    <3>3. j # 1 /\ j \in Nat
      BY <3>1, <3>2, <2>2
    <3> QED BY <3>2, <3>3, <2>3
  <2>10. \A i, j \in DOMAIN queue' : queue'[i] = queue'[j] => i = j
    BY <2>3 DEF QueueInv
  <2>11. \A i \in DOMAIN queue' : status'[queue'[i]] \in {"queued", "gone"} /\ request'[queue'[i]] \in Target
    BY <2>2, <2>3, <2>8 DEF QueueInv
  <2>12. \A i \in DOMAIN queue', k \in Key : pending'[k] # queue'[i]
    BY <2>3, <2>4, <2>6 DEF QueueInv
  <2> QED BY <2>2, <2>9, <2>10, <2>11, <2>12 DEF QueueInv
<1>5. ASSUME NEW t \in Target, SendOther(t) PROVE QueueInv'
  BY <1>5 DEF SendOther, QueueInv
<1>6. ASSUME NEW d \in Device, Probe(d) \/ DeviceKnown(d) PROVE QueueInv'
  BY <1>6 DEF Probe, DeviceKnown, QueueInv
<1>7. ASSUME NEW f \in sent, NEW kind \in Answer, Receive(f, kind) PROVE QueueInv'
  <2>1. Entry(f, f.seq) \in Key
    BY DEF IInv, TypeOK, Frame, Entry, Key
  <2> QED BY <1>7, <2>1 DEF Receive, Settle, Settled, QueueInv
<1>8. CASE Expire
  BY <1>8 DEF Expire, SettleAll, Settled, QueueInv
<1>9. CASE Shutdown
  BY <1>9 DEF Shutdown, SettleAll, Settled, QueueInv
<1>10. CASE TaskEnds
  BY <1>10 DEF TaskEnds, SettleAll, Settled, QueueInv
<1>11. ASSUME UNCHANGED vars \/ \E c \in Call : Deadline(c) PROVE QueueInv'
  BY <1>11 DEF vars, Deadline, QueueInv
<1> QED BY <1>1, <1>2, <1>3, <1>4, <1>5, <1>6, <1>7, <1>8, <1>9, <1>10, <1>11 DEF Next

LEMMA LedgerStep == IInv /\ [Next]_vars => LedgerInv'
<1> SUFFICES ASSUME IInv, [Next]_vars PROVE LedgerInv'
  OBVIOUS
<1>0. /\ QueueInv /\ LedgerInv /\ None \notin Call
      /\ queue \in Seq(Call) /\ status \in [Call -> {"new", "queued", "waiting", "gone"} \cup Outcome]
      /\ pending \in [Key -> Call \cup {None}] /\ sent \subseteq Frame
  BY NoneIsNoCall DEF IInv, TypeOK
<1> USE <1>0 DEF Outcome, FramesOf
<1>1. ASSUME NEW c \in Call, Ask(c) \/ AskStopped(c) \/ GiveUp(c) \/ Deadline(c) PROVE LedgerInv'
  BY <1>1 DEF Ask, AskStopped, GiveUp, Deadline, LedgerInv
<1>2. CASE Send
  <2>1. PICK c \in Call, t \in Target, f \in Frame : SendStep(c, t, f)
    BY <1>2, SendSettles
  <2>2. phase = "running" /\ phase' = phase /\ c = queue[1] /\ 1 \in DOMAIN queue /\ f.call = c
    BY <2>1 DEF SendStep
  <2>3. status[c] \in {"queued", "gone"} /\ \A k \in Key : pending[k] # c
    BY <2>2 DEF QueueInv
  <2>4. CASE Refused(c)
    BY <2>2, <2>3, <2>4 DEF LedgerInv, Refused, Settle, Settled
  <2>5. CASE Sent(t, f) /\ (AnsweredInLine(c, f) \/ Failed(c))
    BY <2>2, <2>3, <2>5 DEF LedgerInv, AnsweredInLine, Failed, Sent, Settle, Settled
  <2>6. CASE Sent(t, f) /\ Taken(c, f)
    <3> DEFINE K == Entry(f, f.seq)
    <3>1. K \in Key /\ pending' = [pending EXCEPT ![K] = c] /\ sent' = sent \cup {f}
      BY <2>6 DEF Taken, Sent
    <3>2. /\ status'[c] \in {"waiting", "gone"}
          /\ \A d \in Call \ {c} : d # pending[K] => status'[d] = status[d]
          /\ pending[K] # None => status'[pending[K]] \notin {"waiting"}
      BY <2>3, <2>6, <3>1 DEF Taken, Settled
    <3> HIDE DEF K
    <3>3. \A k \in Key : pending'[k] # None => status'[pending'[k]] \in {"waiting", "gone"}
      BY <2>3, <3>1, <3>2 DEF LedgerInv
    <3>4. \A k, l \in Key : pending'[k] # None /\ pending'[k] = pending'[l] => k = l
      BY <2>3, <3>1 DEF LedgerInv
    <3>5. \A d \in Call : status'[d] = "waiting" => \E k \in Key : pending'[k] = d
      BY <3>1, <3>2 DEF LedgerInv
    <3>6. \A k \in Key : pending'[k] # None => \E g \in sent' : g.call = pending'[k] /\ Entry(g, g.seq) = k
      BY <2>2, <3>1 DEF LedgerInv, K
    <3> QED BY <2>2, <3>3, <3>4, <3>5, <3>6 DEF LedgerInv
  <2> QED BY <2>1, <2>4, <2>5, <2>6 DEF SendStep
<1>3. ASSUME NEW t \in Target, SendOther(t) PROVE LedgerInv'
  BY <1>3 DEF SendOther, Transmit, LedgerInv
<1>4. ASSUME NEW d \in Device, Probe(d) \/ DeviceKnown(d) PROVE LedgerInv'
  BY <1>4 DEF Probe, DeviceKnown, Transmit, LedgerInv
<1>5. ASSUME NEW f \in sent, NEW kind \in Answer, Receive(f, kind) PROVE LedgerInv'
  <2> DEFINE K == Entry(f, f.seq)
  <2>1. K \in Key
    BY DEF Frame, Entry, Key
  <2>2. /\ pending[K] # None /\ pending' = [pending EXCEPT ![K] = None]
        /\ sent' = sent /\ phase' = phase
        /\ status'[pending[K]] # "waiting"
        /\ \A d \in Call : d # pending[K] => status'[d] = status[d]
    BY <1>5, <2>1 DEF Receive, Settle, Settled
  <2> HIDE DEF K
  <2> QED BY <2>1, <2>2 DEF LedgerInv
<1>6. CASE Expire
  <2> DEFINE keys == { k \in Key : pending[k] # None /\ Expired(k) }
  <2>1. /\ pending' = [k \in Key |-> IF k \in keys THEN None ELSE pending[k]]
        /\ sent' = sent /\ phase' = phase
        /\ \A d \in Call : d \notin {pending[k] : k \in keys} => status'[d] = status[d]
        /\ \A d \in Call : d \in {pending[k] : k \in keys} => status'[d] # "waiting"
    BY <1>6 DEF Expire, SettleAll, Settled
  <2>2. \A k \in Key : k \notin keys /\ pending[k] # None => pending[k] \notin {pending[l] : l \in keys}
    BY DEF LedgerInv
  <2> HIDE DEF keys
  <2>3. \A k \in Key : pending'[k] # None => pending'[k] = pending[k] /\ k \notin keys
    BY <2>1
  <2>4. \A k \in Key : pending'[k] # None => status'[pending'[k]] \in {"waiting", "gone"}
    BY <2>1, <2>2, <2>3 DEF LedgerInv
  <2>5. \A d \in Call : status'[d] = "waiting" => \E k \in Key : pending'[k] = d
    BY <2>1 DEF LedgerInv
  <2> QED BY <2>1, <2>3, <2>4, <2>5 DEF LedgerInv
<1>7. CASE Shutdown
  BY <1>7 DEF Shutdown, SettleAll, Settled, LedgerInv
<1>8. CASE TaskEnds
  BY <1>8 DEF TaskEnds, SettleAll, Settled, LedgerInv
<1>9. CASE UNCHANGED vars
  BY <1>9 DEF vars, LedgerInv
<1> QED BY <1>1, <1>2, <1>3, <1>4, <1>5, <1>6, <1>7, <1>8, <1>9 DEF Next

LEMMA AnswersStep == IInv /\ [Next]_vars => AnswersAreOwn'
<1> SUFFICES ASSUME IInv, [Next]_vars PROVE AnswersAreOwn'
  OBVIOUS
<1>0. /\ AnswersAreOwn /\ LedgerInv /\ None \notin Call
      /\ heard \in [Call -> [frame : Frame, kind : Answer] \cup {None}]
      /\ pending \in [Key -> Call \cup {None}] /\ sent \subseteq Frame
  BY NoneIsNoCall DEF IInv, TypeOK
<1> USE <1>0 DEF FramesOf, SameNumber
<1>1. ASSUME heard' = heard, sent \subseteq sent' PROVE AnswersAreOwn'
  BY <1>1 DEF AnswersAreOwn
<1>2. CASE Send
  <2>1. PICK c \in Call, t \in Target, f \in Frame : SendStep(c, t, f)
    BY <1>2, SendSettles
  <2>2. CASE Sent(t, f) /\ AnsweredInLine(c, f)
    BY <2>1, <2>2 DEF AnswersAreOwn, SendStep, Sent, AnsweredInLine
  <2>3. CASE heard' = heard /\ sent \subseteq sent'
    BY <2>3, <1>1
  <2> QED BY <2>1, <2>2, <2>3 DEF SendStep, Refused, Sent, Taken, Failed
<1>3. ASSUME NEW f \in sent, NEW kind \in Answer, Receive(f, kind) PROVE AnswersAreOwn'
  <2> DEFINE K == Entry(f, f.seq)
  <2>1. K \in Key /\ pending[K] \in Call /\ sent' = sent /\ f \in Frame
    BY <1>3 DEF Frame, Entry, Key, Receive
  <2>2. heard' = [heard EXCEPT ![pending[K]] = [frame |-> f, kind |-> kind]]
    BY <1>3 DEF Receive
  <2>3. kind # "echo"
    BY <1>3 DEF Receive, Correlates
  <2>4. PICK g \in sent : g.call = pending[K] /\ Entry(g, g.seq) = K
    BY <2>1 DEF LedgerInv
  <2>5. SameNumber(g, f)
    BY <2>4 DEF Entry
  <2> HIDE DEF K, SameNumber
  <2>6. AnswersAreOwn /\ heard'[pending[K]].frame = f /\ heard'[pending[K]].kind = kind
    BY <2>1, <2>2
  <2> QED BY <2>1, <2>2, <2>3, <2>4, <2>5, <2>6 DEF AnswersAreOwn
<1>4. CASE (\E t \in Target : SendOther(t)) \/ \E d \in Device : Probe(d)
  BY <1>4, <1>1 DEF SendOther, Probe, Transmit
<1>5. CASE \/ \E c \in Call : Ask(c) \/ AskStopped(c) \/ GiveUp(c) \/ Deadline(c)
           \/ \E d \in Device : DeviceKnown(d)
           \/ Expire \/ Shutdown \/ TaskEnds \/ UNCHANGED vars
  BY <1>5, <1>1 DEF Ask, AskStopped, GiveUp, Deadline, DeviceKnown, Expire, Shutdown, TaskEnds, vars
<1> QED BY <1>2, <1>3, <1>4, <1>5 DEF Next

LEMMA StoppedStep == IInv /\ [Next]_vars => StoppedOnlyWhenStopped'
<1> SUFFICES ASSUME IInv, [Next]_vars PROVE StoppedOnlyWhenStopped'
  OBVIOUS
<1>0. /\ StoppedOnlyWhenStopped /\ LedgerInv /\ QueueInv /\ None \notin Call
      /\ status \in [Call -> {"new", "queued", "waiting", "gone"} \cup Outcome]
      /\ pending \in [Key -> Call \cup {None}] /\ sent \subseteq Frame
  BY NoneIsNoCall DEF IInv, TypeOK
<1> USE <1>0 DEF FramesOf, SameNumber
<1>1. ASSUME sent \subseteq sent', phase' = "running" => phase = "running",
             \A c \in Call : status'[c] = "stopped" => status[c] = "stopped"
      PROVE  StoppedOnlyWhenStopped'
  BY <1>1 DEF StoppedOnlyWhenStopped
<1>2. CASE Send
  <2>1. PICK c \in Call, t \in Target, f \in Frame : SendStep(c, t, f)
    BY <1>2, SendSettles
  <2>2. phase' = phase /\ c = queue[1] /\ 1 \in DOMAIN queue /\ f.call = c
    BY <2>1, <1>2 DEF SendStep, IInv, TypeOK
  <2>3. status[c] \in {"queued", "gone"} /\ \A k \in Key : pending[k] # c
    BY <2>2 DEF QueueInv
  <2>4. CASE Sent(t, f) /\ Taken(c, f)
    <3> DEFINE K == Entry(f, f.seq)
    <3>1. K \in Key /\ sent' = sent \cup {f}
      BY <2>4 DEF Sent, Taken
    <3>2. \A d \in Call : status'[d] = "stopped" => status[d] = "stopped" \/ d = pending[K]
      BY <2>3, <2>4 DEF Taken, Settled
    <3>3. ASSUME pending[K] # None
          PROVE  \E g \in sent : g.call = pending[K] /\ SameNumber(g, f) /\ pending[K] # c
      BY <2>3, <3>1, <3>3 DEF LedgerInv, Entry
    <3> HIDE DEF K, SameNumber
    <3> QED BY <2>2, <3>1, <3>2, <3>3 DEF StoppedOnlyWhenStopped
  <2>5. CASE Refused(c)
    BY <2>2, <2>3, <2>5, <1>1 DEF Refused, Settle, Settled
  <2>6. CASE Sent(t, f) /\ (AnsweredInLine(c, f) \/ Failed(c))
    BY <2>2, <2>3, <2>6, <1>1 DEF Sent, AnsweredInLine, Failed, Settle, Settled
  <2> QED BY <2>1, <2>4, <2>5, <2>6 DEF SendStep
<1>3. CASE \E c \in Call : Ask(c) \/ AskStopped(c) \/ GiveUp(c) \/ Deadline(c)
  <2>1. CASE \E c \in Call : AskStopped(c)
    BY <2>1 DEF AskStopped, StoppedOnlyWhenStopped
  <2> QED BY <1>3, <2>1, <1>1 DEF Ask, GiveUp, Deadline
<1>4. CASE (\E t \in Target : SendOther(t)) \/ \E d \in Device : Probe(d) \/ DeviceKnown(d)
  BY <1>4, <1>1 DEF SendOther, Probe, DeviceKnown, Transmit
<1>5. CASE \E f \in sent, kind \in Answer : Receive(f, kind)
  <2>1. \A f \in sent : Entry(f, f.seq) \in Key
    BY DEF Frame, Entry, Key
  <2> QED BY <1>5, <2>1, <1>1 DEF Receive, Settle, Settled
<1>6. CASE Expire
  BY <1>6, <1>1 DEF Expire, SettleAll, Settled
<1>7. CASE Shutdown \/ TaskEnds
  BY <1>7 DEF Shutdown, TaskEnds, StoppedOnlyWhenStopped
<1>8. CASE UNCHANGED vars
  BY <1>8, <1>1 DEF vars
<1> QED BY <1>2, <1>3, <1>4, <1>5, <1>6, <1>7, <1>8 DEF Next

LEMMA StepIInv == IInv /\ [Next]_vars => IInv'
BY TypeStep, QueueStep, LedgerStep, AnswersStep, StoppedStep DEF IInv

LEMMA Invariance == Spec => []IInv
BY InitIInv, StepIInv, PTL DEF Spec

(***************************************************************************)
(* The ledgers, the queue and the sequence numbers stay what they are      *)
(* (mod.rs, struct Task).                                                  *)
(***************************************************************************)
THEOREM Typed == Spec => []TypeOK
BY Invariance, PTL DEF IInv

(***************************************************************************)
(* A caller is only given an answer that carries the number of the frame   *)
(* sent for it, and never its own request looped back (inbound.rs, on_zdo  *)
(* and on_zcl).                                                            *)
(***************************************************************************)
THEOREM AnswersOwn == Spec => []AnswersAreOwn
BY Invariance, PTL DEF IInv

(***************************************************************************)
(* "The runtime stopped" is told to nobody while it runs, except to a call *)
(* whose number was taken by a later one (transport.rs, the insert into    *)
(* the ledgers).                                                           *)
(***************************************************************************)
THEOREM ToldStopped == Spec => []StoppedOnlyWhenStopped
BY Invariance, PTL DEF IInv

(***************************************************************************)
(* A stopping runtime has let go of every caller that waited on a device,  *)
(* and a stopped one of every caller (mod.rs, shutdown).                   *)
(***************************************************************************)
THEOREM NobodyWaits == Spec => []NobodyWaitsOnAStoppedRuntime
<1>1. IInv => NobodyWaitsOnAStoppedRuntime
  BY NoneIsNoCall DEF IInv, TypeOK, QueueInv, LedgerInv, NobodyWaitsOnAStoppedRuntime
<1> QED BY <1>1, Invariance, PTL

(***************************************************************************)
(* The task holds every call it owes an answer, in one place: a queued one *)
(* in the channel, a waiting one under the number of its frame.  And it    *)
(* holds no call that was answered: neither a late answer nor the tick nor *)
(* the shutdown can meet it again (transport.rs, the ledgers, and mod.rs,  *)
(* struct Task).                                                           *)
(***************************************************************************)
Holds(c) == {i \in DOMAIN queue : queue[i] = c} \cup {k \in Key : pending[k] = c}

HeldOnce ==
  \A c \in Call :
    /\ status[c] \in {"queued", "waiting"} => Holds(c) # {}
    /\ status[c] \in {"new"} \cup Outcome => Holds(c) = {}
    /\ \A x, y \in Holds(c) : x = y

(***************************************************************************)
(* No call is lost between the channel and the ledgers, and none is in     *)
(* both, for any number of calls in any order.  That what is held is       *)
(* settled in the end is EveryCallSettles.                                 *)
(***************************************************************************)
THEOREM HoldsWhatItOwes == Spec => []HeldOnce
<1>1. IInv => HeldOnce
  <2> SUFFICES ASSUME IInv, NEW c \in Call
               PROVE  /\ status[c] \in {"queued", "waiting"} => Holds(c) # {}
                      /\ status[c] \in {"new"} \cup Outcome => Holds(c) = {}
                      /\ \A x, y \in Holds(c) : x = y
    BY DEF HeldOnce
  <2>a. QueueInv /\ LedgerInv /\ c # None
    BY NoneIsNoCall DEF IInv
  <2>1. ASSUME status[c] \in {"queued", "waiting"} PROVE Holds(c) # {}
    BY <2>a, <2>1 DEF QueueInv, LedgerInv, Holds
  <2>2. ASSUME status[c] \in {"new"} \cup Outcome PROVE Holds(c) = {}
    <3>1. \A i \in DOMAIN queue : queue[i] # c
      BY <2>a, <2>2 DEF QueueInv, Outcome
    <3>2. \A k \in Key : pending[k] # c
      BY <2>a, <2>2 DEF LedgerInv, Outcome
    <3> QED BY <3>1, <3>2 DEF Holds
  <2>3. ASSUME NEW x \in Holds(c), NEW y \in Holds(c) PROVE x = y
    <3>1. CASE x \in DOMAIN queue /\ queue[x] = c /\ y \in DOMAIN queue /\ queue[y] = c
      BY <2>a, <3>1 DEF QueueInv
    <3>2. CASE x \in Key /\ pending[x] = c /\ y \in Key /\ pending[y] = c
      BY <2>a, <3>2 DEF LedgerInv
    <3>3. ~\E i \in DOMAIN queue, k \in Key : queue[i] = c /\ pending[k] = c
      BY <2>a DEF QueueInv
    <3> QED BY <2>3, <3>1, <3>2, <3>3 DEF Holds
  <2> QED BY <2>1, <2>2, <2>3
<1> QED BY <1>1, Invariance, PTL

\* What the promise sees of a status.
Seen(x) == IF x \in {"queued", "waiting"} THEN "asked" ELSE x

Answered(c) ==
  Seen(status'[c]) # Seen(status[c]) => Seen(status[c]) = "asked" /\ Seen(status'[c]) \in Outcome

Moved(c) ==
  \/ status[c] = "new" /\ Seen(status'[c]) = "asked"
  \/ status[c] = "new" /\ status'[c] = "stopped"
  \/ Seen(status[c]) = "asked" /\ status'[c] = "gone"

\* Every step moves the callers the way the promise lets it.
LEMMA StepCalls ==
  ASSUME IInv, [Next]_vars
  PROVE  \/ \A c \in Call : Answered(c)
         \/ \E c \in Call : Moved(c) /\ status' = [status EXCEPT ![c] = status'[c]]
<1>0. /\ LedgerInv /\ QueueInv /\ None \notin Call
      /\ status \in [Call -> {"new", "queued", "waiting", "gone"} \cup Outcome]
      /\ pending \in [Key -> Call \cup {None}] /\ sent \subseteq Frame
  BY NoneIsNoCall DEF IInv, TypeOK
<1> USE <1>0 DEF Outcome, Seen, Answered, Moved
<1>1. CASE \E c \in Call : Ask(c) \/ AskStopped(c) \/ GiveUp(c)
  BY <1>1 DEF Ask, AskStopped, GiveUp
<1>2. CASE Send
  <2>1. PICK c \in Call, t \in Target, f \in Frame : SendStep(c, t, f)
    BY <1>2, SendSettles
  <2>2. c = queue[1] /\ 1 \in DOMAIN queue
    BY <2>1, <1>2 DEF SendStep, IInv, TypeOK
  <2>3. status[c] \in {"queued", "gone"}
    BY <2>2 DEF QueueInv
  <2>4. CASE Taken(c, f)
    <3>1. pending[Entry(f, f.seq)] # None => status[pending[Entry(f, f.seq)]] \in {"waiting", "gone"}
      BY <2>4 DEF Taken, LedgerInv
    <3> QED BY <2>3, <2>4, <3>1 DEF Taken, Settled
  <2>5. CASE Refused(c) \/ AnsweredInLine(c, f) \/ Failed(c)
    BY <2>3, <2>5 DEF Refused, AnsweredInLine, Failed, Settle, Settled
  <2> QED BY <2>1, <2>4, <2>5 DEF SendStep
<1>3. CASE \E f \in sent, kind \in Answer : Receive(f, kind)
  <2>1. \A f \in sent : Entry(f, f.seq) \in Key
    BY DEF Frame, Entry, Key
  <2> QED BY <1>3, <2>1 DEF Receive, Settle, Settled, LedgerInv
<1>4. CASE Expire
  BY <1>4 DEF Expire, SettleAll, Settled, LedgerInv
<1>5. CASE Shutdown
  BY <1>5 DEF Shutdown, SettleAll, Settled, LedgerInv
<1>6. CASE TaskEnds
  <2>1. \A i \in DOMAIN queue : status[queue[i]] \in {"queued", "gone"}
    BY DEF QueueInv
  <2> QED BY <1>6, <2>1 DEF TaskEnds, SettleAll, Settled, LedgerInv
<1>7. CASE UNCHANGED status
  BY <1>7
<1> QED BY <1>1, <1>2, <1>3, <1>4, <1>5, <1>6, <1>7
        DEF Next, SendOther, Probe, DeviceKnown, Deadline, vars

(***************************************************************************)
(* The runtime keeps what a handle promises: whatever the devices, the     *)
(* radio, the clock and the callers do, a call is answered at most once,   *)
(* and an answer is never taken back or changed (runtime.rs, Zigbee::ask). *)
(***************************************************************************)
THEOREM KeepsThePromise == Spec => Answers
<1> DEFINE calls == [c \in Call |-> Seen(status[c])]
<1>1. Init => Promise!Init
  BY DEF Init, Promise!Init
<1>2. IInv /\ [Next]_vars => [Promise!Next]_calls
  <2> SUFFICES ASSUME IInv, [Next]_vars PROVE [Promise!Next]_calls
    OBVIOUS
  <2>1. status \in [Call -> {"new", "queued", "waiting", "gone"} \cup Outcome]
        /\ status' \in [Call -> {"new", "queued", "waiting", "gone"} \cup Outcome]
    BY TypeStep DEF IInv, TypeOK
  <2>2. CASE \A c \in Call : Answered(c)
    <3>1. Promise!AnswerSome
      BY <2>1, <2>2 DEF Promise!AnswerSome, Promise!Status, Seen, Answered, Outcome
    <3> QED BY <3>1 DEF Promise!Next
  <2>3. ASSUME NEW c \in Call, Moved(c), status' = [status EXCEPT ![c] = status'[c]]
        PROVE  Promise!Next
    <3>1. calls' = [calls EXCEPT ![c] = Seen(status'[c])]
      BY <2>1, <2>3
    <3>2. calls[c] = Seen(status[c])
      OBVIOUS
    <3>3. Promise!Ask(c) \/ Promise!Refuse(c) \/ Promise!GiveUp(c)
      BY <2>3, <3>1, <3>2 DEF Promise!Ask, Promise!Refuse, Promise!GiveUp, Seen, Moved
    <3> QED BY <3>3 DEF Promise!Next
  <2> QED BY <2>2, <2>3, StepCalls
<1> QED BY <1>1, <1>2, Invariance, PTL DEF Spec, Answers, Promise!Safe, Seen
=============================================================================
