-------------------------- MODULE InterviewProofs --------------------------
(***************************************************************************)
(* For any devices, endpoints, interviews and room in the channel: a       *)
(* device is called successfully interviewed only with endpoints known, a  *)
(* record's endpoints change only to those one interview of it found, what *)
(* is in the channel is what its interviews wait on, and a record marked   *)
(* as being interviewed has an interview that will end the mark.           *)
(***************************************************************************)
EXTENDS Interview, TLAPS

\* Both tables have an entry for each device, whatever it is.
Tables ==
  /\ record = [d \in Device |-> record[d]]
  /\ stored = [d \in Device |-> stored[d]]

\* A record of a device successfully interviewed has endpoints.
Usable(r) == r # None /\ r.state = "Successful" => r.eps # {}

IInv ==
  /\ Tables
  /\ \A d \in Device : Usable(record[d]) /\ Usable(stored[d])

(***************************************************************************)
(* The end of an interview leaves a record usable, with the endpoints it   *)
(* had or with all that the interview found, if that is any.               *)
(***************************************************************************)
LEMMA ConcludedIsUsable ==
  ASSUME NEW r, NEW k
  PROVE  /\ Usable(Concluded(r, k))
         /\ Concluded(r, k).eps # r.eps => k.eps # {} /\ Concluded(r, k).eps = k.eps
BY DEF Usable, Concluded, Verdict

(***************************************************************************)
(* Saving a usable record leaves the store usable.                         *)
(***************************************************************************)
LEMMA PersistKeeps ==
  ASSUME NEW d, Persist(d), stored = [e \in Device |-> stored[e]],
         \A e \in Device : Usable(record'[e]) /\ Usable(stored[e])
  PROVE  /\ stored' = [e \in Device |-> stored'[e]]
         /\ \A e \in Device : Usable(stored'[e])
<1>1. CASE stored' = stored
  BY <1>1
<1>2. CASE stored' = [stored EXCEPT ![d] = record'[d]]
  BY <1>2
<1> QED BY <1>1, <1>2 DEF Persist, Persisted

LEMMA InitIInv == Init => IInv
BY DEF Init, IInv, Tables, Usable

\* What a step of the runtime task makes of the table.
LEMMA TableSteps ==
  ASSUME IInv, NEW d,
         \/ record' = record
         \/ record' = [record EXCEPT ![d] = [state |-> "InProgress", eps |-> record[d].eps]]
         \/ \E k : record' = [record EXCEPT ![d] = Concluded(record[d], k)]
         \/ record' = [record EXCEPT ![d] = NewRecord]
         \/ record' = [record EXCEPT ![d] = None]
  PROVE  /\ record' = [e \in Device |-> record'[e]]
         /\ \A e \in Device : Usable(record'[e])
<1> USE DEF IInv, Tables
<1>1. CASE record' = record
  BY <1>1
<1>2. CASE record' = [record EXCEPT ![d] = [state |-> "InProgress", eps |-> record[d].eps]]
  BY <1>2 DEF Usable
<1>3. ASSUME NEW k, record' = [record EXCEPT ![d] = Concluded(record[d], k)]
      PROVE  /\ record' = [e \in Device |-> record'[e]]
             /\ \A e \in Device : Usable(record'[e])
  BY <1>3, ConcludedIsUsable
<1>4. CASE record' = [record EXCEPT ![d] = NewRecord]
  BY <1>4 DEF Usable, NewRecord
<1>5. CASE record' = [record EXCEPT ![d] = None]
  BY <1>5 DEF Usable
<1> QED BY <1>1, <1>2, <1>3, <1>4, <1>5

LEMMA StepIInv == IInv /\ [Next]_vars => IInv'
<1> SUFFICES ASSUME IInv, [Next]_vars PROVE IInv'
  OBVIOUS
<1>1. CASE OnStarted
  <2>1. record' = record
        \/ record' = [record EXCEPT ![HeadDevice] = [state |-> "InProgress", eps |-> record[HeadDevice].eps]]
    BY <1>1 DEF OnStarted
  <2> QED BY <1>1, <2>1, TableSteps, PersistKeeps DEF OnStarted, IInv, Tables
<1>2. CASE OnDescriptor
  BY <1>2, PersistKeeps DEF OnDescriptor, IInv, Tables
<1>3. CASE OnFinished
  <2>1. record' = record
        \/ record' = [record EXCEPT ![HeadDevice] = Concluded(record[HeadDevice], job[HeadJob])]
    BY <1>3 DEF OnFinished
  <2>2. /\ record' = [e \in Device |-> record'[e]]
        /\ \A e \in Device : Usable(record'[e])
    BY <2>1, TableSteps
  <2> QED BY <1>3, <2>2, PersistKeeps DEF OnFinished, IInv, Tables
<1>4. ASSUME NEW d \in Device, NEW j \in Job, OnJoined(d, j) PROVE IInv'
  <2>1. record' = record \/ record' = [record EXCEPT ![d] = NewRecord]
    BY <1>4 DEF OnJoined
  <2> QED BY <1>4, <2>1, TableSteps, PersistKeeps DEF OnJoined, IInv, Tables
<1>5. ASSUME NEW d \in Device, OnLeft(d) PROVE IInv'
  <2>1. record' = [record EXCEPT ![d] = None]
    BY <1>5 DEF OnLeft
  <2>2. stored' = stored \/ stored' = [stored EXCEPT ![d] = None]
    BY <1>5 DEF OnLeft
  <2> QED BY <2>1, <2>2, TableSteps DEF IInv, Tables, Usable
<1>6. CASE Start
  BY <1>6 DEF Start, IInv, Tables
<1>7. CASE UNCHANGED <<record, stored>>
  BY <1>7 DEF IInv, Tables
<1> QED BY <1>1, <1>2, <1>3, <1>4, <1>5, <1>6, <1>7
     DEF Next, SendUpdate, Ask, Answered, Call, OnCall, OnAsk, Down, vars

(***************************************************************************)
(* A device is called successfully interviewed only with endpoints known,  *)
(* in the table and in the store, whatever interviews ran side by side and *)
(* whatever failed ("endpoints decide the verdict", interview.rs).         *)
(***************************************************************************)
SuccessHasEndpoints ==
  \A d \in Device : \A r \in {record[d], stored[d]} \ {None} :
    r.state = "Successful" => r.eps # {}

(***************************************************************************)
(* Every device recorded as successfully interviewed has endpoints, in the *)
(* table and in the store.                                                 *)
(***************************************************************************)
THEOREM SuccessIsUsable == Spec => []SuccessHasEndpoints
<1>1. IInv => SuccessHasEndpoints
  BY DEF IInv, SuccessHasEndpoints, Usable
<1> QED BY <1>1, InitIInv, StepIInv, PTL DEF Spec

(***************************************************************************)
(* Types.  The runtime task takes what it finds in the channel for what    *)
(* its interview wants now, so that the types rest on the two agreeing:    *)
(* what is in the channel is about an interview under way, and a question  *)
(* there is the one that interview waits for, and there once.              *)
(***************************************************************************)
Under(k) ==
  /\ k.at # "new" => k.dev \in Device
  /\ k.asked # "no" => k.at \in Question
  /\ k.at = "simple" => k.todo # {}

Fits(item, k) ==
  /\ k.at # "new"
  /\ item.what = "ask" => k.asked = "queued"
  /\ item.what = "interview" => k.at = "called"
  /\ item.what = "finished" => k.at = "done"

Calls == {"ask", "interview"}

TInv ==
  /\ TypeOK
  /\ \A j \in Job : Under(job[j])
  /\ \A i \in 1..Len(queue) : Fits(queue[i], job[queue[i].job])
  /\ \A i, n \in 1..Len(queue) :
       i # n /\ queue[i].what \in Calls /\ queue[n].what \in Calls
         => queue[i].job # queue[n].job

Items == [job : Job, what : {"interview", "ask"} \cup Update]
Interviews == [dev : Device \cup {None},
               at : {"new", "called"} \cup Update \cup Question \cup Ended,
               asked : {"no", "queued", "sent"},
               todo : SUBSET Endpoint, eps : SUBSET Endpoint]

(***************************************************************************)
(* An interview moves on to another interview, whose question is not asked *)
(* yet.                                                                    *)
(***************************************************************************)
LEMMA MovesOn ==
  ASSUME NEW k \in Interviews, Under(k), k.at \in Question,
         NEW m \in Succeeds(k) \cup Fails(k)
  PROVE  m \in Interviews /\ Under(m) /\ m.at # "new" /\ m.asked = "no"
<1> USE DEF Interviews, Under, Question, Update, Ended, Asked, Stage, AfterSimple
<1>f. ASSUME m \in Fails(k) PROVE m \in Interviews /\ Under(m) /\ m.at # "new" /\ m.asked = "no"
  <2>1. CASE k.at = "node"
    BY <1>f, <2>1 DEF Fails
  <2>2. CASE k.at = "active"
    BY <1>f, <2>2 DEF Fails
  <2>3. CASE k.at = "simple"
    <3>1. PICK e \in k.todo : m = Stage(k, AfterSimple(k.todo \ {e}), k.todo \ {e}, k.eps)
      BY <1>f, <2>3 DEF Fails
    <3> QED BY <2>3, <3>1
  <2>4. CASE k.at = "basic"
    BY <1>f, <2>4 DEF Fails
  <2> QED BY <2>1, <2>2, <2>3, <2>4
<1>s. ASSUME m \in Succeeds(k) PROVE m \in Interviews /\ Under(m) /\ m.at # "new" /\ m.asked = "no"
  <2>1. CASE k.at = "node"
    BY <1>s, <2>1 DEF Succeeds
  <2>2. CASE k.at = "active"
    <3>1. PICK E \in SUBSET Endpoint : m = Stage(k, AfterSimple(E), E, k.eps)
      BY <1>s, <2>2 DEF Succeeds
    <3> QED BY <2>2, <3>1
  <2>3. CASE k.at = "simple"
    <3>1. PICK e \in k.todo : m = Stage(k, AfterSimple(k.todo \ {e}), k.todo \ {e}, k.eps \cup {e})
      BY <1>s, <2>3 DEF Succeeds
    <3> QED BY <2>3, <3>1
  <2>4. CASE k.at = "basic"
    BY <1>f, <1>s, <2>4 DEF Succeeds
  <2> QED BY <2>1, <2>2, <2>3, <2>4
<1> QED BY <1>f, <1>s

\* What an interview puts into the channel.
LEMMA Enqueued ==
  ASSUME TInv, NEW j \in Job, NEW what \in {"interview", "ask"} \cup Update, Enqueue(j, what),
         QueueSize \in Nat,
         NEW k \in Interviews, job' = [job EXCEPT ![j] = k],
         Under(k), Fits([job |-> j, what |-> what], k),
         job[j].at \notin {"called", "done"}, job[j].asked = "no",
         UNCHANGED <<up, record, stored>>
  PROVE  TInv'
<1> DEFINE item == [job |-> j, what |-> what]
<1>1. /\ queue' = Append(queue, item) /\ Len(queue) < QueueSize
      /\ queue \in Seq(Items) /\ item \in Items
  BY DEF Enqueue, TInv, TypeOK, Items
<1>2. /\ Len(queue') = Len(queue) + 1 /\ queue' \in Seq(Items)
      /\ \A i \in 1..Len(queue) : queue'[i] = queue[i] /\ queue[i] \in Items
      /\ queue'[Len(queue) + 1] = item
  BY <1>1
<1>3. /\ job'[j] = k /\ \A m \in Job \ {j} : job'[m] = job[m]
      /\ job' \in [Job -> Interviews]
  BY DEF TInv, TypeOK, Interviews
<1>4. TypeOK'
  BY <1>1, <1>2, <1>3 DEF TInv, TypeOK, Items, Interviews
<1>5. \A i \in 1..Len(queue) : queue[i].job = j => queue[i].what \notin Calls \cup {"finished"}
  BY <1>2 DEF TInv, Fits, Calls
<1>6. \A i \in 1..Len(queue') : Fits(queue'[i], job'[queue'[i].job])
  <2>1. Fits(queue'[Len(queue) + 1], job'[j])
    BY <1>2, <1>3
  <2>2. ASSUME NEW i \in 1..Len(queue) PROVE Fits(queue'[i], job'[queue'[i].job])
    <3>1. CASE queue[i].job = j
      BY <1>2, <1>3, <1>5, <3>1 DEF Fits, Calls
    <3>2. CASE queue[i].job # j
      BY <1>2, <1>3, <3>2 DEF TInv, Items
    <3> QED BY <3>1, <3>2
  <2> QED BY <1>1, <1>2, <2>1, <2>2
<1>7. \A i, n \in 1..Len(queue') :
        i # n /\ queue'[i].what \in Calls /\ queue'[n].what \in Calls
          => queue'[i].job # queue'[n].job
  BY <1>1, <1>2, <1>5 DEF TInv
<1>8. \A m \in Job : Under(job'[m])
  BY <1>3 DEF TInv
<1> QED BY <1>4, <1>6, <1>7, <1>8 DEF TInv

\* What the runtime task takes from the channel, and makes of the interview.
LEMMA Taken ==
  ASSUME TInv, NEW what, Take(what)
  PROVE  /\ Head(queue) \in Items /\ Head(queue).what = what
         /\ HeadJob \in Job /\ HeadDevice \in Device
         /\ Fits(Head(queue), job[HeadJob])
<1>1. queue \in Seq(Items) /\ queue # <<>>
  BY DEF TInv, TypeOK, Items, Take
<1>2. Head(queue) = queue[1] /\ 1 \in 1..Len(queue) /\ Head(queue) \in Items
  BY <1>1
<1>3. Fits(Head(queue), job[HeadJob])
  BY <1>2 DEF TInv, HeadJob
<1>4. HeadJob \in Job
  BY <1>2 DEF HeadJob, Items
<1>5. HeadDevice \in Device
  BY <1>3, <1>4 DEF TInv, Under, Fits, HeadDevice
<1> QED BY <1>2, <1>3, <1>4, <1>5 DEF Take

LEMMA Dequeued ==
  ASSUME TInv, NEW what, Take(what), UNCHANGED up,
         QueueSize \in Nat,
         record' \in [Device -> Rec \cup {None}], stored' \in [Device -> Rec \cup {None}],
         \/ job' = job
         \/ /\ what \in Calls
            /\ \E k \in Interviews : Under(k) /\ k.at # "new" /\ job' = [job EXCEPT ![HeadJob] = k]
  PROVE  TInv'
<1>1. queue \in Seq(Items) /\ queue # <<>> /\ queue' = Tail(queue)
  BY DEF TInv, TypeOK, Items, Take
<1>2. /\ Len(queue') = Len(queue) - 1 /\ queue' \in Seq(Items) /\ Len(queue) \in Nat \ {0}
      /\ \A i \in 1..Len(queue') : i + 1 \in 1..Len(queue) /\ queue'[i] = queue[i + 1]
                                  /\ queue[i + 1] \in Items
      /\ Head(queue) = queue[1]
  BY <1>1
<1>3. HeadJob \in Job /\ queue[1].what = what /\ queue[1].job = HeadJob
  BY <1>2, Taken DEF HeadJob
<1>4. job' \in [Job -> Interviews] /\ \A m \in Job : Under(job'[m])
  <2>1. CASE job' = job
    BY <2>1 DEF TInv, TypeOK, Interviews
  <2>2. ASSUME NEW k \in Interviews, Under(k), job' = [job EXCEPT ![HeadJob] = k]
        PROVE  job' \in [Job -> Interviews] /\ \A m \in Job : Under(job'[m])
    BY <1>3, <2>2 DEF TInv, TypeOK, Interviews
  <2> QED BY <2>1, <2>2
<1>5. TypeOK'
  BY <1>1, <1>2, <1>4 DEF TInv, TypeOK, Items, Interviews
<1>6. ASSUME NEW i \in 1..Len(queue') PROVE Fits(queue'[i], job'[queue'[i].job])
  <2>1. Fits(queue[i + 1], job[queue[i + 1].job])
    BY <1>2 DEF TInv
  <2>2. CASE job' = job
    BY <1>2, <2>1, <2>2
  <2>3. ASSUME what \in Calls, NEW k \in Interviews, k.at # "new", job' = [job EXCEPT ![HeadJob] = k]
        PROVE  Fits(queue'[i], job'[queue'[i].job])
    <3>1. CASE queue[i + 1].job = HeadJob
      <4>1. i + 1 # 1 /\ 1 \in 1..Len(queue)
        BY <1>2
      <4>2. queue[i + 1].what \notin Calls
        BY <1>2, <1>3, <2>3, <3>1, <4>1 DEF TInv
      <4>4. queue[i + 1].what # "finished"
        <5>1. Under(job[HeadJob]) /\ Fits(queue[1], job[HeadJob])
          BY <1>3, <4>1 DEF TInv
        <5>2. job[HeadJob].at # "done"
          BY <1>3, <2>3, <5>1 DEF Under, Fits, Calls, Question
        <5> QED BY <2>1, <3>1, <5>2 DEF Fits
      <4>3. job'[HeadJob] = k
        BY <1>3, <2>3 DEF TInv, TypeOK
      <4> QED BY <1>2, <2>3, <3>1, <4>2, <4>3, <4>4 DEF Fits, Calls
    <3>2. CASE queue[i + 1].job # HeadJob
      <4>1. job'[queue[i + 1].job] = job[queue[i + 1].job]
        BY <1>2, <2>3, <3>2 DEF TInv, TypeOK, Items
      <4> QED BY <1>2, <2>1, <4>1
    <3> QED BY <3>1, <3>2
  <2> QED BY <2>2, <2>3
<1>7. ASSUME NEW i \in 1..Len(queue'), NEW n \in 1..Len(queue'),
             i # n, queue'[i].what \in Calls, queue'[n].what \in Calls
      PROVE  queue'[i].job # queue'[n].job
  BY <1>2, <1>7 DEF TInv
<1> QED BY <1>4, <1>5, <1>6, <1>7 DEF TInv

LEMMA InitTInv == Init => TInv
<1> SUFFICES ASSUME Init PROVE TInv
  OBVIOUS
<1>1. TypeOK
  BY InterviewAssumption DEF Init, TypeOK, Fresh
<1>2. Len(queue) = 0
  BY DEF Init
<1>3. \A j \in Job : Under(job[j])
  BY DEF Init, Under, Fresh
<1> QED BY <1>1, <1>2, <1>3 DEF TInv

\* What the steps of the runtime task make of its tables.
LEMMA TablesTyped ==
  ASSUME TypeOK, NEW d \in Device,
         \/ record' = record
         \/ \E r \in Rec \cup {None} : record' = [record EXCEPT ![d] = r],
         \/ stored' = stored
         \/ stored' = [stored EXCEPT ![d] = record'[d]]
  PROVE  /\ record' \in [Device -> Rec \cup {None}]
         /\ stored' \in [Device -> Rec \cup {None}]
BY DEF TypeOK

LEMMA StepTInv == TInv /\ [Next]_vars => TInv'
<1> SUFFICES ASSUME TInv, [Next]_vars PROVE TInv'
  OBVIOUS
<1>q. QueueSize \in Nat
  BY InterviewAssumption
<1>j. \A j \in Job : job[j] \in Interviews /\ Under(job[j])
  BY DEF TInv, TypeOK, Interviews
<1>i. \A i \in 1..Len(queue) : queue[i].job \in Job /\ Fits(queue[i], job[queue[i].job])
  <2>1. queue \in Seq(Items)
    BY DEF TInv, TypeOK, Items
  <2>2. \A i \in 1..Len(queue) : queue[i] \in Items
    BY <2>1
  <2> QED BY <2>2 DEF TInv, Items
<1>1. ASSUME NEW j \in Job, SendUpdate(j) PROVE TInv'
  <2> DEFINE k == [job[j] EXCEPT !.at = After[job[j].at]]
  <2>1. job[j].at \in Update /\ job[j].asked = "no" /\ job[j].at \notin {"called", "done"}
    BY <1>1, <1>j DEF SendUpdate, Under, Update, Question, Interviews
  <2>2. After[job[j].at] \in {"node", "active", "done"}
    BY <2>1 DEF After, Update
  <2>3. k \in Interviews /\ Under(k) /\ k.at # "new"
    BY <1>j, <2>1, <2>2 DEF Interviews, Under, Question, Update, Ended
  <2>4. Fits([job |-> j, what |-> job[j].at], k)
    <3>1. k.at = After[job[j].at]
      BY <1>j DEF Interviews
    <3> QED BY <2>1, <2>3, <3>1 DEF Fits, Update, After
  <2>5. job' = [job EXCEPT ![j] = k] /\ Enqueue(j, job[j].at) /\ UNCHANGED <<up, record, stored>>
    BY <1>1, <1>j DEF SendUpdate
  <2> HIDE DEF k
  <2> QED BY <1>q, <2>1, <2>3, <2>4, <2>5, Enqueued
<1>2. ASSUME NEW j \in Job, Ask(j) PROVE TInv'
  <2> DEFINE k == [job[j] EXCEPT !.asked = "queued"]
  <2>1. job[j].at \in Question /\ job[j].asked = "no" /\ job[j].at \notin {"called", "done"}
    BY <1>2 DEF Ask, Question
  <2>2. k \in Interviews /\ Under(k)
    BY <1>j, <2>1 DEF Interviews, Under, Question
  <2>3. Fits([job |-> j, what |-> "ask"], k)
    BY <1>j, <2>1 DEF Fits, Question, Interviews
  <2>4. job' = [job EXCEPT ![j] = k] /\ Enqueue(j, "ask") /\ UNCHANGED <<up, record, stored>>
    BY <1>2 DEF Ask
  <2> HIDE DEF k
  <2> QED BY <1>q, <2>1, <2>2, <2>3, <2>4, Enqueued
<1>3. ASSUME NEW j \in Job, Answered(j) PROVE TInv'
  <2>1. job[j].asked = "sent" /\ job[j].at \in Question
    BY <1>3, <1>j DEF Answered, Under
  <2>2. PICK k \in Succeeds(job[j]) \cup Fails(job[j]) : job' = [job EXCEPT ![j] = k]
    BY <1>3 DEF Answered
  <2>3. k \in Interviews /\ Under(k) /\ k.at # "new"
    BY <1>j, <2>1, MovesOn
  <2>4. \A i \in 1..Len(queue) :
          queue[i].job \in Job /\ (queue[i].job = j => queue[i].what \notin Calls \cup {"finished"})
    BY <1>i, <2>1 DEF Fits, Calls, Question
  <2>5. \A i \in 1..Len(queue) : Fits(queue[i], job'[queue[i].job])
    BY <1>i, <2>2, <2>3, <2>4 DEF TInv, TypeOK, Fits, Calls
  <2>6. TypeOK' /\ \A m \in Job : Under(job'[m])
    BY <1>3, <1>j, <2>2, <2>3 DEF Answered, TInv, TypeOK, Interviews
  <2> QED BY <1>3, <2>5, <2>6 DEF Answered, TInv
<1>4. ASSUME NEW j \in Job, NEW d \in Device, Call(j, d) PROVE TInv'
  <2>1. job[j].at = "new" /\ job[j].asked = "no"
    BY <1>4, <1>j DEF Call, Under, Question, Interviews
  <2>2. Fresh(d, "called") \in Interviews /\ Under(Fresh(d, "called"))
        /\ Fits([job |-> j, what |-> "interview"], Fresh(d, "called"))
    BY DEF Fresh, Interviews, Under, Fits
  <2> QED BY <1>4, <1>q, <2>1, <2>2, Enqueued DEF Call
<1>5. ASSUME NEW j \in Job, NEW d \in Device, OnJoined(d, j) PROVE TInv'
  <2>1. record' = record \/ record' = [record EXCEPT ![d] = NewRecord]
    BY <1>5 DEF OnJoined
  <2>2. NewRecord \in Rec
    BY DEF NewRecord, Rec, InterviewState
  <2>3. /\ record' \in [Device -> Rec \cup {None}]
        /\ stored' \in [Device -> Rec \cup {None}]
    BY <1>5, <2>1, <2>2, TablesTyped DEF TInv, OnJoined, Persist, Persisted
  <2>4. Fresh(d, "started") \in Interviews /\ Under(Fresh(d, "started"))
        /\ Fresh(d, "started").at # "new"
    BY DEF Fresh, Interviews, Under, Update
  <2>5. \A i \in 1..Len(queue) : queue[i].job \in Job /\ queue[i].job # j
    BY <1>5, <1>i DEF OnJoined, Fits
  <2>6. CASE job' = job
    BY <1>5, <2>3, <2>6 DEF OnJoined, TInv, TypeOK
  <2>7. CASE job' = [job EXCEPT ![j] = Fresh(d, "started")]
    <3>1. job' \in [Job -> Interviews] /\ \A m \in Job : Under(job'[m])
      BY <1>j, <2>4, <2>7 DEF TInv, TypeOK, Interviews
    <3>2. TypeOK'
      BY <1>5, <2>3, <3>1 DEF OnJoined, TInv, TypeOK, Interviews
    <3>3. \A i \in 1..Len(queue) : Fits(queue[i], job'[queue[i].job])
      BY <2>5, <2>7 DEF TInv, TypeOK
    <3> QED BY <1>5, <3>1, <3>2, <3>3 DEF OnJoined, TInv
  <2> QED BY <1>5, <2>6, <2>7 DEF OnJoined
<1>6. CASE OnCall
  <2> DEFINE k == [job[HeadJob] EXCEPT !.at = IF record[HeadDevice] = None THEN "refused" ELSE "started"]
  <2>1. Take("interview") /\ UNCHANGED <<up, record, stored>> /\ job' = [job EXCEPT ![HeadJob] = k]
    BY <1>6 DEF OnCall
  <2>2. HeadJob \in Job /\ job[HeadJob].at = "called" /\ job[HeadJob].asked = "no"
    BY <1>j, <2>1, Taken DEF Fits, Under, Question, Interviews
  <2>3. k \in Interviews /\ Under(k) /\ k.at # "new"
    BY <1>j, <2>2 DEF Interviews, Under, Update, Ended, Question
  <2> HIDE DEF k
  <2> QED BY <1>q, <2>1, <2>3, Dequeued DEF Calls, TInv, TypeOK
<1>7. CASE OnAsk
  <2>1. Take("ask") /\ UNCHANGED <<up, record, stored>>
    BY <1>7 DEF OnAsk
  <2>2. HeadJob \in Job /\ job[HeadJob].asked = "queued" /\ job[HeadJob].at \in Question
    BY <1>j, <2>1, Taken DEF Fits, Under
  <2>3. CASE record[HeadDevice] # None
    <3> DEFINE k == [job[HeadJob] EXCEPT !.asked = "sent"]
    <3>1. k \in Interviews /\ Under(k) /\ k.at # "new" /\ job' = [job EXCEPT ![HeadJob] = k]
      BY <1>7, <1>j, <2>2, <2>3 DEF OnAsk, Interviews, Under, Question
    <3> HIDE DEF k
    <3> QED BY <1>q, <2>1, <3>1, Dequeued DEF Calls, TInv, TypeOK
  <2>4. CASE record[HeadDevice] = None
    <3>1. PICK k \in Fails(job[HeadJob]) : job' = [job EXCEPT ![HeadJob] = k]
      BY <1>7, <2>4 DEF OnAsk
    <3>2. k \in Interviews /\ Under(k) /\ k.at # "new"
      BY <1>j, <2>2, MovesOn
    <3> QED BY <1>q, <2>1, <3>1, <3>2, Dequeued DEF Calls, TInv, TypeOK
  <2> QED BY <2>3, <2>4
<1>8. CASE OnStarted
  <2>1. Take("started") /\ UNCHANGED <<up, job>> /\ HeadDevice \in Device
    BY <1>8, Taken DEF OnStarted
  <2>2. record' = record \/ \E r \in Rec \cup {None} : record' = [record EXCEPT ![HeadDevice] = r]
    <3>1. CASE record[HeadDevice] = None
      BY <1>8, <3>1 DEF OnStarted
    <3>2. CASE record[HeadDevice] # None
      BY <1>8, <2>1, <3>2 DEF OnStarted, TInv, TypeOK, Rec, InterviewState
    <3> QED BY <3>1, <3>2
  <2>3. stored' = stored \/ stored' = [stored EXCEPT ![HeadDevice] = record'[HeadDevice]]
    BY <1>8 DEF OnStarted, Persist, Persisted
  <2> QED BY <1>q, <2>1, <2>2, <2>3, TablesTyped, Dequeued DEF TInv
<1>9. CASE OnDescriptor
  <2>1. Take("descriptor") /\ UNCHANGED <<up, record, job>> /\ HeadDevice \in Device
    BY <1>9, Taken DEF OnDescriptor
  <2>2. stored' = stored \/ stored' = [stored EXCEPT ![HeadDevice] = record'[HeadDevice]]
    BY <1>9 DEF OnDescriptor, Persist, Persisted
  <2> QED BY <1>q, <2>1, <2>2, TablesTyped, Dequeued DEF TInv
<1>10. CASE OnFinished
  <2>1. Take("finished") /\ UNCHANGED <<up, job>> /\ HeadDevice \in Device /\ HeadJob \in Job
    BY <1>10, Taken DEF OnFinished
  <2>2. record' = record \/ \E r \in Rec \cup {None} : record' = [record EXCEPT ![HeadDevice] = r]
    <3>1. CASE record[HeadDevice] = None
      BY <1>10, <3>1 DEF OnFinished
    <3>2. CASE record[HeadDevice] # None
      <4>1. Concluded(record[HeadDevice], job[HeadJob]) \in Rec
        BY <1>j, <2>1, <3>2
           DEF Concluded, Verdict, TInv, TypeOK, Rec, InterviewState, Interviews
      <4> QED BY <1>10, <3>2, <4>1 DEF OnFinished
    <3> QED BY <3>1, <3>2
  <2>3. stored' = stored \/ stored' = [stored EXCEPT ![HeadDevice] = record'[HeadDevice]]
    BY <1>10 DEF OnFinished, Persist, Persisted
  <2> QED BY <1>q, <2>1, <2>2, <2>3, TablesTyped, Dequeued DEF TInv
<1>11. ASSUME NEW d \in Device, OnLeft(d) PROVE TInv'
  BY <1>11 DEF OnLeft, TInv, TypeOK
<1>12. CASE Down
  <2>1. queue' = <<>> /\ up' = FALSE
    BY <1>12 DEF Down
  <2>e. Len(queue') = 0 /\ queue' \in Seq(Items)
    BY <2>1
  <2>b. up' \in BOOLEAN
    BY <2>1
  <2>2. job' \in [Job -> Interviews] /\ \A m \in Job : Under(job'[m])
    BY <1>12, <1>j DEF Down, Asked, Stage, Interviews, Under, Update, Question, Ended
  <2>3. TypeOK'
    BY <1>12, <1>q, <2>e, <2>b, <2>2 DEF Down, TInv, TypeOK, Items, Interviews
  <2> QED BY <2>e, <2>2, <2>3 DEF TInv
<1>13. CASE Start
  BY <1>13 DEF Start, TInv, TypeOK
<1>14. CASE UNCHANGED vars
  BY <1>14 DEF vars, TInv, TypeOK
<1> QED BY <1>1, <1>2, <1>3, <1>4, <1>5, <1>6, <1>7, <1>8, <1>9, <1>10, <1>11, <1>12, <1>13, <1>14
     DEF Next

(***************************************************************************)
(* The table, the store, the interviews and the channel keep their types   *)
(* and the channel its bound: nothing in the channel is about an interview *)
(* that is past it.                                                        *)
(***************************************************************************)
THEOREM Typed == Spec => []TypeOK
BY InitTInv, StepTInv, PTL DEF Spec, TInv

(***************************************************************************)
(* While the runtime is up the endpoints of a record change only to what   *)
(* one interview of that device found, which is over and found some: the   *)
(* interview whose update is handled is the one that queued it, and has    *)
(* not moved since.                                                        *)
(***************************************************************************)
THEOREM EndpointsAreOneInterviews == Spec => EndpointsComeWhole
<1> DEFINE Whole(d) == \E j \in Job : /\ job[j].dev = d /\ job[j].at = "done"
                                     /\ job[j].eps # {} /\ record'[d].eps = job[j].eps
           Comes == \A d \in Device :
             up /\ up' /\ record[d] # None /\ record'[d] # None
             /\ record'[d].eps # record[d].eps => Whole(d)
<1>1. IInv /\ TInv /\ [Next]_vars => [Comes]_vars
  <2> SUFFICES ASSUME IInv, TInv, Next, NEW d \in Device, up, up',
                      record[d] # None, record'[d] # None, record'[d].eps # record[d].eps
               PROVE  Whole(d)
    OBVIOUS
  <2> USE DEF IInv, Tables
  <2>1. CASE OnStarted
    BY <2>1 DEF OnStarted
  <2>2. CASE OnFinished
    <3>1. /\ HeadJob \in Job /\ job[HeadJob].at = "done"
          /\ HeadDevice = job[HeadJob].dev /\ HeadDevice \in Device
      BY <2>2, Taken DEF OnFinished, Fits, HeadDevice
    <3>2. d = HeadDevice /\ record'[d] = Concluded(record[d], job[HeadJob])
      BY <2>2, <3>1 DEF OnFinished
    <3> QED BY <3>1, <3>2, ConcludedIsUsable
  <2>3. ASSUME NEW e \in Device, NEW j \in Job, OnJoined(e, j) PROVE Whole(d)
    BY <2>3 DEF OnJoined
  <2>4. ASSUME NEW e \in Device, OnLeft(e) PROVE Whole(d)
    BY <2>4 DEF OnLeft
  <2>5. CASE UNCHANGED record
    BY <2>5
  <2> QED BY <2>1, <2>2, <2>3, <2>4, <2>5
       DEF Next, SendUpdate, Ask, Answered, Call, OnCall, OnAsk, OnDescriptor, Down, Start
<1> QED BY <1>1, InitIInv, StepIInv, InitTInv, StepTInv, PTL DEF Spec, EndpointsComeWhole

-----------------------------------------------------------------------------
(* What has begun ends.                                                    *)

\* The start of an interview is in the channel before its end.
StartsEnd ==
  \A i \in 1..Len(queue) :
    queue[i].what = "started" => InHand(queue[i].job) \/ EndQueued(queue[i].job, i)

\* No end is lost but that of the interview whose end is handled.
NoEndLost(but) ==
  \A m \in Job : Ending(m) /\ m \notin but => Ending(m)' /\ job'[m].dev = job[m].dev

\* What is in the channel is about an interview.
LEMMA QueueTyped ==
  ASSUME TInv
  PROVE  /\ queue \in Seq(Items) /\ Len(queue) \in Nat
         /\ \A i \in 1..Len(queue) :
              queue[i] \in Items /\ queue[i].job \in Job /\ job[queue[i].job].at # "new"
         /\ job \in [Job -> Interviews]
<1>1. queue \in Seq(Items) /\ job \in [Job -> Interviews]
  BY DEF TInv, TypeOK, Items, Interviews
<1>2. \A i \in 1..Len(queue) : queue[i] \in Items
  BY <1>1
<1> QED BY <1>1, <1>2 DEF Items, TInv, Fits

LEMMA NewIsNotEnding ==
  ASSUME TInv, NEW j \in Job, job[j].at = "new"
  PROVE  ~Ending(j)
BY QueueTyped DEF Ending, InHand, EndQueued, Hand, Update, Question

\* An interview puts something into the channel, and moves on.
LEMMA EnqueueEnds ==
  ASSUME TInv, StartsEnd, NEW j \in Job, NEW what, Enqueue(j, what),
         NEW k, job' = [job EXCEPT ![j] = k],
         InHand(j) => k.at \in Hand \/ what = "finished",
         what = "started" => k.at \in Hand,
         k.dev = job[j].dev \/ job[j].at = "new"
  PROVE  StartsEnd' /\ NoEndLost({})
<1> DEFINE item == [job |-> j, what |-> what]
<1>1. queue' = Append(queue, item) /\ queue \in Seq(Items) /\ Len(queue) \in Nat
  BY QueueTyped DEF Enqueue
<1>2. /\ Len(queue') = Len(queue) + 1
      /\ \A i \in 1..Len(queue) : queue'[i] = queue[i] /\ i \in 1..Len(queue')
      /\ queue'[Len(queue) + 1] = item /\ Len(queue) + 1 \in 1..Len(queue')
      /\ \A i \in 1..Len(queue') : i \in 1..Len(queue) \/ i = Len(queue) + 1
  BY <1>1
<1>3. job'[j] = k /\ \A m \in Job \ {j} : job'[m] = job[m]
  BY QueueTyped
<1>4. ASSUME NEW m, NEW i \in Nat, EndQueued(m, i) PROVE EndQueued(m, i)'
  BY <1>2, <1>4 DEF EndQueued
<1>5. ASSUME what = "finished", NEW i \in 0..Len(queue) PROVE EndQueued(j, i)'
  <2>1. Len(queue) + 1 > i
    BY <1>1
  <2> QED BY <1>2, <1>5, <2>1 DEF EndQueued
<1>6. ASSUME NEW m \in Job, InHand(m), NEW i \in 0..Len(queue)
      PROVE  InHand(m)' \/ EndQueued(m, i)'
  <2>1. CASE m # j
    BY <1>3, <1>6, <2>1 DEF InHand
  <2>2. CASE m = j
    BY <1>3, <1>5, <1>6, <2>2 DEF InHand
  <2> QED BY <2>1, <2>2
<1>7. StartsEnd'
  <2> SUFFICES ASSUME NEW i \in 1..Len(queue'), NEW m, m = queue'[i].job, queue'[i].what = "started"
               PROVE  InHand(m)' \/ EndQueued(m, i)'
    BY DEF StartsEnd, InHand, EndQueued
  <2>1. CASE i \in 1..Len(queue)
    <3>1. m = queue[i].job /\ queue[i].what = "started" /\ m \in Job
          /\ i \in 0..Len(queue) /\ i \in Nat
      BY <1>2, <2>1, QueueTyped
    <3>2. InHand(m) \/ EndQueued(m, i)
      BY <2>1, <3>1 DEF StartsEnd
    <3> QED BY <1>4, <1>6, <3>1, <3>2
  <2>2. CASE i = Len(queue) + 1
    BY <1>2, <1>3, <2>2 DEF InHand
  <2> QED BY <1>2, <2>1, <2>2
<1>8. NoEndLost({})
  <2> SUFFICES ASSUME NEW m \in Job, Ending(m) PROVE Ending(m)' /\ job'[m].dev = job[m].dev
    BY DEF NoEndLost
  <2>1. job[m].at # "new"
    BY NewIsNotEnding
  <2>2. job'[m].dev = job[m].dev
    BY <1>3, <2>1
  <2>3. 0 \in 0..Len(queue) /\ 0 \in Nat
    BY <1>1
  <2>4. Ending(m)'
    BY <1>4, <1>6, <2>3 DEF Ending
  <2> QED BY <2>2, <2>4
<1> QED BY <1>7, <1>8

\* The runtime task takes the oldest.
LEMMA DequeueEnds ==
  ASSUME TInv, StartsEnd, NEW what, Take(what),
         \A m \in Job : job'[m].dev = job[m].dev /\ (InHand(m) => job'[m].at \in Hand)
  PROVE  /\ StartsEnd'
         /\ NoEndLost(IF what = "finished" THEN {HeadJob} ELSE {})
         /\ \A m : what = "started" /\ m = HeadJob => Ending(m)'
<1>1. queue \in Seq(Items) /\ queue # <<>> /\ queue' = Tail(queue)
  BY QueueTyped DEF Take
<1>2. /\ Len(queue') = Len(queue) - 1 /\ Len(queue) \in Nat \ {0}
      /\ \A i \in 1..Len(queue') : i + 1 \in 1..Len(queue) /\ queue'[i] = queue[i + 1]
      /\ queue[1].job = HeadJob /\ queue[1].what = what /\ 1 \in 1..Len(queue)
  BY <1>1 DEF HeadJob, Take
<1>3. \A m \in Job : InHand(m) => InHand(m)'
  BY DEF InHand
<1>4. ASSUME NEW m, NEW i \in Nat, EndQueued(m, i + 1) PROVE EndQueued(m, i)'
  <2>1. PICK n \in 1..Len(queue) : n > i + 1 /\ queue[n].job = m /\ queue[n].what = "finished"
    BY <1>4 DEF EndQueued
  <2>2. n - 1 \in 1..Len(queue') /\ n - 1 > i /\ queue'[n - 1] = queue[n]
    <3>1. n - 1 \in 1..Len(queue') /\ n - 1 > i /\ (n - 1) + 1 = n
      BY <1>2, <2>1
    <3> QED BY <1>2, <3>1
  <2> QED BY <2>1, <2>2 DEF EndQueued
<1>5. StartsEnd'
  <2> SUFFICES ASSUME NEW i \in 1..Len(queue'), NEW m, m = queue'[i].job, queue'[i].what = "started"
               PROVE  InHand(m)' \/ EndQueued(m, i)'
    BY DEF StartsEnd, InHand, EndQueued
  <2>1. i + 1 \in 1..Len(queue) /\ queue'[i] = queue[i + 1] /\ i \in Nat
    BY <1>2
  <2>2. m = queue[i + 1].job /\ m \in Job
    BY <2>1, QueueTyped
  <2>3. InHand(m) \/ EndQueued(m, i + 1)
    BY <2>1, <2>2 DEF StartsEnd
  <2> QED BY <1>3, <1>4, <2>1, <2>2, <2>3
<1>6. ASSUME NEW m \in Job, Ending(m), what # "finished" \/ m # HeadJob PROVE Ending(m)'
  <2>1. CASE InHand(m)
    BY <1>3, <2>1 DEF Ending
  <2>2. CASE EndQueued(m, 0)
    <3>1. PICK n \in 1..Len(queue) : n > 0 /\ queue[n].job = m /\ queue[n].what = "finished"
      BY <2>2 DEF EndQueued
    <3>2. n # 1
      BY <1>2, <1>6, <3>1
    <3>3. n > 0 + 1
      BY <3>1, <3>2
    <3>4. EndQueued(m, 0 + 1)
      BY <3>1, <3>3 DEF EndQueued
    <3>5. EndQueued(m, 0)'
      BY <1>4, <3>4
    <3> QED BY <3>5 DEF Ending
  <2> QED BY <1>6, <2>1, <2>2 DEF Ending
<1>7. ASSUME what = "started", NEW m, m = HeadJob PROVE Ending(m)'
  <2>1. InHand(m) \/ EndQueued(m, 0 + 1)
    <3>1. InHand(queue[1].job) \/ EndQueued(queue[1].job, 1)
      BY <1>2, <1>7 DEF StartsEnd
    <3>2. queue[1].job = m /\ 0 + 1 = 1
      BY <1>2, <1>7
    <3> QED BY <3>1, <3>2
  <2>2. m \in Job
    BY <1>2, <1>7, QueueTyped
  <2>3. EndQueued(m, 0 + 1) => EndQueued(m, 0)'
    BY <1>4
  <2> QED BY <1>3, <2>1, <2>2, <2>3 DEF Ending
<1>8. NoEndLost(IF what = "finished" THEN {HeadJob} ELSE {})
  BY <1>6 DEF NoEndLost
<1> QED BY <1>5, <1>7, <1>8

\* The channel stays, and interviews move on in hand, or begin.
LEMMA SameQueueEnds ==
  ASSUME TInv, StartsEnd, queue' = queue,
         \A m \in Job : InHand(m) => job'[m].at \in Hand,
         \A m \in Job : job'[m].dev = job[m].dev \/ job[m].at = "new"
  PROVE  StartsEnd' /\ NoEndLost({})
<1>1. \A m \in Job : InHand(m) => InHand(m)'
  BY DEF InHand
<1>2. \A m, i : EndQueued(m, i)' <=> EndQueued(m, i)
  BY DEF EndQueued
<1>3. StartsEnd'
  BY <1>1, <1>2, QueueTyped DEF StartsEnd
<1>4. NoEndLost({})
  BY <1>1, <1>2, NewIsNotEnding DEF NoEndLost, Ending
<1> QED BY <1>3, <1>4

\* A question answered, or not, leads to another point of the interview.
LEMMA MovesInHand ==
  ASSUME NEW k \in Interviews, Under(k), k.at \in Question,
         NEW m \in Succeeds(k) \cup Fails(k)
  PROVE  m.at \in Hand /\ m.dev = k.dev
<1> USE DEF Hand, Update, Question, Asked, Stage, AfterSimple
<1>f. ASSUME m \in Fails(k) PROVE m.at \in Hand /\ m.dev = k.dev
  <2>1. CASE k.at \in {"node", "active", "basic"}
    BY <1>f, <2>1 DEF Fails
  <2>2. CASE k.at = "simple"
    <3>1. PICK e \in k.todo : m = Stage(k, AfterSimple(k.todo \ {e}), k.todo \ {e}, k.eps)
      BY <1>f, <2>2 DEF Fails
    <3> QED BY <3>1
  <2> QED BY <2>1, <2>2
<1>s. ASSUME m \in Succeeds(k) PROVE m.at \in Hand /\ m.dev = k.dev
  <2>1. CASE k.at = "node"
    BY <1>s, <2>1 DEF Succeeds
  <2>2. CASE k.at = "active"
    <3>1. PICK E \in SUBSET Endpoint : m = Stage(k, AfterSimple(E), E, k.eps)
      BY <1>s, <2>2 DEF Succeeds
    <3> QED BY <3>1
  <2>3. CASE k.at = "simple"
    <3>1. PICK e \in k.todo : m = Stage(k, AfterSimple(k.todo \ {e}), k.todo \ {e}, k.eps \cup {e})
      BY <1>s, <2>3 DEF Succeeds
    <3> QED BY <3>1
  <2>4. CASE k.at = "basic"
    BY <1>f, <1>s, <2>4 DEF Succeeds
  <2> QED BY <2>1, <2>2, <2>3, <2>4
<1> QED BY <1>f, <1>s

\* Marks that stay where an end is to come are attended.
LEMMA MarksKept ==
  ASSUME NoEndLost({}), NEW d, Attended(d),
         record'[d] \in {record[d], None} \/ record'[d].state # "InProgress"
  PROVE  Attended(d)'
BY DEF NoEndLost, Attended

\* What a step must do.
Attends == StartsEnd' /\ (up /\ up' => \A d \in Device : Attended(d) => Attended(d)')

LEMMA CallersAttend ==
  ASSUME TInv, StartsEnd, NEW j \in Job,
         SendUpdate(j) \/ Ask(j) \/ Answered(j) \/ \E d \in Device : Call(j, d)
  PROVE  Attends
<1>a. job[j] \in Interviews /\ Under(job[j]) /\ job \in [Job -> Interviews]
  BY QueueTyped DEF TInv
<1>b. ASSUME NoEndLost({}), record' = record, StartsEnd' PROVE Attends
  BY <1>b, MarksKept DEF Attends
<1>1. CASE SendUpdate(j)
  <2> DEFINE k == [job[j] EXCEPT !.at = After[job[j].at]]
  <2>1. /\ job[j].at \in Update /\ Enqueue(j, job[j].at) /\ job' = [job EXCEPT ![j] = k]
        /\ record' = record
    BY <1>1, <1>a DEF SendUpdate
  <2>2. k.dev = job[j].dev /\ k.at = After[job[j].at]
    BY <1>a DEF Interviews
  <2>3. k.at \in Hand \/ job[j].at = "finished"
    BY <2>1, <2>2 DEF Hand, After, Update, Question
  <2> HIDE DEF k
  <2> QED BY <1>b, <2>1, <2>2, <2>3, EnqueueEnds
<1>2. CASE Ask(j)
  <2> DEFINE k == [job[j] EXCEPT !.asked = "queued"]
  <2>1. /\ job[j].at \in Question /\ Enqueue(j, "ask") /\ job' = [job EXCEPT ![j] = k]
        /\ record' = record
    BY <1>2 DEF Ask
  <2>2. k.dev = job[j].dev /\ k.at = job[j].at
    BY <1>a DEF Interviews
  <2>3. k.at \in Hand
    BY <2>1, <2>2 DEF Hand
  <2> HIDE DEF k
  <2> QED BY <1>b, <2>1, <2>2, <2>3, EnqueueEnds
<1>3. CASE Answered(j)
  <2>1. job[j].at \in Question /\ queue' = queue /\ record' = record
    BY <1>3, <1>a DEF Answered, Under
  <2>2. PICK k \in Succeeds(job[j]) \cup Fails(job[j]) : job' = [job EXCEPT ![j] = k]
    BY <1>3 DEF Answered
  <2>3. k.at \in Hand /\ k.dev = job[j].dev
    BY <1>a, <2>1, MovesInHand
  <2>4. \A m \in Job : job'[m].dev = job[m].dev /\ (InHand(m) => job'[m].at \in Hand)
    BY <1>a, <2>2, <2>3 DEF InHand
  <2> QED BY <1>b, <2>1, <2>4, SameQueueEnds
<1>4. ASSUME NEW d \in Device, Call(j, d) PROVE Attends
  <2>1. /\ job[j].at = "new" /\ Enqueue(j, "interview") /\ record' = record
        /\ job' = [job EXCEPT ![j] = Fresh(d, "called")]
    BY <1>4 DEF Call
  <2>2. ~InHand(j)
    BY <2>1 DEF InHand, Hand, Update, Question
  <2> DEFINE k == Fresh(d, "called")
  <2>3. job' = [job EXCEPT ![j] = k] /\ "interview" # "started"
    BY <2>1
  <2> HIDE DEF k
  <2>4. StartsEnd' /\ NoEndLost({})
    BY <2>1, <2>2, <2>3, EnqueueEnds
  <2> QED BY <1>b, <2>1, <2>4
<1> QED BY <1>1, <1>2, <1>3, <1>4

LEMMA TaskAttends ==
  ASSUME TInv, StartsEnd, OnCall \/ OnAsk \/ OnStarted \/ OnDescriptor \/ OnFinished
  PROVE  Attends
<1>a. /\ record \in [Device -> Rec \cup {None}] /\ job \in [Job -> Interviews]
      /\ \A m \in Job : job[m] \in Interviews /\ Under(job[m])
  BY QueueTyped DEF TInv, TypeOK
<1>b. ASSUME NoEndLost({}), record' = record, StartsEnd' PROVE Attends
  BY <1>b, MarksKept DEF Attends
<1>c. ASSUME job' = job
      PROVE  \A m \in Job : job'[m].dev = job[m].dev /\ (InHand(m) => job'[m].at \in Hand)
  BY <1>c DEF InHand
<1>d. ASSUME HeadJob \in Job, NEW k, job' = [job EXCEPT ![HeadJob] = k],
             k.dev = job[HeadJob].dev, job[HeadJob].at \in Hand => k.at \in Hand
      PROVE  \A m \in Job : job'[m].dev = job[m].dev /\ (InHand(m) => job'[m].at \in Hand)
  BY <1>a, <1>d DEF InHand
<1>1. CASE OnCall
  <2> DEFINE k == [job[HeadJob] EXCEPT !.at = IF record[HeadDevice] = None THEN "refused" ELSE "started"]
  <2>1. Take("interview") /\ record' = record /\ job' = [job EXCEPT ![HeadJob] = k]
    BY <1>1 DEF OnCall
  <2>2. HeadJob \in Job /\ job[HeadJob].at = "called"
    BY <2>1, Taken DEF Fits
  <2>3. k.dev = job[HeadJob].dev /\ job[HeadJob].at \notin Hand
    BY <1>a, <2>2 DEF Interviews, Hand, Update, Question
  <2> HIDE DEF k
  <2>4. \A m \in Job : job'[m].dev = job[m].dev /\ (InHand(m) => job'[m].at \in Hand)
    BY <1>d, <2>1, <2>2, <2>3
  <2> QED BY <1>b, <2>1, <2>4, DequeueEnds
<1>2. CASE OnAsk
  <2>1. Take("ask") /\ record' = record
    BY <1>2 DEF OnAsk
  <2>2. HeadJob \in Job /\ job[HeadJob].at \in Question
    BY <1>a, <2>1, Taken DEF Fits, Under
  <2>3. PICK k : /\ job' = [job EXCEPT ![HeadJob] = k]
                 /\ k.dev = job[HeadJob].dev /\ k.at \in Hand
    <3>1. CASE record[HeadDevice] # None
      <4> DEFINE k == [job[HeadJob] EXCEPT !.asked = "sent"]
      <4>1. job' = [job EXCEPT ![HeadJob] = k]
        BY <1>2, <3>1 DEF OnAsk
      <4>2. k.dev = job[HeadJob].dev /\ k.at \in Hand
        BY <1>a, <2>2 DEF Interviews, Hand
      <4> QED BY <4>1, <4>2
    <3>2. CASE record[HeadDevice] = None
      <4>1. PICK k \in Fails(job[HeadJob]) : job' = [job EXCEPT ![HeadJob] = k]
        BY <1>2, <3>2 DEF OnAsk
      <4>2. k.at \in Hand /\ k.dev = job[HeadJob].dev
        BY <1>a, <2>2, MovesInHand
      <4> QED BY <4>1, <4>2
    <3> QED BY <3>1, <3>2
  <2>4. \A m \in Job : job'[m].dev = job[m].dev /\ (InHand(m) => job'[m].at \in Hand)
    BY <1>d, <2>2, <2>3
  <2> QED BY <1>b, <2>1, <2>4, DequeueEnds
<1>3. CASE OnStarted
  <2>1. Take("started") /\ job' = job
    BY <1>3 DEF OnStarted
  <2>2. StartsEnd' /\ NoEndLost({}) /\ \A m : m = HeadJob => Ending(m)'
    BY <1>c, <2>1, DequeueEnds
  <2>3. HeadJob \in Job
    BY <2>1, Taken
  <2>4. ASSUME NEW d \in Device, Attended(d) PROVE Attended(d)'
    <3>1. CASE d = HeadDevice
      <4>1. PICK m : m = HeadJob
        OBVIOUS
      <4>2. m \in Job /\ Ending(m)' /\ job'[m].dev = d
        BY <2>1, <2>2, <2>3, <3>1, <4>1 DEF HeadDevice
      <4> QED BY <4>2 DEF Attended
    <3>2. CASE d # HeadDevice
      <4>1. record'[d] = record[d]
        BY <1>3, <1>a, <3>2 DEF OnStarted
      <4> QED BY <2>2, <2>4, <4>1, MarksKept
    <3> QED BY <3>1, <3>2
  <2> QED BY <2>2, <2>4 DEF Attends
<1>4. CASE OnDescriptor
  <2>1. Take("descriptor") /\ job' = job /\ record' = record
    BY <1>4 DEF OnDescriptor
  <2> QED BY <1>b, <1>c, <2>1, DequeueEnds
<1>5. CASE OnFinished
  <2>1. Take("finished") /\ job' = job
    BY <1>5 DEF OnFinished
  <2>2. StartsEnd' /\ NoEndLost({HeadJob})
    BY <1>c, <2>1, DequeueEnds
  <2>3. ASSUME NEW d \in Device, Attended(d) PROVE Attended(d)'
    <3>1. CASE d = HeadDevice
      <4>1. record'[d] = None \/ record'[d] = Concluded(record[d], job[HeadJob])
        BY <1>5, <1>a, <3>1 DEF OnFinished
      <4>2. Concluded(record[d], job[HeadJob]).state # "InProgress"
        BY DEF Concluded, Verdict
      <4> QED BY <4>1, <4>2 DEF Attended
    <3>2. CASE d # HeadDevice
      <4>1. record'[d] = record[d]
        BY <1>5, <1>a, <3>2 DEF OnFinished
      <4>2. \A m \in Job : job[m].dev = d => m # HeadJob
        BY <3>2 DEF HeadDevice
      <4> QED BY <2>2, <2>3, <4>1, <4>2 DEF Attended, NoEndLost
    <3> QED BY <3>1, <3>2
  <2> QED BY <2>2, <2>3 DEF Attends
<1> QED BY <1>1, <1>2, <1>3, <1>4, <1>5

LEMMA OthersAttend ==
  ASSUME TInv, StartsEnd,
         (\E d \in Device, j \in Job : OnJoined(d, j)) \/ (\E d \in Device : OnLeft(d))
           \/ Down \/ Start \/ UNCHANGED vars
  PROVE  Attends
<1>a. record \in [Device -> Rec \cup {None}] /\ job \in [Job -> Interviews]
  BY QueueTyped DEF TInv, TypeOK
<1>b. ASSUME queue' = queue, job' = job PROVE StartsEnd' /\ NoEndLost({})
  BY <1>b, SameQueueEnds DEF InHand
<1>1. ASSUME NEW d \in Device, NEW j \in Job, OnJoined(d, j) PROVE Attends
  <2>1. \A m \in Job : InHand(m) => job'[m].at \in Hand
    BY <1>1, <1>a DEF OnJoined, InHand, Hand, Update, Question, Fresh
  <2>2. \A m \in Job : job'[m].dev = job[m].dev \/ job[m].at = "new"
    BY <1>1, <1>a DEF OnJoined
  <2>3. StartsEnd' /\ NoEndLost({})
    BY <1>1, <2>1, <2>2, SameQueueEnds DEF OnJoined
  <2>4. \A e \in Device : record'[e] = record[e] \/ record'[e].state # "InProgress"
    BY <1>1, <1>a DEF OnJoined, NewRecord
  <2> QED BY <2>3, <2>4, MarksKept DEF Attends
<1>2. ASSUME NEW d \in Device, OnLeft(d) PROVE Attends
  <2>1. \A e \in Device : record'[e] = record[e] \/ record'[e] = None
    BY <1>2, <1>a DEF OnLeft
  <2>2. StartsEnd' /\ NoEndLost({})
    BY <1>2, <1>b DEF OnLeft
  <2> QED BY <2>1, <2>2, MarksKept DEF Attends
<1>3. CASE Down
  <2>1. Len(queue') = 0 /\ up' = FALSE
    BY <1>3 DEF Down
  <2> QED BY <2>1 DEF StartsEnd, Attends
<1>4. CASE Start
  BY <1>4, <1>b DEF Start, Attends
<1>5. CASE UNCHANGED vars
  <2>1. StartsEnd' /\ NoEndLost({}) /\ record' = record
    BY <1>5, <1>b DEF vars
  <2> QED BY <2>1, MarksKept DEF Attends
<1> QED BY <1>1, <1>2, <1>3, <1>4, <1>5

(***************************************************************************)
(* For any interviews of any devices side by side and a channel of any     *)
(* room.  That the verdict comes is InterviewSettles.                      *)
(***************************************************************************)
THEOREM MarksEnd == Spec => MarksAreEnded
<1>1. Init => TInv /\ StartsEnd
  <2>1. Init => Len(queue) = 0
    BY DEF Init
  <2> QED BY <2>1, InitTInv DEF StartsEnd
<1>2. TInv /\ StartsEnd /\ [Next]_vars => Attends
  BY CallersAttend, TaskAttends, OthersAttend DEF Next
<1>3. TInv /\ StartsEnd /\ [Next]_vars => TInv' /\ StartsEnd'
  BY <1>2, StepTInv DEF Attends
<1>4. Attends => [up /\ up' => \A d \in Device : Attended(d) => Attended(d)']_vars
  BY DEF Attends
<1>5. TInv /\ StartsEnd /\ [Next]_vars
        => [up /\ up' => \A d \in Device : Attended(d) => Attended(d)']_vars
  BY <1>2, <1>4
<1> QED BY <1>1, <1>3, <1>5, PTL DEF Spec, MarksAreEnded

=============================================================================
