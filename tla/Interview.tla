----------------------------- MODULE Interview -----------------------------
(***************************************************************************)
(* Interviews (rszigbee-core, runtime/interview.rs) and the records their  *)
(* updates are applied to (runtime/task/provisioning.rs, devices.rs).      *)
(*                                                                         *)
(* An interview is a task of its own.  It cannot touch the device table:   *)
(* it queues updates and questions to the runtime task over the bounded    *)
(* request channel, waits for the answer of a question, and never for an   *)
(* update to be applied.  Meanwhile devices join and leave, a join starts  *)
(* another interview, the store fails, and the process stops or dies.      *)
(* Progress events change no state and are left out; what happens to a     *)
(* question on its way to the device and back is the module Requests.      *)
(***************************************************************************)
EXTENDS Naturals, Sequences, FiniteSets

CONSTANTS Device,     \* permanent addresses
          Endpoint,   \* endpoints a device can have
          Job,        \* bound: interviews, each run at most once
          QueueSize,  \* room in the request channel (64 in the code)
          None

VARIABLES up,      \* the runtime task runs
          record,  \* record[d]: the interview state and endpoints of d, or None
          stored,  \* stored[d]: the same in the store
          job,     \* job[j]: where interview j is and what it found
          queue    \* requests not handled yet: the interview and what it wants

vars == <<up, record, stored, job, queue>>

ASSUME InterviewAssumption == QueueSize \in Nat

InterviewState == {"Pending", "InProgress", "Successful", "Failed"}
Settled == {"Successful", "Failed"}
Rec == [state : InterviewState, eps : SUBSET Endpoint]

\* The points of an interview: an update to queue, or a question to ask.
Update == {"started", "descriptor", "finished"}
Question == {"node", "active", "simple", "basic"}
Ended == {"done", "refused", "stopped"}

TypeOK ==
  /\ up \in BOOLEAN
  /\ record \in [Device -> Rec \cup {None}]
  /\ stored \in [Device -> Rec \cup {None}]
  /\ job \in [Job -> [dev : Device \cup {None},
                      at : {"new", "called"} \cup Update \cup Question \cup Ended,
                      asked : {"no", "queued", "sent"},
                      todo : SUBSET Endpoint, eps : SUBSET Endpoint]]
  /\ queue \in Seq([job : Job, what : {"interview", "ask"} \cup Update])
  /\ Len(queue) <= QueueSize

Fresh(d, at) == [dev |-> d, at |-> at, asked |-> "no", todo |-> {}, eps |-> {}]

NewRecord == [state |-> "Pending", eps |-> {}]

Init ==
  /\ up = TRUE
  /\ record = [d \in Device |-> None]
  /\ stored = [d \in Device |-> None]
  /\ job = [j \in Job |-> Fresh(None, "new")]
  /\ queue = <<>>

-----------------------------------------------------------------------------
(* The interview task.                                                     *)

\* A slip: a channel without a bound.
EnqueueUnbounded(j, what) == up /\ queue' = Append(queue, [job |-> j, what |-> what])

Enqueue(j, what) ==
  /\ up
  /\ Len(queue) < QueueSize
  /\ queue' = Append(queue, [job |-> j, what |-> what])

\* Where an interview goes once its update is in the channel.
After == [started |-> "node", descriptor |-> "active", finished |-> "done"]

SendUpdate(j) ==
  /\ job[j].at \in Update
  /\ Enqueue(j, job[j].at)
  /\ job' = [job EXCEPT ![j].at = After[job[j].at]]
  /\ UNCHANGED <<up, record, stored>>

Ask(j) ==
  /\ job[j].at \in Question
  /\ job[j].asked = "no"
  /\ Enqueue(j, "ask")
  /\ job' = [job EXCEPT ![j].asked = "queued"]
  /\ UNCHANGED <<up, record, stored>>

\* The simple descriptors still to be read, or the last question.
AfterSimple(todo) == IF todo = {} THEN "basic" ELSE "simple"

\* Interview k at another point, its question answered.
Stage(k, at, todo, eps) == [dev |-> k.dev, at |-> at, asked |-> "no", todo |-> todo, eps |-> eps]
Asked(k, at) == Stage(k, at, k.todo, k.eps)

\* A question refused, timed out, or about a device without a record: the
\* interview goes on with the next one.
Fails(k) ==
  CASE k.at = "node" -> {Asked(k, "active")}
    [] k.at = "active" -> {Asked(k, "basic")}
    [] k.at = "simple" -> { Stage(k, AfterSimple(k.todo \ {e}), k.todo \ {e}, k.eps) : e \in k.todo }
    [] k.at = "basic" -> {Asked(k, "finished")}

\* A question answered; the list of endpoints may be empty.
Succeeds(k) ==
  CASE k.at = "node" -> {Asked(k, "descriptor")}
    [] k.at = "active" -> { Stage(k, AfterSimple(E), E, k.eps) : E \in SUBSET Endpoint }
    [] k.at = "simple" -> { Stage(k, AfterSimple(k.todo \ {e}), k.todo \ {e}, k.eps \cup {e}) : e \in k.todo }
    [] k.at = "basic" -> Fails(k)

Answered(j) ==
  /\ up
  /\ job[j].asked = "sent"
  /\ \E k \in Succeeds(job[j]) \cup Fails(job[j]) : job' = [job EXCEPT ![j] = k]
  /\ UNCHANGED <<up, record, stored, queue>>

-----------------------------------------------------------------------------
(* The runtime task: one request of the channel, or one adapter event.     *)

Take(what) ==
  /\ up
  /\ queue # <<>>
  /\ Head(queue).what = what
  /\ queue' = Tail(queue)

HeadJob == Head(queue).job
HeadDevice == job[HeadJob].dev

\* The state a record is stored with: as it is.
Persisted(r) == r

\* persist: the write happens, or fails with a warning; a device without a
\* record has none to write.
Persist(d) ==
  \/ record'[d] # None /\ stored' = [stored EXCEPT ![d] = Persisted(record'[d])]
  \/ UNCHANGED stored

\* A caller asks for an interview, and waits.
Call(j, d) ==
  /\ job[j].at = "new"
  /\ Enqueue(j, "interview")
  /\ job' = [job EXCEPT ![j] = Fresh(d, "called")]
  /\ UNCHANGED <<up, record, stored>>

OnCall ==
  /\ Take("interview")
  /\ job' = [job EXCEPT ![HeadJob].at = IF record[HeadDevice] = None THEN "refused" ELSE "started"]
  /\ UNCHANGED <<up, record, stored>>

\* A question of an interview is put to the device, if it has a record.
OnAsk ==
  /\ Take("ask")
  /\ IF record[HeadDevice] # None THEN job' = [job EXCEPT ![HeadJob].asked = "sent"]
     ELSE \E k \in Fails(job[HeadJob]) : job' = [job EXCEPT ![HeadJob] = k]
  /\ UNCHANGED <<up, record, stored>>

OnStarted ==
  /\ Take("started")
  /\ record' = IF record[HeadDevice] = None THEN record
               ELSE [record EXCEPT ![HeadDevice] = [state |-> "InProgress", eps |-> @.eps]]
  /\ Persist(HeadDevice)
  /\ UNCHANGED <<up, job>>

\* What the descriptor says is no part of this module; the record is saved.
OnDescriptor ==
  /\ Take("descriptor")
  /\ UNCHANGED <<up, record, job>>
  /\ Persist(HeadDevice)

\* The endpoints decide the verdict.
Verdict(k) == IF k.eps # {} THEN "Successful" ELSE "Failed"

\* A slip: what the interview found replaces what was known.
ConcludedAnew(r, k) == [state |-> Verdict(k), eps |-> k.eps]

\* A slip: what the interview found is added to what was known.
ConcludedMerged(r, k) == [state |-> Verdict(k), eps |-> r.eps \cup k.eps]

\* What the interview found replaces what was known, unless it found nothing.
Concluded(r, k) == [state |-> Verdict(k), eps |-> IF k.eps # {} THEN k.eps ELSE r.eps]

\* A slip: the record is saved and not concluded.
OnFinishedSilently ==
  /\ Take("finished")
  /\ UNCHANGED <<up, record, job>>
  /\ Persist(HeadDevice)

\* The record is updated and saved; then the definition is resolved and the
\* device configured, on the loop, which changes nothing here.
OnFinished ==
  /\ Take("finished")
  /\ record' = IF record[HeadDevice] = None THEN record
               ELSE [record EXCEPT ![HeadDevice] = Concluded(record[HeadDevice], job[HeadJob])]
  /\ Persist(HeadDevice)
  /\ UNCHANGED <<up, job>>

\* on_joined: the record is created or kept, and saved, and the device
\* interviewed unless it was with success.
OnJoined(d, j) ==
  /\ up
  /\ job[j].at = "new"
  /\ record' = IF record[d] = None THEN [record EXCEPT ![d] = NewRecord] ELSE record
  /\ Persist(d)
  /\ job' = IF record'[d].state = "Successful" THEN job
            ELSE [job EXCEPT ![j] = Fresh(d, "started")]
  /\ UNCHANGED <<up, queue>>

\* on_left: the record goes, and its interviews do not hear of it.
OnLeft(d) ==
  /\ up
  /\ record[d] # None
  /\ record' = [record EXCEPT ![d] = None]
  /\ \/ stored' = [stored EXCEPT ![d] = None]
     \/ UNCHANGED stored
  /\ UNCHANGED <<up, job, queue>>

\* The runtime stops, or the process dies: the channel goes, and with it
\* every interview at its next call.
Down ==
  /\ up
  /\ up' = FALSE
  /\ queue' = <<>>
  /\ job' = [j \in Job |-> IF job[j].at \in {"new"} \cup Ended THEN job[j]
                           ELSE Asked(job[j], "stopped")]
  /\ UNCHANGED <<record, stored>>

\* The next start takes the records as they are stored, and interviews none.
Start ==
  /\ ~up
  /\ up' = TRUE
  /\ record' = stored
  /\ UNCHANGED <<stored, job, queue>>

Next ==
  \/ \E j \in Job : SendUpdate(j) \/ Ask(j) \/ Answered(j)
  \/ \E j \in Job, d \in Device : Call(j, d) \/ OnJoined(d, j)
  \/ OnCall \/ OnAsk \/ OnStarted \/ OnDescriptor \/ OnFinished
  \/ \E d \in Device : OnLeft(d)
  \/ Down
  \/ Start

Spec == Init /\ [][Next]_vars

\* The task handles its channel (its select picks among ready branches at
\* random), the channel lets waiting senders in by turns, and a question is
\* answered or times out (Requests, EveryCallSettles).  Nothing is assumed of
\* devices or callers.
Fairness ==
  /\ WF_vars(OnCall \/ OnAsk \/ OnStarted \/ OnDescriptor \/ OnFinished)
  /\ \A j \in Job : SF_vars(SendUpdate(j)) /\ SF_vars(Ask(j)) /\ WF_vars(Answered(j))

FairSpec == Spec /\ Fairness

-----------------------------------------------------------------------------
(***************************************************************************)
(* While the runtime is up the endpoints of a record change only to what   *)
(* one interview of this device found, the whole of it and not nothing:    *)
(* the updates of interviews side by side do not mix, none is applied      *)
(* before its interview is over, and one that found no endpoints leaves    *)
(* those that are known.  One that found fewer does replace more           *)
(* (provisioning.rs, `InterviewUpdate::Finished`).                         *)
(***************************************************************************)
EndpointsComeWhole ==
  [][\A d \in Device :
       up /\ up' /\ record[d] # None /\ record'[d] # None
       /\ record'[d].eps # record[d].eps
         => \E j \in Job : /\ job[j].dev = d /\ job[j].at = "done"
                          /\ job[j].eps # {} /\ record'[d].eps = job[j].eps]_vars

Hand == Update \cup Question

\* Interview j will come to its end, or its end is in the channel after i.
InHand(j) == job[j].at \in Hand

EndQueued(j, i) ==
  \E n \in 1..Len(queue) : n > i /\ queue[n].job = j /\ queue[n].what = "finished"

Ending(j) == InHand(j) \/ EndQueued(j, 0)

Attended(d) ==
  record[d] # None /\ record[d].state = "InProgress" =>
    \E j \in Job : job[j].dev = d /\ Ending(j)

(***************************************************************************)
(* A device is marked as being interviewed only as long as an interview of *)
(* it is under way or its verdict on its way: no interview marks it again  *)
(* after its own verdict, none is lost between the channel and the task,   *)
(* and a second one cannot leave the mark of the first behind.  Only a     *)
(* record restored at a start may say "in progress" with no interview      *)
(* (inventory.rs:166 stores the state as it is, where device.rs:45 says    *)
(* that "`InProgress` is never persisted").                                *)
(***************************************************************************)
MarksAreEnded == [][up /\ up' => \A d \in Device : Attended(d) => Attended(d)']_vars

(***************************************************************************)
(* A device being interviewed does not stay that way: while an interview   *)
(* of it is under way, its record settles, or it leaves, or the runtime    *)
(* stops.                                                                  *)
(***************************************************************************)
InterviewSettles ==
  \A j \in Job, d \in Device :
    job[j].dev = d /\ job[j].at \in Question
      ~> ~up \/ record[d] = None \/ record[d].state \in Settled
=============================================================================
