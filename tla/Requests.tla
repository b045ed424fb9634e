------------------------------ MODULE Requests ------------------------------
(***************************************************************************)
(* Requests that wait for a device's answer: ZDO requests and ZCL reads    *)
(* (rszigbee-core, runtime.rs `ask`, runtime/task/transport.rs, and the    *)
(* correlation in runtime/task/inbound.rs).                                *)
(*                                                                         *)
(* Callers queue requests to the runtime task.  The task sends a frame     *)
(* with the next sequence number of its space and leaves an entry in the   *)
(* ledger of that space; a frame from the radio, a tick or a shutdown      *)
(* settles the entry.  The task is one loop, so an answer that arrives     *)
(* while the send is awaited is handled after the entry exists, and a send *)
(* is one action.  The radio loses, delays, repeats and reorders: any      *)
(* frame sent so far may be answered at any time, any number of times.     *)
(***************************************************************************)
EXTENDS Naturals, Sequences, FiniteSets

CONSTANTS Call,         \* calls, each asked at most once
          Device,       \* permanent addresses
          Coordinator,  \* the coordinator's own, whose frames are looped back
          Cluster,      \* clusters addressed by the requests
          Basic,        \* the cluster a probe reads
          SeqMod,       \* values of a sequence number (256 in the code)
          QueueSize,    \* room in the request channel (64 in the code)
          MaxOthers,    \* bound: frames sent that nothing waits on
          None

ASSUME NoneIsNoCall == None \notin Call
ASSUME SeqModPositive == SeqMod \in Nat \ {0}
ASSUME BasicIsACluster == Basic \in Cluster
ASSUME CoordinatorIsADevice == Coordinator \in Device

VARIABLES status,   \* status[c]: what has become of call c
          request,  \* request[c]: the space, device and cluster it addresses
          queue,    \* the request channel
          seq,      \* zdo_sequence and zcl_sequence
          pending,  \* pending_zdo and pending_zcl: the call an entry waits for
          late,     \* calls whose deadline has passed
          known,    \* devices with a record
          sent,     \* frames put on the air so far
          heard,    \* heard[c]: the frame and the kind of answer c was given
          phase     \* "running", "stopping" or "stopped"

vars == <<status, request, queue, seq, pending, late, known, sent, heard, phase>>

Space == {"zdo", "zcl"}
Sequence == 0 .. SeqMod - 1
Key == Space \X Cluster \X Sequence
Target == [space : Space, dev : Device, cluster : Cluster]
Frame == [space : Space, dev : Device, cluster : Cluster, seq : Sequence, call : Call \cup {None}]
Outcome == {"response", "refused", "timeout", "unknown", "failed", "stopped"}
Answer == {"answer", "refusal", "echo"}

TypeOK ==
  /\ status \in [Call -> {"new", "queued", "waiting", "gone"} \cup Outcome]
  /\ request \in [Call -> Target \cup {None}]
  /\ queue \in Seq(Call)
  /\ seq \in [Space -> Sequence]
  /\ pending \in [Key -> Call \cup {None}]
  /\ late \subseteq Call
  /\ known \subseteq Device
  /\ sent \subseteq Frame
  /\ heard \in [Call -> [frame : Frame, kind : Answer] \cup {None}]
  /\ phase \in {"running", "stopping", "stopped"}

Init ==
  /\ status = [c \in Call |-> "new"]
  /\ request = [c \in Call |-> None]
  /\ queue = <<>>
  /\ seq = [s \in Space |-> 0]
  /\ pending = [k \in Key |-> None]
  /\ late = {}
  /\ known = {Coordinator}
  /\ sent = {}
  /\ heard = [c \in Call |-> None]
  /\ phase = "running"

-----------------------------------------------------------------------------
(* Settling calls.  A reply to a caller that is gone goes nowhere.         *)

Settled(c, outcome) == IF status[c] = "gone" THEN "gone" ELSE outcome

Settle(c, outcome) == status' = [status EXCEPT ![c] = Settled(c, outcome)]

SettleAll(calls, outcome) ==
  status' = [c \in Call |-> IF c \in calls THEN Settled(c, outcome) ELSE status[c]]

-----------------------------------------------------------------------------
(* Callers.                                                                *)

\* `ask`: the request goes into the channel once there is room.
Ask(c) ==
  /\ phase # "stopped"
  /\ status[c] = "new"
  /\ Len(queue) < QueueSize
  /\ \E t \in Target : request' = [request EXCEPT ![c] = t]
  /\ queue' = Append(queue, c)
  /\ status' = [status EXCEPT ![c] = "queued"]
  /\ UNCHANGED <<seq, pending, late, known, sent, heard, phase>>

\* `ask` on a runtime whose task has returned.
AskStopped(c) ==
  /\ phase = "stopped"
  /\ status[c] = "new"
  /\ status' = [status EXCEPT ![c] = "stopped"]
  /\ UNCHANGED <<request, queue, seq, pending, late, known, sent, heard, phase>>

\* A caller drops its future, say at a timeout of its own.
GiveUp(c) ==
  /\ status[c] \in {"queued", "waiting"}
  /\ status' = [status EXCEPT ![c] = "gone"]
  /\ UNCHANGED <<request, queue, seq, pending, late, known, sent, heard, phase>>

-----------------------------------------------------------------------------
(* The runtime task.                                                       *)

\* A slip the sequence is open to: it runs past its width.
SequencesUnwrapped(s) == [onAir |-> (seq[s] + 1) % SeqMod, waitedOn |-> seq[s] + 1]

\* The sequence a frame carries and the one its entry waits on: the space's
\* next value for both.
Sequences(s) == [onAir |-> (seq[s] + 1) % SeqMod, waitedOn |-> (seq[s] + 1) % SeqMod]

\* A slip the ledgers are open to: one for both spaces.
OneLedger(t, n) == <<"zdo", t.cluster, n>>

\* The entry that waits for sequence n in answer to t: pending_zdo and
\* pending_zcl are two maps, each keyed by cluster and sequence.
Entry(t, n) == <<t.space, t.cluster, n>>

Transmit(t, n, c) ==
  sent' = sent \cup {[space |-> t.space, dev |-> t.dev, cluster |-> t.cluster, seq |-> n, call |-> c]}

\* send_zdo and zcl_read, for the oldest request.  The adapter answers in
\* line, takes the frame, or fails; when it takes the frame, an entry still
\* waiting on the same sequence is replaced, and its caller finds its reply
\* channel closed.
Send ==
  /\ phase = "running"
  /\ queue # <<>>
  /\ queue' = Tail(queue)
  /\ LET c == Head(queue)
         t == request[c]
         n == Sequences(t.space)
         key == Entry(t, n.waitedOn)
         own == [space |-> t.space, dev |-> t.dev, cluster |-> t.cluster,
                 seq |-> n.onAir, call |-> c]
     IN  \/ /\ t.dev \notin known
            /\ Settle(c, "unknown")
            /\ UNCHANGED <<seq, pending, sent, heard>>
         \/ /\ t.dev \in known
            /\ seq' = [seq EXCEPT ![t.space] = n.waitedOn]
            /\ Transmit(t, n.onAir, c)
            /\ \/ /\ Settle(c, "response")
                  /\ heard' = [heard EXCEPT ![c] = [frame |-> own, kind |-> "answer"]]
                  /\ UNCHANGED pending
               \/ /\ status' = [d \in Call |-> IF d = c THEN Settled(c, "waiting")
                                               ELSE IF d = pending[key] THEN Settled(d, "stopped")
                                               ELSE status[d]]
                  /\ pending' = [pending EXCEPT ![key] = c]
                  /\ UNCHANGED heard
               \/ /\ Settle(c, "failed")
                  /\ UNCHANGED <<pending, heard>>
  /\ UNCHANGED <<request, late, known, phase>>

\* A frame nothing waits on: a command, a binding, a reporting
\* configuration.  It takes a sequence number of its space.
SendOther(t) ==
  /\ phase = "running"
  /\ t.dev \in known
  /\ Cardinality({f \in sent : f.call = None}) < MaxOthers
  /\ seq' = [seq EXCEPT ![t.space] = Sequences(t.space).waitedOn]
  /\ Transmit(t, Sequences(t.space).onAir, None)
  /\ UNCHANGED <<status, request, queue, pending, late, known, heard, phase>>

\* A probe reads the basic cluster with sequence number 0, whatever the
\* counter says.
Probe(d) ==
  /\ phase = "running"
  /\ d \in known
  /\ Cardinality({f \in sent : f.call = None}) < MaxOthers
  /\ Transmit([space |-> "zcl", dev |-> d, cluster |-> Basic], 0, None)
  /\ UNCHANGED <<status, request, queue, seq, pending, late, known, heard, phase>>

\* A slip on_zcl was open to: any frame with the sequence answers the read.
CorrelatesAnything(f, kind) == TRUE

\* What may settle an entry.  A ZDO answer comes on the response cluster, so
\* a looped-back request never meets an entry.  A ZCL frame must be from a
\* known device, directed to the client, and be a read response or a refusal.
Correlates(f, kind) ==
  f.space = "zcl" => f.dev \in known /\ kind \in {"answer", "refusal"}

\* A slip an answer is open to: the entry stays in the ledger.
ReceiveKeepingEntry(f, kind) ==
  /\ phase = "running"
  /\ Correlates(f, kind)
  /\ pending[<<f.space, f.cluster, f.seq>>] # None
  /\ Settle(pending[<<f.space, f.cluster, f.seq>>], "response")
  /\ UNCHANGED <<request, queue, seq, pending, late, known, sent, heard, phase>>

\* The radio hands over a frame provoked by frame f: on_zdo and on_zcl.
\* Only a frame to the coordinator itself comes back as it was sent.  A
\* frame that meets no entry takes the path of an unsolicited one.
Receive(f, kind) ==
  /\ phase = "running"
  /\ kind = "refusal" => f.space = "zcl"
  /\ kind = "echo" => f.space = "zcl" /\ f.dev = Coordinator
  /\ Correlates(f, kind)
  /\ LET key == Entry(f, f.seq)
         c == pending[key]
     IN  /\ c # None
         /\ pending' = [pending EXCEPT ![key] = None]
         /\ Settle(c, IF kind = "refusal" THEN "refused" ELSE "response")
         /\ heard' = [heard EXCEPT ![c] = [frame |-> f, kind |-> kind]]
  /\ UNCHANGED <<request, queue, seq, late, known, sent, phase>>

\* Five seconds have passed since c's frame was sent.
Deadline(c) ==
  /\ c \notin late
  /\ \E k \in Key : pending[k] = c
  /\ late' = late \cup {c}
  /\ UNCHANGED <<status, request, queue, seq, pending, known, sent, heard, phase>>

\* Slips the expiry is open to: it forgets the ZCL ledger, or callers gone.
ExpiredZdoOnly(k) == k[1] = "zdo" /\ (pending[k] \in late \/ status[pending[k]] = "gone")
ExpiredLateOnly(k) == status[pending[k]] # "gone" /\ pending[k] \in late

\* An entry whose deadline passed, or whose caller went away.
Expired(k) == pending[k] \in late \/ status[pending[k]] = "gone"

\* expire_pending_zdo, for both ledgers, at every tick.
Expire ==
  /\ phase = "running"
  /\ LET keys == { k \in Key : pending[k] # None /\ Expired(k) }
     IN  /\ keys # {}
         /\ pending' = [k \in Key |-> IF k \in keys THEN None ELSE pending[k]]
         /\ SettleAll({pending[k] : k \in keys}, "timeout")
  /\ UNCHANGED <<request, queue, seq, late, known, sent, heard, phase>>

\* A device joins, or leaves; its entries stay in the ledgers.
DeviceKnown(d) ==
  /\ phase = "running"
  /\ d # Coordinator
  /\ known' = IF d \in known THEN known \ {d} ELSE known \cup {d}
  /\ UNCHANGED <<status, request, queue, seq, pending, late, sent, heard, phase>>

\* A slip a shutdown is open to: it leaves the ledgers to the task's end.
ShutdownKeepingLedgers ==
  /\ phase = "running"
  /\ phase' = "stopping"
  /\ UNCHANGED <<status, request, queue, seq, pending, late, known, sent, heard>>

\* shutdown fails what is pending before it awaits the store and the radio ...
Shutdown ==
  /\ phase = "running"
  /\ phase' = "stopping"
  /\ SettleAll({pending[k] : k \in Key}, "stopped")
  /\ pending' = [k \in Key |-> None]
  /\ UNCHANGED <<request, queue, seq, late, known, sent, heard>>

\* ... and then the task returns, and the requests still queued are dropped.
TaskEnds ==
  /\ phase = "stopping"
  /\ phase' = "stopped"
  /\ queue' = <<>>
  /\ pending' = [k \in Key |-> None]
  /\ SettleAll({queue[i] : i \in DOMAIN queue} \cup {pending[k] : k \in Key}, "stopped")
  /\ UNCHANGED <<request, seq, late, known, sent, heard>>

Next ==
  \/ \E c \in Call : Ask(c) \/ AskStopped(c) \/ GiveUp(c) \/ Deadline(c)
  \/ Send
  \/ \E t \in Target : SendOther(t)
  \/ \E d \in Device : Probe(d) \/ DeviceKnown(d)
  \/ \E f \in sent, kind \in Answer : Receive(f, kind)
  \/ Expire
  \/ Shutdown
  \/ TaskEnds

Spec == Init /\ [][Next]_vars

\* The loop takes every ready branch of its select sooner or later (it picks
\* among ready branches at random), the adapter's send and stop return, and
\* time passes.  Nothing is assumed of callers, devices or the radio.
Fairness ==
  /\ WF_vars(Send)
  /\ WF_vars(Expire)
  /\ WF_vars(TaskEnds)
  /\ \A c \in Call : WF_vars(Deadline(c))

FairSpec == Spec /\ Fairness

-----------------------------------------------------------------------------
(***************************************************************************)
(* The runtime keeps what a handle promises: it implements Calls.  A       *)
(* request is answered once however the answer, the deadline, the caller   *)
(* giving up and the shutdown fall out, and none is left hanging.          *)
(***************************************************************************)
Promise == INSTANCE Calls WITH
  status <- [c \in Call |-> IF status[c] \in {"queued", "waiting"} THEN "asked" ELSE status[c]]

Answers == Promise!Safe
EveryCallSettles == Promise!Settles

\* The frame sent for a call.
FramesOf(c) == { f \in sent : f.call = c }

SameNumber(f, g) == f.space = g.space /\ f.cluster = g.cluster /\ f.seq = g.seq

(***************************************************************************)
(* A caller is given an answer to the frame sent for it, or to one that    *)
(* carries the very same number, and never its own request looped back by  *)
(* the radio (inbound.rs, the comment in on_zcl).  That the number may be  *)
(* on the air twice, on frames to two devices, is the code's: the ledger   *)
(* is keyed by cluster and sequence and the sequence is one byte.          *)
(***************************************************************************)
AnswersAreOwn ==
  \A c \in Call : heard[c] # None =>
    /\ heard[c].kind # "echo"
    /\ \E g \in FramesOf(c) : SameNumber(g, heard[c].frame)

(***************************************************************************)
(* A caller is told the runtime stopped only when it did (runtime.rs: "A   *)
(* dropped sender means the task stopped between the send and the reply"), *)
(* or when a later request took the very number its own waited on.         *)
(***************************************************************************)
StoppedOnlyWhenStopped ==
  \A c \in Call : status[c] = "stopped" /\ phase = "running" =>
    \E f \in FramesOf(c), g \in sent \ FramesOf(c) : g.call # None /\ SameNumber(f, g)

(***************************************************************************)
(* Once the shutdown begins no caller waits on a device any more, and once *)
(* the task is gone none waits at all (mod.rs, shutdown: "Fail the pending *)
(* requests explicitly").                                                  *)
(***************************************************************************)
NobodyWaitsOnAStoppedRuntime ==
  /\ phase # "running" => \A c \in Call : status[c] # "waiting"
  /\ phase = "stopped" => \A c \in Call : status[c] # "queued"

(***************************************************************************)
(* A ledger entry nobody wants any more goes (transport.rs: "Without this  *)
(* the map grows for every device that never answers").                    *)
(***************************************************************************)
LedgerDrains ==
  \A k \in Key : pending[k] # None /\ status[pending[k]] = "gone" ~> pending[k] = None
=============================================================================
