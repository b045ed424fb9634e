------------------------------ MODULE EmberLink ------------------------------
(***************************************************************************)
(* The link between the runtime task and the stick                         *)
(* (rszigbee-adapter-ember, connection.rs and lib.rs): the task that owns  *)
(* the serial port, the pump that translates callbacks, and the channels   *)
(* between them.                                                           *)
(*                                                                         *)
(*   runtime --request--> connection --callbacks--> pump --events--> runtime *)
(*                                                                         *)
(* The channels of callbacks and of events are bounded, and a sender waits *)
(* for room.  The runtime reads events only between handlers, and a        *)
(* handler waits for each command it sends.  The runtime is the only       *)
(* holder of the connection, so one command at most is on its way.         *)
(*                                                                         *)
(* External: the stick produces callbacks at any time, answers every       *)
(* command it is sent or lets it time out, and its port may go away.       *)
(***************************************************************************)
EXTENDS Naturals, Sequences, SequencesExt

CONSTANTS MaxCallbacks,  \* bound: callbacks the stick produces
          Unhandled,     \* the ones among them that mean nothing to the runtime
          CallbackRoom,  \* REQUESTS (64 in the code)
          EventRoom      \* room in the event channel (512 in the code)

ASSUME LinkAssumption ==
  /\ MaxCallbacks \in Nat
  /\ Unhandled \subseteq 1..MaxCallbacks
  /\ CallbackRoom \in Nat \ {0}
  /\ EventRoom \in Nat \ {0}

VARIABLES task,    \* what the runtime task is doing
          request,    \* its command waits for the connection task
          port,       \* the serial port is there
          made,       \* callbacks produced so far
          ncp,        \* the ones the connection task has not read yet
          conn,       \* what the connection task is doing
          batch,      \* callbacks it read and has not forwarded
          callbacks,  \* the channel to the pump
          pump,       \* what the pump is doing
          held,       \* the event it is sending, if any
          events,     \* the channel to the runtime
          handled     \* history: events the runtime took

linkVars == <<task, request, port, made, ncp, conn, batch, callbacks, pump, held, events, handled>>

Callback == 1..MaxCallbacks

\* The port is open, the session negotiated, and Connection::spawn returned.
LinkInit ==
  /\ task = "starting"
  /\ request = FALSE
  /\ port = TRUE
  /\ made = 0
  /\ ncp = <<>>
  /\ conn = "free"
  /\ batch = <<>>
  /\ callbacks = <<>>
  /\ pump = "unborn"
  /\ held = <<>>
  /\ events = <<>>
  /\ handled = <<>>

connVars == <<conn, batch, ncp>>
pumpVars == <<pump, held>>
world == <<port, made>>

-----------------------------------------------------------------------------
(* The runtime task.                                                       *)

\* A bring-up or a handler sends a command and waits.  Once the connection
\* task is gone a command fails at once, and nothing changes.
Command ==
  /\ task \in {"starting", "handling"}
  /\ conn # "ended"
  /\ task' = "asking"
  /\ request' = TRUE
  /\ UNCHANGED <<world, connVars, callbacks, pumpVars, events, handled>>

\* Where the answer to its command finds the runtime.
Answered == IF pump = "unborn" THEN "starting" ELSE "handling"

\* EmberAdapter::start is through: the pump is spawned.
Started ==
  /\ task = "starting"
  /\ task' = "running"
  /\ pump' = "waiting"
  /\ UNCHANGED <<request, world, connVars, callbacks, held, events, handled>>

\* A step of the bring-up failed: the session goes, both of its halves.
StartFails ==
  /\ task = "starting"
  /\ task' = "ended"
  /\ pump' = "ended"
  /\ callbacks' = <<>>
  /\ UNCHANGED <<request, world, connVars, held, events, handled>>

\* The loop takes an event ...
TakeEvent ==
  /\ task = "running"
  /\ events # <<>>
  /\ task' = "handling"
  /\ events' = Tail(events)
  /\ handled' = Append(handled, Head(events))
  /\ UNCHANGED <<request, world, connVars, callbacks, pumpVars>>

\* ... or a caller's request, or the tick.
TakeOther ==
  /\ task = "running"
  /\ task' = "handling"
  /\ UNCHANGED <<request, world, connVars, callbacks, pumpVars, events, handled>>

HandlerEnds ==
  /\ task = "handling"
  /\ task' = "running"
  /\ UNCHANGED <<request, world, connVars, callbacks, pumpVars, events, handled>>

\* The handler was a shutdown, and comes to EmberAdapter::stop: the session
\* is dropped first ...
BeginStop ==
  /\ task = "handling"
  /\ task' = "stopping"
  /\ UNCHANGED <<request, world, connVars, callbacks, pumpVars, events, handled>>

\* ... then one event more is sent, and the task returns, with the receiver.
FinishStop ==
  /\ task = "stopping"
  /\ Len(events) < EventRoom
  /\ task' = "ended"
  /\ events' = <<>>
  /\ UNCHANGED <<request, world, connVars, callbacks, pumpVars, handled>>

-----------------------------------------------------------------------------
(* The connection task.                                                    *)

\* A slip: the pump was given a handle as well.
HandlesDroppedByAll == task \in {"stopping", "ended"} /\ pump = "ended"

\* Every Connection is gone.
HandlesDropped == task \in {"stopping", "ended"}

\* Queued work first.
ConnTakes ==
  /\ conn = "free"
  /\ request
  /\ conn' = "executing"
  /\ request' = FALSE
  /\ UNCHANGED <<task, world, batch, ncp, callbacks, pumpVars, events, handled>>

\* The command was answered, or failed; its caller learns of it before the
\* callbacks that were read meanwhile are forwarded.
ConnExecuted ==
  /\ conn = "executing"
  /\ task' = Answered
  /\ conn' = "forwarding"
  /\ batch' = ncp
  /\ ncp' = <<>>
  /\ UNCHANGED <<request, world, callbacks, pumpVars, events, handled>>

ConnPolls ==
  /\ conn = "free"
  /\ ~request
  /\ ~HandlesDropped
  /\ conn' = "polling"
  /\ UNCHANGED <<task, request, world, batch, ncp, callbacks, pumpVars, events, handled>>

\* A slip: what the poll returned is not looked at.
ConnPolledDiscarding ==
  /\ conn = "polling"
  /\ port
  /\ conn' = "forwarding"
  /\ ncp' = <<>>
  /\ UNCHANGED <<task, request, world, batch, callbacks, pumpVars, events, handled>>

ConnPolled ==
  /\ conn = "polling"
  /\ port
  /\ conn' = "forwarding"
  /\ batch' = ncp
  /\ ncp' = <<>>
  /\ UNCHANGED <<task, request, world, callbacks, pumpVars, events, handled>>

\* A slip: the task waits for the port to come back.
ConnPollWaits ==
  /\ conn = "polling"
  /\ ~port
  /\ UNCHANGED linkVars

\* The port is gone: the task ends, and drops a command that was queued
\* during the poll, whose caller is told that nobody is connected.
ConnPollFails ==
  /\ conn = "polling"
  /\ ~port
  /\ conn' = "ended"
  /\ request' = FALSE
  /\ task' = IF request THEN Answered ELSE task
  /\ UNCHANGED <<world, batch, ncp, callbacks, pumpVars, events, handled>>

ConnEnds ==
  /\ conn = "free"
  /\ ~request
  /\ HandlesDropped
  /\ conn' = "ended"
  /\ UNCHANGED <<task, request, world, batch, ncp, callbacks, pumpVars, events, handled>>

\* One callback goes into the channel, or, with nobody behind it, the whole
\* batch is dropped.
ConnForwards ==
  /\ conn = "forwarding"
  /\ batch # <<>>
  /\ \/ /\ pump # "ended"
        /\ Len(callbacks) < CallbackRoom
        /\ batch' = Tail(batch)
        /\ callbacks' = Append(callbacks, Head(batch))
     \/ /\ pump = "ended"
        /\ batch' = <<>>
        /\ UNCHANGED callbacks
  /\ UNCHANGED <<task, request, world, conn, ncp, pumpVars, events, handled>>

ConnForwarded ==
  /\ conn = "forwarding"
  /\ batch = <<>>
  /\ conn' = "free"
  /\ UNCHANGED <<task, request, world, batch, ncp, callbacks, pumpVars, events, handled>>

-----------------------------------------------------------------------------
(* The pump.                                                               *)

\* A slip: the first callback that means nothing ends the pump.
PumpTakesOrEnds ==
  /\ pump = "waiting"
  /\ callbacks # <<>>
  /\ IF Head(callbacks) \in Unhandled
       THEN pump' = "ended" /\ callbacks' = <<>> /\ UNCHANGED held
       ELSE pump' = "sending" /\ callbacks' = Tail(callbacks) /\ held' = <<Head(callbacks)>>
  /\ UNCHANGED <<task, request, world, connVars, events, handled>>

PumpTakes ==
  /\ pump = "waiting"
  /\ callbacks # <<>>
  /\ callbacks' = Tail(callbacks)
  /\ IF Head(callbacks) \in Unhandled
       THEN UNCHANGED pumpVars
       ELSE pump' = "sending" /\ held' = <<Head(callbacks)>>
  /\ UNCHANGED <<task, request, world, connVars, events, handled>>

PumpSends ==
  /\ pump = "sending"
  /\ task # "ended"
  /\ Len(events) < EventRoom
  /\ events' = events \o held
  /\ held' = <<>>
  /\ pump' = "waiting"
  /\ UNCHANGED <<task, request, world, connVars, callbacks, handled>>

\* Nobody takes events any more, or no callback will come.
PumpEnds ==
  /\ \/ pump = "sending" /\ task = "ended"
     \/ pump = "waiting" /\ callbacks = <<>> /\ conn = "ended"
  /\ pump' = "ended"
  /\ held' = <<>>
  /\ callbacks' = <<>>
  /\ UNCHANGED <<task, request, world, connVars, events, handled>>

-----------------------------------------------------------------------------
(* The stick.                                                              *)

Produce ==
  /\ port
  /\ conn # "ended"
  /\ made < MaxCallbacks
  /\ made' = made + 1
  /\ ncp' = Append(ncp, made + 1)
  /\ UNCHANGED <<task, request, port, conn, batch, callbacks, pumpVars, events, handled>>

LosePort ==
  /\ port
  /\ port' = FALSE
  /\ UNCHANGED <<task, request, made, connVars, callbacks, pumpVars, events, handled>>

-----------------------------------------------------------------------------
RuntimeSteps == Command \/ Started \/ StartFails \/ TakeEvent \/ TakeOther \/ HandlerEnds
                \/ BeginStop \/ FinishStop
ConnSteps == ConnTakes \/ ConnExecuted \/ ConnPolls \/ ConnPolled \/ ConnPollFails \/ ConnEnds
             \/ ConnForwards \/ ConnForwarded
PumpSteps == PumpTakes \/ PumpSends \/ PumpEnds

LinkNext == RuntimeSteps \/ ConnSteps \/ PumpSteps \/ Produce \/ LosePort

LinkSpec == LinkInit /\ [][LinkNext]_linkVars

\* Tasks that can run do.  A bring-up and a handler send finitely many
\* commands, so that they end if each returns, and the select! of the loop
\* takes a branch that is ready again and again.
LinkFairness ==
  /\ WF_linkVars(ConnSteps)
  /\ WF_linkVars(PumpSteps)
  /\ WF_linkVars(FinishStop)
  /\ SF_linkVars(Started \/ StartFails)
  /\ SF_linkVars(HandlerEnds \/ BeginStop)
  /\ SF_linkVars(TakeEvent)

LinkFairSpec == LinkSpec /\ LinkFairness

-----------------------------------------------------------------------------
\* What of a sequence of callbacks means something to the runtime, in order.
Relevant(s) ==
  LET kept[i \in 0..Len(s)] ==
        IF i = 0 THEN <<>>
        ELSE IF s[i] \in Unhandled THEN kept[i - 1] ELSE Append(kept[i - 1], s[i])
  IN kept[Len(s)]
Produced == Relevant([n \in 1..made |-> n])

(***************************************************************************)
(* While the link is up every callback the runtime acts on is on its way   *)
(* to it or there, once, and in the order the stick produced them; when    *)
(* the port goes away the runtime has a beginning of them (connection.rs:  *)
(* "Discarding this value silently drops every callback that arrives while *)
(* no command is in flight").                                              *)
(***************************************************************************)
InOrder ==
  LET read == handled \o events \o held \o Relevant(callbacks \o batch)
  IN  task # "ended" /\ pump # "ended" =>
        /\ IsPrefix(read, Produced)
        /\ port => read \o Relevant(ncp) = Produced

\* The runtime waits for the connection task, that for room for a callback,
\* the pump for room for an event, and nobody but the runtime makes room.
Circle ==
  /\ task = "asking" /\ request
  /\ conn = "forwarding" /\ batch # <<>> /\ Len(callbacks) = CallbackRoom
  /\ pump = "unborn" \/ (pump = "sending" /\ Len(events) = EventRoom)

\* The runtime waits for room that only it could make.
StopWaits == task = "stopping" /\ Len(events) = EventRoom

(***************************************************************************)
(* A command returns whatever the stick produces meanwhile and whether or  *)
(* not the port is there, and a stop is finished: nothing makes the        *)
(* runtime wait for ever but a channel that is full.                       *)
(***************************************************************************)
RuntimeProceeds ==
  /\ task = "asking" ~> task # "asking" \/ Circle
  /\ task = "stopping" ~> task = "ended" \/ StopWaits

(***************************************************************************)
(* Every callback the runtime acts on reaches it, also when no command is  *)
(* in flight or commands follow each other without a pause, unless the     *)
(* link ends or everyone waits.                                            *)
(***************************************************************************)
EventsArrive ==
  \A n \in Callback \ Unhandled :
    made >= n ~> \/ \E i \in DOMAIN handled : handled[i] = n
                 \/ ~port \/ Circle \/ task \in {"stopping", "ended"}

(***************************************************************************)
(* After the runtime ended the connection task does, "which drops the Ncp  *)
(* and closes the serial port" (connection.rs, spawn), whatever is still   *)
(* in the channels.                                                        *)
(***************************************************************************)
PortCloses == task = "ended" ~> conn = "ended"

(***************************************************************************)
(* "A full channel must drop with a counter" (lib.rs, build): the runtime  *)
(* is never left waiting for room in the channel of events, which it is    *)
(* the one to empty.                                                       *)
(***************************************************************************)
NeverStuck == Len(events) = EventRoom => ~Circle /\ ~StopWaits
=============================================================================
