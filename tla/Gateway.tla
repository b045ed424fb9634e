------------------------------ MODULE Gateway ------------------------------
(***************************************************************************)
(* The MQTT gateway: one loop between the runtime's event stream and a     *)
(* broker (rszigbee-gateway/src/lib.rs, rszigbee-mqtt, and the stream of   *)
(* rszigbee-core/src/runtime.rs).                                          *)
(*                                                                         *)
(* The loop receives an event and queues what it becomes to the client, or *)
(* polls the client, which connects, sends one queued request or hands     *)
(* over a message.  The client library and the broker are external: the    *)
(* queue is drained by nothing but polls, a broken connection takes what   *)
(* is queued with it, and the session is a clean one, the library's        *)
(* default, so a new connection starts without subscriptions.              *)
(***************************************************************************)
EXTENDS Naturals, Sequences

CONSTANTS Device, Cap, Value,
          Changes,      \* what one report may carry: values of some readings
          Filters,      \* the topic filters of Topics::subscriptions, in order
          Request,      \* inbound messages, each sent at most once
          FeedSize,     \* events a subscriber may be behind (1024 in the code)
          QueueSize,    \* room in the client's queue (64 in the code)
          MaxEvents,    \* bound: events the runtime emits
          MaxDrops,     \* bound: connections lost
          None

ASSUME RoomForTheStart == Len(Filters) < QueueSize
ASSUME FeedHasRoom == FeedSize \in Nat \ {0}
ASSUME FiltersAreListed == Filters \in Seq({Filters[i] : i \in DOMAIN Filters})
ASSUME ChangesAreReadings == Changes \subseteq UNION { [S -> Value] : S \in SUBSET Cap }

VARIABLES runtime,    \* "running" or "stopped"
          feed,       \* events emitted and not yet received
          lagged,     \* the next receive is told of a gap
          emitted,    \* events emitted so far
          state,      \* state[d]: the accumulated state of d, StateStore
          doing,      \* "looping", "sleeping", "closing" or "ended"
          acting,     \* the message whose call to the runtime is awaited
          todo,       \* what the handler under way still has to queue
          queue,      \* requests queued to the client
          connected,  \* what the client believes
          link,       \* the connection: "up", "down", or "away" when none can be made
          drops,      \* connections lost so far
          subscribed, \* filters the broker serves
          retained,   \* the bridge state the broker retains
          shown,      \* shown[d]: the last payload the broker passed on for d
          asked,      \* messages handed to the gateway
          answered,   \* requests whose response the broker passed on
          truth,      \* history: truth[d], all that was reported of d
          unheard,    \* history: readings whose last report fell into a gap
          unshown     \* history: devices whose last payload was lost on its way

rtVars == <<runtime, feed, lagged, emitted, truth, unheard>>
gwVars == <<state, doing, acting, todo, asked>>
brokerVars == <<link, drops, subscribed, retained, shown, answered, unshown>>
vars == <<rtVars, gwVars, brokerVars, queue, connected>>

Payload == [Cap -> Value \cup {None}]
Event == [kind : {"state"}, dev : Device, changes : Changes] \cup [kind : {"bridge", "other"}]
\* "set" stands for a /get too: both become one call to the runtime, and
\* neither has an answer on the broker.
Verb == {"set", "permit_join", "unknown"}
Message == Verb \X Request

ASSUME NoneIsApart == None # "online" /\ None \notin Message

\* What run() queues before its loop.
Start == [i \in DOMAIN Filters |-> [kind |-> "subscribe", filter |-> Filters[i]]]
           \o <<[kind |-> "online"]>>

NoReadings == [d \in Device |-> [c \in Cap |-> None]]

\* The loop begins: there was room for what run() queues, and the events are
\* subscribed to.  Nothing was polled yet.
Init ==
  /\ runtime = "running" /\ feed = <<>> /\ lagged = FALSE /\ emitted = 0
  /\ state = NoReadings
  /\ doing = "looping" /\ acting = None
  /\ todo = <<>> /\ queue = Start
  /\ connected = FALSE
  /\ link \in {"down", "away"} /\ drops = 0
  /\ subscribed = {} /\ retained = None
  /\ shown = NoReadings
  /\ asked = {} /\ answered = {}
  /\ truth = NoReadings /\ unheard = {} /\ unshown = {}

-----------------------------------------------------------------------------
(* The runtime and its stream.                                             *)

\* A slip the state is open to: a payload with what changed and no more.
AppliedAlone(readings, changes) ==
  [c \in Cap |-> IF c \in DOMAIN changes THEN changes[c] ELSE None]

\* DeviceState::apply: the new readings over all those known.
Applied(readings, changes) ==
  [c \in Cap |-> IF c \in DOMAIN changes THEN changes[c] ELSE readings[c]]

Readings(e) == IF e.kind = "state" THEN {e.dev} \X DOMAIN e.changes ELSE {}

\* The runtime emits an event.  A subscriber too far behind loses the oldest
\* and is told of the gap before anything else.
Emit(e) ==
  /\ runtime = "running" /\ emitted < MaxEvents
  /\ emitted' = emitted + 1
  /\ truth' = IF e.kind = "state"
              THEN [truth EXCEPT ![e.dev] = [c \in Cap |-> IF c \in DOMAIN e.changes THEN e.changes[c] ELSE @[c]]]
              ELSE truth
  /\ \/ /\ Len(feed) < FeedSize
        /\ feed' = Append(feed, e)
        /\ UNCHANGED <<lagged, unheard>>
     \/ /\ Len(feed) = FeedSize
        /\ feed' = Append(Tail(feed), e)
        /\ lagged' = TRUE
        /\ unheard' = unheard \cup Readings(Head(feed))
  /\ UNCHANGED <<runtime, gwVars, brokerVars, queue, connected>>

\* The runtime task returns; what it emitted can still be received.
Stop ==
  /\ runtime = "running"
  /\ runtime' = "stopped"
  /\ UNCHANGED <<feed, lagged, emitted, truth, unheard, gwVars, brokerVars, queue, connected>>

-----------------------------------------------------------------------------
(* The loop.                                                               *)

\* The loop waits in its select!.
Waiting == doing = "looping" /\ acting = None /\ todo = <<>>

\* publish() and subscribe() wait for room in the client's queue.
Queue ==
  /\ todo # <<>>
  /\ Len(queue) < QueueSize
  /\ queue' = Append(queue, Head(todo))
  /\ todo' = Tail(todo)
  /\ UNCHANGED <<rtVars, state, doing, acting, asked, brokerVars, connected>>

\* The client's queue is full and the loop waits for room in it, which only
\* the loop could make.
Stuck == todo # <<>> /\ Len(queue) = QueueSize

\* An event is received and translated.  A gap becomes nothing.
Receive ==
  /\ Waiting
  /\ \/ /\ lagged
        /\ lagged' = FALSE
        /\ UNCHANGED <<feed, unheard, state, todo>>
     \/ /\ ~lagged /\ feed # <<>>
        /\ feed' = Tail(feed)
        /\ unheard' = unheard \ Readings(Head(feed))
        /\ LET e == Head(feed)
           IN  \/ /\ e.kind = "state"
                  /\ state' = [state EXCEPT ![e.dev] = Applied(@, e.changes)]
                  /\ todo' = <<[kind |-> "state", dev |-> e.dev, payload |-> state'[e.dev]]>>
               \/ /\ e.kind = "bridge"
                  /\ todo' = <<[kind |-> "bridge"]>>
                  /\ UNCHANGED state
               \/ e.kind = "other" /\ UNCHANGED <<state, todo>>
        /\ UNCHANGED lagged
  /\ UNCHANGED <<runtime, emitted, truth, doing, acting, asked, brokerVars, queue, connected>>

\* A slip the end is open to: a stream that ended is taken for a gap.
EndNotSeen == FALSE

\* The stream ends once the runtime stopped and all it emitted was received.
StreamEnded == runtime = "stopped" /\ feed = <<>> /\ ~lagged

\* It is announced, and the connection closed, through the queue ...
Close ==
  /\ Waiting /\ StreamEnded
  /\ doing' = "closing"
  /\ todo' = <<[kind |-> "offline"], [kind |-> "disconnect"]>>
  /\ UNCHANGED <<rtVars, state, acting, asked, brokerVars, queue, connected>>

\* ... and run() returns, and the client with its queue is dropped.
Return ==
  /\ doing = "closing" /\ todo = <<>>
  /\ doing' = "ended"
  /\ UNCHANGED <<rtVars, state, acting, todo, asked, brokerVars, queue, connected>>

-----------------------------------------------------------------------------
(* The loop polls the client.                                              *)

DevicesIn(requests) == { r.dev : r \in { x \in requests : x.kind = "state" } }

\* A poll connects: a new session, to which nothing is carried over.
PollConnects ==
  /\ Waiting /\ ~connected /\ link = "down"
  /\ connected' = TRUE
  /\ link' = "up"
  /\ subscribed' = {}
  /\ UNCHANGED <<rtVars, gwVars, drops, retained, shown, answered, unshown, queue>>

\* It fails to connect, or finds the connection lost, and drops with it what
\* was queued.  The loop sleeps for a second.
PollFails ==
  /\ Waiting
  /\ \/ /\ ~connected /\ link = "away"
        /\ UNCHANGED <<queue, unshown>>
     \/ /\ connected /\ link # "up"
        /\ queue' = <<>>
        /\ unshown' = unshown \cup DevicesIn({queue[i] : i \in DOMAIN queue})
  /\ connected' = FALSE
  /\ doing' = "sleeping"
  /\ UNCHANGED <<rtVars, state, acting, todo, asked, link, drops, subscribed, retained, shown, answered>>

Wake ==
  /\ doing = "sleeping"
  /\ doing' = "looping"
  /\ UNCHANGED <<rtVars, state, acting, todo, asked, brokerVars, queue, connected>>

\* What a request does at the broker; a disconnect discards the will.
Arrives(r) ==
  /\ subscribed' = IF r.kind = "subscribe" THEN subscribed \cup {r.filter} ELSE subscribed
  /\ retained' = IF r.kind \in {"online", "offline"} THEN r.kind ELSE retained
  /\ shown' = IF r.kind = "state" THEN [shown EXCEPT ![r.dev] = r.payload] ELSE shown
  /\ unshown' = IF r.kind = "state" THEN unshown \ {r.dev} ELSE unshown
  /\ answered' = IF r.kind = "response" THEN answered \cup {r.to} ELSE answered
  /\ link' = IF r.kind = "disconnect" THEN "down" ELSE link

\* A poll sends the oldest request, into the void if the connection is lost
\* and the client does not know yet.
PollSends ==
  /\ Waiting /\ connected /\ queue # <<>>
  /\ queue' = Tail(queue)
  /\ \/ /\ link = "up"
        /\ Arrives(Head(queue))
     \/ /\ link # "up"
        /\ unshown' = unshown \cup DevicesIn({Head(queue)})
        /\ UNCHANGED <<link, subscribed, retained, shown, answered>>
  /\ UNCHANGED <<rtVars, gwVars, drops, connected>>

\* A slip handle() is open to: a refused request gets no answer.
AnsweredWhenKnown(v) == v = "permit_join"

\* What handle() answers: requests to the bridge, also those it refuses.
AnswersTo(v) == v \in {"permit_join", "unknown"}

Response(v, q) == IF AnswersTo(v) THEN <<[kind |-> "response", to |-> q]>> ELSE <<>>

FilterOf(v) == IF v = "set" THEN v ELSE "request"

\* A poll hands over a message.  A request nobody implements is answered at
\* once; the others call the runtime first.  A message that cannot be parsed
\* or is not the gateway's changes nothing.
PollReceives(v, q) ==
  /\ Waiting /\ connected /\ link = "up"
  /\ FilterOf(v) \in subscribed
  /\ \A u \in Verb : <<u, q>> \notin asked
  /\ asked' = asked \cup {<<v, q>>}
  /\ IF v = "unknown" THEN acting' = acting /\ todo' = Response(v, q)
                      ELSE acting' = <<v, q>> /\ todo' = todo
  /\ UNCHANGED <<rtVars, state, doing, brokerVars, queue, connected>>

\* The runtime has answered the call, or refused it.
CallReturns ==
  /\ acting # None
  /\ acting' = None
  /\ todo' = Response(acting[1], acting[2])
  /\ UNCHANGED <<rtVars, state, doing, asked, brokerVars, queue, connected>>

-----------------------------------------------------------------------------
(* The broker.                                                             *)

\* A slip the start is open to: no will is left with the broker.
NoWill == retained

\* The will the gateway leaves with the broker as it connects.
Will == "offline"

\* A gateway that polls no more sends no pings either.
Silent == Stuck \/ doing = "ended"

\* The broker loses a connection that was not closed: the will is published.
Loses ==
  /\ link = "up"
  /\ retained' = Will
  /\ subscribed' = {}
  /\ link' \in {"down", "away"}
  /\ UNCHANGED <<rtVars, gwVars, shown, answered, unshown, queue, connected>>

LinkLost == drops < MaxDrops /\ drops' = drops + 1 /\ Loses

KeepAliveLapses == Silent /\ UNCHANGED drops /\ Loses

BrokerBack ==
  /\ link = "away"
  /\ link' = "down"
  /\ UNCHANGED <<rtVars, gwVars, drops, subscribed, retained, shown, answered, unshown, queue, connected>>

Next ==
  \/ \E e \in Event : Emit(e)
  \/ Stop
  \/ Queue
  \/ Receive
  \/ Close
  \/ Return
  \/ PollConnects
  \/ PollFails
  \/ PollSends
  \/ \E v \in Verb, q \in Request : PollReceives(v, q)
  \/ CallReturns
  \/ Wake
  \/ LinkLost
  \/ KeepAliveLapses
  \/ BrokerBack

Spec == Init /\ [][Next]_vars

\* A branch of the select! that stays ready is taken (it picks at random
\* among ready ones), a poll makes progress, calls to the runtime return, a
\* broker that is away comes back, and it notices a client without pings.
Fairness ==
  /\ WF_vars(Queue) /\ WF_vars(CallReturns) /\ WF_vars(Wake) /\ WF_vars(Return)
  /\ WF_vars(Receive) /\ WF_vars(Close)
  /\ WF_vars(PollConnects) /\ WF_vars(PollFails) /\ WF_vars(PollSends)
  /\ WF_vars(BrokerBack) /\ WF_vars(KeepAliveLapses)

FairSpec == Spec /\ Fairness

-----------------------------------------------------------------------------
(***************************************************************************)
(* Once all is quiet, the last payload of a device has every reading ever  *)
(* reported of it, except those whose last report fell into a gap of the   *)
(* stream.  A lost payload is made up for by the next one of its device    *)
(* (state.rs: "a consumer that reads one message gets a complete           *)
(* picture").                                                              *)
(***************************************************************************)
PayloadsAreComplete ==
  Waiting /\ feed = <<>> /\ queue = <<>> =>
    \A d \in Device \ unshown : \A c \in Cap :
      <<d, c>> \notin unheard => shown[d][c] = truth[d][c]

(***************************************************************************)
(* A gateway that is gone, or waits for room for ever, is not shown as     *)
(* online (lib.rs, the crate's comment: "Availability is a will").         *)
(***************************************************************************)
GoneIsShown == Silent ~> [](retained # "online")

(***************************************************************************)
(* The gateway ends once the runtime did, with all that was emitted        *)
(* received, unless it is stuck on the client's queue (lib.rs, run: "until *)
(* the runtime stops").                                                    *)
(***************************************************************************)
StopEndsIt == runtime = "stopped" ~> Stuck \/ (doing = "ended" /\ feed = <<>>)

(***************************************************************************)
(* A request to the bridge is answered, also one that is refused, while    *)
(* connection and runtime hold (lib.rs, handle: "silence is                *)
(* indistinguishable from a broker problem").                              *)
(***************************************************************************)
RequestsAreAnswered ==
  \A q \in Request, v \in {"permit_join", "unknown"} :
    <<v, q>> \in asked ~> q \in answered \/ drops > 0 \/ runtime = "stopped" \/ Stuck
=============================================================================
