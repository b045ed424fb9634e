---------------------------- MODULE NetworkRecord ----------------------------
(***************************************************************************)
(* The stored network record and its frame counter (rszigbee-core,         *)
(* runtime.rs `start`, runtime/task/provisioning.rs, store.rs).            *)
(*                                                                         *)
(* The coordinator hardware counts every secured frame it sends; a device  *)
(* drops frames with a counter it has already seen.  The runtime stores    *)
(* the counter a margin ahead, at the start and whenever a tick finds the  *)
(* margin used up.  The network identity is abstracted to one identifier,  *)
(* and a network formed anew has one of its own.                           *)
(***************************************************************************)
EXTENDS Naturals

CONSTANTS Coord,       \* addresses a coordinator stick can have
          Network,     \* network identities
          Margin,      \* FRAME_COUNTER_MARGIN
          MaxCounter,  \* the largest counter (2^32 - 1 in the code)
          PerTick,     \* bound: frames sent between two ticks
          None

ASSUME MarginPositive == Margin \in Nat \ {0}
ASSUME MaxCounterNat == MaxCounter \in Nat \ {0}
ASSUME PerTickNat == PerTick \in Nat
ASSUME NoneIsNoNetwork == None \notin Network

Counter == 0 .. MaxCounter
Record == [ieee : Coord, net : Network, counter : Counter, key : BOOLEAN]
\* What holds no network, or no record: None is none of either.
ASSUME NoneIsNoRecord == None \notin Record

VARIABLES stick,      \* the coordinator: address, network, live counter
          formed,     \* networks formed so far
          store,      \* the stored record, or None
          phase,      \* "down", "starting" or "running"
          known,      \* Task::network_known
          persisted,  \* Task::persisted_frame_counter
          burst,      \* frames sent since the last tick
          caughtUp    \* the last tick of this run met no failing call

vars == <<stick, formed, store, phase, known, persisted, burst, caughtUp>>

TypeOK ==
  /\ stick \in [ieee : Coord, net : Network \cup {None}, counter : Counter]
  /\ formed \subseteq Network
  /\ store \in Record \cup {None}
  /\ phase \in {"down", "starting", "running"}
  /\ known \in BOOLEAN
  /\ persisted \in Counter
  /\ burst \in 0 .. PerTick
  /\ caughtUp \in BOOLEAN

\* A stick with a network or without; no record, or one an old version left,
\* without key and counter.
Init ==
  /\ stick \in [ieee : Coord, net : Network \cup {None}, counter : {0}]
  /\ formed = {stick.net} \ {None}
  /\ store \in {None} \cup
       (IF stick.net = None THEN {}
        ELSE {[ieee |-> stick.ieee, net |-> stick.net, counter |-> 0, key |-> FALSE]})
  /\ phase = "down"
  /\ known = FALSE
  /\ persisted = 0
  /\ burst = 0
  /\ caughtUp = FALSE

-----------------------------------------------------------------------------
\* A slip: an addition that does not saturate.
AheadUnsaturated(n) == n + Margin

\* The counter to store for a live one: `saturating_add`.
Ahead(n) == IF n + Margin > MaxCounter THEN MaxCounter ELSE n + Margin

\* What the record once held: a placeholder.
PlaceholderCounter(n) == 0

\* The counter of a new record.
NewCounter(n) == Ahead(n)

NeedsCompleting(r) == ~r.key \/ r.counter = 0

\* The network the stick is on after adapter.start, which forms one only
\* where there is none and the policy says so.
Started(form) ==
  IF stick.net # None THEN {stick.net} ELSE IF form THEN Network \ formed ELSE {}

\* A slip: the record's coordinator is not compared with the stick.
BelongsToAnyone(ieee) == TRUE

\* The check before anything is written to the store.
Belongs(ieee) == store = None \/ store.ieee = ieee

\* ZigbeeBuilder::start.  A network is formed before the record's coordinator
\* is compared; a stick it does not belong to is refused.
Start(form) ==
  /\ phase = "down"
  /\ \E n \in Started(form) :
       /\ stick' = IF stick.net = None THEN [ieee |-> stick.ieee, net |-> n, counter |-> 0] ELSE stick
       /\ formed' = formed \cup {n}
  /\ phase' = IF Belongs(stick.ieee) THEN "starting" ELSE "down"
  /\ known' = (store # None /\ ~NeedsCompleting(store))
  /\ persisted' = 0
  /\ burst' = 0
  /\ caughtUp' = FALSE
  /\ UNCHANGED store

\* persist_network_if_needed, once, before the task's loop: it returns at
\* once or for a failing call, or writes a new record, with the key if the
\* stick exports it.
PersistNetwork ==
  /\ phase = "starting"
  /\ phase' = "running"
  /\ \/ UNCHANGED <<store, known, persisted>>
     \/ /\ ~known
        /\ \E key \in BOOLEAN :
             store' = [ieee |-> stick.ieee, net |-> stick.net,
                       counter |-> NewCounter(stick.counter), key |-> key]
        /\ known' = TRUE
        /\ persisted' = NewCounter(stick.counter)
  /\ UNCHANGED <<stick, formed, burst, caughtUp>>

\* A slip: the comparison lets the live counter reach the stored one.
DueTooLate == known /\ stick.counter > persisted

\* The margin is used up.
Due == known /\ stick.counter >= persisted

\* A slip: the value written is taken for stored although the write failed.
RefreshForgettingFailure ==
  IF ~Due THEN UNCHANGED <<store, persisted>>
  ELSE \/ /\ persisted' = Ahead(stick.counter)
          /\ \/ store' = [store EXCEPT !.counter = Ahead(stick.counter)]
             \/ UNCHANGED store

\* refresh_frame_counter: return if the margin is not used up; read the live
\* counter, load the record, replace its counter, save it; any of the calls
\* may fail and end it.
Refresh ==
  \/ UNCHANGED <<store, persisted>>
  \/ /\ Due /\ store # None
     /\ store' = [store EXCEPT !.counter = Ahead(stick.counter)]
     /\ persisted' = Ahead(stick.counter)

\* The part of the one-second tick that concerns the record.
Tick ==
  /\ phase = "running"
  /\ Refresh
  /\ burst' = 0
  /\ caughtUp' = (Due => persisted' = Ahead(stick.counter))
  /\ UNCHANGED <<stick, formed, phase, known>>

\* A clean stop refreshes once more.
Stop ==
  /\ phase = "running"
  /\ Refresh
  /\ phase' = "down"
  /\ UNCHANGED <<stick, formed, known, burst, caughtUp>>

Crash ==
  /\ phase # "down"
  /\ phase' = "down"
  /\ UNCHANGED <<stick, formed, store, known, persisted, burst, caughtUp>>

\* The stick sends a secured frame, a command or one of the network's own.
Transmit ==
  /\ stick.net # None
  /\ stick.counter < MaxCounter
  /\ phase = "running" => burst < PerTick
  /\ stick' = [stick EXCEPT !.counter = @ + 1]
  /\ burst' = IF phase = "running" THEN burst + 1 ELSE burst
  /\ UNCHANGED <<formed, store, phase, known, persisted, caughtUp>>

\* The stick is erased, or another one is plugged in.
Reset ==
  /\ phase = "down"
  /\ \E a \in Coord : stick' = [ieee |-> a, net |-> None, counter |-> 0]
  /\ UNCHANGED <<formed, store, phase, known, persisted, burst, caughtUp>>

Next ==
  \/ \E form \in BOOLEAN : Start(form)
  \/ PersistNetwork
  \/ Tick
  \/ Stop
  \/ Crash
  \/ Transmit
  \/ Reset

Spec == Init /\ [][Next]_vars

-----------------------------------------------------------------------------
(***************************************************************************)
(* What the task takes for the counter on disk is the counter on disk, so  *)
(* comparing it with the live one instead of reading the store is sound    *)
(* (mod.rs, `persisted_frame_counter`).                                    *)
(***************************************************************************)
PersistedIsOnDisk ==
  phase = "running" /\ persisted # 0 => store # None /\ store.counter = persisted

(***************************************************************************)
(* A record is never overwritten on behalf of another coordinator, however *)
(* sticks are swapped (runtime.rs, start: "refused rather than             *)
(* reconciled").                                                           *)
(***************************************************************************)
RecordKeepsItsCoordinator ==
  [][store # None => store' # None /\ store'.ieee = store.ieee]_store

(***************************************************************************)
(* The stored counter of the network the coordinator is on never falls,    *)
(* over restarts, incomplete records and failing calls (mod.rs: the first  *)
(* refresh "cannot roll anything back").                                   *)
(***************************************************************************)
StoredCounterNeverFalls ==
  [][store # None /\ store'.net = store.net /\ stick.net = store.net
       => store'.counter >= store.counter]_store

\* The record of the network the stick is on is no further ahead than the
\* margin.
RecordWithinMargin ==
  /\ store # None /\ store.net = stick.net => store.counter <= Ahead(stick.counter)
  /\ store # None => store.net \in formed
  /\ stick.net # None => stick.net \in formed

(***************************************************************************)
(* "after a crash the counter resumes above anything actually transmitted" *)
(* (store.rs:170) is more than the code keeps, which tops the margin up    *)
(* only once a tick finds it used up (provisioning.rs:100).  What it keeps *)
(* is this: after a tick that met no failing call the stored counter is    *)
(* above the live one, and until the next it falls behind only by frames   *)
(* sent since then.                                                        *)
(***************************************************************************)
LagBounded ==
  phase = "running" /\ known /\ caughtUp /\ store.counter < MaxCounter
    => stick.counter < store.counter + burst
=============================================================================
