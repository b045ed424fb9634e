------------------------- MODULE NetworkRecordProofs -------------------------
(***************************************************************************)
(* For any margin, counter width and number of sticks and networks: what   *)
(* the task takes for the counter on disk is on disk, a record keeps its   *)
(* coordinator, and its counter never falls while its network is in use.    *)
(***************************************************************************)
EXTENDS NetworkRecord, TLAPS

\* The store holds a record, and what is known of it while running.
Facts ==
  /\ stick.net = None => stick.counter = 0
  /\ known => store # None
  /\ phase = "starting" => stick.net # None /\ persisted = 0 /\ Belongs(stick.ieee)
  /\ phase = "running" => stick.net # None /\ Belongs(stick.ieee)

IInv == TypeOK /\ Facts /\ PersistedIsOnDisk

(***************************************************************************)
(* Adding the margin stays within the counter's width and never goes down. *)
(***************************************************************************)
LEMMA AheadIsCounter ==
  ASSUME NEW n \in Counter
  PROVE  Ahead(n) \in Counter /\ Ahead(n) >= n
BY MarginPositive, MaxCounterNat DEF Ahead, Counter

LEMMA AheadMonotone ==
  ASSUME NEW m \in Counter, NEW n \in Counter, m <= n
  PROVE  Ahead(m) <= Ahead(n)
BY MarginPositive, MaxCounterNat DEF Ahead, Counter

(***************************************************************************)
(* A refresh either leaves the record alone or raises nothing but its      *)
(* counter, to the live one and the margin, on disk and in the task.       *)
(***************************************************************************)
LEMMA RefreshEffect ==
  ASSUME TypeOK, Refresh
  PROVE  \/ UNCHANGED <<store, persisted>>
         \/ /\ store # None
            /\ store' = [store EXCEPT !.counter = Ahead(stick.counter)]
            /\ store' \in Record
            /\ store'.counter = Ahead(stick.counter)
            /\ store'.ieee = store.ieee /\ store'.net = store.net
            /\ persisted' = Ahead(stick.counter)
            /\ persisted' \in Counter
<1>1. stick.counter \in Counter
  BY DEF TypeOK
<1>2. CASE UNCHANGED <<store, persisted>>
  BY <1>2
<1>3. CASE /\ Due /\ store # None
           /\ store' = [store EXCEPT !.counter = Ahead(stick.counter)]
           /\ persisted' = Ahead(stick.counter)
  <2>1. store \in Record
    BY <1>3 DEF TypeOK
  <2> QED BY <1>1, <1>3, <2>1, AheadIsCounter DEF Record
<1> QED BY <1>2, <1>3 DEF Refresh

LEMMA InitIInv == Init => IInv
<1> SUFFICES ASSUME Init PROVE IInv
  OBVIOUS
<1> USE MaxCounterNat, PerTickNat DEF Init, Counter
<1>1. stick \in [ieee : Coord, net : Network \cup {None}, counter : Counter]
  OBVIOUS
<1>2. store \in Record \cup {None}
  <2>1. CASE stick.net = None
    BY <2>1
  <2>2. CASE stick.net # None
    <3>1. [ieee |-> stick.ieee, net |-> stick.net, counter |-> 0, key |-> FALSE] \in Record
      BY <1>1, <2>2 DEF Record
    <3> QED BY <2>2, <3>1
  <2> QED BY <2>1, <2>2
<1>3. formed \subseteq Network
  OBVIOUS
<1>4. TypeOK
  <2>1. persisted \in Counter /\ burst \in 0 .. PerTick /\ phase \in {"down", "starting", "running"}
    OBVIOUS
  <2>2. known \in BOOLEAN /\ caughtUp \in BOOLEAN
    OBVIOUS
  <2> QED BY <1>1, <1>2, <1>3, <2>1, <2>2 DEF TypeOK
<1>5. Facts /\ PersistedIsOnDisk
  BY DEF Facts, PersistedIsOnDisk
<1> QED BY <1>4, <1>5 DEF IInv

LEMMA StepIInv == IInv /\ [Next]_vars => IInv'
<1> SUFFICES ASSUME IInv, [Next]_vars PROVE IInv'
  OBVIOUS
<1>t. TypeOK /\ Facts /\ PersistedIsOnDisk
  BY DEF IInv
<1>c. /\ stick.counter \in Counter /\ Ahead(stick.counter) \in Counter
      /\ Ahead(stick.counter) # 0
  <2>1. stick.counter \in Counter
    BY <1>t DEF TypeOK
  <2>2. Ahead(stick.counter) # 0
    BY <2>1, MarginPositive, MaxCounterNat DEF Ahead, Counter
  <2> QED BY <2>1, <2>2, AheadIsCounter
<1>1. ASSUME NEW form \in BOOLEAN, Start(form) PROVE IInv'
  <2>1. PICK n \in Started(form) :
          /\ stick' = IF stick.net = None THEN [ieee |-> stick.ieee, net |-> n, counter |-> 0] ELSE stick
          /\ formed' = formed \cup {n}
    BY <1>1 DEF Start
  <2>2. n \in Network /\ (stick.net # None => n = stick.net)
    BY <1>t, <2>1 DEF Started, TypeOK
  <2>3. /\ stick' \in [ieee : Coord, net : Network \cup {None}, counter : Counter]
        /\ stick'.net # None /\ stick'.ieee = stick.ieee
    BY <1>t, <2>1, <2>2, MaxCounterNat, NoneIsNoNetwork DEF TypeOK, Counter
  <2>4. TypeOK'
    <3>1. persisted' \in Counter /\ burst' \in 0 .. PerTick
      BY <1>1, MaxCounterNat, PerTickNat DEF Start, Counter
    <3>2. known' \in BOOLEAN /\ caughtUp' \in BOOLEAN
      BY <1>1 DEF Start
    <3>3. phase' \in {"down", "starting", "running"} /\ formed' \subseteq Network
      BY <1>t, <1>1, <2>1, <2>2 DEF Start, TypeOK
    <3>4. store' \in Record \cup {None}
      BY <1>t, <1>1 DEF Start, TypeOK
    <3> QED BY <2>3, <3>1, <3>2, <3>3, <3>4 DEF TypeOK
  <2>5. Facts'
    BY <1>1, <2>3 DEF Start, Facts, Belongs
  <2>6. PersistedIsOnDisk'
    BY <1>1 DEF Start, PersistedIsOnDisk
  <2> QED BY <2>4, <2>5, <2>6 DEF IInv
<1>2. CASE PersistNetwork
  <2>1. CASE UNCHANGED <<store, known, persisted>>
    BY <1>t, <1>2, <2>1 DEF PersistNetwork, IInv, TypeOK, Facts, PersistedIsOnDisk, Belongs
  <2>2. CASE ~ UNCHANGED <<store, known, persisted>>
    <3>1. PICK key \in BOOLEAN :
            store' = [ieee |-> stick.ieee, net |-> stick.net,
                      counter |-> Ahead(stick.counter), key |-> key]
      BY <1>2, <2>2 DEF PersistNetwork, NewCounter
    <3>2. stick.net \in Network /\ stick.ieee \in Coord
      BY <1>t, <1>2 DEF PersistNetwork, TypeOK, Facts
    <3>3. store' \in Record /\ store' # None
      BY <1>c, <3>1, <3>2, NoneIsNoRecord DEF Record
    <3>4. persisted' = Ahead(stick.counter) /\ known' = TRUE
      BY <1>2, <2>2 DEF PersistNetwork, NewCounter
    <3>5. TypeOK'
      BY <1>t, <1>c, <1>2, <3>3, <3>4 DEF PersistNetwork, TypeOK
    <3>6. Facts' /\ PersistedIsOnDisk'
      BY <1>t, <1>c, <1>2, <3>1, <3>3, <3>4
      DEF PersistNetwork, Facts, PersistedIsOnDisk, Belongs
    <3> QED BY <3>5, <3>6 DEF IInv
  <2> QED BY <2>1, <2>2
<1>3. CASE Tick
  <2>1. Refresh
    BY <1>3 DEF Tick
  <2>2. CASE UNCHANGED <<store, persisted>>
    BY <1>t, <1>3, <2>2, PerTickNat
    DEF Tick, IInv, TypeOK, Facts, PersistedIsOnDisk, Belongs
  <2>3. CASE ~ UNCHANGED <<store, persisted>>
    BY <1>t, <1>3, <2>1, <2>3, RefreshEffect, NoneIsNoRecord, PerTickNat
    DEF Tick, IInv, TypeOK, Facts, PersistedIsOnDisk, Belongs
  <2> QED BY <2>2, <2>3
<1>4. CASE Stop
  <2>1. Refresh
    BY <1>4 DEF Stop
  <2>3. CASE UNCHANGED <<store, persisted>>
    BY <1>t, <1>4, <2>3 DEF Stop, IInv, TypeOK, Facts, PersistedIsOnDisk
  <2>4. CASE ~ UNCHANGED <<store, persisted>>
    BY <1>t, <1>4, <2>1, <2>4, RefreshEffect, NoneIsNoRecord
    DEF Stop, IInv, TypeOK, Facts, PersistedIsOnDisk
  <2> QED BY <2>3, <2>4
<1>5. CASE Crash
  BY <1>t, <1>5 DEF Crash, IInv, TypeOK, Facts, PersistedIsOnDisk
<1>6. CASE Transmit
  <2>1. stick.counter + 1 \in Counter /\ (phase = "running" => burst + 1 \in 0 .. PerTick)
    BY <1>t, <1>c, <1>6, MaxCounterNat, PerTickNat DEF Transmit, TypeOK, Counter
  <2>2. /\ stick' \in [ieee : Coord, net : Network \cup {None}, counter : Counter]
        /\ stick'.net = stick.net /\ stick'.ieee = stick.ieee
    BY <1>t, <1>6, <2>1 DEF Transmit, TypeOK
  <2>3. TypeOK'
    BY <1>t, <1>6, <2>1, <2>2 DEF Transmit, TypeOK
  <2>4. Facts' /\ PersistedIsOnDisk'
    BY <1>t, <1>6, <2>2 DEF Transmit, Facts, PersistedIsOnDisk, Belongs
  <2> QED BY <2>3, <2>4 DEF IInv
<1>7. CASE Reset
  <2>1. PICK a \in Coord : stick' = [ieee |-> a, net |-> None, counter |-> 0]
    BY <1>7 DEF Reset
  <2>2. TypeOK'
    BY <1>t, <1>7, <2>1, MaxCounterNat DEF Reset, TypeOK, Counter
  <2>3. Facts' /\ PersistedIsOnDisk'
    BY <1>t, <1>7, <2>1 DEF Reset, Facts, PersistedIsOnDisk
  <2> QED BY <2>2, <2>3 DEF IInv
<1>8. CASE UNCHANGED vars
  BY <1>t, <1>8 DEF vars, IInv, TypeOK, Facts, PersistedIsOnDisk, Belongs
<1> QED BY <1>1, <1>2, <1>3, <1>4, <1>5, <1>6, <1>7, <1>8 DEF Next

(***************************************************************************)
(* Every variable keeps its type.                                          *)
(***************************************************************************)
THEOREM TypeCorrect == Spec => []TypeOK
<1>1. IInv => TypeOK
  BY DEF IInv
<1> QED BY <1>1, InitIInv, StepIInv, PTL DEF Spec

(***************************************************************************)
(* What the task takes for the counter on disk is the counter on disk.     *)
(***************************************************************************)
THEOREM PersistedCorrect == Spec => []PersistedIsOnDisk
<1>1. IInv => PersistedIsOnDisk
  BY DEF IInv
<1> QED BY <1>1, InitIInv, StepIInv, PTL DEF Spec

(***************************************************************************)
(* A record is never overwritten on behalf of another coordinator.         *)
(***************************************************************************)
THEOREM RecordKeepsCoordinator == Spec => RecordKeepsItsCoordinator
<1> DEFINE Kept == store # None => store' # None /\ store'.ieee = store.ieee
<1>1. IInv /\ [Next]_vars => [Kept]_store
  <2> SUFFICES ASSUME IInv, Next, store' # store, store # None
               PROVE  store' # None /\ store'.ieee = store.ieee
    BY DEF vars
  <2>t. TypeOK /\ Facts
    BY DEF IInv
  <2>1. CASE PersistNetwork
    <3>1. stick.ieee = store.ieee
      BY <2>t, <2>1 DEF PersistNetwork, Facts, Belongs
    <3>2. PICK key \in BOOLEAN :
            store' = [ieee |-> stick.ieee, net |-> stick.net,
                      counter |-> Ahead(stick.counter), key |-> key]
      BY <2>1 DEF PersistNetwork, NewCounter
    <3>3. stick.net \in Network /\ stick.ieee \in Coord /\ Ahead(stick.counter) \in Counter
      BY <2>t, <2>1, AheadIsCounter DEF PersistNetwork, Facts, TypeOK
    <3>4. store' \in Record
      BY <3>2, <3>3 DEF Record
    <3> QED BY <3>1, <3>2, <3>4, NoneIsNoRecord
  <2>2. CASE Tick \/ Stop
    <3>1. Refresh
      BY <2>2 DEF Tick, Stop
    <3> QED BY <2>t, <3>1, RefreshEffect, NoneIsNoRecord
  <2> QED BY <2>1, <2>2 DEF Next, Start, Crash, Transmit, Reset
<1> QED BY <1>1, InitIInv, StepIInv, PTL DEF Spec, RecordKeepsItsCoordinator

-----------------------------------------------------------------------------
(***************************************************************************)
(* A record of the network the stick is on is no further ahead than the    *)
(* margin, because a network formed anew has no record yet; so writing the *)
(* live counter and the margin lowers none.                                *)
(***************************************************************************)
LEMMA InitWithinMargin == Init => RecordWithinMargin
<1> SUFFICES ASSUME Init PROVE RecordWithinMargin
  OBVIOUS
<1>1. stick.counter = 0 /\ 0 \in Counter
  BY MaxCounterNat DEF Init, Counter
<1>2. Ahead(stick.counter) \in Nat
  BY <1>1, AheadIsCounter, MaxCounterNat DEF Counter
<1>3. store # None => store.counter = 0 /\ stick.net # None /\ store.net = stick.net
  BY DEF Init
<1>4. stick.net # None => stick.net \in formed
  BY DEF Init
<1> QED BY <1>2, <1>3, <1>4 DEF RecordWithinMargin

\* A step that touches neither the stick, the record nor the networks formed.
LEMMA MarginStutters ==
  RecordWithinMargin /\ UNCHANGED <<stick, store, formed>> => RecordWithinMargin'
BY DEF RecordWithinMargin, Ahead

LEMMA StepWithinMargin == IInv /\ RecordWithinMargin /\ [Next]_vars => RecordWithinMargin'
<1> SUFFICES ASSUME IInv, RecordWithinMargin, [Next]_vars PROVE RecordWithinMargin'
  OBVIOUS
<1>t. TypeOK /\ Facts
  BY DEF IInv
<1>c. stick.counter \in Counter /\ Ahead(stick.counter) \in Counter
  BY <1>t, AheadIsCounter DEF TypeOK
<1>1. ASSUME NEW form \in BOOLEAN, Start(form) PROVE RecordWithinMargin'
  <2>1. PICK n \in Started(form) :
          /\ stick' = IF stick.net = None THEN [ieee |-> stick.ieee, net |-> n, counter |-> 0] ELSE stick
          /\ formed' = formed \cup {n}
          /\ store' = store
    BY <1>1 DEF Start
  <2>2. CASE stick.net = None
    <3>1. n \in Network \ formed
      BY <2>1, <2>2 DEF Started
    <3>2. stick'.net = n
      BY <2>1, <2>2
    <3>3. store # None => store.net \in formed /\ store.net # n
      BY <3>1 DEF RecordWithinMargin
    <3> QED BY <2>1, <3>2, <3>3 DEF RecordWithinMargin
  <2>3. CASE stick.net # None
    <3>1. stick' = stick /\ n = stick.net /\ stick.net \in formed
      BY <2>1, <2>3 DEF Started, RecordWithinMargin
    <3> QED BY <2>1, <3>1, MarginStutters
  <2> QED BY <2>2, <2>3
<1>2. CASE PersistNetwork
  <2>1. CASE store' = store
    BY <1>2, <2>1, MarginStutters DEF PersistNetwork
  <2>2. CASE store' # store
    <3>1. /\ store'.counter = Ahead(stick.counter)
          /\ store'.net = stick.net
          /\ UNCHANGED <<stick, formed>>
          /\ stick.net \in formed
      BY <1>t, <1>2, <2>2 DEF PersistNetwork, NewCounter, Facts, RecordWithinMargin
    <3>2. Ahead(stick.counter)' = Ahead(stick.counter)
      BY <3>1 DEF Ahead
    <3> QED BY <1>c, <3>1, <3>2, MaxCounterNat DEF RecordWithinMargin, Counter
  <2> QED BY <2>1, <2>2
<1>3. CASE Tick \/ Stop
  <2>1. Refresh /\ UNCHANGED <<stick, formed>>
    BY <1>3 DEF Tick, Stop
  <2>2. Ahead(stick.counter)' = Ahead(stick.counter)
    BY <2>1 DEF Ahead
  <2>3. CASE store' = store
    BY <2>1, <2>3, MarginStutters
  <2>4. CASE store' # store
    <3>1. store'.counter = Ahead(stick.counter) /\ store # None /\ store'.net = store.net
      BY <1>t, <2>1, <2>4, RefreshEffect
    <3> QED BY <1>c, <2>1, <2>2, <3>1, MaxCounterNat DEF RecordWithinMargin, Counter
  <2> QED BY <2>3, <2>4
<1>4. CASE Crash
  BY <1>4, MarginStutters DEF Crash
<1>5. CASE Transmit
  <2>1. stick'.counter = stick.counter + 1 /\ stick'.net = stick.net /\ stick'.counter \in Counter
    BY <1>t, <1>c, <1>5, MaxCounterNat DEF Transmit, TypeOK, Counter
  <2>2. Ahead(stick.counter) <= Ahead(stick'.counter) /\ Ahead(stick'.counter) \in Counter
    BY <1>c, <2>1, AheadMonotone, AheadIsCounter, MaxCounterNat DEF Counter
  <2>3. UNCHANGED <<store, formed>> /\ Ahead(stick.counter)' = Ahead(stick'.counter)
    BY <1>5 DEF Transmit, Ahead
  <2>4. store # None => store.counter \in Counter
    BY <1>t DEF TypeOK, Record
  <2>5. store # None /\ store.net = stick.net => store.counter <= Ahead(stick'.counter)
    BY <1>c, <2>2, <2>4, MaxCounterNat DEF RecordWithinMargin, Counter
  <2> QED BY <2>1, <2>3, <2>5 DEF RecordWithinMargin
<1>6. CASE Reset
  <2>1. stick'.net = None /\ UNCHANGED <<store, formed>>
    BY <1>6 DEF Reset
  <2>2. store # None => store.net # None
    BY <1>t, NoneIsNoNetwork DEF TypeOK, Record
  <2> QED BY <2>1, <2>2 DEF RecordWithinMargin
<1>7. CASE UNCHANGED vars
  BY <1>7, MarginStutters DEF vars
<1> QED BY <1>1, <1>2, <1>3, <1>4, <1>5, <1>6, <1>7 DEF Next

(***************************************************************************)
(* The stored counter of the network the coordinator is on never falls,    *)
(* over restarts, swapped sticks, incomplete records and failing calls.    *)
(***************************************************************************)
THEOREM CounterNeverFalls == Spec => StoredCounterNeverFalls
<1> DEFINE Kept == store # None /\ store'.net = store.net /\ stick.net = store.net
                     => store'.counter >= store.counter
<1>1. IInv /\ RecordWithinMargin /\ [Next]_vars => [Kept]_store
  <2> SUFFICES ASSUME IInv, RecordWithinMargin, Next, store' # store, store # None,
                      stick.net = store.net
               PROVE  store'.counter >= store.counter
    BY DEF vars
  <2>t. TypeOK
    BY DEF IInv
  <2>1. store.counter <= Ahead(stick.counter)
    BY DEF RecordWithinMargin
  <2>2. stick.counter \in Counter /\ Ahead(stick.counter) \in Counter /\ store.counter \in Counter
    BY <2>t, AheadIsCounter DEF TypeOK, Record
  <2>3. CASE PersistNetwork
    <3>1. store'.counter = Ahead(stick.counter)
      BY <2>3 DEF PersistNetwork, NewCounter
    <3> QED BY <2>1, <2>2, <3>1, MaxCounterNat DEF Counter
  <2>4. CASE Tick \/ Stop
    <3>1. Refresh
      BY <2>4 DEF Tick, Stop
    <3>2. store'.counter = Ahead(stick.counter)
      BY <2>t, <3>1, RefreshEffect
    <3> QED BY <2>1, <2>2, <3>2, MaxCounterNat DEF Counter
  <2> QED BY <2>3, <2>4 DEF Next, Start, Crash, Transmit, Reset
<1> QED BY <1>1, InitIInv, StepIInv, InitWithinMargin, StepWithinMargin, PTL
     DEF Spec, StoredCounterNeverFalls
-----------------------------------------------------------------------------
\* LagBounded, and no run starts with a tick of the one before.
Lag ==
  /\ phase = "starting" => ~caughtUp
  /\ LagBounded

LEMMA InitLag == Init => Lag
BY DEF Init, Lag, LagBounded

LEMMA StepLag == IInv /\ Lag /\ [Next]_vars => Lag'
<1> SUFFICES ASSUME IInv, Lag, [Next]_vars PROVE Lag'
  OBVIOUS
<1>t. TypeOK /\ Facts /\ PersistedIsOnDisk
  BY DEF IInv
<1>c. stick.counter \in Counter /\ burst \in 0 .. PerTick /\ persisted \in Counter
  BY <1>t DEF TypeOK
<1>s. known => store \in Record /\ store.counter \in Counter
  BY <1>t DEF TypeOK, Facts, Record
<1>1. ASSUME NEW form \in BOOLEAN, Start(form) PROVE Lag'
  BY <1>1 DEF Start, Lag, LagBounded
<1>2. CASE PersistNetwork
  BY <1>2 DEF PersistNetwork, Lag, LagBounded
<1>3. CASE Tick
  <2> SUFFICES ASSUME known, caughtUp', store'.counter < MaxCounter
               PROVE  stick.counter < store'.counter
    BY <1>c, <1>3, MaxCounterNat, <1>s, RefreshEffect, <1>t DEF Tick, Lag, LagBounded, Counter, Record
  <2>1. Refresh /\ phase = "running"
    BY <1>3 DEF Tick
  <2>2. CASE Due
    <3>1. persisted' = Ahead(stick.counter)
      BY <1>3, <2>2 DEF Tick
    <3>2. store'.counter = Ahead(stick.counter)
      <4>1. CASE UNCHANGED <<store, persisted>>
        <5>1. persisted = Ahead(stick.counter) /\ persisted # 0
          BY <1>c, <3>1, <4>1, MarginPositive, MaxCounterNat DEF Ahead, Counter
        <5> QED BY <1>t, <2>1, <4>1, <5>1 DEF PersistedIsOnDisk
      <4> QED BY <1>t, <2>1, <4>1, RefreshEffect
    <3> QED BY <1>c, <3>2, MarginPositive, MaxCounterNat DEF Ahead, Counter
  <2>3. CASE ~Due
    <3>1. stick.counter < persisted /\ persisted # 0
      BY <1>c, <2>3, MaxCounterNat DEF Due, Counter
    <3>2. store.counter = persisted
      BY <1>t, <2>1, <3>1 DEF PersistedIsOnDisk
    <3>3. store' = store
      BY <2>1, <2>3 DEF Refresh
    <3> QED BY <3>1, <3>2, <3>3
  <2> QED BY <2>2, <2>3
<1>4. CASE Stop \/ Crash
  BY <1>4 DEF Stop, Crash, Lag, LagBounded
<1>5. CASE Transmit
  <2>1. CASE phase = "running"
    <3>1. stick'.counter = stick.counter + 1 /\ burst' = burst + 1
      BY <1>t, <1>5, <2>1 DEF Transmit, TypeOK
    <3>2. UNCHANGED <<store, known, caughtUp, phase>>
      BY <1>5 DEF Transmit
    <3> QED BY <1>c, <1>s, <2>1, <3>1, <3>2, PerTickNat, MaxCounterNat DEF Lag, LagBounded, Counter
  <2>2. CASE phase # "running"
    BY <1>5, <2>2 DEF Transmit, Lag, LagBounded
  <2> QED BY <2>1, <2>2
<1>6. CASE Reset
  BY <1>6 DEF Reset, Lag, LagBounded
<1>7. CASE UNCHANGED vars
  BY <1>7 DEF vars, Lag, LagBounded
<1> QED BY <1>1, <1>2, <1>3, <1>4, <1>5, <1>6, <1>7 DEF Next

(***************************************************************************)
(* What is left of "the counter resumes above anything actually            *)
(* transmitted": the stored counter falls behind the live one by no more   *)
(* than the frames sent since the last tick that met no failing call.      *)
(***************************************************************************)
THEOREM LagIsBounded == Spec => []LagBounded
<1>1. IInv /\ Lag => LagBounded
  BY DEF Lag
<1> QED BY <1>1, InitIInv, StepIInv, InitLag, StepLag, PTL DEF Spec
=============================================================================
