------------------------- MODULE DeviceTableProofs -------------------------
(***************************************************************************)
(* For any number of devices, addresses and events: the reverse index is   *)
(* sound, a subscriber that folds the events knows the addresses, store    *)
(* and table agree, and no device is given the frame of another.           *)
(***************************************************************************)
EXTENDS DeviceTable, TLAPS

(***************************************************************************)
(* What the three operations of inventory.rs keep: the table's type, and   *)
(* an index that only points at records holding the indexed address.       *)
(***************************************************************************)
LEMMA InsertKeeps ==
  ASSUME NEW t \in Table, SoundIndex(t), NEW d \in Device, NEW n \in Nwk
  PROVE  /\ Insert(t, d, n) \in Table
         /\ SoundIndex(Insert(t, d, n))
         /\ Insert(t, d, n).nwkOf = [t.nwkOf EXCEPT ![d] = n]
<1> DEFINE u == Insert(t, d, n)
<1>1. u \in Table
  BY DEF Insert, Reindexed, Table
<1>2. ASSUME NEW m \in Nwk, u.byNwk[m] # None PROVE u.nwkOf[u.byNwk[m]] = m
  <2>1. CASE m = n
    BY <2>1 DEF Insert, Reindexed, Table
  <2>2. CASE m # n
    <3>1. m # t.nwkOf[d] /\ u.byNwk[m] = t.byNwk[m]
      BY <1>2, <2>2 DEF Insert, Reindexed, Table
    <3>2. t.byNwk[m] \in Device /\ t.nwkOf[t.byNwk[m]] = m
      BY <1>2, <3>1 DEF SoundIndex, Table
    <3>3. t.byNwk[m] # d
      BY <3>1, <3>2
    <3> QED BY <3>1, <3>2, <3>3 DEF Insert, Table
  <2> QED BY <2>1, <2>2
<1> QED BY <1>1, <1>2 DEF SoundIndex, Insert

LEMMA SetNwkKeeps ==
  ASSUME NEW t \in Table, SoundIndex(t), NEW d \in Device, NEW n \in Nwk
  PROVE  /\ SetNwk(t, d, n) \in Table
         /\ SoundIndex(SetNwk(t, d, n))
         /\ Known(t, d) => SetNwk(t, d, n).nwkOf = [t.nwkOf EXCEPT ![d] = n]
<1>1. CASE ~Known(t, d)
  BY <1>1 DEF SetNwk
<1>2. CASE Known(t, d) /\ t.nwkOf[d] = n
  BY <1>2 DEF SetNwk, Table
<1>3. CASE Known(t, d) /\ t.nwkOf[d] # n
  <2>1. SetNwk(t, d, n) = Insert(t, d, n)
    BY <1>3 DEF SetNwk, Insert
  <2> QED BY <2>1, InsertKeeps
<1> QED BY <1>1, <1>2, <1>3

LEMMA RemoveKeeps ==
  ASSUME NEW t \in Table, SoundIndex(t), NEW d \in Device
  PROVE  /\ Remove(t, d) \in Table
         /\ SoundIndex(Remove(t, d))
         /\ Remove(t, d).nwkOf = [t.nwkOf EXCEPT ![d] = None]
<1> DEFINE u == Remove(t, d)
<1>1. u \in Table
  BY DEF Remove, Table
<1>2. ASSUME NEW m \in Nwk, u.byNwk[m] # None PROVE u.nwkOf[u.byNwk[m]] = m
  <2>1. m # t.nwkOf[d] /\ u.byNwk[m] = t.byNwk[m]
    BY <1>2 DEF Remove, Table
  <2>2. t.byNwk[m] \in Device /\ t.nwkOf[t.byNwk[m]] = m
    BY <1>2, <2>1 DEF SoundIndex, Table
  <2>3. t.byNwk[m] # d
    BY <2>1, <2>2
  <2> QED BY <2>1, <2>2, <2>3 DEF Remove, Table
<1> QED BY <1>1, <1>2 DEF SoundIndex, Remove

\* Rebuilding the table from stored records gives a sound index, whatever
\* the order the records are read in.
LEMMA RestoredSound ==
  ASSUME NEW s \in [Device -> Nwk \cup {None}], NEW t \in Restored(s)
  PROVE  t \in Table /\ SoundIndex(t)
<1>1. /\ t.nwkOf = s
      /\ t \in Table
      /\ \A n \in Nwk : t.byNwk[n] \in IF { d \in Device : s[d] = n } = {} THEN {None}
                                       ELSE { d \in Device : s[d] = n }
  BY DEF Restored, Table
<1>2. ASSUME NEW n \in Nwk, t.byNwk[n] # None PROVE t.nwkOf[t.byNwk[n]] = n
  BY <1>1, <1>2
<1> QED BY <1>1, <1>2 DEF SoundIndex

\* The table a start leaves, before and after any stored records.
LEMMA RegisterKeeps ==
  ASSUME NEW t \in Table, SoundIndex(t)
  PROVE  RegisterCoordinator(t) \in Table /\ SoundIndex(RegisterCoordinator(t))
BY InsertKeeps, CoordinatorHasAddresses DEF RegisterCoordinator

LEMMA EmptyTableSound == EmptyTable \in Table /\ SoundIndex(EmptyTable)
BY DEF EmptyTable, Table, SoundIndex
-----------------------------------------------------------------------------
\* The three facts are inductive together: an update of the index relies on
\* the record's old address, and the subscriber's view on the table's type.
IInv == Types /\ IndexSound /\ ObserverAgrees

LEMMA InitInv == Init => IInv
<1> SUFFICES ASSUME Init PROVE IInv
  OBVIOUS
<1>1. table \in Table /\ SoundIndex(table)
  BY EmptyTableSound, RegisterKeeps DEF Init
<1>2. inbox \in Seq(AdapterEvent)
  BY DEF Init
<1>3. air \in [Device -> Address] /\ stored \in [Device -> Address] /\ seen = table.nwkOf
      /\ unsaved \subseteq Device /\ downtime \in BOOLEAN
  BY CoordinatorHasAddresses DEF Init, Address
<1> QED BY <1>1, <1>2, <1>3 DEF IInv, Types, IndexSound, ObserverAgrees, Table, Address

\* An event the runtime takes: its addresses and the device it is attributed to.
LEMMA TakenEvent ==
  ASSUME Types, NEW kind, Take(kind)
  PROVE  /\ Head(inbox) \in AdapterEvent
         /\ HeadDevice \in Device \cup {None}
         /\ inbox' \in Seq(AdapterEvent)
<1>1. Head(inbox) \in AdapterEvent /\ inbox' \in Seq(AdapterEvent)
  BY DEF Types, Take
<1>2. HeadDevice \in Device \cup {None}
  BY <1>1 DEF HeadDevice, Attribute, Resolve, Types, Table, AdapterEvent, Address
<1> QED BY <1>1, <1>2

LEMMA ReportKeeps ==
  ASSUME Types, NEW kind \in Kind, NEW d \in Device, NEW n \in Nwk, Report(kind, d, n)
  PROVE  inbox' \in Seq(AdapterEvent)
<1>1. PICK ieee \in Reported(kind, d) :
        inbox' = Append(inbox, [kind |-> kind, ieee |-> ieee, nwk |-> n, sender |-> d])
  BY DEF Report
<1>2. [kind |-> kind, ieee |-> ieee, nwk |-> n, sender |-> d] \in AdapterEvent
  BY DEF Reported, AdapterEvent
<1> QED BY <1>1, <1>2 DEF Types

LEMMA NextInv == IInv /\ [Next]_vars => IInv'
<1> SUFFICES ASSUME IInv, [Next]_vars PROVE IInv'
  OBVIOUS
<1> USE DEF IInv, IndexSound, ObserverAgrees
<1>1. ASSUME NEW d \in Device, AirJoin(d) PROVE IInv'
  <2>1. PICK n \in Nwk : air' = [air EXCEPT ![d] = n] /\ Report("join", d, n)
    BY <1>1 DEF AirJoin
  <2>2. inbox' \in Seq(AdapterEvent)
    BY <2>1, ReportKeeps DEF Kind, Address
  <2> QED BY <1>1, <2>1, <2>2 DEF AirJoin, Types, Address
<1>2. ASSUME NEW d \in Device, AirLeave(d) PROVE IInv'
  <2>1. air[d] \in Nwk /\ Report("left", d, air[d])
    BY <1>2 DEF AirLeave, Types, Address
  <2>2. inbox' \in Seq(AdapterEvent)
    BY <2>1, ReportKeeps DEF Kind
  <2> QED BY <1>2, <2>2 DEF AirLeave, Types, Address
<1>3. ASSUME NEW d \in Device, AirVanish(d) PROVE IInv'
  BY <1>3 DEF AirVanish, Types, Address
<1>4. ASSUME NEW d \in Device, AirFrame(d) PROVE IInv'
  <2>1. air[d] \in Nwk /\ Report("zcl", d, air[d])
    BY <1>4 DEF AirFrame, Types, Address
  <2>2. inbox' \in Seq(AdapterEvent)
    BY <2>1, ReportKeeps DEF Kind
  <2> QED BY <1>4, <2>2 DEF AirFrame, Types
<1>5. CASE OnJoined
  <2> DEFINE d == HeadDevice
             n == Head(inbox).nwk
  <2>1. /\ d \in Device \cup {None}
        /\ n \in Nwk
        /\ inbox' \in Seq(AdapterEvent)
    BY <1>5, TakenEvent DEF OnJoined, AdapterEvent
  <2>2. CASE d = None
    BY <1>5, <2>1, <2>2 DEF OnJoined, Types
  <2>3. CASE d # None
    <3>1. /\ d \in Device
          /\ table' = IF Known(table, d) THEN SetNwk(table, d, n) ELSE Insert(table, d, n)
          /\ Write(d, n)
          /\ seen' = [seen EXCEPT ![d] = n]
          /\ air' = air
      BY <1>5, <2>1, <2>3 DEF OnJoined, Announce
    <3>2. table' \in Table /\ SoundIndex(table') /\ table'.nwkOf = [table.nwkOf EXCEPT ![d] = n]
      BY <2>1, <3>1, InsertKeeps, SetNwkKeeps DEF Types
    <3>3. stored' \in [Device -> Address] /\ unsaved' \subseteq Device /\ downtime' = downtime
      BY <1>5, <2>1, <3>1 DEF OnJoined, Write, Types, Address
    <3> QED BY <2>1, <3>1, <3>2, <3>3 DEF Types, Address, Table
  <2> QED BY <2>2, <2>3
<1>6. CASE OnLeft
  <2> DEFINE d == HeadDevice
  <2>1. d \in Device \cup {None} /\ inbox' \in Seq(AdapterEvent)
    BY <1>6, TakenEvent DEF OnLeft
  <2>2. CASE d = None
    BY <1>6, <2>1, <2>2 DEF OnLeft, Types
  <2>3. CASE d # None
    <3>1. /\ d \in Device
          /\ table' = Remove(table, d)
          /\ Write(d, None)
          /\ seen' = [seen EXCEPT ![d] = None]
          /\ air' = air
      BY <1>6, <2>1, <2>3 DEF OnLeft, Announce
    <3>2. table' \in Table /\ SoundIndex(table') /\ table'.nwkOf = [table.nwkOf EXCEPT ![d] = None]
      BY <3>1, RemoveKeeps DEF Types
    <3>3. stored' \in [Device -> Address] /\ unsaved' \subseteq Device /\ downtime' = downtime
      BY <1>6, <3>1 DEF OnLeft, Write, Types, Address
    <3> QED BY <2>1, <3>1, <3>2, <3>3 DEF Types, Address, Table
  <2> QED BY <2>2, <2>3
<1>7. CASE OnZcl
  <2> DEFINE d == HeadDevice
             n == Head(inbox).nwk
  <2>1. /\ d \in Device \cup {None}
        /\ n \in Nwk
        /\ inbox' \in Seq(AdapterEvent)
    BY <1>7, TakenEvent DEF OnZcl, AdapterEvent
  <2>2. CASE d = None \/ ~Known(table, d)
    BY <1>7, <2>1, <2>2 DEF OnZcl, Types
  <2>3. CASE ~(d = None \/ ~Known(table, d))
    <3>1. /\ d \in Device
          /\ Known(table, d)
          /\ table' = SetNwk(table, d, n)
          /\ seen' = [seen EXCEPT ![d] = n]
          /\ UNCHANGED <<air, stored, unsaved, downtime>>
      BY <1>7, <2>1, <2>3 DEF OnZcl, Announce
    <3>2. table' \in Table /\ SoundIndex(table') /\ table'.nwkOf = [table.nwkOf EXCEPT ![d] = n]
      BY <2>1, <3>1, SetNwkKeeps DEF Types
    <3> QED BY <2>1, <3>1, <3>2 DEF Types, Address, Table
  <2> QED BY <2>2, <2>3
<1>8. ASSUME NEW d \in Device, Persist(d) PROVE IInv'
  BY <1>8 DEF Persist, Write, Types, Table, Address
<1>9. CASE Restart
  <2>1. PICK t \in Restored(stored) : table' = RegisterCoordinator(t)
    BY <1>9 DEF Restart
  <2>2. table' \in Table /\ SoundIndex(table')
    BY <2>1, RestoredSound, RegisterKeeps DEF Types, Address
  <2> QED BY <1>9, <2>2 DEF Restart, Types, Table, Address
<1>10. CASE UNCHANGED vars
  BY <1>10 DEF vars, Types
<1> QED BY <1>1, <1>2, <1>3, <1>4, <1>5, <1>6, <1>7, <1>8, <1>9, <1>10 DEF Next
-----------------------------------------------------------------------------
LEMMA Invariance == Spec => []IInv
BY InitInv, NextInv, PTL DEF Spec

(***************************************************************************)
(* The coordinator's record.  Its address is its own: no device takes it,  *)
(* the coordinator announces no join and no leave, and with a sound index  *)
(* an event from another address is never attributed to it.                *)
(***************************************************************************)
OfCoordinator(v) ==
  /\ v.ieee \in {v.sender, None}
  /\ v.sender = Coordinator <=> v.nwk = CoordinatorNwk
  /\ v.sender = Coordinator => v.kind = "zcl"

CInv ==
  /\ CoordinatorKept
  /\ stored[Coordinator] \in {None, CoordinatorNwk}
  /\ \A d \in Device : air[d] = CoordinatorNwk <=> d = Coordinator
  /\ \A i \in 1..Len(inbox) : OfCoordinator(inbox[i])

LEMMA RegisterKnows ==
  ASSUME NEW t \in Table, SoundIndex(t), t.nwkOf[Coordinator] \in {None, CoordinatorNwk}
  PROVE  RegisterCoordinator(t).nwkOf[Coordinator] = CoordinatorNwk
<1>1. Insert(t, Coordinator, CoordinatorNwk).nwkOf[Coordinator] = CoordinatorNwk
  BY CoordinatorHasAddresses DEF Insert, Table
<1> QED BY <1>1, NoneIsNoAddress, CoordinatorHasAddresses DEF RegisterCoordinator, Known

LEMMA InitCInv == Init => CInv
<1> SUFFICES ASSUME Init PROVE CInv
  OBVIOUS
<1>1. CoordinatorKept
  <2>1. EmptyTable.nwkOf[Coordinator] = None
    BY CoordinatorHasAddresses DEF EmptyTable
  <2> QED BY <2>1, EmptyTableSound, RegisterKnows DEF Init, CoordinatorKept
<1>2. Len(inbox) = 0
  BY DEF Init
<1> QED BY <1>1, <1>2, NoneIsNoAddress, CoordinatorHasAddresses DEF Init, CInv

\* One more event in flight, of the coordinator or of another device.
LEMMA ReportOfCoordinator ==
  ASSUME IInv, CInv, NEW kind, NEW d \in Device, NEW n, kind \in Kind, n \in Nwk, Report(kind, d, n),
         d = Coordinator <=> n = CoordinatorNwk, d = Coordinator => kind = "zcl"
  PROVE  \A i \in 1..Len(inbox') : OfCoordinator(inbox'[i])
<1>1. PICK ieee \in Reported(kind, d) :
        inbox' = Append(inbox, [kind |-> kind, ieee |-> ieee, nwk |-> n, sender |-> d])
  BY DEF Report
<1> DEFINE v == [kind |-> kind, ieee |-> ieee, nwk |-> n, sender |-> d]
<1>2. OfCoordinator(v) /\ v \in AdapterEvent /\ inbox' = Append(inbox, v)
  BY <1>1 DEF Reported, OfCoordinator, AdapterEvent
<1> HIDE DEF v
<1>3. inbox \in Seq(AdapterEvent)
  BY DEF IInv, Types
<1> QED BY <1>2, <1>3 DEF CInv

\* The runtime handles the oldest event: unless the coordinator sent it, it
\* is not attributed to the coordinator.
LEMMA TakenOfCoordinator ==
  ASSUME IInv, CInv, NEW kind, Take(kind)
  PROVE  /\ \A i \in 1..Len(inbox') : OfCoordinator(inbox'[i])
         /\ HeadDevice = Coordinator => kind = "zcl" /\ Head(inbox).nwk = CoordinatorNwk
         /\ Head(inbox).nwk \in Nwk /\ HeadDevice \in Device \cup {None}
<1>1. inbox \in Seq(AdapterEvent) /\ inbox # <<>> /\ inbox' = Tail(inbox)
  BY DEF IInv, Types, Take
<1>2. /\ Head(inbox) = inbox[1] /\ 1 \in 1..Len(inbox) /\ Head(inbox) \in AdapterEvent
      /\ \A i \in 1..Len(inbox') : i + 1 \in 1..Len(inbox) /\ inbox'[i] = inbox[i + 1]
  BY <1>1
<1>3. OfCoordinator(Head(inbox)) /\ Head(inbox).kind = kind
  BY <1>2 DEF CInv, Take
<1>4. table \in Table /\ SoundIndex(table) /\ table.nwkOf[Coordinator] = CoordinatorNwk
  BY DEF IInv, IndexSound, Types, CInv, CoordinatorKept
<1>5. ASSUME HeadDevice = Coordinator PROVE Head(inbox).nwk = CoordinatorNwk
  <2>1. CASE Head(inbox).ieee # None
    BY <1>3, <1>5, <2>1 DEF OfCoordinator, HeadDevice, Attribute
  <2>2. CASE Head(inbox).ieee = None
    <3>1. table.byNwk[Head(inbox).nwk] = Coordinator /\ Head(inbox).nwk \in Nwk
      BY <1>2, <1>5, <2>2 DEF HeadDevice, Attribute, Resolve, AdapterEvent
    <3> QED BY <1>4, <3>1, NoneIsNoAddress, CoordinatorHasAddresses DEF SoundIndex
  <2> QED BY <2>1, <2>2
<1>6. HeadDevice = Coordinator => kind = "zcl"
  BY <1>3, <1>5 DEF OfCoordinator
<1>7. Head(inbox).nwk \in Nwk /\ HeadDevice \in Device \cup {None}
  BY <1>2, TakenEvent DEF AdapterEvent, IInv
<1>8. \A i \in 1..Len(inbox') : OfCoordinator(inbox'[i])
  BY <1>2 DEF CInv
<1> QED BY <1>5, <1>6, <1>7, <1>8

LEMMA StepCInv == IInv /\ CInv /\ [Next]_vars => CInv'
<1> SUFFICES ASSUME IInv, CInv, [Next]_vars PROVE CInv'
  OBVIOUS
<1>t. /\ Types /\ SoundIndex(table) /\ table \in Table
      /\ table.nwkOf[Coordinator] = CoordinatorNwk
      /\ Coordinator \in Device /\ CoordinatorNwk \in Nwk /\ CoordinatorNwk # None
  BY NoneIsNoAddress, CoordinatorHasAddresses DEF IInv, IndexSound, Types, CInv, CoordinatorKept
<1>1. ASSUME NEW d \in Device, AirJoin(d) PROVE CInv'
  <2>1. PICK n \in Nwk : /\ \A other \in Device \ {d} : air[other] # n
                         /\ air' = [air EXCEPT ![d] = n] /\ Report("join", d, n)
    BY <1>1 DEF AirJoin
  <2>2. d # Coordinator /\ n # CoordinatorNwk /\ UNCHANGED <<table, stored>>
    BY <1>1, <1>t, <2>1 DEF AirJoin, CInv
  <2>3. \A i \in 1..Len(inbox') : OfCoordinator(inbox'[i])
    BY <2>1, <2>2, ReportOfCoordinator DEF Kind
  <2>4. \A e \in Device : air'[e] = CoordinatorNwk <=> e = Coordinator
    BY <1>t, <2>1, <2>2 DEF CInv, Types
  <2> QED BY <2>2, <2>3, <2>4 DEF CInv, CoordinatorKept
<1>2. ASSUME NEW d \in Device, AirLeave(d) PROVE CInv'
  <2>1. /\ d # Coordinator /\ air[d] \in Nwk /\ air[d] # CoordinatorNwk
        /\ air' = [air EXCEPT ![d] = None] /\ Report("left", d, air[d]) /\ UNCHANGED <<table, stored>>
    BY <1>2, <1>t DEF AirLeave, CInv, Types, Address
  <2>2. \A i \in 1..Len(inbox') : OfCoordinator(inbox'[i])
    BY <2>1, ReportOfCoordinator DEF Kind
  <2>3. \A e \in Device : air'[e] = CoordinatorNwk <=> e = Coordinator
    BY <1>t, <2>1 DEF CInv, Types
  <2> QED BY <2>1, <2>2, <2>3 DEF CInv, CoordinatorKept
<1>3. ASSUME NEW d \in Device, AirVanish(d) PROVE CInv'
  <2>1. \A e \in Device : air'[e] = CoordinatorNwk <=> e = Coordinator
    BY <1>3, <1>t DEF AirVanish, CInv, Types
  <2> QED BY <1>3, <2>1 DEF AirVanish, CInv, CoordinatorKept
<1>4. ASSUME NEW d \in Device, AirFrame(d) PROVE CInv'
  <2>1. air[d] \in Nwk /\ Report("zcl", d, air[d]) /\ UNCHANGED <<air, table, stored>>
    BY <1>4, <1>t DEF AirFrame, Types, Address
  <2>2. \A i \in 1..Len(inbox') : OfCoordinator(inbox'[i])
    BY <2>1, ReportOfCoordinator DEF Kind, CInv
  <2> QED BY <2>1, <2>2 DEF CInv, CoordinatorKept
<1>5. CASE OnJoined
  <2>1. /\ \A i \in 1..Len(inbox') : OfCoordinator(inbox'[i])
        /\ HeadDevice # Coordinator /\ Head(inbox).nwk \in Nwk /\ HeadDevice \in Device \cup {None}
    BY <1>5, TakenOfCoordinator DEF OnJoined
  <2>2. table'.nwkOf[Coordinator] = table.nwkOf[Coordinator]
    <3>1. CASE HeadDevice = None
      BY <1>5, <3>1 DEF OnJoined
    <3>2. CASE HeadDevice # None
      <4>1. table'.nwkOf = [table.nwkOf EXCEPT ![HeadDevice] = Head(inbox).nwk]
        BY <1>5, <1>t, <2>1, <3>2, InsertKeeps, SetNwkKeeps DEF OnJoined
      <4> QED BY <1>t, <2>1, <4>1 DEF Table
    <3> QED BY <3>1, <3>2
  <2>3. stored'[Coordinator] = stored[Coordinator] /\ air' = air
    BY <1>5, <1>t, <2>1 DEF OnJoined, Write, Types
  <2> QED BY <2>1, <2>2, <2>3 DEF CInv, CoordinatorKept
<1>6. CASE OnLeft
  <2>1. /\ \A i \in 1..Len(inbox') : OfCoordinator(inbox'[i])
        /\ HeadDevice # Coordinator /\ HeadDevice \in Device \cup {None}
    BY <1>6, TakenOfCoordinator DEF OnLeft
  <2>2. table'.nwkOf[Coordinator] = table.nwkOf[Coordinator]
    <3>1. CASE HeadDevice = None
      BY <1>6, <3>1 DEF OnLeft
    <3>2. CASE HeadDevice # None
      <4>1. table'.nwkOf = [table.nwkOf EXCEPT ![HeadDevice] = None]
        BY <1>6, <1>t, <2>1, <3>2, RemoveKeeps DEF OnLeft
      <4> QED BY <1>t, <2>1, <4>1 DEF Table
    <3> QED BY <3>1, <3>2
  <2>3. stored'[Coordinator] = stored[Coordinator] /\ air' = air
    BY <1>6, <1>t, <2>1 DEF OnLeft, Write, Types
  <2> QED BY <2>1, <2>2, <2>3 DEF CInv, CoordinatorKept
<1>7. CASE OnZcl
  <2>1. /\ \A i \in 1..Len(inbox') : OfCoordinator(inbox'[i])
        /\ HeadDevice = Coordinator => Head(inbox).nwk = CoordinatorNwk
        /\ Head(inbox).nwk \in Nwk /\ HeadDevice \in Device \cup {None}
    BY <1>7, TakenOfCoordinator DEF OnZcl
  <2>2. table'.nwkOf[Coordinator] = CoordinatorNwk
    <3>1. CASE table' = table
      BY <1>t, <3>1
    <3>2. CASE HeadDevice # None /\ Known(table, HeadDevice)
      <4>1. table'.nwkOf = [table.nwkOf EXCEPT ![HeadDevice] = Head(inbox).nwk]
        BY <1>7, <1>t, <2>1, <3>2, SetNwkKeeps DEF OnZcl
      <4> QED BY <1>t, <2>1, <4>1 DEF Table
    <3> QED BY <1>7, <3>1, <3>2 DEF OnZcl
  <2> QED BY <1>7, <2>1, <2>2 DEF OnZcl, CInv, CoordinatorKept
<1>8. ASSUME NEW d \in Device, Persist(d) PROVE CInv'
  <2>1. stored'[Coordinator] \in {None, CoordinatorNwk}
    BY <1>8, <1>t DEF Persist, Write, CInv, Types
  <2> QED BY <1>8, <2>1 DEF Persist, CInv, CoordinatorKept
<1>9. CASE Restart
  <2>1. PICK t \in Restored(stored) : table' = RegisterCoordinator(t)
    BY <1>9 DEF Restart
  <2>2. t \in Table /\ SoundIndex(t) /\ t.nwkOf = stored
    BY <1>t, <2>1, RestoredSound DEF Types, Address, Restored
  <2>3. CoordinatorKept'
    BY <2>1, <2>2, RegisterKnows DEF CInv, CoordinatorKept
  <2>4. Len(inbox') = 0
    BY <1>9 DEF Restart
  <2> QED BY <1>9, <2>3, <2>4 DEF Restart, CInv
<1>10. CASE UNCHANGED vars
  BY <1>10 DEF vars, CInv, CoordinatorKept
<1> QED BY <1>1, <1>2, <1>3, <1>4, <1>5, <1>6, <1>7, <1>8, <1>9, <1>10 DEF Next

(***************************************************************************)
(* Every variable keeps its type, and the coordinator its record, over     *)
(* joins, moves and leaves of the others, failing writes and restarts.     *)
(***************************************************************************)
THEOREM TypeCorrect == Spec => []TypeOK
<1>1. IInv /\ CInv => TypeOK
  BY DEF IInv, CInv, TypeOK
<1> QED BY <1>1, InitInv, NextInv, InitCInv, StepCInv, PTL DEF Spec

(***************************************************************************)
(* The reverse index is sound in every reachable state: what                *)
(* Inventory::resolve returns is a device whose record holds that address.  *)
(***************************************************************************)
THEOREM IndexIsSound == Spec => []IndexSound
<1>1. IInv => IndexSound
  BY DEF IInv
<1> QED BY <1>1, Invariance, PTL

(***************************************************************************)
(* The three addressing events tell a subscriber everything that happens    *)
(* to the addresses in the device table.                                    *)
(***************************************************************************)
THEOREM EventsTellTheTable == Spec => []ObserverAgrees
<1>1. IInv => ObserverAgrees
  BY DEF IInv
<1> QED BY <1>1, Invariance, PTL
-----------------------------------------------------------------------------
(***************************************************************************)
(* The store.  A write that succeeds leaves the record as the handler that *)
(* wrote it did the table, and no other handler adds or removes one.       *)
(***************************************************************************)
LEMMA MirrorKept ==
  ASSUME IInv, StoreMirrorsTable, [Next]_vars
  PROVE  StoreMirrorsTable'
<1> USE DEF StoreMirrorsTable
<1>t. Types /\ SoundIndex(table) /\ table \in Table
  BY DEF IInv, IndexSound, Types
<1>1. CASE UNCHANGED <<table, stored, unsaved>>
  BY <1>1 DEF Known
<1>2. CASE OnJoined
  <2>1. HeadDevice \in Device \cup {None} /\ Head(inbox).nwk \in Nwk
    BY <1>2, <1>t, TakenEvent DEF OnJoined, AdapterEvent
  <2>2. CASE HeadDevice = None
    BY <1>1, <1>2, <2>2 DEF OnJoined
  <2>3. CASE HeadDevice # None
    <3>1. table'.nwkOf = [table.nwkOf EXCEPT ![HeadDevice] = Head(inbox).nwk]
      BY <1>2, <1>t, <2>1, <2>3, InsertKeeps, SetNwkKeeps DEF OnJoined
    <3>2. Head(inbox).nwk # None
      BY <2>1, NoneIsNoAddress
    <3> QED BY <1>2, <1>t, <2>1, <2>3, <3>1, <3>2
         DEF OnJoined, Write, Known, Types, Table
  <2> QED BY <2>2, <2>3
<1>3. CASE OnLeft
  <2>1. HeadDevice \in Device \cup {None}
    BY <1>3, <1>t, TakenEvent DEF OnLeft
  <2>2. CASE HeadDevice = None
    BY <1>1, <1>3, <2>2 DEF OnLeft
  <2>3. CASE HeadDevice # None
    <3>1. table'.nwkOf = [table.nwkOf EXCEPT ![HeadDevice] = None]
      BY <1>3, <1>t, <2>1, <2>3, RemoveKeeps DEF OnLeft
    <3> QED BY <1>3, <1>t, <2>1, <2>3, <3>1 DEF OnLeft, Write, Known, Types, Table
  <2> QED BY <2>2, <2>3
<1>4. CASE OnZcl
  <2>1. HeadDevice \in Device \cup {None} /\ Head(inbox).nwk \in Nwk
    BY <1>4, <1>t, TakenEvent DEF OnZcl, AdapterEvent
  <2>2. CASE HeadDevice = None \/ ~Known(table, HeadDevice)
    BY <1>1, <1>4, <2>2 DEF OnZcl
  <2>3. CASE HeadDevice # None /\ Known(table, HeadDevice)
    <3>1. table'.nwkOf = [table.nwkOf EXCEPT ![HeadDevice] = Head(inbox).nwk]
      BY <1>4, <1>t, <2>1, <2>3, SetNwkKeeps DEF OnZcl
    <3>2. \A d \in Device : Known(table', d) <=> Known(table, d)
      BY <1>t, <2>1, <2>3, <3>1, NoneIsNoAddress DEF Known, Table
    <3> QED BY <1>4, <3>2 DEF OnZcl
  <2> QED BY <2>2, <2>3
<1>5. ASSUME NEW d \in Device, Persist(d) PROVE StoreMirrorsTable'
  BY <1>5, <1>t DEF Persist, Write, Known, Types
<1>6. CASE Restart
  <2>1. PICK t \in Restored(stored) : table' = RegisterCoordinator(t)
    BY <1>6 DEF Restart
  <2>2. t.nwkOf = stored /\ t \in Table /\ SoundIndex(t)
    BY <1>t, <2>1, RestoredSound DEF Restored, Types, Address
  <2>3. \/ table' = t
        \/ table'.nwkOf = [t.nwkOf EXCEPT ![Coordinator] = CoordinatorNwk]
    BY <2>1, <2>2, InsertKeeps, CoordinatorHasAddresses DEF RegisterCoordinator
  <2>4. \A d \in Device \ {Coordinator} : table'.nwkOf[d] = stored[d]
    BY <1>t, <2>2, <2>3 DEF Types, Address
  <2> QED BY <1>6, <2>4 DEF Restart, Known
<1> QED BY <1>1, <1>2, <1>3, <1>4, <1>5, <1>6
     DEF Next, AirJoin, AirLeave, AirVanish, AirFrame, vars

(***************************************************************************)
(* A restart loses no device and brings none back: a device is in the      *)
(* store if and only if it is in the table, unless its last write failed.  *)
(***************************************************************************)
THEOREM StoreAndTableAgree == Spec => []StoreMirrorsTable
<1>1. Init => StoreMirrorsTable
  <2> SUFFICES ASSUME Init, NEW d \in Device \ {Coordinator} PROVE ~Known(table, d)
    BY DEF Init, StoreMirrorsTable
  <2>1. EmptyTable \in Table /\ SoundIndex(EmptyTable)
    BY EmptyTableSound
  <2>2. table.nwkOf[d] = None
    BY <2>1, InsertKeeps, CoordinatorHasAddresses
       DEF Init, RegisterCoordinator, EmptyTable, Known
  <2> QED BY <2>2 DEF Known
<1>2. IInv /\ StoreMirrorsTable /\ [Next]_vars => StoreMirrorsTable'
  BY MirrorKept
<1> QED BY <1>1, <1>2, Invariance, PTL DEF Spec
-----------------------------------------------------------------------------
(***************************************************************************)
(* Attribution.  What a device sends from an address follows its join      *)
(* there, in the channel or handled already, with nothing of its own in    *)
(* between; so that a frame never finds its sender's record elsewhere, and *)
(* its handling moves no record at all.                                    *)
(***************************************************************************)

\* Once k of the events in flight are handled, d's record holds n.
HoldsAfter(box, t, d, n, k) ==
  \/ \E j \in 1..k : /\ box[j].sender = d /\ box[j].nwk = n /\ box[j].kind # "left"
                     /\ \A m \in (j + 1)..k : box[m].sender # d
  \/ t.nwkOf[d] = n /\ \A m \in 1..k : box[m].sender # d

Genuine(v) == v.ieee \in Reported(v.kind, v.sender)

Follows(box, t, holder) ==
  /\ \A i \in 1..Len(box) :
       /\ Genuine(box[i])
       /\ box[i].kind # "join" => HoldsAfter(box, t, box[i].sender, box[i].nwk, i - 1)
  /\ \A d \in Device : holder[d] # None => HoldsAfter(box, t, d, holder[d], Len(box))

FInv == ~downtime => Follows(inbox, table, air)

\* One more event in flight.
LEMMA HoldsAppended ==
  ASSUME NEW box \in Seq(AdapterEvent), NEW t, NEW d, NEW n, NEW v \in AdapterEvent,
         NEW k \in 0..Len(box), HoldsAfter(box, t, d, n, k)
  PROVE  /\ HoldsAfter(Append(box, v), t, d, n, k)
         /\ k = Len(box) /\ v.sender # d => HoldsAfter(Append(box, v), t, d, n, k + 1)
<1>1. /\ Len(box) \in Nat /\ Len(Append(box, v)) = Len(box) + 1
      /\ \A i \in 1..Len(box) : Append(box, v)[i] = box[i]
      /\ Append(box, v)[Len(box) + 1] = v
  OBVIOUS
<1> DEFINE more == Append(box, v)
<1> HIDE DEF more
<1>2. CASE t.nwkOf[d] = n /\ \A m \in 1..k : box[m].sender # d
  BY <1>1, <1>2 DEF HoldsAfter, more
<1>3. CASE \E j \in 1..k : /\ box[j].sender = d /\ box[j].nwk = n /\ box[j].kind # "left"
                           /\ \A m \in (j + 1)..k : box[m].sender # d
  <2>1. PICK j \in 1..k : /\ box[j].sender = d /\ box[j].nwk = n /\ box[j].kind # "left"
                          /\ \A m \in (j + 1)..k : box[m].sender # d
    BY <1>3
  <2>2. /\ j \in 1..Len(box) /\ more[j] = box[j]
        /\ \A m \in (j + 1)..k : more[m].sender # d
    BY <1>1, <2>1 DEF more
  <2>3. HoldsAfter(more, t, d, n, k)
    BY <2>1, <2>2 DEF HoldsAfter
  <2>4. ASSUME k = Len(box), v.sender # d PROVE HoldsAfter(more, t, d, n, k + 1)
    <3>1. j \in 1..(k + 1) /\ \A m \in (j + 1)..(k + 1) : more[m].sender # d
      BY <1>1, <2>2, <2>4 DEF more
    <3> QED BY <2>1, <2>2, <3>1 DEF HoldsAfter
  <2> QED BY <2>3, <2>4 DEF more
<1> QED BY <1>2, <1>3 DEF HoldsAfter

LEMMA HoldsReported ==
  ASSUME NEW box \in Seq(AdapterEvent), NEW t, NEW v \in AdapterEvent, v.kind # "left"
  PROVE  HoldsAfter(Append(box, v), t, v.sender, v.nwk, Len(box) + 1)
<1>1. Len(box) \in Nat /\ Append(box, v)[Len(box) + 1] = v
  OBVIOUS
<1>2. Len(box) + 1 \in 1..(Len(box) + 1) /\ (Len(box) + 1 + 1)..(Len(box) + 1) = {}
  BY <1>1
<1> QED BY <1>1, <1>2 DEF HoldsAfter

\* The oldest event handled.
LEMMA HoldsHandled ==
  ASSUME NEW box \in Seq(AdapterEvent), box # <<>>, NEW t, NEW u, NEW d, NEW n,
         NEW k \in 1..Len(box), HoldsAfter(box, t, d, n, k),
         Head(box).sender # d /\ t.nwkOf[d] = n => u.nwkOf[d] = n,
         Head(box).sender = d /\ Head(box).nwk = n /\ Head(box).kind # "left" => u.nwkOf[d] = n
  PROVE  HoldsAfter(Tail(box), u, d, n, k - 1)
<1>1. /\ Len(box) \in Nat \ {0} /\ Head(box) = box[1]
      /\ \A i \in 1..(Len(box) - 1) : Tail(box)[i] = box[i + 1]
  OBVIOUS
<1> DEFINE rest == Tail(box)
<1>r. \A i \in 1..(k - 1) : rest[i] = box[i + 1]
  BY <1>1
<1> HIDE DEF rest
<1>2. CASE t.nwkOf[d] = n /\ \A m \in 1..k : box[m].sender # d
  <2>1. u.nwkOf[d] = n
    BY <1>1, <1>2
  <2>2. \A m \in 1..(k - 1) : rest[m].sender # d
    BY <1>2, <1>r
  <2> QED BY <2>1, <2>2 DEF HoldsAfter, rest
<1>3. CASE \E j \in 1..k : /\ box[j].sender = d /\ box[j].nwk = n /\ box[j].kind # "left"
                           /\ \A m \in (j + 1)..k : box[m].sender # d
  <2>1. PICK j \in 1..k : /\ box[j].sender = d /\ box[j].nwk = n /\ box[j].kind # "left"
                          /\ \A m \in (j + 1)..k : box[m].sender # d
    BY <1>3
  <2>2. CASE j = 1
    <3>1. u.nwkOf[d] = n
      BY <1>1, <2>1, <2>2
    <3>2. \A m \in 1..(k - 1) : rest[m].sender # d
      BY <1>r, <2>1, <2>2
    <3> QED BY <3>1, <3>2 DEF HoldsAfter, rest
  <2>3. CASE j # 1
    <3>1. j - 1 \in 1..(k - 1) /\ rest[j - 1] = box[j]
      BY <1>r, <2>1, <2>3
    <3>2. \A m \in ((j - 1) + 1)..(k - 1) : rest[m].sender # d
      BY <1>r, <2>1, <2>3
    <3> QED BY <2>1, <3>1, <3>2 DEF HoldsAfter, rest
  <2> QED BY <2>2, <2>3
<1> QED BY <1>2, <1>3 DEF HoldsAfter

\* The radio reports an event of d at n, where it now is, or which it leaves.
LEMMA FollowsReported ==
  ASSUME IInv, FInv, UNCHANGED <<table, downtime>>,
         NEW d \in Device, NEW n \in Nwk, NEW kind \in Kind, Report(kind, d, n),
         kind # "join" => air[d] = n,
         \A e \in Device \ {d} : air'[e] = air[e],
         air'[d] = IF kind = "left" THEN None ELSE n
  PROVE  FInv'
<1> SUFFICES ASSUME ~downtime PROVE Follows(inbox', table, air')
  BY DEF FInv
<1>1. PICK ieee \in Reported(kind, d) :
        inbox' = Append(inbox, [kind |-> kind, ieee |-> ieee, nwk |-> n, sender |-> d])
  BY DEF Report
<1> DEFINE v == [kind |-> kind, ieee |-> ieee, nwk |-> n, sender |-> d]
<1>2. /\ v \in AdapterEvent /\ Genuine(v) /\ v.kind = kind /\ v.sender = d /\ v.nwk = n
      /\ inbox' = Append(inbox, v)
  BY <1>1 DEF Reported, AdapterEvent, Genuine
<1> HIDE DEF v
<1>3. inbox \in Seq(AdapterEvent) /\ Follows(inbox, table, air) /\ Len(inbox) \in Nat
  <2>1. inbox \in Seq(AdapterEvent)
    BY DEF IInv, Types
  <2> QED BY <2>1 DEF FInv
<1>4. /\ Len(inbox') = Len(inbox) + 1
      /\ \A i \in 1..Len(inbox) : inbox'[i] = inbox[i]
      /\ inbox'[Len(inbox) + 1] = v
  BY <1>2, <1>3
<1>5. ASSUME NEW i \in 1..Len(inbox') 
      PROVE  /\ Genuine(inbox'[i])
             /\ inbox'[i].kind # "join" =>
                  HoldsAfter(inbox', table, inbox'[i].sender, inbox'[i].nwk, i - 1)
  <2>1. CASE i \in 1..Len(inbox)
    <3>1. /\ Genuine(inbox[i])
          /\ inbox[i].kind # "join" => HoldsAfter(inbox, table, inbox[i].sender, inbox[i].nwk, i - 1)
      BY <1>3, <2>1 DEF Follows
    <3>2. i - 1 \in 0..Len(inbox)
      BY <1>3, <2>1
    <3> QED BY <1>2, <1>3, <1>4, <2>1, <3>1, <3>2, HoldsAppended
  <2>2. CASE i = Len(inbox) + 1
    <3>1. kind # "join" => HoldsAfter(inbox, table, d, n, Len(inbox))
      BY <1>3, NoneIsNoAddress DEF Follows
    <3>2. Len(inbox) \in 0..Len(inbox) /\ i - 1 = Len(inbox)
      BY <1>3, <2>2
    <3> QED BY <1>2, <1>3, <1>4, <2>2, <3>1, <3>2, HoldsAppended
  <2> QED BY <1>3, <1>4, <2>1, <2>2
<1>6. ASSUME NEW e \in Device, air'[e] # None
      PROVE  HoldsAfter(inbox', table, e, air'[e], Len(inbox'))
  <2>1. CASE e = d
    BY <1>2, <1>3, <1>4, <1>6, <2>1, HoldsReported
  <2>2. CASE e # d
    <3>1. HoldsAfter(inbox, table, e, air[e], Len(inbox)) /\ air'[e] = air[e]
      BY <1>3, <1>6, <2>2 DEF Follows
    <3>2. Len(inbox) \in 0..Len(inbox)
      BY <1>3
    <3> QED BY <1>2, <1>3, <1>4, <2>2, <3>1, <3>2, HoldsAppended
  <2> QED BY <2>1, <2>2
<1> QED BY <1>5, <1>6 DEF Follows

\* The runtime task handles an event; only the sender's record may move, and
\* to where the event came from.
LEMMA FollowsHandled ==
  ASSUME IInv, FInv, NEW kind, Take(kind), UNCHANGED <<air, downtime>>,
         ~downtime => \A d \in Device :
           IF d = Head(inbox).sender
             THEN Head(inbox).kind # "left" => table'.nwkOf[d] = Head(inbox).nwk
             ELSE table'.nwkOf[d] = table.nwkOf[d]
  PROVE  FInv'
<1> SUFFICES ASSUME ~downtime PROVE Follows(inbox', table', air)
  BY DEF FInv
<1>1. inbox \in Seq(AdapterEvent) /\ inbox # <<>> /\ inbox' = Tail(inbox)
      /\ Follows(inbox, table, air)
  BY DEF IInv, Types, Take, FInv
<1>2. /\ Len(inbox) \in Nat \ {0} /\ Len(inbox') = Len(inbox) - 1
      /\ \A i \in 1..Len(inbox') : i + 1 \in 1..Len(inbox) /\ inbox'[i] = inbox[i + 1]
                                  /\ inbox[i + 1] \in AdapterEvent
  BY <1>1
<1>3. ASSUME NEW d \in Device, NEW n, NEW k \in 1..Len(inbox), HoldsAfter(inbox, table, d, n, k)
      PROVE  HoldsAfter(inbox', table', d, n, k - 1)
  <2>1. /\ Head(inbox).sender # d /\ table.nwkOf[d] = n => table'.nwkOf[d] = n
        /\ Head(inbox).sender = d /\ Head(inbox).nwk = n /\ Head(inbox).kind # "left"
             => table'.nwkOf[d] = n
    OBVIOUS
  <2> QED BY <1>1, <1>3, <2>1, HoldsHandled
<1>4. ASSUME NEW i \in 1..Len(inbox')
      PROVE  /\ Genuine(inbox'[i])
             /\ inbox'[i].kind # "join" =>
                  HoldsAfter(inbox', table', inbox'[i].sender, inbox'[i].nwk, i - 1)
  <2>1. i \in 1..Len(inbox) /\ (i + 1) - 1 = i /\ inbox[i + 1].sender \in Device
    BY <1>2 DEF AdapterEvent
  <2>2. /\ Genuine(inbox[i + 1])
        /\ inbox[i + 1].kind # "join" =>
             HoldsAfter(inbox, table, inbox[i + 1].sender, inbox[i + 1].nwk, i)
    BY <1>1, <1>2, <2>1 DEF Follows
  <2> QED BY <1>2, <1>3, <2>1, <2>2
<1>5. ASSUME NEW d \in Device, air[d] # None
      PROVE  HoldsAfter(inbox', table', d, air[d], Len(inbox'))
  <2>1. HoldsAfter(inbox, table, d, air[d], Len(inbox)) /\ Len(inbox) \in 1..Len(inbox)
    BY <1>1, <1>2, <1>5 DEF Follows
  <2> QED BY <1>2, <1>3, <2>1
<1> QED BY <1>4, <1>5 DEF Follows

\* What is known of the event at the head.
LEMMA HeadFollows ==
  ASSUME IInv, FInv, inbox # <<>>, ~downtime
  PROVE  /\ Head(inbox) \in AdapterEvent /\ Genuine(Head(inbox))
         /\ Head(inbox).kind # "join" => table.nwkOf[Head(inbox).sender] = Head(inbox).nwk
<1>1. inbox \in Seq(AdapterEvent) /\ Follows(inbox, table, air)
  BY DEF IInv, Types, FInv
<1>2. Head(inbox) = inbox[1] /\ 1 \in 1..Len(inbox) /\ Head(inbox) \in AdapterEvent
  BY <1>1
<1>3. Genuine(inbox[1])
      /\ (inbox[1].kind # "join" => HoldsAfter(inbox, table, inbox[1].sender, inbox[1].nwk, 1 - 1))
  BY <1>1, <1>2 DEF Follows
<1>4. ASSUME NEW d, NEW n, HoldsAfter(inbox, table, d, n, 1 - 1) PROVE table.nwkOf[d] = n
  BY <1>4 DEF HoldsAfter
<1> QED BY <1>2, <1>3, <1>4

LEMMA InitFollows == Init => FInv
<1> SUFFICES ASSUME Init PROVE Follows(inbox, table, air)
  BY DEF FInv
<1>1. Len(inbox) = 0
  BY DEF Init
<1>2. table.nwkOf[Coordinator] = CoordinatorNwk
  BY EmptyTableSound, InsertKeeps, CoordinatorHasAddresses
     DEF Init, RegisterCoordinator, EmptyTable, Known
<1>3. \A d \in Device : air[d] # None => d = Coordinator /\ air[d] = CoordinatorNwk
  BY DEF Init
<1> QED BY <1>1, <1>2, <1>3 DEF Follows, HoldsAfter

LEMMA StepFollows ==
  ASSUME {"join", "left"} \subseteq AlwaysIeee, IInv, FInv, [Next]_vars
  PROVE  FInv'
<1>t. Types /\ SoundIndex(table) /\ table \in Table
  BY DEF IInv, IndexSound, Types
<1>1. ASSUME NEW d \in Device, AirJoin(d) PROVE FInv'
  <2>1. PICK n \in Nwk : air' = [air EXCEPT ![d] = n] /\ Report("join", d, n)
    BY <1>1 DEF AirJoin
  <2>2. UNCHANGED <<table, downtime>>
    BY <1>1 DEF AirJoin
  <2> QED BY <1>t, <2>1, <2>2, FollowsReported DEF Kind, Types
<1>2. ASSUME NEW d \in Device, AirLeave(d) PROVE FInv'
  <2>1. /\ air[d] \in Nwk /\ Report("left", d, air[d]) /\ UNCHANGED <<table, downtime>>
        /\ air' = [air EXCEPT ![d] = None]
    BY <1>2, <1>t DEF AirLeave, Types, Address
  <2> QED BY <1>t, <2>1, FollowsReported DEF Kind, Types
<1>3. ASSUME NEW d \in Device, AirVanish(d) PROVE FInv'
  BY <1>3, <1>t DEF AirVanish, FInv, Follows, Types
<1>4. ASSUME NEW d \in Device, AirFrame(d) PROVE FInv'
  <2>1. air[d] \in Nwk /\ Report("zcl", d, air[d]) /\ UNCHANGED <<air, table, downtime>>
    BY <1>4, <1>t DEF AirFrame, Types, Address
  <2> QED BY <2>1, FollowsReported DEF Kind
<1>5. CASE OnJoined
  <2>1. Take("join") /\ UNCHANGED <<air, downtime>>
    BY <1>5 DEF OnJoined
  <2>2. ASSUME ~downtime, NEW d \in Device
        PROVE  IF d = Head(inbox).sender
                 THEN Head(inbox).kind # "left" => table'.nwkOf[d] = Head(inbox).nwk
                 ELSE table'.nwkOf[d] = table.nwkOf[d]
    <3>1. Head(inbox) \in AdapterEvent /\ Genuine(Head(inbox)) /\ Head(inbox).kind = "join"
      BY <2>1, <2>2, HeadFollows DEF Take
    <3>2. HeadDevice = Head(inbox).sender /\ HeadDevice \in Device /\ Head(inbox).nwk \in Nwk
      BY <3>1, NoneIsNoAddress DEF Genuine, Reported, HeadDevice, Attribute, AdapterEvent
    <3>3. table'.nwkOf = [table.nwkOf EXCEPT ![HeadDevice] = Head(inbox).nwk]
      BY <1>5, <1>t, <3>2, NoneIsNoAddress, InsertKeeps, SetNwkKeeps DEF OnJoined
    <3> QED BY <1>t, <3>2, <3>3 DEF Table
  <2> QED BY <2>1, <2>2, FollowsHandled
<1>6. CASE OnLeft
  <2>1. Take("left") /\ UNCHANGED <<air, downtime>>
    BY <1>6 DEF OnLeft
  <2>2. ASSUME ~downtime, NEW d \in Device
        PROVE  IF d = Head(inbox).sender
                 THEN Head(inbox).kind # "left" => table'.nwkOf[d] = Head(inbox).nwk
                 ELSE table'.nwkOf[d] = table.nwkOf[d]
    <3>1. Head(inbox) \in AdapterEvent /\ Genuine(Head(inbox)) /\ Head(inbox).kind = "left"
      BY <2>1, <2>2, HeadFollows DEF Take
    <3>2. HeadDevice = Head(inbox).sender /\ HeadDevice \in Device
      BY <3>1, NoneIsNoAddress DEF Genuine, Reported, HeadDevice, Attribute, AdapterEvent
    <3>3. table'.nwkOf = [table.nwkOf EXCEPT ![HeadDevice] = None]
      BY <1>6, <1>t, <3>2, NoneIsNoAddress, RemoveKeeps DEF OnLeft
    <3> QED BY <1>t, <3>1, <3>2, <3>3 DEF Table
  <2> QED BY <2>1, <2>2, FollowsHandled
<1>7. CASE OnZcl
  <2>1. Take("zcl") /\ UNCHANGED <<air, downtime>>
    BY <1>7 DEF OnZcl
  <2>2. ASSUME ~downtime
        PROVE  table' = table /\ table.nwkOf[Head(inbox).sender] = Head(inbox).nwk
    <3>1. /\ Head(inbox) \in AdapterEvent /\ Genuine(Head(inbox))
          /\ table.nwkOf[Head(inbox).sender] = Head(inbox).nwk
      BY <2>1, <2>2, HeadFollows DEF Take
    <3>2. HeadDevice # None => table.nwkOf[HeadDevice] = Head(inbox).nwk
      BY <1>t, <3>1 DEF Genuine, Reported, HeadDevice, Attribute, Resolve, SoundIndex, AdapterEvent
    <3> QED BY <1>7, <3>1, <3>2 DEF OnZcl, SetNwk
  <2> QED BY <2>1, <2>2, FollowsHandled
<1>8. ASSUME NEW d \in Device, Persist(d) PROVE FInv'
  BY <1>8 DEF Persist, FInv
<1>9. CASE Restart
  BY <1>9 DEF Restart, FInv
<1>10. CASE UNCHANGED vars
  BY <1>10 DEF vars, FInv
<1> QED BY <1>1, <1>2, <1>3, <1>4, <1>5, <1>6, <1>7, <1>8, <1>9, <1>10 DEF Next

(***************************************************************************)
(* With an adapter that reports joins and leaves by the permanent address, *)
(* as the Ember adapter does, an event from an address only one record     *)
(* holds is never attributed to another device than its sender.            *)
(***************************************************************************)
THEOREM NobodyElsesFrame ==
  ASSUME {"join", "left"} \subseteq AlwaysIeee
  PROVE  Spec => []UnsharedAttribution
<1>1. IInv /\ FInv => UnsharedAttribution
  <2> SUFFICES ASSUME IInv, FInv, inbox # <<>>, ~downtime, Unshared(Head(inbox).nwk)
               PROVE  HeadDevice \in {Head(inbox).sender, None}
    BY DEF UnsharedAttribution
  <2>1. /\ Head(inbox) \in AdapterEvent /\ Genuine(Head(inbox))
        /\ Head(inbox).kind # "join" => table.nwkOf[Head(inbox).sender] = Head(inbox).nwk
    BY HeadFollows
  <2>2. table \in Table /\ SoundIndex(table)
    BY DEF IInv, Types, IndexSound
  <2>3. CASE Head(inbox).ieee # None
    BY <2>1, <2>3 DEF Genuine, Reported, HeadDevice, Attribute
  <2>4. CASE Head(inbox).ieee = None
    <3>1. HeadDevice = table.byNwk[Head(inbox).nwk]
      BY <2>4 DEF HeadDevice, Attribute, Resolve
    <3>2. Head(inbox).kind # "join"
      BY <2>1, <2>4, NoneIsNoAddress DEF Genuine, Reported, AdapterEvent
    <3>3. CASE HeadDevice # None
      <4>1. HeadDevice \in Device /\ table.nwkOf[HeadDevice] = Head(inbox).nwk
        BY <2>1, <2>2, <3>1, <3>3 DEF SoundIndex, Table, AdapterEvent
      <4> QED BY <2>1, <3>2, <4>1 DEF Unshared, AdapterEvent
    <3> QED BY <3>3
  <2> QED BY <2>3, <2>4
<1>2. IInv /\ FInv /\ [Next]_vars => FInv'
  BY StepFollows
<1> QED BY <1>1, <1>2, InitFollows, Invariance, PTL DEF Spec
=============================================================================
