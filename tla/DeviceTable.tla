---------------------------- MODULE DeviceTable ----------------------------
(***************************************************************************)
(* How adapter events drive the device table: joins, leaves and frames     *)
(* (runtime/task/devices.rs, the head of runtime/task/inbound.rs), what is *)
(* persisted of it, and what a restart rebuilds.                           *)
(*                                                                         *)
(* The radio side is external: devices take and lose short addresses, and  *)
(* the adapter reports it through a FIFO channel the runtime drains one    *)
(* event at a time.  Two devices on the air never hold one address, but a  *)
(* device that loses power says nothing, and its address may be given away.*)
(***************************************************************************)
EXTENDS Inventory, Sequences, Naturals

CONSTANTS Coordinator,     \* the coordinator's IEEE address
          CoordinatorNwk,  \* 0x0000
          AlwaysIeee,      \* event kinds whose IEEE address the adapter always reports
          MaxInbox         \* bound: adapter events in flight

ASSUME CoordinatorHasAddresses == Coordinator \in Device /\ CoordinatorNwk \in Nwk

VARIABLES air,     \* air[d]: the short address d holds on the network, or None
          inbox,   \* adapter events not handled yet, oldest first
          table,   \* Task::devices
          stored,  \* stored[d]: the short address in d's stored record, or None
          unsaved, \* devices whose latest write to the store failed
          seen,    \* the addresses a subscriber derives from the events alone
          downtime \* the runtime has been down, and may have missed events

vars == <<air, inbox, table, stored, unsaved, seen, downtime>>

Address == Nwk \cup {None}
Kind == {"join", "left", "zcl"}
AdapterEvent == [kind : Kind, ieee : Device \cup {None}, nwk : Nwk, sender : Device]

Types ==
  /\ air \in [Device -> Address]
  /\ inbox \in Seq(AdapterEvent)
  /\ table \in Table
  /\ stored \in [Device -> Address]
  /\ unsaved \subseteq Device
  /\ seen \in [Device -> Address]
  /\ downtime \in BOOLEAN

\* Whatever happens to the others, the coordinator has a record at its own
\* address: without one "every request addressed to it comes back
\* `UnknownDevice`" (task/devices.rs, register_coordinator).
CoordinatorKept == table.nwkOf[Coordinator] = CoordinatorNwk

TypeOK == Types /\ CoordinatorKept

-----------------------------------------------------------------------------
\* A slip: the coordinator is registered in an empty table only.
RegisterInEmpty(t) == IF t = EmptyTable THEN Insert(t, Coordinator, CoordinatorNwk) ELSE t

\* Putting the coordinator in the table, unless a stored record already is.
RegisterCoordinator(t) ==
  IF Known(t, Coordinator) THEN t ELSE Insert(t, Coordinator, CoordinatorNwk)

\* A first start on an empty store.
Init ==
  /\ air = [d \in Device |-> IF d = Coordinator THEN CoordinatorNwk ELSE None]
  /\ inbox = <<>>
  /\ table = RegisterCoordinator(EmptyTable)
  /\ stored = [d \in Device |-> None]
  /\ unsaved = {}
  /\ seen = table.nwkOf
  /\ downtime = FALSE

-----------------------------------------------------------------------------
(* The radio and the adapter.                                              *)

Reported(kind, d) == IF kind \in AlwaysIeee THEN {d} ELSE {d, None}

Report(kind, d, n) ==
  /\ Len(inbox) < MaxInbox
  /\ \E ieee \in Reported(kind, d) :
       inbox' = Append(inbox, [kind |-> kind, ieee |-> ieee, nwk |-> n, sender |-> d])

\* A device joins, or rejoins at the same or another free address.
AirJoin(d) ==
  /\ d # Coordinator
  /\ \E n \in Nwk :
       /\ \A other \in Device \ {d} : air[other] # n
       /\ air' = [air EXCEPT ![d] = n]
       /\ Report("join", d, n)
  /\ UNCHANGED <<table, stored, unsaved, seen, downtime>>

\* A device announces that it leaves.
AirLeave(d) ==
  /\ d # Coordinator
  /\ air[d] # None
  /\ air' = [air EXCEPT ![d] = None]
  /\ Report("left", d, air[d])
  /\ UNCHANGED <<table, stored, unsaved, seen, downtime>>

\* A device loses power: nothing is reported.
AirVanish(d) ==
  /\ d # Coordinator
  /\ air[d] # None
  /\ air' = [air EXCEPT ![d] = None]
  /\ UNCHANGED <<inbox, table, stored, unsaved, seen, downtime>>

\* A device sends an application frame.
AirFrame(d) ==
  /\ air[d] # None
  /\ Report("zcl", d, air[d])
  /\ UNCHANGED <<air, table, stored, unsaved, seen, downtime>>

-----------------------------------------------------------------------------
(* The runtime task.                                                       *)

\* A store write either happens or fails with a warning, and the handler
\* continues either way.
Write(d, n) ==
  \/ stored' = [stored EXCEPT ![d] = n] /\ unsaved' = unsaved \ {d}
  \/ unsaved' = unsaved \cup {d} /\ UNCHANGED stored

\* A subscriber folds DeviceJoined, DeviceAddressChanged and DeviceLeft.
Announce(d, n) == seen' = [seen EXCEPT ![d] = n]

Take(kind) ==
  /\ inbox # <<>>
  /\ Head(inbox).kind = kind
  /\ inbox' = Tail(inbox)

HeadDevice == Attribute(table, Head(inbox).ieee, Head(inbox).nwk)

\* A slip on_joined is open to: a join of a known device changes nothing.
OnJoinedOnce ==
  /\ Take("join")
  /\ LET d == HeadDevice
         n == Head(inbox).nwk
     IN  IF d = None \/ Known(table, d) THEN UNCHANGED <<table, stored, unsaved, seen>>
         ELSE table' = Insert(table, d, n) /\ Write(d, n) /\ Announce(d, n)
  /\ UNCHANGED <<air, downtime>>

\* on_joined: a new record and DeviceJoined, or the address of a known one
\* updated and DeviceAddressChanged if it moved; then the record is persisted.
OnJoined ==
  /\ Take("join")
  /\ LET d == HeadDevice
         n == Head(inbox).nwk
     IN  IF d = None THEN UNCHANGED <<table, stored, unsaved, seen>>
         ELSE /\ table' = IF Known(table, d) THEN SetNwk(table, d, n) ELSE Insert(table, d, n)
              /\ Write(d, n)
              /\ Announce(d, n)
  /\ UNCHANGED <<air, downtime>>

\* A slip on_left is open to: the record is dropped from the table only.
OnLeftKeepingStored ==
  /\ Take("left")
  /\ table' = IF HeadDevice = None THEN table ELSE Remove(table, HeadDevice)
  /\ seen' = table'.nwkOf
  /\ UNCHANGED <<air, stored, unsaved, downtime>>

\* on_left: the record goes from the table and from the store.
OnLeft ==
  /\ Take("left")
  /\ LET d == HeadDevice
     IN  IF d = None THEN UNCHANGED <<table, stored, unsaved, seen>>
         ELSE /\ table' = Remove(table, d)
              /\ Write(d, None)
              /\ Announce(d, None)
  /\ UNCHANGED <<air, downtime>>

\* A slip on_zcl is open to: the address moves without DeviceAddressChanged.
OnZclSilently ==
  /\ Take("zcl")
  /\ table' = IF HeadDevice = None THEN table ELSE SetNwk(table, HeadDevice, Head(inbox).nwk)
  /\ UNCHANGED <<air, stored, unsaved, seen, downtime>>

\* on_zcl, as far as addresses go: a frame from a known device at another
\* address updates the record, in memory only.
OnZcl ==
  /\ Take("zcl")
  /\ LET d == HeadDevice
         n == Head(inbox).nwk
     IN  IF d = None \/ ~Known(table, d) THEN UNCHANGED <<table, seen>>
         ELSE /\ table' = SetNwk(table, d, n)
              /\ Announce(d, n)
  /\ UNCHANGED <<air, stored, unsaved, downtime>>

\* persist, which every interview update ends in: the current record is
\* written, and a device that has none by then is skipped.
Persist(d) ==
  /\ Known(table, d)
  /\ Write(d, table.nwkOf[d])
  /\ UNCHANGED <<air, inbox, table, seen, downtime>>

\* The process stops and a new one starts on the same store.  Events not
\* handled are lost with the old one; a subscriber starts from a snapshot.
Restart ==
  /\ inbox' = <<>>
  /\ \E t \in Restored(stored) : table' = RegisterCoordinator(t)
  /\ seen' = table'.nwkOf
  /\ unsaved' = {}
  /\ downtime' = TRUE
  /\ UNCHANGED <<air, stored>>

Next ==
  \/ \E d \in Device : AirJoin(d) \/ AirLeave(d) \/ AirVanish(d) \/ AirFrame(d)
  \/ OnJoined
  \/ OnLeft
  \/ OnZcl
  \/ \E d \in Device : Persist(d)
  \/ Restart

Spec == Init /\ [][Next]_vars

-----------------------------------------------------------------------------
(***************************************************************************)
(* Whatever order joins, moves, leaves and restarts come in, the reverse   *)
(* index never points at a device whose record holds another short         *)
(* address (inventory.rs: "never allowed to hold two entries for one       *)
(* device").                                                               *)
(***************************************************************************)
IndexSound == SoundIndex(table)

(***************************************************************************)
(* A caller that only folds DeviceJoined, DeviceAddressChanged and         *)
(* DeviceLeft over its starting snapshot always has the addresses the      *)
(* runtime has: no handler moves a device silently.                        *)
(***************************************************************************)
ObserverAgrees == seen = table.nwkOf

(***************************************************************************)
(* As long as the runtime has missed no event, an event from an address    *)
(* that no two records hold is attributed to the device that caused it or  *)
(* to none at all, never to another one: the joins that moved an address   *)
(* were handled before the frames sent from it.                            *)
(***************************************************************************)
Unshared(n) == \A d, e \in Device : table.nwkOf[d] = n /\ table.nwkOf[e] = n => d = e

UnsharedAttribution ==
  inbox # <<>> /\ ~downtime /\ Unshared(Head(inbox).nwk)
    => HeadDevice \in {Head(inbox).sender, None}

(***************************************************************************)
(* A restart loses no device that joined and brings none back that left:   *)
(* apart from the coordinator, the store holds a record exactly for the    *)
(* devices in the table, except for devices whose last write failed.       *)
(***************************************************************************)
StoreMirrorsTable ==
  \A d \in Device \ ({Coordinator} \cup unsaved) : stored[d] # None <=> Known(table, d)

(***************************************************************************)
(* As long as the runtime has missed no event, an event from the address   *)
(* in its sender's own record is the sender's: not nobody's (`resolve`     *)
(* "returns None for a device the runtime has never seen"), nor another    *)
(* device's (without the upkeep of the index a frame is "attributed to the *)
(* wrong device", inventory.rs).                                           *)
(***************************************************************************)
OwnAddressResolves ==
  inbox # <<>> /\ ~downtime /\ table.nwkOf[Head(inbox).sender] = Head(inbox).nwk
    => HeadDevice = Head(inbox).sender
=============================================================================
