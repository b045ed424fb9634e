----------------------------- MODULE Inventory -----------------------------
(***************************************************************************)
(* The runtime's device table, indexed by both addresses                   *)
(* (rszigbee-core, runtime/inventory.rs).                                  *)
(*                                                                         *)
(* A device has a permanent IEEE address, the key of its record, and a     *)
(* short network address that changes.  A table t is a record:             *)
(*   t.nwkOf[d]  the short address d's record holds, None without a record *)
(*   t.byNwk[n]  the reverse index: the device n stands for, or None       *)
(* The other fields of an Entry do not take part in addressing; the        *)
(* modules that need them keep them beside the table.                      *)
(***************************************************************************)
CONSTANTS Device,   \* permanent (IEEE) addresses
          Nwk,      \* short (network) addresses
          None      \* the absent value of an Option

ASSUME NoneIsNoAddress == None \notin Device \cup Nwk

Table == [nwkOf : [Device -> Nwk \cup {None}], byNwk : [Nwk -> Device \cup {None}]]

EmptyTable == [nwkOf |-> [d \in Device |-> None], byNwk |-> [n \in Nwk |-> None]]

Known(t, d) == t.nwkOf[d] # None

\* get(ieee) is t.nwkOf[d]; resolve(nwk) reads the reverse index.
Resolve(t, n) == t.byNwk[n]

\* resolve for an event that may carry the permanent address itself:
\* `ieee.or_else(|| self.devices.resolve(nwk))`.
Attribute(t, ieee, n) == IF ieee # None THEN ieee ELSE Resolve(t, n)

\* The reverse index once `prev` is dropped from it, whoever it points at,
\* and n points at d.
Reindexed(idx, prev, d, n) ==
  [m \in Nwk |-> IF m = n THEN d ELSE IF m = prev THEN None ELSE idx[m]]

\* A slip insert is open to: the stale index entry is not dropped.
InsertKeepingStale(t, d, n) ==
  [nwkOf |-> [t.nwkOf EXCEPT ![d] = n], byNwk |-> [t.byNwk EXCEPT ![n] = d]]

\* Inventory::insert
Insert(t, d, n) ==
  [nwkOf |-> [t.nwkOf EXCEPT ![d] = n], byNwk |-> Reindexed(t.byNwk, t.nwkOf[d], d, n)]

\* A slip set_nwk is open to: the record moves, the index keeps the old entry.
SetNwkKeepingStale(t, d, n) ==
  IF ~Known(t, d) THEN t ELSE InsertKeepingStale(t, d, n)

\* Inventory::set_nwk, for a device with a record; without one it does nothing.
SetNwk(t, d, n) ==
  IF ~Known(t, d) \/ t.nwkOf[d] = n THEN t
  ELSE [nwkOf |-> [t.nwkOf EXCEPT ![d] = n], byNwk |-> Reindexed(t.byNwk, t.nwkOf[d], d, n)]

\* A slip remove is open to: the record goes and its index entry stays.
RemoveKeepingIndex(t, d) == [t EXCEPT !.nwkOf[d] = None]

\* Inventory::remove
Remove(t, d) ==
  [nwkOf |-> [t.nwkOf EXCEPT ![d] = None],
   byNwk |-> [m \in Nwk |-> IF m = t.nwkOf[d] THEN None ELSE t.byNwk[m]]]

\* What rebuilding the table from stored records can give (`spawn` inserts
\* them one by one into an empty table).  The records have distinct keys, so
\* no insert drops an index entry; where two hold one short address the one
\* inserted last has it.  A directory store lists its records in no
\* particular order, so that is any of them.
Restored(stored) ==
  { t \in [nwkOf : {stored}, byNwk : [Nwk -> Device \cup {None}]] :
      \A n \in Nwk :
        LET holders == { d \in Device : stored[d] = n }
        IN  t.byNwk[n] \in IF holders = {} THEN {None} ELSE holders }

(***************************************************************************)
(* The index never points at a device whose record holds another address,  *)
(* so it never holds two entries for one device (inventory.rs, the comment *)
(* on `by_nwk`).                                                           *)
(***************************************************************************)
SoundIndex(t) == \A n \in Nwk : t.byNwk[n] # None => t.nwkOf[t.byNwk[n]] = n
=============================================================================
