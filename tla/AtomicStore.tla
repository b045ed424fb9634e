---------------------------- MODULE AtomicStore ----------------------------
(***************************************************************************)
(* What a store promises about one directory of records: a record is       *)
(* replaced or removed as a whole, and a power loss leaves each one as it  *)
(* was at some point since it was last made durable, never half-written.   *)
(***************************************************************************)
CONSTANTS Path,    \* records
          Value,   \* their contents
          Absent   \* no record

VARIABLES rec,     \* rec[p]: what a reader finds
          may      \* may[p]: what a power loss may leave

Content == Value \cup {Absent}

TypeOK == rec \in [Path -> Content] /\ may \in [Path -> SUBSET Content]

Init == /\ rec = [p \in Path |-> Absent]
        /\ may = [p \in Path |-> {Absent}]

\* The record is replaced or removed; the old one may still come back.
Change(p, v) == /\ rec' = [rec EXCEPT ![p] = v]
                /\ may' = [may EXCEPT ![p] = @ \cup {v}]

\* The directory is made durable.
Sync == /\ may' = [p \in Path |-> {rec[p]}]
        /\ UNCHANGED rec

PowerLoss == /\ rec' \in [Path -> Content]
             /\ \A p \in Path : rec'[p] \in may[p]
             /\ may' = [p \in Path |-> {rec'[p]}]

Next == (\E p \in Path, v \in Content : Change(p, v)) \/ Sync \/ PowerLoss

Spec == Init /\ [][Next]_<<rec, may>>
=============================================================================
