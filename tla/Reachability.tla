---------------------------- MODULE Reachability ----------------------------
(***************************************************************************)
(* Which devices are believed to answer (rszigbee-core, reachability.rs    *)
(* and runtime/task/availability.rs).                                      *)
(*                                                                         *)
(* The runtime task keeps the facts of each device and the next check the  *)
(* policy asked for.  A frame, the outcome of a command or of a probe, and *)
(* a check that falls due each ask the policy for a new verdict.  Silence  *)
(* is measured on the wall clock, which may be set, and checks are         *)
(* scheduled on the monotonic clock, which may not.  Both are relative to  *)
(* the present here: an age and a time to wait, so that no time is too     *)
(* late to be reached.  A probe is awaited, and nothing else is handled    *)
(* before all the checks of its tick have been made.                       *)
(*                                                                         *)
(* The default policy judges silence and never probes; an application may  *)
(* inject any other.  The runtime here has a policy that judges some       *)
(* devices as the default does and the others in any way.                  *)
(***************************************************************************)
EXTENDS Integers, Sequences, FiniteSets

CONSTANTS Device,       \* permanent addresses
          BySilence,    \* the devices judged as the default policy does
          Limit,        \* SilencePolicy::silence_limit
          MaxClockSteps,\* bound: times the wall clock is set
          MaxFailures,  \* the largest count of failed probes (2^32 - 1)
          MaxInbox,     \* bound: adapter events not handled yet
          None          \* no record, nothing heard

VARIABLES entry,  \* entry[d]: the facts, verdict and next check of d, or None
          inbox,  \* adapter events on their way to the task
          due,    \* the devices whose checks the task is making
          told,   \* told[d]: what a subscriber was last told of d
          steps,  \* how often the wall clock was set
          spoke   \* history: devices this process has heard

vars == <<entry, inbox, due, told, steps, spoke>>

Verdict == {"Unknown", "Reachable", "Unreachable"}
Await == [kind |-> "await", in |-> 0]
NextCheck == [kind : {"probe", "reassess"}, in : 0..Limit] \cup {Await}

\* How long ago a device was heard.  Beyond the limit and every step of the
\* clock it makes no difference; it is negative when the clock was set back.
Age == -MaxClockSteps..(Limit + MaxClockSteps)
Later(age) == IF age = Limit + MaxClockSteps THEN age ELSE age + 1

Entry == [heard : Age \cup {None}, verdict : Verdict, next : NextCheck,
          failures : 0..MaxFailures]

ASSUME ReachabilityAssumption ==
  /\ BySilence \subseteq Device
  /\ Limit \in Nat \ {0}
  /\ MaxClockSteps \in Nat
  /\ MaxFailures \in Nat \ {0}
  /\ MaxInbox \in Nat
  /\ None \notin Int
  /\ None \notin Entry

Fresh == [heard |-> None, verdict |-> "Unknown", next |-> Await, failures |-> 0]

AdapterEvent == [dev : Device, what : {"joined", "left", "frame"}]

Known(d) == entry[d] # None
Idle == due = {}

TypeOK ==
  /\ entry \in [Device -> Entry \cup {None}]
  /\ inbox \in Seq(AdapterEvent)
  /\ Len(inbox) <= MaxInbox
  /\ due \subseteq {d \in Device : Known(d)}
  /\ told \in [Device -> Verdict]
  /\ steps \in 0..MaxClockSteps
  /\ spoke \subseteq Device

Init ==
  /\ entry = [d \in Device |-> None]
  /\ inbox = <<>>
  /\ due = {}
  /\ told = [d \in Device |-> "Unknown"]
  /\ steps = 0
  /\ spoke = {}

-----------------------------------------------------------------------------
(* The policy.                                                             *)

Assessment(verdict, next) == [verdict |-> verdict, next |-> next]

\* A slip: the whole limit again, whatever of it has passed.
SilenceFromNow(e) ==
  IF e.heard = None \/ e.heard < 0 THEN Assessment("Unknown", Await)
  ELSE IF e.heard < Limit
    THEN Assessment("Reachable", [kind |-> "reassess", in |-> Limit])
    ELSE Assessment("Unreachable", Await)

\* SilencePolicy.  A frame heard in the future counts as none heard.
Silence(e) ==
  IF e.heard = None \/ e.heard < 0 THEN Assessment("Unknown", Await)
  ELSE IF e.heard < Limit
    THEN Assessment("Reachable", [kind |-> "reassess", in |-> Limit - e.heard])
    ELSE Assessment("Unreachable", Await)

Assessments(d, e) ==
  IF d \in BySilence THEN {Silence(e)}
                     ELSE {Assessment(v, n) : v \in Verdict, n \in NextCheck}

\* The record of d becomes e, judged; a subscriber hears of a new verdict.
Assess(d, e) ==
  \E a \in Assessments(d, e) :
    /\ entry' = [entry EXCEPT ![d] = [heard |-> e.heard, verdict |-> a.verdict,
                                      next |-> a.next, failures |-> e.failures]]
    /\ told' = IF a.verdict = e.verdict THEN told
                                        ELSE [told EXCEPT ![d] = a.verdict]

\* touch: a frame, or a join, of a device the table has.
Heard(e) == [heard |-> 0, verdict |-> e.verdict, next |-> e.next, failures |-> 0]

Touch(d, e) == Assess(d, Heard(e)) /\ spoke' = spoke \cup {d}

-----------------------------------------------------------------------------
(* The runtime task.                                                       *)

Take(what) ==
  /\ Idle
  /\ inbox # <<>>
  /\ Head(inbox).what = what
  /\ inbox' = Tail(inbox)
  /\ UNCHANGED <<due, steps>>

HeadDevice == Head(inbox).dev

\* A new device starts from a fresh record; the subscriber, told that it
\* joined or left, holds no belief of its own about it.
OnJoined ==
  /\ Take("joined")
  /\ LET d == HeadDevice IN Touch(d, IF Known(d) THEN entry[d] ELSE Fresh)

\* A slip: the record goes and nobody is told.
OnLeftKeeping ==
  /\ Take("left")
  /\ entry' = [entry EXCEPT ![HeadDevice] = None]
  /\ UNCHANGED <<told, spoke>>

OnLeft ==
  /\ Take("left")
  /\ entry' = [entry EXCEPT ![HeadDevice] = None]
  /\ told' = [told EXCEPT ![HeadDevice] = "Unknown"]
  /\ UNCHANGED spoke

OnFrame ==
  /\ Take("frame")
  /\ IF Known(HeadDevice) THEN Touch(HeadDevice, entry[HeadDevice])
                          ELSE UNCHANGED <<entry, told, spoke>>

\* A command was sent, and the adapter said how it went: record_tx.  (One
\* that fails below the ZCL layer changes nothing.)
Command(d) ==
  /\ Idle
  /\ Known(d)
  /\ Assess(d, entry[d])
  /\ UNCHANGED <<inbox, due, steps, spoke>>

\* The tick collects the checks that are due.
IsDue(d) == Known(d) /\ entry[d].next.kind # "await" /\ entry[d].next.in = 0

\* A slip: only probes are collected.
TickProbing ==
  /\ Idle
  /\ due' = {d \in Device : IsDue(d) /\ entry[d].next.kind = "probe"}
  /\ due' # {}
  /\ UNCHANGED <<entry, inbox, told, steps, spoke>>

Tick ==
  /\ Idle
  /\ due' = {d \in Device : IsDue(d)}
  /\ due' # {}
  /\ UNCHANGED <<entry, inbox, told, steps, spoke>>

\* A slip: the count does not saturate.
ProbedUnsaturated(e, answered) ==
  [heard |-> e.heard, verdict |-> e.verdict, next |-> e.next,
   failures |-> IF answered THEN 0 ELSE e.failures + 1]

\* One probe, answered or not; a failure is counted.
Probed(e, answered) ==
  [heard |-> e.heard, verdict |-> e.verdict, next |-> e.next,
   failures |-> IF answered THEN 0
                ELSE IF e.failures = MaxFailures THEN e.failures ELSE e.failures + 1]

Probe(d) ==
  /\ entry[d].next.kind = "probe"
  /\ \E answered \in BOOLEAN : Assess(d, Probed(entry[d], answered))

Reassess(d) ==
  /\ entry[d].next.kind = "reassess"
  /\ Assess(d, entry[d])

Check(d) ==
  /\ d \in due
  /\ due' = due \ {d}
  /\ Probe(d) \/ Reassess(d)
  /\ UNCHANGED <<inbox, steps, spoke>>

\* A slip: the last frame is restored with the record.
RestoredHeard(kept) ==
  [d \in Device |->
     IF d \in kept /\ Known(d)
       THEN [heard |-> entry[d].heard, verdict |-> "Unknown", next |-> Await, failures |-> 0]
       ELSE None]

\* A new process: some of the devices are in the store, their reachability
\* is not, and its subscribers are new as well.
Restored(kept) == [d \in Device |-> IF d \in kept /\ Known(d) THEN Fresh ELSE None]

Restart ==
  /\ \E kept \in SUBSET Device : entry' = Restored(kept)
  /\ inbox' = <<>>
  /\ due' = {}
  /\ told' = [d \in Device |-> "Unknown"]
  /\ spoke' = {}
  /\ UNCHANGED steps

-----------------------------------------------------------------------------
(* The world: devices, and time.                                           *)

Report(d, what) ==
  /\ Len(inbox) < MaxInbox
  /\ inbox' = Append(inbox, [dev |-> d, what |-> what])
  /\ UNCHANGED <<entry, due, told, steps, spoke>>

\* A record heard at age `heard' whose next check is `in' away.
Moved(e, heard, in) ==
  [heard |-> IF e.heard = None THEN None ELSE heard, verdict |-> e.verdict,
   next |-> [kind |-> e.next.kind, in |-> in], failures |-> e.failures]

Sooner(in) == IF in = 0 THEN 0 ELSE in - 1

Advance ==
  /\ entry' = [d \in Device |->
       IF Known(d) THEN Moved(entry[d], Later(entry[d].heard), Sooner(entry[d].next.in))
                   ELSE None]
  /\ UNCHANGED <<inbox, due, told, steps, spoke>>

\* The wall clock is set back, or forwards, by one unit of time.
SetClock ==
  /\ steps < MaxClockSteps
  /\ steps' = steps + 1
  /\ \/ entry' = [d \in Device |->
          IF Known(d) THEN Moved(entry[d], entry[d].heard - 1, entry[d].next.in) ELSE None]
     \/ entry' = [d \in Device |->
          IF Known(d) THEN Moved(entry[d], Later(entry[d].heard), entry[d].next.in) ELSE None]
  /\ UNCHANGED <<inbox, due, told, spoke>>

-----------------------------------------------------------------------------
RuntimeStep ==
  \/ OnJoined \/ OnLeft \/ OnFrame \/ Tick \/ Restart
  \/ \E d \in Device : Command(d) \/ Check(d)

Next ==
  \/ RuntimeStep
  \/ \E d \in Device, what \in {"joined", "left", "frame"} : Report(d, what)
  \/ Advance
  \/ SetClock

Spec == Init /\ [][Next]_vars

\* Time passes, the interval of the loop ticks, and a probe that was sent
\* comes back, as every call of the adapter is assumed to.
Fairness ==
  /\ WF_vars(Advance)
  /\ WF_vars(Tick)
  /\ \A d \in Device : WF_vars(Check(d))

FairSpec == Spec /\ Fairness

-----------------------------------------------------------------------------
(***************************************************************************)
(* A subscriber that follows ReachabilityChanged, and forgets a device     *)
(* when it leaves, believes of each device what the task believes: assess  *)
(* reports every change, from the verdict it reported last.                *)
(***************************************************************************)
ToldTheVerdict == \A d \in Device : told[d] = IF Known(d) THEN entry[d].verdict ELSE "Unknown"

(***************************************************************************)
(* The default policy says nothing of a device this process has not heard: *)
(* not after a restart, whatever commands or checks fail meanwhile.        *)
(***************************************************************************)
JudgedByItsTraffic ==
  \A d \in BySilence : Known(d) /\ entry[d].verdict # "Unknown" => d \in spoke

(***************************************************************************)
(* A device the default policy believes reachable is going to be looked at *)
(* again, and its silence will then have reached the limit: the two clocks *)
(* agree on when, but for the steps of the wall clock.                     *)
(***************************************************************************)
WatchedInTime ==
  \A d \in BySilence : Known(d) /\ entry[d].verdict = "Reachable" =>
    /\ entry[d].next.kind = "reassess"
    /\ entry[d].heard # None
    /\ entry[d].heard + entry[d].next.in >= Limit - steps
    /\ entry[d].next.in > 0 => entry[d].heard + entry[d].next.in <= Limit + steps

(***************************************************************************)
(* A device that falls silent does not stay reachable: once the limit has  *)
(* passed the verdict changes, unless the device speaks again, leaves, or  *)
(* the clock is set back over the limit.                                   *)
(***************************************************************************)
Silent(d) == Known(d) /\ entry[d].heard # None /\ entry[d].heard >= Limit
SilenceIsNoticed ==
  \A d \in BySilence :
    Silent(d) ~> (~Silent(d) \/ entry[d].verdict # "Reachable")
=============================================================================
