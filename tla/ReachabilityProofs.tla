------------------------- MODULE ReachabilityProofs -------------------------
(***************************************************************************)
(* For any devices, limit, failures and steps of the wall clock: what the  *)
(* table believes is what it told, what the default policy believes comes  *)
(* from a frame this process heard, and the check it scheduled comes when  *)
(* the silence reaches the limit, give or take the steps of the clock.     *)
(***************************************************************************)
EXTENDS Reachability, TLAPS

\* What a record's facts say, when the clock was set n times and the devices
\* of sp were heard.
Facts(d, e, n, sp) ==
  /\ e \in Entry
  /\ e.heard # None => e.heard >= -n /\ d \in sp

\* The two clocks agree on the next check of a reachable device.
Aligned(e, n) ==
  e.verdict = "Reachable" =>
    /\ e.next.kind = "reassess"
    /\ e.heard + e.next.in >= Limit - n
    /\ e.next.in > 0 => e.heard + e.next.in <= Limit + n

Fit(d, e, n, sp) ==
  /\ Facts(d, e, n, sp)
  /\ d \in BySilence => /\ e.verdict # "Unknown" => e.heard # None
                        /\ Aligned(e, n)

Frame ==
  /\ inbox \in Seq(AdapterEvent)
  /\ Len(inbox) <= MaxInbox
  /\ due \subseteq {d \in Device : Known(d)}
  /\ steps \in 0..MaxClockSteps
  /\ spoke \subseteq Device

Belief(e) == IF e = None THEN "Unknown" ELSE e.verdict

Table ==
  /\ entry = [d \in Device |-> entry[d]]
  /\ told = [d \in Device |-> told[d]]
  /\ \A d \in Device : entry[d] # None => Fit(d, entry[d], steps, spoke)
  /\ \A d \in Device : told[d] = Belief(entry[d])

IInv == Frame /\ Table

(***************************************************************************)
(* The invariant says what the model checker was asked.                    *)
(***************************************************************************)
LEMMA IInvImplies ==
  ASSUME IInv
  PROVE  TypeOK /\ ToldTheVerdict /\ JudgedByItsTraffic /\ WatchedInTime
<1> USE DEF IInv, Table, Frame, Known, Belief
<1>1. \A d \in Device : entry[d] \in Entry \cup {None} /\ told[d] \in Verdict
  BY DEF Fit, Facts, Entry, Verdict
<1>2. TypeOK
  BY <1>1 DEF TypeOK
<1>3. ToldTheVerdict
  BY DEF ToldTheVerdict
<1>4. JudgedByItsTraffic
  BY ReachabilityAssumption DEF JudgedByItsTraffic, Fit, Facts
<1>5. WatchedInTime
  BY ReachabilityAssumption DEF WatchedInTime, Fit, Aligned
<1> QED BY <1>2, <1>3, <1>4, <1>5

LEMMA InitIInv == Init => IInv
<1> SUFFICES ASSUME Init PROVE IInv
  OBVIOUS
<1> QED BY ReachabilityAssumption DEF Init, IInv, Frame, Table, Belief

(***************************************************************************)
(* An assessment leaves a record that fits, whichever policy made it.      *)
(***************************************************************************)
LEMMA AssessmentFits ==
  ASSUME NEW d \in Device, NEW e, NEW n \in 0..MaxClockSteps, NEW sp,
         Facts(d, e, n, sp), NEW a \in Assessments(d, e)
  PROVE  /\ a.verdict \in Verdict
         /\ Fit(d, [heard |-> e.heard, verdict |-> a.verdict, next |-> a.next,
                    failures |-> e.failures], n, sp)
<1> DEFINE r == [heard |-> e.heard, verdict |-> a.verdict, next |-> a.next,
                 failures |-> e.failures]
<1>1. CASE d \in BySilence
  <2>1. a = Silence(e)
    BY <1>1 DEF Assessments
  <2>2. e.heard \in Age \cup {None} /\ e.failures \in 0..MaxFailures
    BY DEF Facts, Entry
  <2>3. CASE e.heard = None \/ e.heard < 0
    <3>1. a = [verdict |-> "Unknown", next |-> Await]
      BY <2>1, <2>3 DEF Silence, Assessment
    <3> QED BY <3>1, <2>2 DEF Fit, Facts, Aligned, Entry, Verdict, NextCheck
  <2>4. CASE e.heard # None /\ ~(e.heard < 0) /\ e.heard < Limit
    <3>1. a = [verdict |-> "Reachable",
               next |-> [kind |-> "reassess", in |-> Limit - e.heard]]
      BY <2>1, <2>4 DEF Silence, Assessment
    <3>2. Limit - e.heard \in 0..Limit /\ e.heard + (Limit - e.heard) = Limit
      BY <2>2, <2>4, ReachabilityAssumption DEF Age
    <3>3. a.next \in NextCheck
      BY <3>1, <3>2 DEF NextCheck
    <3>4. r \in Entry
      BY <3>1, <3>3, <2>2 DEF Entry, Verdict
    <3>5. Aligned(r, n)
      BY <3>1, <3>2, ReachabilityAssumption DEF Aligned
    <3> QED BY <3>1, <3>4, <3>5, <2>4 DEF Fit, Facts, Verdict
  <2>5. CASE e.heard # None /\ ~(e.heard < 0) /\ ~(e.heard < Limit)
    <3>1. a = [verdict |-> "Unreachable", next |-> Await]
      BY <2>1, <2>5 DEF Silence, Assessment
    <3> QED BY <3>1, <2>2, <2>5 DEF Fit, Facts, Aligned, Entry, Verdict, NextCheck
  <2> QED BY <2>3, <2>4, <2>5
<1>2. CASE d \notin BySilence
  <2>1. a.verdict \in Verdict /\ a.next \in NextCheck
    BY <1>2 DEF Assessments, Assessment
  <2> QED BY <1>2, <2>1 DEF Fit, Facts, Entry
<1> QED BY <1>1, <1>2

\* A record that fits still does when more devices were heard.
LEMMA FitGrows ==
  ASSUME NEW d, NEW e, NEW n, NEW sp, NEW more, sp \subseteq more, Fit(d, e, n, sp)
  PROVE  Fit(d, e, n, more)
BY DEF Fit, Facts

(***************************************************************************)
(* assess keeps the table as it should be and reports what it changed, as  *)
(* long as the record was last reported with its verdict.                  *)
(***************************************************************************)
LEMMA AssessKeepsTable ==
  ASSUME IInv, NEW d \in Device, NEW e, Facts(d, e, steps, spoke'),
         told[d] = e.verdict, Assess(d, e),
         steps' = steps, spoke \subseteq spoke'
  PROVE  Table' /\ \A x \in Device : Known(x) => Known(x)'
<1> USE DEF IInv, Table
<1>1. PICK a \in Assessments(d, e) :
         /\ entry' = [entry EXCEPT ![d] = [heard |-> e.heard, verdict |-> a.verdict,
                                           next |-> a.next, failures |-> e.failures]]
         /\ told' = IF a.verdict = e.verdict THEN told
                                             ELSE [told EXCEPT ![d] = a.verdict]
  BY DEF Assess
<1> DEFINE r == [heard |-> e.heard, verdict |-> a.verdict, next |-> a.next,
                 failures |-> e.failures]
<1>2. Fit(d, r, steps, spoke') /\ a.verdict \in Verdict
  BY AssessmentFits DEF Frame
<1>3. r # None
  BY <1>2, ReachabilityAssumption DEF Fit, Facts
<1>4. entry' = [x \in Device |-> entry'[x]] /\ told' = [x \in Device |-> told'[x]]
  BY <1>1
<1>5. entry'[d] = r /\ \A x \in Device \ {d} : entry'[x] = entry[x]
  BY <1>1
<1>6. told'[d] = a.verdict /\ \A x \in Device \ {d} : told'[x] = told[x]
  BY <1>1
<1>7. \A x \in Device : entry'[x] # None => Fit(x, entry'[x], steps', spoke')
  <2> TAKE x \in Device
  <2>1. CASE x = d
    BY <2>1, <1>2, <1>5
  <2>2. CASE x # d
    BY <2>2, <1>5, FitGrows
  <2> QED BY <2>1, <2>2
<1>8. \A x \in Device : told'[x] = Belief(entry'[x])
  BY <1>3, <1>5, <1>6 DEF Belief
<1>9. \A x \in Device : Known(x) => Known(x)'
  BY <1>3, <1>5 DEF Known
<1> QED BY <1>4, <1>7, <1>8, <1>9 DEF Table, Belief

\* The head of the inbox is about some device, and the rest is an inbox too.
LEMMA TakeKeepsFrame ==
  ASSUME IInv, NEW what, Take(what)
  PROVE  /\ HeadDevice \in Device
         /\ inbox' \in Seq(AdapterEvent)
         /\ Len(inbox') <= MaxInbox
         /\ due = {} /\ due' = {} /\ steps' = steps
<1> USE DEF IInv, Frame, Take, Idle
<1>1. inbox \in Seq(AdapterEvent) /\ inbox # <<>>
  OBVIOUS
<1>2. Head(inbox) \in AdapterEvent /\ Tail(inbox) \in Seq(AdapterEvent)
      /\ Len(Tail(inbox)) = Len(inbox) - 1 /\ Len(inbox) \in Nat
  BY <1>1
<1>3. Len(Tail(inbox)) <= MaxInbox
  BY <1>2, ReachabilityAssumption
<1>4. HeadDevice \in Device
  BY <1>2 DEF HeadDevice, AdapterEvent
<1> QED BY <1>2, <1>3, <1>4

\* A frame brings the facts of its device up to date.
LEMMA HeardFacts ==
  ASSUME IInv, NEW d \in Device, NEW e \in Entry, NEW sp, d \in sp
  PROVE  Facts(d, Heard(e), steps, sp) /\ Heard(e).verdict = e.verdict
<1>1. 0 \in Age /\ 0 >= -steps /\ 0 \in 0..MaxFailures
  BY ReachabilityAssumption DEF IInv, Frame, Age
<1> QED BY <1>1 DEF Facts, Heard, Entry

LEMMA FreshFits ==
  ASSUME NEW d, NEW n, NEW sp
  PROVE  Fresh \in Entry /\ Fit(d, Fresh, n, sp) /\ Fresh # None
<1>1. Await \in NextCheck /\ 0 \in 0..MaxFailures
  BY ReachabilityAssumption DEF NextCheck
<1>2. Fresh \in Entry
  BY <1>1 DEF Fresh, Entry, Verdict
<1> QED BY <1>2, ReachabilityAssumption DEF Fit, Facts, Aligned, Fresh

(***************************************************************************)
(* The passing of time, or a step of the wall clock, takes each record to  *)
(* one that fits: `heard' moves by at most one more than `in' does.        *)
(***************************************************************************)
LEMMA AdvanceFits ==
  ASSUME NEW d, NEW e, NEW n \in 0..MaxClockSteps, NEW sp, Fit(d, e, n, sp)
  PROVE  Fit(d, Moved(e, Later(e.heard), Sooner(e.next.in)), n, sp)
<1> DEFINE r == Moved(e, Later(e.heard), Sooner(e.next.in))
<1>1. /\ e.heard \in Age \cup {None} /\ e.next \in NextCheck
      /\ e.verdict \in Verdict /\ e.failures \in 0..MaxFailures
      /\ e.heard # None => e.heard >= -n /\ d \in sp
  BY DEF Fit, Facts, Entry
<1>2. e.next.in \in 0..Limit /\ e.next.kind \in {"probe", "reassess", "await"}
  BY <1>1, ReachabilityAssumption DEF NextCheck, Await
<1>3. /\ r.heard = IF e.heard = None THEN None ELSE Later(e.heard)
      /\ r.verdict = e.verdict /\ r.failures = e.failures
      /\ r.next = [kind |-> e.next.kind, in |-> Sooner(e.next.in)]
  BY DEF Moved
<1>4. r.next \in NextCheck
  <2>1. Sooner(e.next.in) \in 0..Limit
    BY <1>2, ReachabilityAssumption DEF Sooner
  <2>2. e.next = Await => Sooner(e.next.in) = 0 /\ e.next.kind = "await"
    BY DEF Await, Sooner
  <2> QED BY <1>1, <1>3, <2>1, <2>2 DEF NextCheck, Await
<1>5. e.heard # None => /\ Later(e.heard) \in Age
                        /\ Later(e.heard) >= e.heard
                        /\ Later(e.heard) # None
  BY <1>1, ReachabilityAssumption DEF Later, Age
<1>6. Facts(d, r, n, sp)
  <2>1. r \in Entry
    BY <1>1, <1>3, <1>4, <1>5 DEF Entry, Moved
  <2>2. r.heard # None => r.heard >= -n /\ d \in sp
    BY <1>1, <1>3, <1>5, ReachabilityAssumption DEF Age
  <2> QED BY <2>1, <2>2 DEF Facts
<1>7. ASSUME d \in BySilence PROVE Aligned(r, n)
  <2>1. SUFFICES ASSUME e.verdict = "Reachable"
                 PROVE  /\ r.next.kind = "reassess"
                        /\ r.heard + r.next.in >= Limit - n
                        /\ r.next.in > 0 => r.heard + r.next.in <= Limit + n
    BY <1>3 DEF Aligned
  <2>2. /\ e.heard # None /\ e.next.kind = "reassess"
        /\ e.heard + e.next.in >= Limit - n
        /\ e.next.in > 0 => e.heard + e.next.in <= Limit + n
    BY <2>1, <1>7 DEF Fit, Aligned
  <2>3. e.heard \in Age /\ r.heard = Later(e.heard) /\ r.next.in = Sooner(e.next.in)
    BY <2>2, <1>1, <1>3
  <2> QED BY <2>2, <2>3, <1>2, <1>3, ReachabilityAssumption DEF Later, Sooner, Age
<1>8. d \in BySilence => (r.verdict # "Unknown" => r.heard # None)
  BY <1>3, <1>5 DEF Fit
<1> QED BY <1>6, <1>7, <1>8 DEF Fit

LEMMA SetClockFits ==
  ASSUME NEW d, NEW e, NEW n \in 0..MaxClockSteps, n + 1 \in 0..MaxClockSteps,
         NEW sp, Fit(d, e, n, sp), NEW h \in {e.heard - 1, Later(e.heard)}
  PROVE  Fit(d, Moved(e, h, e.next.in), n + 1, sp)
<1> DEFINE r == Moved(e, h, e.next.in)
<1>1. /\ e.heard \in Age \cup {None} /\ e.next \in NextCheck
      /\ e.verdict \in Verdict /\ e.failures \in 0..MaxFailures
      /\ e.heard # None => e.heard >= -n /\ d \in sp
  BY DEF Fit, Facts, Entry
<1>2. e.next.in \in 0..Limit /\ e.next = [kind |-> e.next.kind, in |-> e.next.in]
  BY <1>1, ReachabilityAssumption DEF NextCheck, Await
<1>3. /\ r.heard = IF e.heard = None THEN None ELSE h
      /\ r.verdict = e.verdict /\ r.failures = e.failures /\ r.next = e.next
  BY <1>2 DEF Moved
<1>4. e.heard # None => h \in Age /\ h # None /\ h >= e.heard - 1 /\ h <= e.heard + 1
  BY <1>1, ReachabilityAssumption DEF Later, Age
<1>5. Facts(d, r, n + 1, sp)
  <2>1. r \in Entry
    BY <1>1, <1>2, <1>3, <1>4 DEF Entry, Moved
  <2>2. r.heard # None => r.heard >= -(n + 1) /\ d \in sp
    BY <1>1, <1>3, <1>4, ReachabilityAssumption DEF Age
  <2> QED BY <2>1, <2>2 DEF Facts
<1>6. ASSUME d \in BySilence PROVE Aligned(r, n + 1)
  <2>1. SUFFICES ASSUME e.verdict = "Reachable"
                 PROVE  /\ e.next.kind = "reassess"
                        /\ r.heard + e.next.in >= Limit - (n + 1)
                        /\ e.next.in > 0 => r.heard + e.next.in <= Limit + (n + 1)
    BY <1>3 DEF Aligned
  <2>2. /\ e.heard # None /\ e.next.kind = "reassess"
        /\ e.heard + e.next.in >= Limit - n
        /\ e.next.in > 0 => e.heard + e.next.in <= Limit + n
    BY <2>1, <1>6 DEF Fit, Aligned
  <2>3. e.heard \in Age /\ r.heard = h
    BY <2>2, <1>1, <1>3
  <2> QED BY <2>2, <2>3, <1>2, <1>4, ReachabilityAssumption DEF Age
<1>7. d \in BySilence => (r.verdict # "Unknown" => r.heard # None)
  BY <1>3, <1>4 DEF Fit
<1> QED BY <1>5, <1>6, <1>7 DEF Fit

(***************************************************************************)
(* Each step of the task and of the world keeps the invariant.             *)
(***************************************************************************)
LEMMA NextIInv == IInv /\ [Next]_vars => IInv'
<1> SUFFICES ASSUME IInv, [Next]_vars PROVE IInv'
  OBVIOUS
<1> USE DEF IInv
<1>e. \A d \in Device : Known(d) =>
        entry[d] \in Entry /\ Facts(d, entry[d], steps, spoke) /\ told[d] = entry[d].verdict
  BY DEF Table, Known, Fit, Facts, Belief
<1>1. CASE OnJoined
  <2> DEFINE d == HeadDevice
             e == IF Known(d) THEN entry[d] ELSE Fresh
  <2>1. Take("joined") /\ Assess(d, Heard(e)) /\ spoke' = spoke \cup {d}
    BY <1>1 DEF OnJoined, Touch
  <2>2. d \in Device /\ Frame'
    BY <2>1, TakeKeepsFrame DEF Frame
  <2>3. e \in Entry /\ told[d] = e.verdict
    BY <2>2, <1>e, FreshFits DEF Table, Belief, Known, Fresh
  <2>4. Facts(d, Heard(e), steps, spoke') /\ Heard(e).verdict = e.verdict
    BY <2>1, <2>2, <2>3, HeardFacts
  <2>5. steps' = steps /\ spoke \subseteq spoke'
    BY <2>1, TakeKeepsFrame
  <2> HIDE DEF d, e
  <2> QED BY <2>1, <2>2, <2>3, <2>4, <2>5, AssessKeepsTable
<1>2. CASE OnLeft
  <2>1. HeadDevice \in Device /\ Frame' /\ steps' = steps /\ spoke' = spoke
    BY <1>2, TakeKeepsFrame DEF OnLeft, Frame
  <2>2. Table'
    BY <1>2, <2>1 DEF OnLeft, Table, Belief
  <2> QED BY <2>1, <2>2
<1>3. CASE OnFrame
  <2>1. HeadDevice \in Device /\ steps' = steps /\ due' = {}
    BY <1>3, TakeKeepsFrame DEF OnFrame
  <2>2. CASE Known(HeadDevice)
    <3> DEFINE d == HeadDevice
    <3>1. Assess(d, Heard(entry[d])) /\ spoke' = spoke \cup {d}
      BY <1>3, <2>2 DEF OnFrame, Touch
    <3>2. Frame'
      BY <1>3, <2>1, <3>1, TakeKeepsFrame DEF Frame, OnFrame
    <3>3. Facts(d, Heard(entry[d]), steps, spoke') /\ Heard(entry[d]).verdict = entry[d].verdict
      BY <2>1, <2>2, <3>1, <1>e, HeardFacts
    <3>4. told[d] = Heard(entry[d]).verdict
      BY <2>1, <2>2, <3>3, <1>e
    <3>5. d \in Device /\ steps' = steps /\ spoke \subseteq spoke'
      BY <2>1, <3>1
    <3> HIDE DEF d
    <3> QED BY <3>5, <3>1, <3>2, <3>3, <3>4, AssessKeepsTable
  <2>3. CASE ~Known(HeadDevice)
    <3>1. UNCHANGED <<entry, told, spoke, steps>>
      BY <1>3, <2>1, <2>3 DEF OnFrame
    <3>2. Frame'
      BY <1>3, <3>1, <2>1, TakeKeepsFrame DEF Frame, OnFrame
    <3> QED BY <3>1, <3>2 DEF Table
  <2> QED BY <2>2, <2>3
<1>4. CASE Tick
  <2>1. Frame'
    BY <1>4 DEF Tick, Frame, IsDue, Known
  <2> QED BY <1>4, <2>1 DEF Tick, Table
<1>5. CASE Restart
  <2>1. Frame'
    BY <1>5, ReachabilityAssumption DEF Restart, Frame
  <2>2. \A d \in Device : entry'[d] # None =>
           entry'[d] = Fresh /\ Fit(d, entry'[d], steps', spoke')
    BY <1>5, FreshFits DEF Restart, Restored
  <2>3. Table'
    BY <1>5, <2>2 DEF Restart, Restored, Table, Belief, Fresh
  <2> QED BY <2>1, <2>3
<1>6. ASSUME NEW d \in Device, Command(d) PROVE IInv'
  <2>1. Known(d) /\ Assess(d, entry[d]) /\ UNCHANGED <<inbox, due, steps, spoke>>
    BY <1>6 DEF Command
  <2>2. Table' /\ \A x \in Device : Known(x) => Known(x)'
    BY <2>1, <1>e, AssessKeepsTable
  <2>3. Frame'
    BY <2>1, <2>2 DEF Frame
  <2> QED BY <2>2, <2>3
<1>7. ASSUME NEW d \in Device, Check(d) PROVE IInv'
  <2>1. d \in due /\ due' = due \ {d} /\ UNCHANGED <<inbox, steps, spoke>> /\ Known(d)
    BY <1>7 DEF Check, Frame
  <2>2. PICK e : Facts(d, e, steps, spoke) /\ e.verdict = entry[d].verdict /\ Assess(d, e)
    <3>1. CASE Probe(d)
      <4>1. PICK answered \in BOOLEAN : Assess(d, Probed(entry[d], answered))
        BY <3>1 DEF Probe
      <4>2. (IF answered THEN 0
             ELSE IF entry[d].failures = MaxFailures THEN entry[d].failures
             ELSE entry[d].failures + 1) \in 0..MaxFailures
        BY <1>e, <2>1, ReachabilityAssumption DEF Entry
      <4>3. /\ Facts(d, Probed(entry[d], answered), steps, spoke)
            /\ Probed(entry[d], answered).verdict = entry[d].verdict
        BY <1>e, <2>1, <4>2 DEF Probed, Facts, Entry
      <4> QED BY <4>1, <4>3
    <3>2. CASE Reassess(d)
      BY <3>2, <1>e, <2>1 DEF Reassess
    <3> QED BY <1>7, <3>1, <3>2 DEF Check
  <2>3. Table' /\ \A x \in Device : Known(x) => Known(x)'
    BY <2>1, <2>2, <1>e, AssessKeepsTable
  <2>4. Frame'
    BY <2>1, <2>3 DEF Frame
  <2> QED BY <2>3, <2>4
<1>8. ASSUME NEW d \in Device, NEW what \in {"joined", "left", "frame"}, Report(d, what)
      PROVE  IInv'
  <2>1. Append(inbox, [dev |-> d, what |-> what]) \in Seq(AdapterEvent)
    BY DEF Frame, AdapterEvent
  <2>2. Len(inbox') <= MaxInbox
    BY <1>8, ReachabilityAssumption DEF Report, Frame
  <2>3. Frame' /\ Table'
    BY <1>8, <2>1, <2>2 DEF Report, Frame, Table, Known
  <2> QED BY <2>3
<1>9. CASE Advance
  <2>1. \A d \in Device : entry[d] # None =>
           /\ entry'[d] = Moved(entry[d], Later(entry[d].heard), Sooner(entry[d].next.in))
           /\ Fit(d, entry'[d], steps, spoke)
    BY <1>9, AdvanceFits DEF Advance, Known, Table, Frame
  <2>2. \A d \in Device : entry[d] = None => entry'[d] = None
    BY <1>9 DEF Advance, Known
  <2>3. \A d \in Device : entry[d] # None =>
           entry'[d] # None /\ entry'[d].verdict = entry[d].verdict
    <3> TAKE d \in Device
    <3>1. entry[d] # None => entry'[d].verdict = entry[d].verdict
      <4>1. \A h, i : Moved(entry[d], h, i).verdict = entry[d].verdict
        BY DEF Moved
      <4> QED BY <2>1, <4>1
    <3>2. entry[d] # None => entry'[d] \in Entry
      BY <2>1 DEF Fit, Facts
    <3> QED BY <3>1, <3>2, ReachabilityAssumption
  <2>4. entry' = [d \in Device |-> entry'[d]] /\ UNCHANGED <<inbox, due, told, steps, spoke>>
    BY <1>9 DEF Advance
  <2> QED BY <2>1, <2>2, <2>3, <2>4 DEF Table, Frame, Known, Belief
<1>10. CASE SetClock
  <2>1. steps' = steps + 1 /\ steps + 1 \in 0..MaxClockSteps /\ UNCHANGED <<inbox, due, told, spoke>>
    BY <1>10, ReachabilityAssumption DEF SetClock, Frame
  <2>2. \A d \in Device : entry[d] = None => entry'[d] = None
    BY <1>10 DEF SetClock, Known
  <2>3. \A d \in Device : entry[d] # None =>
          \E h \in {entry[d].heard - 1, Later(entry[d].heard)} :
             entry'[d] = Moved(entry[d], h, entry[d].next.in)
    BY <1>10 DEF SetClock, Known
  <2>4. \A d \in Device : entry[d] # None =>
           Fit(d, entry'[d], steps', spoke) /\ entry'[d].verdict = entry[d].verdict
    <3> TAKE d \in Device
    <3> SUFFICES ASSUME entry[d] # None
                 PROVE  Fit(d, entry'[d], steps', spoke) /\ entry'[d].verdict = entry[d].verdict
      OBVIOUS
    <3>1. PICK h \in {entry[d].heard - 1, Later(entry[d].heard)} :
             entry'[d] = Moved(entry[d], h, entry[d].next.in)
      BY <2>3
    <3>2. steps \in 0..MaxClockSteps /\ Fit(d, entry[d], steps, spoke)
      BY DEF Frame, Table
    <3>3. Fit(d, Moved(entry[d], h, entry[d].next.in), steps + 1, spoke)
      BY <2>1, <3>2, SetClockFits
    <3> QED BY <2>1, <3>1, <3>3 DEF Moved
  <2>5. \A d \in Device : entry[d] # None => entry'[d] # None
    BY <2>4, ReachabilityAssumption DEF Fit, Facts
  <2>6. entry' = [d \in Device |-> entry'[d]]
    BY <1>10 DEF SetClock
  <2> QED BY <2>1, <2>2, <2>4, <2>5, <2>6 DEF Table, Frame, Known, Belief
<1>11. CASE UNCHANGED vars
  BY <1>11 DEF vars, Frame, Table, Known, Belief
<1> QED
  BY <1>1, <1>2, <1>3, <1>4, <1>5, <1>6, <1>7, <1>8, <1>9, <1>10, <1>11
  DEF Next, RuntimeStep

LEMMA Invariance == Spec => []IInv
BY InitIInv, NextIInv, PTL DEF Spec

(***************************************************************************)
(* The state is of its type: ages and times to wait stay in their range,   *)
(* and a check is only ever made for a device of the table.                *)
(***************************************************************************)
THEOREM TypeCorrect == Spec => []TypeOK
<1>1. IInv => TypeOK
  BY IInvImplies
<1> QED BY Invariance, <1>1, PTL

(***************************************************************************)
(* ReachabilityChanged tells a subscriber exactly what the task believes.  *)
(***************************************************************************)
THEOREM BeliefsAreTold == Spec => []ToldTheVerdict
<1>1. IInv => ToldTheVerdict
  BY IInvImplies
<1> QED BY Invariance, <1>1, PTL

(***************************************************************************)
(* The default policy judges a device only once this process heard it.     *)
(***************************************************************************)
THEOREM UnheardIsUnknown == Spec => []JudgedByItsTraffic
<1>1. IInv => JudgedByItsTraffic
  BY IInvImplies
<1> QED BY Invariance, <1>1, PTL

(***************************************************************************)
(* The check of a reachable device is due when its silence reaches the     *)
(* limit, give or take the steps of the wall clock.                        *)
(***************************************************************************)
THEOREM ChecksAreTimely == Spec => []WatchedInTime
<1>1. IInv => WatchedInTime
  BY IInvImplies
<1> QED BY Invariance, <1>1, PTL
=============================================================================
