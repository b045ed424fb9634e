------------------------------ MODULE Commands ------------------------------
(***************************************************************************)
(* One device, its definition, and the runtime that commands it, asks it   *)
(* to report and reads its reports (rszigbee-core, runtime/task/           *)
(* commands.rs, provisioning.rs and inbound.rs).                           *)
(*                                                                         *)
(* The device has places, an attribute of a cluster of an endpoint or a    *)
(* datapoint, which commands and people change.  What it does with a frame *)
(* is the standard's, not this code's.  A configure plan is carried out in *)
(* one go, each frame awaited: nothing else is handled meanwhile, and what *)
(* the adapter returns says little of what the device did.                 *)
(***************************************************************************)
EXTENDS Datapoints, Matching, FiniteSets

CONSTANTS Identity,    \* what a device may say of itself
          Layout,      \* the endpoints it may have
          Command,     \* the commands that are asked for
          Registered   \* <<cluster, attribute>> whose type the registry has

VARIABLES identity, \* what the device says of itself
          layout,  \* the endpoints it has
          basic,   \* what the inventory has of the former,
          known,   \* and of the latter, nothing before an interview
          def,     \* the definition that resolves to, or None
          mem,     \* mem[place]: the value the device has there
          wanted,  \* history: what was last commanded of a place, and done
          shown,   \* what subscribers were told of a place since it changed
          sent,    \* the frame the last step sent for a command, or None
          steps,   \* the rest of the configure plan under way
          tried,   \* <<endpoint, cluster>> bound, or tried, by this plan
          asked,   \* <<endpoint, cluster, attribute>> asked to report by it
          outcome  \* what the caller will be told of it

vars == <<identity, layout, basic, known, def, mem, wanted, shown, sent, steps, tried, asked, outcome>>
itself == <<identity, layout>>
facts == <<basic, known, def>>
device == <<mem, wanted, shown>>
plan == <<steps, tried, asked, outcome>>

ASSUME CommandsAssumption ==
  /\ None \notin Range(Catalogue)
  /\ \A i \in Identity : "model" \in DOMAIN i => IsName(i.model)

\* What a definition lists, and the numbers and flags of its datapoints.
ASSUME DefinitionsAreLists ==
  \A d \in Range(Catalogue) :
    /\ d.extend \in Seq(Range(d.extend))
    /\ d.points \in Seq(Range(d.points))
    /\ d.bindings \in Seq(Range(d.bindings))
    /\ \A b \in Range(d.bindings) : b.reporting \in Seq(Range(b.reporting))
    /\ \A p \in Range(d.points) :
         /\ p.kind = "bool" => p.inverted \in BOOLEAN
         /\ p.kind = "enum" => p.names \in Seq(Range(p.names))
         /\ p.kind = "value" => /\ p.offset \in Int
                               /\ Divisor(p) \in Nat \ {0} /\ Scale % Divisor(p) = 0

\* The types of the commands see to what they carry.
ASSUME CommandsAreTyped ==
  \A c \in Command :
    /\ c.op = "SetOn" => c.arg \in BOOLEAN
    /\ c.op = "SetBrightness" => c.arg \in 0..(ByteMax - 1)
    /\ c.op \in {"SetPosition", "SetTilt"} => c.arg \in 0..Top
    /\ c.op = "SetTargetTemperature" => c.arg \in Int
    /\ c.op = "Set" =>
         /\ c.arg \in Seq(Range(c.arg))
         /\ \A i \in DOMAIN c.arg :
              /\ c.arg[i].value[1] = "bool" => c.arg[i].value[2] \in BOOLEAN
              /\ c.arg[i].value[1] \in {"int", "num"} => c.arg[i].value[2] \in Int

AttributePlaces(d, l) ==
  UNION {{<<"zcl", l[i].id, s.cluster, s.attr>> :
            s \in {t \in Range(Sources(d)) : t.cluster \in l[i].in}} : i \in DOMAIN l}

Places(d, l) ==
  IF d = None THEN {}
  ELSE AttributePlaces(d, l) \cup {<<"dp", p.dp>> : p \in Range(d.points)}

\* What subscribers are told of a place.
ReadingOf(d, place, wire) ==
  IF place[1] = "dp" THEN DatapointToState(d, place[2], wire)
                     ELSE ReportToState(d, place[3], place[4], wire)

Nothing(d) == [p \in Places(d, layout) |-> {}]

\* The task resolves a definition whenever it needs one; it only changes with
\* what the record has of the device.
Resolved(b, eps) ==
  LET found == Resolve(DeviceMatch(b, eps))
  IN IF found = {} THEN None ELSE Catalogue[CHOOSE i \in found : TRUE]

NoOutcome == [bound |-> 0, configured |-> 0, failed |-> 0]

Idle == steps = <<>>

\* A plan's caller has its answer by the time anything else is handled.
Answered ==
  /\ steps' = <<>>
  /\ tried' = {}
  /\ asked' = {}
  /\ outcome' = NoOutcome

Init ==
  /\ identity \in Identity
  /\ layout \in Layout
  /\ basic \in {<<>>, Heard(identity)}
  /\ known \in {<<>>, layout}
  /\ def = Resolved(basic, known)
  /\ mem = Nothing(def)
  /\ wanted = Nothing(def)
  /\ shown = Nothing(def)
  /\ sent = None
  /\ steps = <<>>
  /\ tried = {}
  /\ asked = {}
  /\ outcome = NoOutcome

-----------------------------------------------------------------------------
(* Commands.                                                               *)

\* A slip: the endpoint is taken as it comes.
SendableAnywhere(f) == TRUE

\* run_command refuses an endpoint the device is known not to have.
Sendable(f) == known = <<>> \/ Known(known, f.ep)

\* An upright cover counts how far it is closed, and one that its definition
\* calls inverted how far it is open.
Upright(d) == \E cover \in Cover(d) : ~cover.inverted

\* What a frame does to the device: the standard's, not the code's.
Place(f, attr) == <<"zcl", f.ep, f.cluster, attr>>

Effect(f) ==
  CASE f.via = "tuya" -> [p \in {<<"dp", f.id>>} |-> {f.value}]
    [] f.cluster = "onOff" ->
         [p \in {Place(f, 0)} |->
            IF f.id = 2 /\ p \in DOMAIN mem
              THEN {<<"bool", ~v[2]>> : v \in mem[p]} ELSE {<<"bool", f.id = 1>>}]
    [] f.cluster = "level" ->
         [p \in {Place(f, 0), <<"zcl", f.ep, "onOff", 0>>} |->
            IF p[3] = "level" THEN {<<"uint", f.value>>} ELSE {<<"bool", f.value > 0>>}]
    [] f.cluster = "cover" /\ f.id \in {5, 8} ->
         [p \in {Place(f, IF f.id = 5 THEN 8 ELSE 9)} |-> {<<"uint", f.value>>}]
    [] f.cluster = "cover" /\ f.id \in {0, 1} ->
         [p \in {Place(f, 8)} |-> {<<"uint", IF (f.id = 1) = Upright(def) THEN Top ELSE 0>>}]
    [] f.cluster = "lock" -> [p \in {Place(f, 0)} |-> {<<"enum", f.id + 1>>}]
    [] OTHER -> [p \in {} |-> {}]

\* What is asked for of a capability, as the caller has it: of a quantity the
\* whole of it, up to the most the type has; of a state what the word says.
Quantity(value) ==
  CASE value[1] = "int" -> {value[2] * Scale}
    [] value[1] = "num" -> {value[2]}
    [] OTHER -> {}

AtMost(limit, quantity) == IF quantity > limit THEN limit ELSE quantity

Cropped(most, cap, value) ==
  {<<cap, <<"num", AtMost(most * Scale, q)>>>> : q \in Quantity(value)}

AskedOf(cap, value) ==
  CASE cap = "state" -> {<<cap, <<"bool", on>>>> : on \in Truthy(value)}
    [] cap = "brightness" -> Cropped(ByteMax - 1, cap, value)
    [] cap \in {"position", "tilt"} -> Cropped(Top, cap, value)
    [] OTHER -> {}

\* What a command asks for, whichever frame it becomes.  Two mean another
\* thing to a datapoint: to open or close is a state of a Tuya cover and all
\* or nothing of the position of another, and a preset may be a schedule.
Asks(f, c) ==
  CASE c.op = "SetOn" -> AskedOf("state", <<"bool", c.arg>>)
    [] c.op = "SetBrightness" -> AskedOf("brightness", <<"int", c.arg>>)
    [] c.op = "SetPosition" -> AskedOf("position", <<"int", c.arg>>)
    [] c.op = "SetTilt" -> AskedOf("tilt", <<"int", c.arg>>)
    [] c.op = "SetTargetTemperature" -> {<<"current_heating_setpoint", <<"num", c.arg>>>>}
    [] c.op \in {"Lock", "Unlock"} -> {<<"lock", <<"bool", c.op = "Lock">>>>}
    [] c.op \in {"Open", "Close"} /\ f.via = "zcl" ->
         AskedOf("position", <<"int", IF c.op = "Open" THEN Top ELSE 0>>)
    [] c.op \in {"Open", "Close", "Stop"} /\ f.via = "tuya" ->
         {<<"state", <<"name", CASE c.op = "Open" -> "OPEN" [] c.op = "Close" -> "CLOSE"
                                 [] c.op = "Stop" -> "STOP">>>>}
    [] c.op = "SetPreset" ->
         IF f.value[1] = "raw" THEN {<<p.name, <<"name", c.arg>>>> : p \in OfSchedule(def)}
                               ELSE {<<"preset", <<"name", c.arg>>>>}
    [] c.op = "Set" /\ Len(c.arg) = 1 -> AskedOf(c.arg[1].cap, c.arg[1].value)
    [] OTHER -> {}

MainPlace(f) ==
  IF f.via = "tuya" THEN <<"dp", f.id>>
  ELSE Place(f, CASE f.cluster = "cover" /\ f.id = 8 -> 9
                  [] f.cluster = "cover" /\ f.id # 8 -> 8
                  [] OTHER -> 0)

\* The device does what a frame says.  A place it does not have stays so.
Executes(f, asks) ==
  LET e == Effect(f)
      touched == DOMAIN e \cap DOMAIN mem
  IN /\ mem' = [p \in DOMAIN mem |-> IF p \in touched THEN e[p] ELSE mem[p]]
     /\ shown' = [p \in DOMAIN mem |-> IF p \in touched THEN {} ELSE shown[p]]
     /\ wanted' = [p \in DOMAIN mem |->
                     IF p \in touched THEN (IF p = MainPlace(f) THEN asks ELSE {})
                                      ELSE wanted[p]]

\* run_command.  The frame may be lost, whatever the adapter says of it.
RunCommand(c) ==
  /\ Idle
  /\ def # None
  /\ \E f \in {g \in Plan(def, known, c) : Sendable(g)} :
       /\ sent' = f
       /\ \/ Executes(f, Asks(f, c))
          \/ UNCHANGED device
  /\ Answered
  /\ UNCHANGED <<itself, facts>>

-----------------------------------------------------------------------------
(* What the device does by itself.                                         *)

\* Values of the type a place has; of a datapoint the firmware decides.
Values(p) ==
  CASE p[1] = "dp" -> {<<"enum", 0>>, <<"number", 0>>}
    [] p[3] = "onOff" -> {<<"bool", TRUE>>}
    [] p[3] \in {"lock", "mode"} -> {<<"enum", 1>>, <<"enum", ByteMax>>}
    [] OTHER -> {<<"uint", 1>>, <<"uint", ByteMax>>}

\* Somebody uses the device.  (No plan looks at a place: while one is under
\* way it makes no difference.)
Changes(p, v) ==
  /\ Idle
  /\ mem' = [mem EXCEPT ![p] = {v}]
  /\ shown' = [shown EXCEPT ![p] = {}]
  /\ wanted' = [wanted EXCEPT ![p] = {}]
  /\ sent' = None
  /\ Answered
  /\ UNCHANGED <<itself, facts>>

\* The device reports a place, and publish_state or publish_tuya tells what
\* it means.
Report(p) ==
  /\ Idle
  /\ \E v \in mem[p] : shown' = [shown EXCEPT ![p] = ReadingOf(def, p, v)]
  /\ sent' = None
  /\ Answered
  /\ UNCHANGED <<itself, facts, mem, wanted>>

-----------------------------------------------------------------------------
(* The configure plan.                                                     *)

Step(ep, cluster, attrs, typed) ==
  [ep |-> ep, cluster |-> cluster, attrs |-> attrs, typed |-> typed]

\* The bindings a definition lists, but for endpoints known not to exist.  A
\* binding without attributes is a step of its own.
Explicit(d, eps) ==
  LET StepsOf(b) ==
        IF eps # <<>> /\ ~Known(eps, b.ep) THEN <<>>
        ELSE IF b.reporting = <<>> THEN <<Step(b.ep, b.cluster, {}, FALSE)>>
        ELSE [i \in DOMAIN b.reporting |->
                Step(b.ep, b.cluster, {b.reporting[i]},
                     Feeds(d, b.cluster, b.reporting[i]) # {})]
  IN FlattenSeq([i \in DOMAIN d.bindings |-> StepsOf(d.bindings[i])])

Key(step) == <<step.ep, step.cluster, step.attrs>>

\* What the extensions imply.
ImpliedSteps(d, eps) ==
  LET sources == Sources(d)
  IN [i \in DOMAIN sources |->
        Step(HostOf(eps, sources[i].cluster), sources[i].cluster,
             {sources[i].attr}, TRUE)]

UnlessSeen(listed, step) ==
  IF \E other \in Range(listed) : Key(other) = Key(step) THEN listed
                                                         ELSE Append(listed, step)

\* A slip: the listed bindings are taken for the whole of it.
ConfigurePlanListed(d, eps) ==
  IF d.bindings # <<>> THEN Explicit(d, eps) ELSE ImpliedSteps(d, eps)

ConfigurePlan(d, eps) ==
  LET implied == ImpliedSteps(d, eps)
      listed[n \in 0..Len(implied)] ==
        IF n = 0 THEN Explicit(d, eps) ELSE UnlessSeen(listed[n - 1], implied[n])
  IN listed[Len(implied)]

\* What a plan starts from: nothing of the last one.
Planned(d, eps) ==
  /\ steps' = IF d = None THEN <<>> ELSE ConfigurePlan(d, eps)
  /\ tried' = {}
  /\ asked' = {}
  /\ outcome' = NoOutcome
  /\ sent' = None

\* A slip: a device that has a definition keeps it.
LearnedWithCache(b, eps) ==
  /\ basic' = b
  /\ known' = eps
  /\ def' = IF def = None THEN Resolved(b, eps) ELSE def

Learned(b, eps) ==
  /\ basic' = b
  /\ known' = eps
  /\ def' = Resolved(b, eps)

\* An interview ends, having learned some or all there is to know: what it
\* did not learn stays, and the plan of what resolves then is carried out.
\* (The bound: before the device was used, which a plan does not look at.)
Interviewed ==
  /\ Idle
  /\ mem = Nothing(def)
  /\ \E b \in {basic, Heard(identity)}, eps \in {known, layout} :
       /\ Learned(b, eps)
       /\ Planned(def', eps)
  /\ mem' = Nothing(def')
  /\ wanted' = Nothing(def')
  /\ shown' = Nothing(def')
  /\ UNCHANGED itself

\* Somebody asks for the plan again.
Configure ==
  /\ Idle
  /\ mem = Nothing(def)
  /\ Planned(def, known)
  /\ UNCHANGED <<itself, facts, device>>

Pair(step) == <<step.ep, step.cluster>>

Counted(field) == outcome' = [outcome EXCEPT ![field] = @ + 1]

\* One binding for an endpoint and cluster, however the adapter answers it.
Bind ==
  /\ steps # <<>>
  /\ Pair(Head(steps)) \notin tried
  /\ tried' = tried \cup {Pair(Head(steps))}
  /\ Counted("bound") \/ Counted("failed")
  /\ sent' = None
  /\ UNCHANGED <<itself, facts, device, steps, asked>>

NextStep ==
  /\ steps # <<>>
  /\ Pair(Head(steps)) \in tried
  /\ steps' = Tail(steps)
  /\ sent' = None
  /\ UNCHANGED <<itself, facts, device, tried>>

\* A step that only binds.
BindingDone ==
  /\ NextStep
  /\ Head(steps).attrs = {}
  /\ UNCHANGED <<asked, outcome>>

\* The type of an attribute nobody knows: it is not asked for.
TypeKnown(step) ==
  step.typed \/ \A a \in step.attrs : <<step.cluster, a>> \in Registered

Untyped ==
  /\ NextStep
  /\ Head(steps).attrs # {}
  /\ ~TypeKnown(Head(steps))
  /\ Counted("failed")
  /\ UNCHANGED asked

ConfigureReporting ==
  /\ NextStep
  /\ Head(steps).attrs # {}
  /\ TypeKnown(Head(steps))
  /\ asked' = asked \cup {<<Head(steps).ep, Head(steps).cluster, a>> : a \in Head(steps).attrs}
  /\ Counted("configured") \/ Counted("failed")

Next ==
  \/ \E c \in Command : RunCommand(c)
  \/ \E p \in Places(def, layout) : \E v \in Values(p) : Changes(p, v)
  \/ \E p \in Places(def, layout) : Report(p)
  \/ Interviewed
  \/ Configure
  \/ Bind
  \/ BindingDone
  \/ Untyped
  \/ ConfigureReporting

Spec == Init /\ [][Next]_vars

-----------------------------------------------------------------------------
(* Properties.                                                             *)

\* The definitions that name a model, in whatever case, and the fingerprints
\* of one that a device satisfies.
Rivals(model) ==
  {i \in DOMAIN Catalogue :
     /\ Accepted(Catalogue[i])
     /\ \E s \in Names(Catalogue[i]) : IndexKey(s) = IndexKey(model)}

Satisfied(i, dev) == {f \in Range(Catalogue[i].fingerprints) : Matches(f, dev)}

\* Who wins: a sole rival that lists models; else the one with the best
\* fingerprint the device satisfies, of equals the last registered; else the
\* last to list the model.
Rightful(dev) ==
  IF "model" \notin DOMAIN dev.fields THEN {}
  ELSE LET rivals == Rivals(dev.fields.model)
           best == {i \in rivals : \E f \in Satisfied(i, dev) :
                      \A j \in rivals : \A g \in Satisfied(j, dev) :
                        f.priority > g.priority \/ (f.priority = g.priority /\ i >= j)}
           listing == {i \in rivals : dev.fields.model \in Range(Catalogue[i].models)}
       IN IF \E i \in rivals : rivals = {i} /\ Catalogue[i].models # <<>> THEN rivals
          ELSE IF best # {} THEN best
          ELSE {i \in listing : \A j \in listing : i >= j}

(***************************************************************************)
(* The definition a device has is its own, as index.rs lays down who wins: *)
(* of the definitions that name its model, in whatever case, a sole one    *)
(* that lists models ("claims a model string wins without its fingerprints *)
(* being consulted"); else the one with the best fingerprint the device    *)
(* satisfies, of equals the last registered; else the last to list it.     *)
(* It has none if there is no such definition, and it is the one that is   *)
(* due for what is known now (devices.rs: "re-resolved rather than         *)
(* cached").                                                               *)
(***************************************************************************)
ItsOwnDefinition ==
  {Catalogue[i] : i \in Rightful(DeviceMatch(basic, known))} = {def} \ {None}

\* The clusters a definition gives the device to be commanded by; a reading
\* of a cluster does not make it one.
Commandable(d) ==
  UNION {CASE e.kind = "onOff" -> {"onOff"}
           [] e.kind = "light" -> {"onOff"} \cup (IF e.brightness THEN {"level"} ELSE {})
           [] e.kind \in {"cover", "lock"} -> {e.kind}
           [] OTHER -> {} : e \in Range(d.extend)}

\* Nothing is guessed (commands.rs: "there is no fallback for a capability
\* the definition does not describe"): the frame of a capability command
\* goes to an endpoint the device is not known to lack, on a cluster its
\* definition gives it or to a datapoint that may be written or is the
\* schedule of a day (behaviors.rs: without one "the device would apply the
\* schedule to whichever day it last had selected"), with a value the table
\* itself would read back.
NothingGuessed ==
  sent # None =>
    /\ def # None
    /\ known # <<>> => Known(known, sent.ep)
    /\ sent.via = "zcl" => sent.cluster \in Commandable(def) \cup {"identify"}
    /\ sent.via = "tuya" =>
         \E p \in Range(def.points) :
           /\ p.dp = sent.id
           /\ p.access # "Report" \/ (p.kind = "schedule" /\ p.name \in Days)
           /\ Convert(p, sent.value) # {}

\* A definition says one thing only of what a command writes: no number is
\* two datapoints or two names of one, and no extension is a reading of what
\* another extension is commanded by.
Commanded ==
  {<<"onOff", 0>>, <<"level", 0>>, <<"cover", 8>>, <<"cover", 9>>, <<"lock", 0>>}

Unambiguous(d) ==
  /\ \A i, j \in DOMAIN d.points : d.points[i].dp = d.points[j].dp => i = j
  /\ \A p \in Range(d.points) : p.kind = "enum" =>
       \A i, j \in DOMAIN p.names : p.names[i][1] = p.names[j][1] => i = j
  /\ \A e \in Range(d.extend) : e.kind = "source" =>
       <<e.source.cluster, e.source.attr>> \notin Commanded

\* Half a unit is lost where a quantity goes out as a whole number.
Near(a, b) == 2 * (a - b) <= Scale /\ 2 * (b - a) <= Scale

Means(want, got) ==
  CASE want[1] = "bool" ->
         got \in {want, <<"name", IF want[2] THEN "ON" ELSE "OFF">>}
    [] want[1] = "num" -> got[1] = "num" /\ Near(got[2], want[2])
    [] OTHER -> got = want

\* What is told of a place that does what was asked of it.  A cover is asked
\* how far to open; what an upright one reports, how far it is closed, is
\* passed on as it is.
Mirrored(d, p) == p[1] = "zcl" /\ p[3] = "cover" /\ Upright(d)

Told(d, p, value) ==
  IF Mirrored(d, p) THEN <<"num", Top * Scale - value[2]>> ELSE value

\* What goes out comes back (tuya.rs: "a value that can be read cannot be
\* written under a different name by accident"): once the device has done
\* what it was commanded, what subscribers are told it reports is that
\* capability with the value the caller asked for, to the nearest unit; of an
\* upright cover it is the mirror of that, and never anything else.  The two
\* ways are separate code.
CommandsReadBack ==
  def # None /\ Unambiguous(def) =>
    \A p \in DOMAIN mem : \A w \in wanted[p], r \in shown[p] :
      r[1] = w[1] /\ Means(Told(def, p, w[2]), r[2])

(***************************************************************************)
(* A cover reads back as it was asked (commands.rs: "a caller asking for a *)
(* position means 'percentage open'"; definition.rs has "inverted" for the *)
(* motors with which "every position is reported and commanded             *)
(* backwards"): no position is told to subscribers the other way round     *)
(* than it was commanded.                                                  *)
(***************************************************************************)
CoversReadBack ==
  def # None /\ Unambiguous(def) =>
    \A p \in DOMAIN mem : p[1] = "zcl" /\ p[3] = "cover" =>
      \A w \in wanted[p], r \in shown[p] : r[1] = w[1] /\ Means(w[2], r[2])

\* A plan that is over has asked for everything, whatever failed on the way
\* (execute_configure_plan: "abandoning the whole plan on the first refusal
\* would leave later, working steps unconfigured"): each attribute that feeds
\* a capability was asked for where the device hosts it, no attribute before
\* the binding of its cluster, and the counts the caller is given add up.
PlanIsWhole ==
  /\ \A a \in asked : <<a[1], a[2]>> \in tried
  /\ Idle /\ tried # {} =>
       /\ \A s \in Range(Sources(def)) :
            <<HostOf(known, s.cluster), s.cluster, s.attr>> \in asked
       /\ \A b \in Range(def.bindings) :
            known = <<>> \/ Known(known, b.ep) => <<b.ep, b.cluster>> \in tried
       /\ outcome.bound + outcome.configured + outcome.failed =
            LET done == ConfigurePlan(def, known)
            IN Cardinality(tried) + Cardinality({i \in DOMAIN done : done[i].attrs # {}})

=============================================================================
