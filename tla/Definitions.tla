---------------------------- MODULE Definitions ----------------------------
(***************************************************************************)
(* What a device definition says of its device (rszigbee-core,             *)
(* runtime/definitions/ and runtime/tuya.rs): which frame a command        *)
(* becomes, what a report means, which reports to ask the device for.      *)
(*                                                                         *)
(* A definition lists extensions, which stand for standard clusters, and   *)
(* datapoints, which a Tuya device has in their place.  A device's layout  *)
(* is the sequence of its endpoints, by number.  What may be refused is a  *)
(* set here, empty or of one element.                                      *)
(***************************************************************************)
EXTENDS Integers, Sequences, SequencesExt

CONSTANTS Scale,      \* a real quantity is counted in units of 1/Scale
          Top,        \* 100 percent
          ByteMax     \* u8::MAX, which as a reading means that there is none

ASSUME DefinitionsAssumption ==
  /\ Scale \in Nat \ {0}
  /\ Top \in Nat \ {0}
  /\ ByteMax \in Nat /\ ByteMax > 2
  /\ Top < ByteMax

HostOf(eps, cluster) ==
  LET hosts == {i \in DOMAIN eps : cluster \in eps[i].in}
  IN IF hosts = {} THEN 1
     ELSE eps[CHOOSE i \in hosts : \A j \in hosts : i <= j].id

Known(eps, ep) == \E i \in DOMAIN eps : eps[i].id = ep

Extended(def, kinds) == {i \in DOMAIN def.extend : def.extend[i].kind \in kinds}

FirstOf(indices) == {i \in indices : \A j \in indices : i <= j}

-----------------------------------------------------------------------------
(* What the extensions imply: which attribute feeds which capability.      *)

Numeric(cap, cluster, attr, divisor) ==
  [cap |-> cap, cluster |-> cluster, attr |-> attr,
   value |-> [shape |-> "numeric", divisor |-> divisor, offset |-> 0]]

Boolean(cap, cluster) ==
  [cap |-> cap, cluster |-> cluster, attr |-> 0,
   value |-> [shape |-> "boolean", on |-> 1]]

When(condition, source) == IF condition THEN <<source>> ELSE <<>>

Implied(e) ==
  CASE e.kind = "onOff" -> <<Boolean("state", "onOff")>>
    [] e.kind = "light" -> <<Boolean("state", "onOff")>>
         \o When(e.brightness, Numeric("brightness", "level", 0, 1))
    [] e.kind = "cover" -> When(e.lift, Numeric("position", "cover", 8, 1))
         \o When(e.tilt, Numeric("tilt", "cover", 9, 1))
    [] e.kind = "lock" -> <<Boolean("lock", "lock")>>
    [] e.kind = "source" -> <<e.source>>
    [] OTHER -> <<>>

Sources(def) ==
  FlattenSeq([i \in DOMAIN def.extend |-> Implied(def.extend[i])])

Feeds(def, cluster, attr) ==
  LET s == Sources(def)
  IN {s[i] : i \in FirstOf({j \in DOMAIN s : /\ s[j].cluster = cluster
                                             /\ s[j].attr = attr})}

\* A real quantity.  A divisor of zero counts as one.
Divisor(spec) == IF spec.divisor = 0 THEN 1 ELSE spec.divisor
Apply(spec, raw) == raw * (Scale \div Divisor(spec)) + spec.offset * Scale

Named(names, raw) == {names[i][2] : i \in FirstOf({j \in DOMAIN names : names[j][1] = raw})}

\* A single is no integer to the code, and gives no reading.
AsInt(wire) ==
  CASE wire[1] = "bool" -> {IF wire[2] THEN 1 ELSE 0}
    [] wire[1] \in {"uint", "int", "enum"} -> {wire[2]}
    [] OTHER -> {}

AsNumber(wire) == IF wire[1] \in {"uint", "int"} THEN AsInt(wire) ELSE {}

\* report_to_state
Reads(source, wire) ==
  LET v == source.value IN
  IF wire \in {<<"uint", ByteMax>>, <<"enum", ByteMax>>} THEN {<<"null">>}
  ELSE CASE v.shape = "numeric" -> {<<"num", Apply(v, raw)>> : raw \in AsNumber(wire)}
         [] v.shape = "boolean" -> {<<"bool", raw = v.on>> : raw \in AsInt(wire)}
         [] v.shape = "named" ->
              {<<"name", n>> : n \in UNION {Named(v.names, raw) : raw \in AsInt(wire)}}

ReportToState(def, cluster, attr, wire) ==
  UNION {{<<s.cap, r>> : r \in Reads(s, wire)} : s \in Feeds(def, cluster, attr)}

-----------------------------------------------------------------------------
(* What a command becomes in terms of the extensions.                      *)

Frame(ep, cluster, id, arg) ==
  [via |-> "zcl", ep |-> ep, cluster |-> cluster, id |-> id, value |-> arg]

EndpointFor(def, eps, declared, cluster) ==
  IF declared # <<>> THEN declared[1]
  ELSE IF def.names # <<>> THEN def.names[1]
  ELSE HostOf(eps, cluster)

\* The endpoints on_off_endpoints finds: those of the first switch, none for
\* a light.
OnOffEndpoints(def) ==
  {IF def.extend[i].kind = "onOff" THEN def.extend[i].endpoints ELSE <<>>
     : i \in FirstOf(Extended(def, {"onOff", "light"}))}

Cover(def) == {def.extend[i] : i \in FirstOf(Extended(def, {"cover"}))}

\* A slip: the percentage of a device that counts the other way round.
CoverPercentAsAsked(open, inverted) == IF inverted THEN Top - open ELSE open

CoverPercent(open, inverted) == IF inverted THEN open ELSE Top - open

OnOffId(c) ==
  CASE c.op = "Toggle" -> 2 [] c.op = "SetOn" /\ c.arg -> 1 [] OTHER -> 0

CoverId(c) == CASE c.op = "Open" -> 0 [] c.op = "Close" -> 1 [] OTHER -> 2

PlanSpecific(def, eps, c) ==
  LET Alone(cluster, id, arg) ==
        Frame(EndpointFor(def, eps, <<>>, cluster), cluster, id, arg)
  IN CASE c.op \in {"SetOn", "Toggle"} ->
            {Frame(EndpointFor(def, eps, declared, "onOff"), "onOff", OnOffId(c), 0)
               : declared \in OnOffEndpoints(def)}
       [] c.op = "SetBrightness" ->
            {Alone("level", 4, c.arg) : i \in {j \in Extended(def, {"light"}) :
                                                 def.extend[j].brightness}}
       [] c.op \in {"Open", "Close", "Stop"} ->
            {Alone("cover", CoverId(c), 0) : cover \in Cover(def)}
       [] c.op = "SetPosition" ->
            {Alone("cover", 5, CoverPercent(c.arg, cover.inverted))
               : cover \in {x \in Cover(def) : x.lift}}
       [] c.op = "SetTilt" ->
            {Alone("cover", 8, CoverPercent(c.arg, cover.inverted))
               : cover \in {x \in Cover(def) : x.tilt}}
       [] c.op \in {"Lock", "Unlock"} ->
            {Alone("lock", IF c.op = "Unlock" THEN 1 ELSE 0, 0)
               : i \in Extended(def, {"lock"})}
       [] c.op = "Identify" -> {Alone("identify", 0, c.arg)}
       [] OTHER -> {}

Yes == {"ON", "TRUE", "1", "OPEN", "LOCK"}
No == {"OFF", "FALSE", "0", "CLOSE", "UNLOCK"}
Truth == [word \in Yes \cup No |-> word \in Yes]

Truthy(value) ==
  CASE value[1] = "bool" -> {value[2]}
    [] value[1] = "int" -> {value[2] # 0}
    [] value[1] = "name" -> {Truth[n] : n \in {value[2]} \cap DOMAIN Truth}
    [] OTHER -> {}

\* round(), half away from zero.
Nearest(quantity) == (2 * quantity + Scale) \div (2 * Scale)
Round(quantity) == IF quantity < 0 THEN -Nearest(-quantity) ELSE Nearest(quantity)

Integer(value) ==
  CASE value[1] = "int" -> {value[2]}
    [] value[1] = "num" -> {Round(value[2])}
    [] OTHER -> {}

Byte(value) == Integer(value) \cap 0..ByteMax

\* A slip: every byte a brightness.
BrightnessUnclamped(n) == n

\* The types of the arguments clamp them: a brightness leaves out the value
\* that means no reading, a percentage ends at the top.
Brightness(n) == IF n > ByteMax - 1 THEN ByteMax - 1 ELSE n
Percent(n) == IF n > Top THEN Top ELSE n

\* The general form, Set of one capability, as the command it stands for.
Lowered(cap, value) ==
  CASE cap = "state" /\ value = <<"name", "TOGGLE">> -> {[op |-> "Toggle", arg |-> 0]}
    [] cap = "state" /\ value # <<"name", "TOGGLE">> -> {[op |-> "SetOn", arg |-> on] : on \in Truthy(value)}
    [] cap = "brightness" -> {[op |-> "SetBrightness", arg |-> Brightness(n)] : n \in Byte(value)}
    [] cap = "position" ->
         {[op |-> "SetPosition", arg |-> Percent(n)] : n \in Byte(value)}
    [] OTHER -> {}

\* A Set of several capabilities is refused.
Specific(c) ==
  IF c.op # "Set" THEN {c}
  ELSE IF Len(c.arg) # 1 THEN {}
  ELSE Lowered(c.arg[1].cap, c.arg[1].value)

PlanCommand(def, eps, c) ==
  UNION {PlanSpecific(def, eps, s) : s \in Specific(c)}

=============================================================================
