----------------------------- MODULE Datapoints -----------------------------
(***************************************************************************)
(* The datapoints of a Tuya device (rszigbee-core, runtime/tuya.rs and     *)
(* behaviors.rs).  One table is read in both directions: a report looks    *)
(* its number up, a command the name of the capability, and either takes   *)
(* the first entry it finds.                                               *)
(***************************************************************************)
EXTENDS Definitions

CONSTANTS WireMax,   \* i32::MAX
          Schedule,  \* the texts the schedule behaviour can encode
          Days,      \* the names that end in a day of the week
          None       \* no definition, or no frame

ASSUME DatapointsAssumption == WireMax \in Nat

Numbered(def, dp) ==
  {def.points[i] : i \in FirstOf({j \in DOMAIN def.points : def.points[j].dp = dp})}

NamedPoint(def, cap) ==
  {def.points[i] : i \in FirstOf({j \in DOMAIN def.points : def.points[j].name = cap})}

OfSchedule(def) ==
  {def.points[i] : i \in FirstOf({j \in DOMAIN def.points :
                                    def.points[j].kind = "schedule"})}

-----------------------------------------------------------------------------
(* A report.  A type the table contradicts gives no reading.               *)

OrElse(found, otherwise) == IF found = {} THEN {otherwise} ELSE found

Convert(p, wire) ==
  CASE p.kind = "bool" /\ wire[1] = "bool" -> {<<"bool", wire[2] # p.inverted>>}
    [] p.kind = "bool" /\ wire[1] \in {"enum", "number"} ->
         {<<"bool", (wire[2] # 0) # p.inverted>>}
    [] p.kind = "value" /\ wire[1] = "number" -> {<<"num", Apply(p, wire[2])>>}
    [] p.kind = "enum" /\ wire[1] = "bool" ->
         OrElse({<<"name", n>> : n \in Named(p.names, IF wire[2] THEN 1 ELSE 0)}, wire)
    [] p.kind = "enum" /\ wire[1] = "enum" ->
         OrElse({<<"name", n>> : n \in Named(p.names, wire[2])}, <<"int", wire[2]>>)
    [] p.kind = "schedule" /\ wire[1] = "raw" -> {<<"name", wire[2]>>}
    [] OTHER -> {}

DatapointToState(def, dp, wire) ==
  UNION {{<<p.name, r>> : r \in Convert(p, wire)} : p \in Numbered(def, dp)}

-----------------------------------------------------------------------------
(* A command.                                                              *)

Wants(cap, value) == {[cap |-> cap, value |-> value]}

IntentOf(c) ==
  CASE c.op = "SetOn" -> Wants("state", <<"bool", c.arg>>)
    [] c.op = "SetBrightness" -> Wants("brightness", <<"int", c.arg>>)
    [] c.op = "SetPosition" -> Wants("position", <<"int", c.arg>>)
    [] c.op = "SetPreset" -> Wants("preset", <<"name", c.arg>>)
    [] c.op = "SetTargetTemperature" ->
         Wants("current_heating_setpoint", <<"int", Round(c.arg)>>)
    [] c.op = "Open" -> Wants("state", <<"name", "OPEN">>)
    [] c.op = "Close" -> Wants("state", <<"name", "CLOSE">>)
    [] c.op = "Stop" -> Wants("state", <<"name", "STOP">>)
    [] c.op \in {"Lock", "Unlock"} -> Wants("lock", <<"bool", c.op = "Lock">>)
    [] OTHER -> {}

RawNamed(names, name) ==
  {names[i][1] : i \in FirstOf({j \in DOMAIN names : names[j][2] = name})}

\* A slip: the offset is added on the way out as it is on the way in.
EncodeIntentOffset(p, value) ==
  CASE p.kind = "bool" /\ value[1] = "bool" -> {<<"bool", value[2] # p.inverted>>}
    [] p.kind = "value" /\ value[1] = "int" ->
         {<<"number", (value[2] + p.offset) * Divisor(p)>>}
    [] OTHER -> {}

EncodeIntent(p, value) ==
  CASE p.kind = "bool" /\ value[1] = "bool" -> {<<"bool", value[2] # p.inverted>>}
    [] p.kind = "value" /\ value[1] = "int" ->
         {<<"number", n>> : n \in {(value[2] - p.offset) * Divisor(p)}
                                    \cap -(WireMax + 1)..WireMax}
    [] p.kind = "enum" /\ value[1] = "name" ->
         {<<"enum", n>> : n \in RawNamed(p.names, value[2]) \cap 0..ByteMax}
    [] p.kind = "enum" /\ value[1] = "bool" ->
         {<<"enum", n>> : n \in RawNamed(p.names, IF value[2] THEN "ON" ELSE "OFF")
                                  \cap 0..ByteMax}
    [] OTHER -> {}

\* The code always writes to endpoint 1.
PointFrame(dp, wire) ==
  [via |-> "tuya", ep |-> 1, cluster |-> "tuya", id |-> dp, value |-> wire]

\* A slip: what is only reported is written too.
WritableOrNot(p) == TRUE

Writable(p) == p.access # "Report"

CommandToDatapoint(def, c) ==
  UNION {UNION {{PointFrame(p.dp, w) : w \in EncodeIntent(p, want.value)}
                  : p \in {q \in NamedPoint(def, want.cap) : Writable(q)}}
           : want \in IntentOf(c)}

\* A slip: the schedule is written without a day.
OfAnyDay(def) == OfSchedule(def)

\* The first datapoint of a schedule, if it is named for a day.
OfDay(def) == {p \in OfSchedule(def) : p.name \in Days}

\* The one behaviour there is: a preset is the schedule of a day.  A text it
\* cannot encode is refused, and not tried elsewhere.
ScheduleClaims(def, c) == c.op = "SetPreset" /\ OfDay(def) # {}

ScheduleFrames(def, c) ==
  UNION {{PointFrame(p.dp, <<"raw", text>>) : text \in {c.arg} \cap Schedule}
           : p \in OfDay(def)}

\* plan_capability_command: the table, then a behaviour, then the extensions.
Plan(def, eps, c) ==
  IF CommandToDatapoint(def, c) # {} THEN CommandToDatapoint(def, c)
  ELSE IF ScheduleClaims(def, c) THEN ScheduleFrames(def, c)
  ELSE PlanCommand(def, eps, c)

=============================================================================
