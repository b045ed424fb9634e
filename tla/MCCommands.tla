----------------------------- MODULE MCCommands -----------------------------
(* A definition of each kind, of every way to be found, layouts that suit  *)
(* them or do not, and devices that say enough of themselves or too        *)
(* little.  A percentage goes to 2 and a byte to 4.                        *)
EXTENDS Commands

Light == [kind |-> "light", brightness |-> TRUE]
Switch(eps) == [kind |-> "onOff", endpoints |-> eps]
Blind(inverted) == [kind |-> "cover", lift |-> TRUE, tilt |-> TRUE, inverted |-> inverted]
LockOf == [kind |-> "lock"]
Reads0(cluster) == [kind |-> "source", source |-> Numeric("reading", cluster, 0, 2)]
NamedMode ==
  [kind |-> "source",
   source |-> [cap |-> "mode", cluster |-> "mode", attr |-> 7,
               value |-> [shape |-> "named", names |-> <<<<1, "eco">>>>]]]

Plain(name) == [name |-> name, capitals |-> FALSE, padded |-> FALSE]
Padded(name) == [Plain(name) EXCEPT !.padded = TRUE]
Shouted(name) == [Plain(name) EXCEPT !.capitals = TRUE]

Needs(needs, endpoints, priority) ==
  [needs |-> needs, endpoints |-> endpoints, priority |-> priority]
MadeBy(maker, priority) ==
  Needs([model |-> Plain("TS"), maker |-> Plain(maker)], <<>>, priority)

Def(models, fingerprints, extend, points, names, bindings) ==
  [models |-> models, fingerprints |-> fingerprints,
   extend |-> extend, points |-> points, names |-> names, bindings |-> bindings]

Point(dp, name, access, kind) == [dp |-> dp, name |-> name, access |-> access, kind |-> kind]
BoolPoint(dp, name, access, inverted) == Point(dp, name, access, "bool") @@ [inverted |-> inverted]
ValuePoint(dp, name, divisor, offset) ==
  Point(dp, name, "ReportAndSet", "value") @@ [divisor |-> divisor, offset |-> offset]
EnumPoint(dp, name, names) == Point(dp, name, "ReportAndSet", "enum") @@ [names |-> names]

Binding(ep, cluster, reporting) == [ep |-> ep, cluster |-> cluster, reporting |-> reporting]

MCCatalogue ==
  << \* a light, with the reporting of its switch listed
     Def(<<Padded("bulb")>>, <<>>, <<Light>>, <<>>, <<>>,
         <<Binding(1, "onOff", <<0>>), Binding(9, "level", <<0>>)>>),
     \* two gangs, named and not; the first has a fingerprint beside its model
     Def(<<Plain("gang")>>, <<Needs([version |-> 9], <<>>, 0)>>, <<Switch(<<2, 1>>)>>, <<>>, <<>>,
         <<Binding(1, "onOff", <<>>), Binding(2, "onOff", <<0, 5>>)>>),
     Def(<<>>, <<Needs([model |-> Plain("multi"), version |-> 1], <<>>, 0)>>,
         <<Switch(<<>>), Light, Reads0("sensor")>>, <<>>, <<2>>, <<>>),
     \* one model, told apart by its endpoints
     Def(<<>>, <<Needs([model |-> Plain("blind")], <<[id |-> 3, in |-> {"cover", "sensor", "lock"}]>>, 0)>>,
         <<Blind(TRUE)>>, <<>>, <<>>, <<>>),
     Def(<<Plain("blind")>>, <<>>, <<Blind(FALSE)>>, <<>>, <<>>, <<>>),
     \* models that differ in their padding
     Def(<<Plain("lock")>>, <<>>,
         <<LockOf, NamedMode>>, <<>>, <<>>, <<Binding(1, "mode", <<7>>), Binding(1, "lock", <<8>>)>>),
     Def(<<Padded("lock")>>, <<>>, <<LockOf>>, <<>>, <<>>, <<>>),
     \* datapoints, one model of several makers: of a switch, of a dimmer, of a
     \* cover, of a thermostat
     Def(<<>>, <<MadeBy("a", 0)>>,
         <<Switch(<<>>)>>, <<BoolPoint(1, "state", "ReportAndSet", TRUE),
                             ValuePoint(2, "brightness", 2, 1)>>, <<>>, <<>>),
     Def(<<>>, <<MadeBy("b", 5), MadeBy("c", 2)>>,
         <<Switch(<<>>)>>, <<BoolPoint(1, "state", "Report", FALSE)>>, <<>>, <<>>),
     Def(<<>>, <<MadeBy("b", 5), Needs([model |-> Plain("TS"), version |-> 2], <<>>, 1)>>, <<>>,
         <<EnumPoint(1, "state", <<<<0, "OPEN">>, <<1, "CLOSE">>, <<2, "ON">>, <<3, "OFF">>>>),
           ValuePoint(2, "position", 0, 0), Point(3, "schedule", "Report", "schedule")>>,
         <<>>, <<>>),
     Def(<<>>, <<MadeBy("c", 0), MadeBy("d", 0)>>, <<>>,
         <<ValuePoint(1, "current_heating_setpoint", 2, -1),
           Point(3, "schedule_monday", "Report", "schedule"),
           EnumPoint(4, "preset", <<<<0, "eco">>, <<9, "boost">>>>)>>, <<>>, <<>>),
     Def(<<Plain("TS")>>, <<Needs([model |-> Plain("TS"), makerCode |-> 1], <<>>, 9)>>, <<>>,
         <<BoolPoint(1, "lock", "Set", FALSE), BoolPoint(1, "state", "ReportAndSet", TRUE)>>,
         <<>>, <<>>),
     \* refused: what anything would match, what nothing could
     Def(<<Plain("bulb")>>, <<Needs(<<>>, <<>>, 0)>>, <<LockOf>>, <<>>, <<>>, <<>>),
     Def(<<>>, <<>>, <<LockOf>>, <<>>, <<>>, <<>>),
     \* accepted, and found by nothing
     Def(<<>>, <<Needs([maker |-> Plain("a")], <<>>, 9)>>, <<LockOf>>, <<>>, <<>>, <<>>) >>

Model(name) == [model |-> name]
Tuya(maker, version) == [model |-> Plain("TS"), maker |-> maker, version |-> version]

MCIdentity ==
  { Model(Plain("bulb")), Model(Shouted("gang")),
    [model |-> Padded("multi"), version |-> 1], Model(Plain("multi")),
    Model(Plain("blind")), Model(Shouted("blind")),
    Model(Plain("lock")), Model(Padded("lock")),
    Tuya(Plain("a"), 1), Tuya(Plain("a"), 2), Tuya(Plain("b"), 1), Tuya(Padded("c"), 1),
    Tuya(Plain("d"), 1), Tuya(Plain("e"), 1) @@ [makerCode |-> 1],
    Model(Plain("other")), [maker |-> Plain("a")] }

MCLayout ==
  { <<[id |-> 1, in |-> {"onOff", "level"}]>>,
    <<[id |-> 1, in |-> {"onOff"}], [id |-> 2, in |-> {"onOff", "level", "mode"}]>>,
    <<[id |-> 3, in |-> {"cover", "sensor", "lock"}]>>, <<[id |-> 4, in |-> {"cover"}]>> }

Op(op, arg) == [op |-> op, arg |-> arg]
SetOf(cap, value) == [cap |-> cap, value |-> value]

MCCommand ==
  {Op("SetOn", TRUE), Op("SetOn", FALSE), Op("Toggle", 0), Op("SetBrightness", 1),
   Op("SetPosition", 0), Op("SetPosition", 1), Op("SetTilt", 2), Op("Open", 0),
   Op("Close", 0), Op("Stop", 0), Op("Lock", 0), Op("Unlock", 0), Op("Identify", 1),
   Op("SetTargetTemperature", -1), Op("SetTargetTemperature", 4), Op("SetPreset", "eco"),
   Op("SetPreset", "boost"), Op("SetPreset", "06:00/21.0"), Op("SetColor", 0),
   Op("Set", <<SetOf("state", <<"name", "TOGGLE">>)>>),
   Op("Set", <<SetOf("state", <<"name", "ON">>)>>),
   Op("Set", <<SetOf("state", <<"int", 0>>)>>),
   Op("Set", <<SetOf("brightness", <<"int", 4>>)>>),
   Op("Set", <<SetOf("state", <<"name", "0">>)>>),
   Op("Set", <<SetOf("state", <<"num", 2>>)>>),
   Op("Set", <<SetOf("brightness", <<"num", 3>>)>>),
   Op("Set", <<SetOf("position", <<"int", 3>>)>>),
   Op("Set", <<SetOf("position", <<"num", 1>>)>>),
   Op("Set", <<SetOf("position", <<"num", -1>>)>>),
   Op("Set", <<SetOf("tilt", <<"int", 1>>)>>),
   Op("Set", <<SetOf("state", <<"bool", TRUE>>), SetOf("brightness", <<"int", 1>>)>>)}

MCSchedule == {"06:00/21.0"}
MCDays == {"schedule_monday"}
MCRegistered == {<<"onOff", 5>>}
=============================================================================
