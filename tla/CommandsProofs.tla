--------------------------- MODULE CommandsProofs ---------------------------
(***************************************************************************)
(* What is proved of commands, definitions and plans, for every catalogue, *)
(* device and layout:                                                      *)
(*                                                                         *)
(*   Allowed  - a command becomes a frame its definition allows, or none;  *)
(*   Own      - a device has the definition that is its own;               *)
(*   Whole    - a plan that is over has asked for everything, and counted  *)
(*              it, whatever failed of it;                                 *)
(*   ReadBack - what a device was told is read back as what was asked.     *)
(*                                                                         *)
(* What the code computes in a loop (the index, the best fingerprint, the  *)
(* sources, the plan) is a recursive function here.  That there is one,    *)
(* and what it comes to, is shown by induction over a set of numbers: of   *)
(* those it does not hold of, the least would not be the least.            *)
(***************************************************************************)
EXTENDS Commands, TLAPS, WellFoundedInduction, FiniteSetTheorems

-----------------------------------------------------------------------------
(* Numbers, and what is computed step by step.                             *)

(***************************************************************************)
(* A set of numbers that is not empty has a least one.                     *)
(***************************************************************************)
LEMMA LeastNatural ==
  ASSUME NEW T, T \subseteq Nat, T # {}
  PROVE  \E n \in T : \A m \in T : n <= m
<1> DEFINE R == OpToRel(<, Nat)
<1>1. IsWellFoundedOn(R, Nat)
  BY NatLessThanWellFounded
<1>2. \A m, n \in Nat : m < n => <<m, n>> \in R
  BY Zenon DEF OpToRel
<1> HIDE DEF R
<1>3. PICK n \in T : \A m \in T : <<m, n>> \notin R
  BY <1>1, WFMin, Zenon
<1>4. \A m \in T : m \in Nat /\ n \in Nat /\ ~(m < n)
  BY <1>2, <1>3
<1>5. \A m \in T : n <= m
  BY <1>4
<1> QED BY <1>5

(***************************************************************************)
(* So what holds of zero and passes from a number to the next holds of     *)
(* all.                                                                    *)
(***************************************************************************)
LEMMA Induction ==
  ASSUME NEW T, 0 \in T, \A n \in Nat : n \in T => n + 1 \in T
  PROVE  Nat \subseteq T
<1> SUFFICES ASSUME Nat \ T # {} PROVE FALSE
  OBVIOUS
<1>1. PICK n \in Nat \ T : \A m \in Nat \ T : n <= m
  BY LeastNatural
<1>2. n # 0 /\ n - 1 \in Nat
  BY <1>1
<1>3. n - 1 \in T
  BY <1>1, <1>2
<1> QED BY <1>1, <1>2, <1>3

(***************************************************************************)
(* The same up to a bound.                                                 *)
(***************************************************************************)
LEMMA UpTo ==
  ASSUME NEW n \in Nat, NEW T, 0 \in T, \A i \in 1..n : i - 1 \in T => i \in T
  PROVE  0..n \subseteq T
<1> DEFINE U == {i \in Nat : i <= n => i \in T}
<1>1. 0 \in U
  OBVIOUS
<1>2. ASSUME NEW i \in Nat, i \in U PROVE i + 1 \in U
  <2>1. CASE i + 1 <= n
    <3>1. i + 1 \in 1..n /\ (i + 1) - 1 = i /\ i <= n
      BY <2>1
    <3>2. i \in T
      BY <1>2, <3>1
    <3> QED BY <3>1, <3>2
  <2> QED BY <2>1
<1> HIDE DEF U
<1>3. Nat \subseteq U
  BY <1>1, <1>2, Induction
<1>4. \A i \in 0..n : i \in T
  BY <1>3 DEF U
<1> QED BY <1>4

\* From b, n steps lead somewhere, each from where the one before led.
Leads(S, b, n, g) ==
  \E f \in [0..n -> S] : f[0] = b /\ \A i \in 1..n : f[i] = g[i][f[i - 1]]

(***************************************************************************)
(* What is computed from a start in n steps, each from the one before.     *)
(***************************************************************************)
LEMMA StepsExist ==
  ASSUME NEW S, NEW b \in S, NEW n \in Nat, NEW g \in [1..n -> [S -> S]]
  PROVE  Leads(S, b, n, g)
<1> DEFINE Goes(f, m) == f[0] = b /\ \A i \in 1..m : f[i] = g[i][f[i - 1]]
           T == {m \in 0..n : \E f \in [0..m -> S] : Goes(f, m)}
<1>1. 0 \in T
  <2> DEFINE f == [i \in 0..0 |-> b]
  <2>1. f \in [0..0 -> S] /\ Goes(f, 0)
    OBVIOUS
  <2> HIDE DEF f
  <2> QED BY <2>1
<1>2. ASSUME NEW m \in 1..n, m - 1 \in T PROVE m \in T
  <2>1. PICK f \in [0..(m - 1) -> S] : Goes(f, m - 1)
    BY <1>2
  <2> DEFINE h == [i \in 0..m |-> IF i = m THEN g[m][f[m - 1]] ELSE f[i]]
  <2>2. m - 1 \in 0..(m - 1) /\ g[m] \in [S -> S]
    OBVIOUS
  <2>3. g[m][f[m - 1]] \in S
    BY <2>2
  <2>4. \A i \in 0..m : i # m => i \in 0..(m - 1)
    OBVIOUS
  <2>5. h \in [0..m -> S]
    BY <2>3, <2>4
  <2>6. \A i \in 0..(m - 1) : h[i] = f[i]
    OBVIOUS
  <2>7. h[m] = g[m][f[m - 1]]
    OBVIOUS
  <2> HIDE DEF h
  <2>8. h[0] = b
    BY <2>1, <2>6
  <2>9. ASSUME NEW i \in 1..m PROVE h[i] = g[i][h[i - 1]]
    <3>1. CASE i = m
      BY <2>2, <2>6, <2>7, <3>1
    <3>2. CASE i # m
      <4>1. i \in 1..(m - 1) /\ i \in 0..(m - 1) /\ i - 1 \in 0..(m - 1)
        BY <3>2
      <4>2. f[i] = g[i][f[i - 1]]
        BY <2>1, <4>1
      <4> QED BY <2>6, <4>1, <4>2
    <3> QED BY <3>1, <3>2
  <2>a. Goes(h, m)
    BY <2>8, <2>9
  <2>b. m \in 0..n
    OBVIOUS
  <2> HIDE DEF Goes
  <2> QED BY <2>5, <2>a, <2>b
<1> HIDE DEF T
<1>3. 0..n \subseteq T
  BY <1>1, <1>2, UpTo
<1>4. n \in T
  BY <1>3
<1> QED BY <1>4 DEF T, Leads

-----------------------------------------------------------------------------
(* No command becomes a frame that its definition does not allow.          *)

(***************************************************************************)
(* A value encoded for a datapoint is one the table reads.                 *)
(***************************************************************************)
LEMMA EncodedIsRead ==
  ASSUME NEW p, NEW value, NEW w \in EncodeIntent(p, value)
  PROVE  Convert(p, w) # {}
<1>1. CASE p.kind = "bool" /\ value[1] = "bool"
  <2>1. w = <<"bool", value[2] # p.inverted>>
    BY <1>1 DEF EncodeIntent
  <2> QED BY <1>1, <2>1 DEF Convert
<1>2. CASE p.kind = "value" /\ value[1] = "int"
  <2>1. w[1] = "number"
    BY <1>2 DEF EncodeIntent
  <2> QED BY <1>2, <2>1 DEF Convert
<1>3. CASE p.kind = "enum" /\ value[1] \in {"name", "bool"}
  <2>1. w[1] = "enum"
    BY <1>3 DEF EncodeIntent
  <2> QED BY <1>3, <2>1 DEF Convert, OrElse
<1>4. CASE ~(p.kind = "bool" /\ value[1] = "bool") /\ ~(p.kind = "value" /\ value[1] = "int")
           /\ ~(p.kind = "enum" /\ value[1] \in {"name", "bool"})
  BY <1>4 DEF EncodeIntent
<1> QED BY <1>1, <1>2, <1>3, <1>4

Written(d, f) ==
  /\ f.via = "tuya"
  /\ \E p \in Range(d.points) :
       /\ p.dp = f.id
       /\ p.access # "Report" \/ (p.kind = "schedule" /\ p.name \in Days)
       /\ Convert(p, f.value) # {}

(***************************************************************************)
(* The table gives a frame for a datapoint that may be written.            *)
(***************************************************************************)
LEMMA TableAllows ==
  ASSUME NEW d, NEW c, NEW f \in CommandToDatapoint(d, c)
  PROVE  Written(d, f)
<1>1. PICK want \in IntentOf(c) : \E p \in NamedPoint(d, want.cap) :
          Writable(p) /\ \E w \in EncodeIntent(p, want.value) : f = PointFrame(p.dp, w)
  BY DEF CommandToDatapoint
<1>a. PICK p \in NamedPoint(d, want.cap) :
          Writable(p) /\ \E w \in EncodeIntent(p, want.value) : f = PointFrame(p.dp, w)
  BY <1>1
<1>2. PICK w \in EncodeIntent(p, want.value) : f = PointFrame(p.dp, w)
  BY <1>a
<1>3. p \in Range(d.points)
  BY DEF NamedPoint, FirstOf, Range
<1>4. Convert(p, w) # {}
  BY EncodedIsRead
<1>5. f.via = "tuya" /\ f.id = p.dp /\ f.value = w
  BY <1>2 DEF PointFrame
<1> QED BY <1>a, <1>3, <1>4, <1>5 DEF Written, Writable

(***************************************************************************)
(* So does the behaviour, which goes by the kind of the datapoint and its  *)
(* name.                                                                   *)
(***************************************************************************)
LEMMA BehaviourAllows ==
  ASSUME NEW d, NEW c, NEW f \in ScheduleFrames(d, c)
  PROVE  Written(d, f)
<1>1. PICK p \in OfDay(d) :
        \E text \in {c.arg} \cap Schedule : f = PointFrame(p.dp, <<"raw", text>>)
  BY DEF ScheduleFrames
<1>2. PICK text \in {c.arg} \cap Schedule : f = PointFrame(p.dp, <<"raw", text>>)
  BY <1>1
<1>3. p \in Range(d.points) /\ p.kind = "schedule" /\ p.name \in Days
  BY DEF OfDay, OfSchedule, FirstOf, Range
<1>4. Convert(p, <<"raw", text>>) # {}
  BY <1>3 DEF Convert
<1>5. f.via = "tuya" /\ f.id = p.dp /\ f.value = <<"raw", text>>
  BY <1>2 DEF PointFrame
<1> QED BY <1>3, <1>4, <1>5 DEF Written

Spoken(d, f) == f.via = "zcl" /\ f.cluster \in Commandable(d) \cup {"identify"}

\* The clusters one extension gives the device to be commanded by.
Gives(e) ==
  CASE e.kind = "onOff" -> {"onOff"}
    [] e.kind = "light" -> {"onOff"} \cup (IF e.brightness THEN {"level"} ELSE {})
    [] e.kind \in {"cover", "lock"} -> {e.kind}
    [] OTHER -> {}

LEMMA Given ==
  ASSUME NEW d, NEW i \in DOMAIN d.extend, NEW cluster \in Gives(d.extend[i])
  PROVE  cluster \in Commandable(d)
BY DEF Commandable, Gives, Range

(***************************************************************************)
(* The extensions give a frame on a cluster one of them stands for.        *)
(***************************************************************************)
LEMMA ExtensionsAllow ==
  ASSUME NEW d, NEW eps, NEW c, NEW f \in PlanSpecific(d, eps, c)
  PROVE  Spoken(d, f)
<1>1. CASE c.op \in {"SetOn", "Toggle"}
  <2>1. PICK declared \in OnOffEndpoints(d) :
          f = Frame(EndpointFor(d, eps, declared, "onOff"), "onOff", OnOffId(c), 0)
    BY <1>1 DEF PlanSpecific
  <2>2. PICK i \in DOMAIN d.extend : d.extend[i].kind \in {"onOff", "light"}
    BY DEF OnOffEndpoints, FirstOf, Extended
  <2>3. "onOff" \in Gives(d.extend[i])
    BY <2>2 DEF Gives
  <2> QED BY <2>1, <2>3, Given DEF Spoken, Frame
<1>2. CASE c.op = "SetBrightness"
  <2>1. PICK i \in Extended(d, {"light"}) : d.extend[i].brightness /\ f.via = "zcl" /\ f.cluster = "level"
    BY <1>2 DEF PlanSpecific, Frame
  <2>2. i \in DOMAIN d.extend /\ "level" \in Gives(d.extend[i])
    BY <2>1 DEF Gives, Extended
  <2> QED BY <2>1, <2>2, Given DEF Spoken
<1>3. CASE c.op \in {"Open", "Close", "Stop", "SetPosition", "SetTilt"}
  <2>1. Cover(d) # {} /\ f.via = "zcl" /\ f.cluster = "cover"
    BY <1>3 DEF PlanSpecific, Frame
  <2>2. PICK i \in DOMAIN d.extend : d.extend[i].kind = "cover"
    BY <2>1 DEF Cover, FirstOf, Extended
  <2>3. "cover" \in Gives(d.extend[i])
    BY <2>2 DEF Gives
  <2> QED BY <2>1, <2>3, Given DEF Spoken
<1>4. CASE c.op \in {"Lock", "Unlock"}
  <2>1. PICK i \in Extended(d, {"lock"}) : f.via = "zcl" /\ f.cluster = "lock"
    BY <1>4 DEF PlanSpecific, Frame
  <2>2. i \in DOMAIN d.extend /\ "lock" \in Gives(d.extend[i])
    BY DEF Gives, Extended
  <2> QED BY <2>1, <2>2, Given DEF Spoken
<1>5. CASE c.op = "Identify"
  BY <1>5 DEF PlanSpecific, Frame, Spoken
<1>6. CASE c.op \notin {"SetOn", "Toggle", "SetBrightness", "Open", "Close", "Stop",
                        "SetPosition", "SetTilt", "Lock", "Unlock", "Identify"}
  BY <1>6 DEF PlanSpecific
<1> QED BY <1>1, <1>2, <1>3, <1>4, <1>5, <1>6

(***************************************************************************)
(* Whichever way a command is planned, its frame is allowed.               *)
(***************************************************************************)
LEMMA PlanAllows ==
  ASSUME NEW d, NEW eps, NEW c, NEW f \in Plan(d, eps, c)
  PROVE  Written(d, f) \/ Spoken(d, f)
<1>1. CASE f \in CommandToDatapoint(d, c)
  BY <1>1, TableAllows
<1>2. CASE f \in ScheduleFrames(d, c)
  BY <1>2, BehaviourAllows
<1>3. CASE f \in PlanCommand(d, eps, c)
  BY <1>3, ExtensionsAllow DEF PlanCommand
<1> QED BY <1>1, <1>2, <1>3 DEF Plan

LEMMA InitGuessesNothing == Init => NothingGuessed
BY DEF Init, NothingGuessed

LEMMA StepGuessesNothing == NothingGuessed /\ [Next]_vars => NothingGuessed'
<1> SUFFICES ASSUME NothingGuessed, [Next]_vars PROVE NothingGuessed'
  OBVIOUS
<1>1. ASSUME NEW c \in Command, RunCommand(c) PROVE NothingGuessed'
  <2>1. PICK f \in Plan(def, known, c) : Sendable(f) /\ sent' = f
    BY <1>1 DEF RunCommand
  <2>2. Written(def, f) \/ Spoken(def, f)
    BY PlanAllows
  <2>3. def' = def /\ known' = known /\ def # None
    BY <1>1 DEF RunCommand, facts
  <2>4. known # <<>> => Known(known, f.ep)
    BY <2>1 DEF Sendable
  <2> QED BY <2>1, <2>2, <2>3, <2>4 DEF NothingGuessed, Written, Spoken
<1>2. CASE sent' = None
  BY <1>2 DEF NothingGuessed
<1>3. CASE UNCHANGED vars
  BY <1>3 DEF NothingGuessed, vars
<1>4. ASSUME NEW p, NEW v, Changes(p, v) PROVE sent' = None
  BY <1>4 DEF Changes
<1>5. ASSUME NEW p, Report(p) PROVE sent' = None
  BY <1>5 DEF Report
<1>6. CASE Interviewed \/ Configure
  BY <1>6, <1>2 DEF Interviewed, Configure, Planned
<1>7. CASE Bind \/ BindingDone \/ Untyped \/ ConfigureReporting
  BY <1>7, <1>2 DEF Bind, BindingDone, Untyped, ConfigureReporting, NextStep
<1> QED BY <1>1, <1>2, <1>3, <1>4, <1>5, <1>6, <1>7 DEF Next

(***************************************************************************)
(* No command becomes a frame that the definition does not allow, or for   *)
(* an endpoint the device is known to lack.                                *)
(***************************************************************************)
THEOREM Allowed == Spec => []NothingGuessed
BY InitGuessesNothing, StepGuessesNothing, PTL DEF Spec

-----------------------------------------------------------------------------
(* Which definition a device has.                                          *)

Hit(key, n) == Accepted(Catalogue[n]) /\ key \in Keys(Catalogue[n])

\* s lists the numbers T there are up to n, the last one first.
Descends(s, T) ==
  /\ s \in Seq(Nat)
  /\ Range(s) = T
  /\ \A i, j \in DOMAIN s : i < j => s[i] > s[j]

Indexed(f, key) ==
  f = [n \in 0..Len(Catalogue) |->
         IF n = 0 THEN <<>>
         ELSE IF Accepted(Catalogue[n]) /\ key \in Keys(Catalogue[n])
           THEN <<n>> \o f[n - 1] ELSE f[n - 1]]

LEMMA CatalogueIsListed ==
  /\ Len(Catalogue) \in Nat /\ DOMAIN Catalogue = 1..Len(Catalogue)
  /\ \A i \in DOMAIN Catalogue : Catalogue[i] \in Range(Catalogue)
BY MatchingAssumption DEF Range

LEMMA IndexExists == ASSUME NEW key PROVE \E f : Indexed(f, key)
<1> DEFINE N == Len(Catalogue)
           S == Seq(Nat)
           g == [n \in 1..N |-> [s \in S |-> IF Hit(key, n) THEN <<n>> \o s ELSE s]]
<1>1. N \in Nat /\ <<>> \in S
  BY CatalogueIsListed
<1>2. g \in [1..N -> [S -> S]]
  <2> SUFFICES ASSUME NEW n \in 1..N, NEW s \in S
               PROVE  (IF Hit(key, n) THEN <<n>> \o s ELSE s) \in S
    OBVIOUS
  <2>1. n \in Nat /\ <<n>> \in S
    BY <1>1
  <2> QED BY <2>1
<1>3. \A n \in 1..N, s \in S : g[n][s] = IF Hit(key, n) THEN <<n>> \o s ELSE s
  OBVIOUS
<1> HIDE DEF g, S
<1>4. PICK f \in [0..N -> S] : f[0] = <<>> /\ \A n \in 1..N : f[n] = g[n][f[n - 1]]
  <2>1. Leads(S, <<>>, N, g)
    BY <1>1, <1>2, StepsExist
  <2> QED BY <2>1 DEF Leads
<1>5. ASSUME NEW n \in 0..N
      PROVE  f[n] = IF n = 0 THEN <<>> ELSE IF Hit(key, n) THEN <<n>> \o f[n - 1] ELSE f[n - 1]
  <2>1. CASE n = 0
    BY <1>4, <2>1
  <2>2. CASE n # 0
    <3>1. n \in 1..N /\ f[n - 1] \in S
      BY <1>1, <1>4, <2>2
    <3> QED BY <1>3, <1>4, <2>2, <3>1
  <2> QED BY <2>1, <2>2
<1>6. f = [n \in 0..N |-> f[n]]
  BY <1>4
<1>7. Indexed(f, key)
  BY <1>5, <1>6 DEF Indexed, Hit
<1> QED BY <1>7

LEMMA IndexOf ==
  ASSUME NEW key
  PROVE  \E f : Indexed(f, key) /\ ByModel(key) = f[Len(Catalogue)]
<1> DEFINE f == CHOOSE f : Indexed(f, key)
<1>1. Indexed(f, key)
  BY IndexExists, Zenon
<1>2. ByModel(key) = f[Len(Catalogue)]
  BY DEF ByModel, Indexed
<1> QED BY <1>1, <1>2

\* The number of one more definition, before those of the others.
LEMMA OneBefore ==
  ASSUME NEW n \in Nat, NEW s \in Seq(Nat), NEW T, Descends(s, T), \A i \in T : i < n
  PROVE  Descends(<<n>> \o s, T \cup {n})
<1> DEFINE r == <<n>> \o s
<1>1. /\ r \in Seq(Nat) /\ Len(r) = Len(s) + 1 /\ Len(s) \in Nat
      /\ DOMAIN r = 1..(Len(s) + 1) /\ DOMAIN s = 1..Len(s)
      /\ r[1] = n
      /\ \A i \in 1..Len(s) : r[i + 1] = s[i]
  OBVIOUS
<1> HIDE DEF r
<1>2. \A i \in DOMAIN r : i # 1 => i - 1 \in 1..Len(s) /\ r[i] = s[i - 1]
  <2> SUFFICES ASSUME NEW i \in DOMAIN r, i # 1 PROVE i - 1 \in 1..Len(s) /\ r[i] = s[i - 1]
    OBVIOUS
  <2>1. i - 1 \in 1..Len(s) /\ (i - 1) + 1 = i
    BY <1>1
  <2> QED BY <1>1, <2>1
<1>3. \A i \in DOMAIN s : s[i] \in T /\ s[i] \in Nat
  BY DEF Descends, Range
<1>4. Range(r) = T \cup {n}
  <2>1. ASSUME NEW x \in Range(r) PROVE x \in T \cup {n}
    <3>1. PICK i \in DOMAIN r : r[i] = x
      BY DEF Range
    <3>2. CASE i = 1
      BY <1>1, <3>1, <3>2, Zenon
    <3>3. CASE i # 1
      BY <1>1, <1>2, <1>3, <3>1, <3>3, Zenon
    <3> QED BY <3>2, <3>3
  <2>2. n \in Range(r)
    BY <1>1 DEF Range
  <2>3. ASSUME NEW t \in T PROVE t \in Range(r)
    <3>1. PICK i \in DOMAIN s : s[i] = t
      BY DEF Descends, Range
    <3>2. i + 1 \in DOMAIN r /\ r[i + 1] = t
      BY <1>1, <3>1
    <3> QED BY <3>2 DEF Range
  <2> QED BY <2>1, <2>2, <2>3
<1>5. ASSUME NEW i \in DOMAIN r, NEW j \in DOMAIN r, i < j PROVE r[i] > r[j]
  <2>1. j # 1 /\ j - 1 \in DOMAIN s /\ r[j] = s[j - 1] /\ r[j] < n /\ r[j] \in Nat
    BY <1>1, <1>2, <1>3, <1>5
  <2>2. CASE i = 1
    BY <1>1, <2>1, <2>2
  <2>3. CASE i # 1
    <3>1. i - 1 \in DOMAIN s /\ r[i] = s[i - 1] /\ i - 1 < j - 1
      BY <1>1, <1>2, <1>5, <2>3
    <3> QED BY <2>1, <3>1 DEF Descends
  <2> QED BY <2>2, <2>3
<1> QED BY <1>1, <1>4, <1>5 DEF Descends, r

(***************************************************************************)
(* Under a key are the definitions that have it, the last inserted first.  *)
(***************************************************************************)
LEMMA ByModelDescends ==
  ASSUME NEW key
  PROVE  Descends(ByModel(key), {i \in DOMAIN Catalogue : Hit(key, i)})
<1> DEFINE N == Len(Catalogue)
           Hits(n) == {i \in 1..n : Hit(key, i)}
<1>1. PICK f : Indexed(f, key) /\ ByModel(key) = f[N]
  BY IndexOf
<1> DEFINE T == {n \in 0..N : Descends(f[n], Hits(n))}
<1>a. N \in Nat
  BY CatalogueIsListed
<1>2. f[0] = <<>> /\ \A n \in 1..N : f[n] = IF Hit(key, n) THEN <<n>> \o f[n - 1] ELSE f[n - 1]
  <2>1. \A n \in 0..N : f[n] = IF n = 0 THEN <<>>
                               ELSE IF Hit(key, n) THEN <<n>> \o f[n - 1] ELSE f[n - 1]
    BY <1>1 DEF Indexed, Hit
  <2>2. 0 \in 0..N /\ \A n \in 1..N : n \in 0..N /\ n # 0
    BY <1>a
  <2> QED BY <2>1, <2>2
<1>3. 0 \in T
  <2>1. Hits(0) = {} /\ f[0] = <<>>
    BY <1>2
  <2>2. Descends(<<>>, {})
    BY DEF Descends, Range
  <2> QED BY <1>a, <2>1, <2>2
<1>4. ASSUME NEW n \in 1..N, n - 1 \in T PROVE n \in T
  <2>1. Descends(f[n - 1], Hits(n - 1)) /\ n \in Nat /\ \A i \in Hits(n - 1) : i < n
    BY <1>4
  <2>a. 1..n = 1..(n - 1) \cup {n}
    BY <1>a
  <2>2. CASE Hit(key, n)
    <3>a. f[n] = <<n>> \o f[n - 1]
      BY <1>2, <2>2
    <3>b. Hits(n) = Hits(n - 1) \cup {n}
      BY <2>2, <2>a
    <3>1. f[n] = <<n>> \o f[n - 1] /\ Hits(n) = Hits(n - 1) \cup {n}
      BY <3>a, <3>b
    <3>2. f[n - 1] \in Seq(Nat)
      BY <2>1 DEF Descends
    <3> HIDE DEF Hits
    <3>3. Descends(f[n], Hits(n))
      BY <2>1, <3>1, <3>2, OneBefore
    <3> QED BY <3>3
  <2>3. CASE ~Hit(key, n)
    <3>a. f[n] = f[n - 1]
      BY <1>2, <2>3
    <3>b. Hits(n) = Hits(n - 1)
      BY <2>3, <2>a
    <3>1. f[n] = f[n - 1] /\ Hits(n) = Hits(n - 1)
      BY <3>a, <3>b
    <3> HIDE DEF Hits
    <3> QED BY <2>1, <3>1
  <2> QED BY <2>2, <2>3
<1> HIDE DEF T
<1> HIDE DEF N
<1>b. 0..N \subseteq T
  BY <1>a, <1>3, <1>4, UpTo
<1>5. N \in T
  BY <1>a, <1>b
<1>6. Hits(N) = {i \in DOMAIN Catalogue : Hit(key, i)}
  BY CatalogueIsListed DEF N
<1> HIDE DEF Hits
<1> QED BY <1>1, <1>5, <1>6 DEF T

-----------------------------------------------------------------------------
(* The best fingerprint.                                                   *)

Claim == Int \X Nat

IsBest(b, claims) ==
  IF claims = {} THEN b = <<>>
  ELSE b \in claims /\ \A c \in claims : b[1] > c[1] \/ (b[1] = c[1] /\ b[2] >= c[2])

FirstClaims(i, k, dev) ==
  {<<Catalogue[i].fingerprints[m].priority, i>> :
     m \in {n \in 1..k : Matches(Catalogue[i].fingerprints[n], dev)}}

ClaimsOf(i, dev) ==
  {<<f.priority, i>> : f \in {g \in Range(Catalogue[i].fingerprints) : Matches(g, dev)}}

(***************************************************************************)
(* Of a claim that is no later than the others, the better of it and the   *)
(* best of them is the best of all.                                        *)
(***************************************************************************)
LEMMA BetterIsBest ==
  ASSUME NEW claims \in SUBSET Claim, NEW b, IsBest(b, claims), NEW c \in Claim,
         \A e \in claims : e[2] >= c[2]
  PROVE  IsBest(Better(b, c), claims \cup {c})
<1>1. CASE claims = {}
  <2>1. Better(b, c) = c /\ claims \cup {c} = {c}
    BY <1>1 DEF Better, IsBest
  <2>2. c[1] = c[1] /\ c[2] >= c[2]
    BY DEF Claim
  <2> QED BY <2>1, <2>2 DEF IsBest
<1>2. CASE claims # {}
  <2>1. b \in claims /\ \A e \in claims : b[1] > e[1] \/ (b[1] = e[1] /\ b[2] >= e[2])
    BY <1>2 DEF IsBest
  <2>2. b \in Claim /\ b # <<>>
    BY <2>1 DEF Claim
  <2>3. b[1] \in Int /\ b[2] \in Nat /\ c[1] \in Int /\ c[2] \in Nat
    BY <2>2 DEF Claim
  <2>4. \A e \in claims : e[1] \in Int /\ e[2] \in Nat
    BY DEF Claim
  <2>5. CASE c[1] > b[1]
    <3>1. Better(b, c) = c
      BY <2>5 DEF Better
    <3>2. \A e \in claims \cup {c} : c[1] > e[1] \/ (c[1] = e[1] /\ c[2] >= e[2])
      BY <2>1, <2>3, <2>4, <2>5
    <3> QED BY <3>1, <3>2 DEF IsBest
  <2>6. CASE ~(c[1] > b[1])
    <3>1. Better(b, c) = b
      BY <2>2, <2>6 DEF Better
    <3>2. \A e \in claims \cup {c} : b[1] > e[1] \/ (b[1] = e[1] /\ b[2] >= e[2])
      BY <2>1, <2>3, <2>6
    <3> QED BY <2>1, <3>1, <3>2 DEF IsBest
  <2> QED BY <2>5, <2>6
<1> QED BY <1>1, <1>2

AmongOne(f, best, i, dev) ==
  f = [k \in 0..Len(Catalogue[i].fingerprints) |->
         IF k = 0 THEN best
         ELSE IF Matches(Catalogue[i].fingerprints[k], dev)
           THEN Better(f[k - 1], <<Catalogue[i].fingerprints[k].priority, i>>)
           ELSE f[k - 1]]

LEMMA FingerprintsAreListed ==
  ASSUME NEW i \in DOMAIN Catalogue
  PROVE  /\ Len(Catalogue[i].fingerprints) \in Nat
         /\ DOMAIN Catalogue[i].fingerprints = 1..Len(Catalogue[i].fingerprints)
         /\ \A k \in 1..Len(Catalogue[i].fingerprints) :
              /\ Catalogue[i].fingerprints[k] \in Range(Catalogue[i].fingerprints)
              /\ Catalogue[i].fingerprints[k].priority \in Int
              /\ <<Catalogue[i].fingerprints[k].priority, i>> \in Claim
<1>1. Catalogue[i] \in Range(Catalogue) /\ i \in Nat
  BY CatalogueIsListed
<1>2. Catalogue[i].fingerprints \in Seq(Range(Catalogue[i].fingerprints))
  BY <1>1, MatchingAssumption
<1>3. \A f \in Range(Catalogue[i].fingerprints) : f.priority \in Int
  BY <1>1, MatchingAssumption
<1> HIDE DEF Claim
<1>4. \A k \in 1..Len(Catalogue[i].fingerprints) :
        Catalogue[i].fingerprints[k] \in Range(Catalogue[i].fingerprints)
  BY <1>2
<1>5. \A k \in 1..Len(Catalogue[i].fingerprints) :
        Catalogue[i].fingerprints[k].priority \in Int
  BY <1>3, <1>4
<1> QED BY <1>1, <1>2, <1>4, <1>5 DEF Claim

LEMMA BetterTyped ==
  ASSUME NEW b, NEW c \in Claim
  PROVE  Better(b, c) \in Claim \cup {b}
BY DEF Better

LEMMA AmongOneExists ==
  ASSUME NEW best, NEW i \in DOMAIN Catalogue, NEW dev
  PROVE  \E f : AmongOne(f, best, i, dev)
<1> DEFINE fs == Catalogue[i].fingerprints
           S == Claim \cup {best}
           G(k, b) == IF Matches(fs[k], dev) THEN Better(b, <<fs[k].priority, i>>) ELSE b
           g == [k \in 1..Len(fs) |-> [b \in S |-> G(k, b)]]
<1>1. Len(fs) \in Nat /\ best \in S
  BY FingerprintsAreListed
<1>2. g \in [1..Len(fs) -> [S -> S]]
  <2> SUFFICES ASSUME NEW k \in 1..Len(fs), NEW b \in S PROVE G(k, b) \in S
    OBVIOUS
  <2>1. <<fs[k].priority, i>> \in Claim
    BY FingerprintsAreListed
  <2>2. Better(b, <<fs[k].priority, i>>) \in Claim \cup {b}
    BY <2>1, BetterTyped
  <2> QED BY <2>2
<1>3. \A k \in 1..Len(fs), b \in S : g[k][b] = G(k, b)
  OBVIOUS
<1> HIDE DEF g, S, G
<1>4. PICK f \in [0..Len(fs) -> S] : f[0] = best /\ \A k \in 1..Len(fs) : f[k] = g[k][f[k - 1]]
  <2> DEFINE n == Len(fs)
  <2>1. n \in Nat /\ g \in [1..n -> [S -> S]]
    BY <1>1, <1>2
  <2> HIDE DEF n
  <2>2. Leads(S, best, n, g)
    BY <1>1, <2>1, StepsExist
  <2> QED BY <2>2 DEF n, Leads
<1>5. ASSUME NEW k \in 0..Len(fs) PROVE f[k] = IF k = 0 THEN best ELSE G(k, f[k - 1])
  <2>1. CASE k = 0
    BY <1>4, <2>1
  <2>2. CASE k # 0
    <3>1. k \in 1..Len(fs) /\ f[k - 1] \in S
      BY <1>1, <1>4, <2>2
    <3> QED BY <1>3, <1>4, <2>2, <3>1
  <2> QED BY <2>1, <2>2
<1>6. f = [k \in 0..Len(fs) |-> f[k]]
  BY <1>4
<1>7. AmongOne(f, best, i, dev)
  BY <1>5, <1>6 DEF AmongOne, G
<1> QED BY <1>7

LEMMA BestWithOf ==
  ASSUME NEW best, NEW i \in DOMAIN Catalogue, NEW dev
  PROVE  \E f : /\ AmongOne(f, best, i, dev)
                /\ BestWith(best, i, dev) = f[Len(Catalogue[i].fingerprints)]
<1> DEFINE f == CHOOSE f : AmongOne(f, best, i, dev)
<1>1. AmongOne(f, best, i, dev)
  BY AmongOneExists, Zenon
<1>2. BestWith(best, i, dev) = f[Len(Catalogue[i].fingerprints)]
  BY DEF BestWith, AmongOne
<1> QED BY <1>1, <1>2

(***************************************************************************)
(* One more candidate, no later than the others, is taken into account.    *)
(***************************************************************************)
LEMMA BestWithIsBest ==
  ASSUME NEW claims \in SUBSET Claim, NEW best, IsBest(best, claims),
         NEW i \in DOMAIN Catalogue, NEW dev, \A e \in claims : e[2] >= i
  PROVE  IsBest(BestWith(best, i, dev), claims \cup ClaimsOf(i, dev))
<1> DEFINE fs == Catalogue[i].fingerprints
<1>1. PICK f : AmongOne(f, best, i, dev) /\ BestWith(best, i, dev) = f[Len(fs)]
  BY BestWithOf
<1>a. Len(fs) \in Nat /\ i \in Nat
  BY FingerprintsAreListed, CatalogueIsListed
<1>2. /\ f[0] = best
      /\ \A k \in 1..Len(fs) : f[k] = IF Matches(fs[k], dev)
                                      THEN Better(f[k - 1], <<fs[k].priority, i>>) ELSE f[k - 1]
  <2>1. \A k \in 0..Len(fs) :
          f[k] = IF k = 0 THEN best ELSE IF Matches(fs[k], dev)
                 THEN Better(f[k - 1], <<fs[k].priority, i>>) ELSE f[k - 1]
    BY <1>1 DEF AmongOne
  <2>2. 0 \in 0..Len(fs) /\ \A k \in 1..Len(fs) : k \in 0..Len(fs) /\ k # 0
    BY <1>a
  <2> QED BY <2>1, <2>2
<1> DEFINE C(k) == claims \cup FirstClaims(i, k, dev)
           T == {k \in 0..Len(fs) : IsBest(f[k], C(k))}
<1>3. 0 \in T
  <2>1. C(0) = claims
    BY DEF FirstClaims
  <2>2. 0 \in 0..Len(fs)
    BY <1>a
  <2> HIDE DEF C
  <2>3. IsBest(f[0], C(0))
    BY <1>2, <2>1
  <2> QED BY <2>2, <2>3
<1>4. ASSUME NEW k \in 1..Len(fs), k - 1 \in T PROVE k \in T
  <2> DEFINE c == <<fs[k].priority, i>>
  <2>1. 1..k = 1..(k - 1) \cup {k}
    BY <1>a
  <2>2. c \in Claim /\ c[2] = i
    BY FingerprintsAreListed
  <2>3. CASE Matches(fs[k], dev)
    <3>1. f[k] = Better(f[k - 1], c)
      BY <1>2, <2>3
    <3>2. C(k) = C(k - 1) \cup {c}
      BY <2>1, <2>3 DEF FirstClaims
    <3>3. C(k - 1) \in SUBSET Claim
      BY FingerprintsAreListed DEF FirstClaims
    <3>4. \A e \in C(k - 1) : e[2] >= c[2]
      BY <1>a DEF FirstClaims
    <3>5. IsBest(f[k - 1], C(k - 1))
      BY <1>4
    <3> HIDE DEF C, c
    <3>6. IsBest(Better(f[k - 1], c), C(k - 1) \cup {c})
      BY <2>2, <3>3, <3>4, <3>5, BetterIsBest
    <3>7. IsBest(f[k], C(k)) /\ k \in 0..Len(fs)
      BY <3>1, <3>2, <3>6
    <3> QED BY <3>7
  <2>4. CASE ~Matches(fs[k], dev)
    <3>1. f[k] = f[k - 1]
      BY <1>2, <2>4
    <3>2. C(k) = C(k - 1)
      BY <2>1, <2>4 DEF FirstClaims
    <3>3. IsBest(f[k - 1], C(k - 1))
      BY <1>4
    <3> HIDE DEF C
    <3> QED BY <3>1, <3>2, <3>3
  <2> QED BY <2>3, <2>4
<1>5. Len(fs) \in T
  <2> HIDE DEF T, fs
  <2>1. 0..Len(fs) \subseteq T
    BY <1>a, <1>3, <1>4, UpTo
  <2> QED BY <1>a, <2>1
<1>6. FirstClaims(i, Len(fs), dev) = ClaimsOf(i, dev)
  <2>1. Range(fs) = {fs[m] : m \in 1..Len(fs)}
    BY FingerprintsAreListed DEF Range
  <2> QED BY <2>1 DEF FirstClaims, ClaimsOf
<1> QED BY <1>1, <1>5, <1>6

LEMMA BestWithTyped ==
  ASSUME NEW best, NEW i \in DOMAIN Catalogue, NEW dev
  PROVE  BestWith(best, i, dev) \in Claim \cup {best}
<1> DEFINE fs == Catalogue[i].fingerprints
           n == Len(fs)
<1>1. PICK f : AmongOne(f, best, i, dev) /\ BestWith(best, i, dev) = f[n]
  BY BestWithOf
<1>a. n \in Nat /\ \A k \in 1..n : <<fs[k].priority, i>> \in Claim
  BY FingerprintsAreListed
<1>2. /\ f[0] = best
      /\ \A k \in 1..n : f[k] = IF Matches(fs[k], dev)
                                THEN Better(f[k - 1], <<fs[k].priority, i>>) ELSE f[k - 1]
  <2>1. \A k \in 0..n :
          f[k] = IF k = 0 THEN best ELSE IF Matches(fs[k], dev)
                 THEN Better(f[k - 1], <<fs[k].priority, i>>) ELSE f[k - 1]
    BY <1>1 DEF AmongOne
  <2>2. 0 \in 0..n /\ \A k \in 1..n : k \in 0..n /\ k # 0
    BY <1>a
  <2> QED BY <2>1, <2>2
<1> HIDE DEF n, fs
<1> DEFINE T == {k \in 0..n : f[k] \in Claim \cup {best}}
<1>3. 0 \in T
  BY <1>a, <1>2
<1>4. ASSUME NEW k \in 1..n, k - 1 \in T PROVE k \in T
  <2>1. \A c \in Claim : Better(f[k - 1], c) \in Claim \cup {f[k - 1]}
    BY BetterTyped
  <2>2. f[k] \in Claim \cup {f[k - 1]}
    BY <1>a, <1>2, <2>1
  <2>3. f[k] \in Claim \cup {best} /\ k \in 0..n
    BY <1>4, <2>2
  <2> QED BY <2>3
<1> HIDE DEF T
<1>5. 0..n \subseteq T
  BY <1>a, <1>3, <1>4, UpTo
<1>6. n \in T
  BY <1>a, <1>5
<1> QED BY <1>1, <1>6 DEF T

Among(f, candidates, dev) ==
  f = [n \in 0..Len(candidates) |->
         IF n = 0 THEN <<>> ELSE BestWith(f[n - 1], candidates[n], dev)]

LEMMA AmongExists ==
  ASSUME NEW candidates, Len(candidates) \in Nat,
         \A k \in 1..Len(candidates) : candidates[k] \in DOMAIN Catalogue, NEW dev
  PROVE  \E f : Among(f, candidates, dev)
<1> DEFINE n == Len(candidates)
           S == Claim \cup {<<>>}
           g == [k \in 1..n |-> [b \in S |-> BestWith(b, candidates[k], dev)]]
<1>1. \A k \in 1..n : candidates[k] \in DOMAIN Catalogue
  OBVIOUS
<1>a. n \in Nat /\ <<>> \in S
  OBVIOUS
<1>2. g \in [1..n -> [S -> S]]
  <2> SUFFICES ASSUME NEW k \in 1..n, NEW b \in S
               PROVE  BestWith(b, candidates[k], dev) \in S
    OBVIOUS
  <2>1. BestWith(b, candidates[k], dev) \in Claim \cup {b}
    BY <1>1, BestWithTyped
  <2> QED BY <2>1
<1>3. \A k \in 1..n, b \in S : g[k][b] = BestWith(b, candidates[k], dev)
  OBVIOUS
<1> HIDE DEF n, g, S
<1>c. \E f \in [0..n -> S] : f[0] = <<>> /\ \A k \in 1..n : f[k] = g[k][f[k - 1]]
  <2>1. Leads(S, <<>>, n, g)
    BY <1>a, <1>2, StepsExist
  <2> QED BY <2>1 DEF Leads
<1>4. PICK f \in [0..n -> S] : f[0] = <<>> /\ \A k \in 1..n : f[k] = g[k][f[k - 1]]
  BY <1>c
<1>5. ASSUME NEW k \in 0..n
      PROVE  f[k] = IF k = 0 THEN <<>> ELSE BestWith(f[k - 1], candidates[k], dev)
  <2>1. CASE k = 0
    BY <1>4, <2>1
  <2>2. CASE k # 0
    <3>1. k \in 1..n /\ f[k - 1] \in S
      BY <1>a, <1>4, <2>2
    <3> QED BY <1>3, <1>4, <2>2, <3>1
  <2> QED BY <2>1, <2>2
<1>6. f = [k \in 0..n |-> f[k]]
  BY <1>4
<1>7. Among(f, candidates, dev)
  BY <1>5, <1>6 DEF Among, n
<1> QED BY <1>7

LEMMA BestOf ==
  ASSUME NEW candidates, Len(candidates) \in Nat,
         \A k \in 1..Len(candidates) : candidates[k] \in DOMAIN Catalogue, NEW dev
  PROVE  \E f : Among(f, candidates, dev) /\ Best(candidates, dev) = f[Len(candidates)]
<1> DEFINE f == CHOOSE f : Among(f, candidates, dev)
<1>1. Among(f, candidates, dev)
  BY AmongExists, Zenon
<1>2. Best(candidates, dev) = f[Len(candidates)]
  BY DEF Best, Among
<1> QED BY <1>1, <1>2

(***************************************************************************)
(* Of all the candidates the best claim is found.                          *)
(***************************************************************************)
LEMMA BestIsBest ==
  ASSUME NEW candidates, NEW rivals \in SUBSET DOMAIN Catalogue,
         Descends(candidates, rivals), NEW dev
  PROVE  IsBest(Best(candidates, dev), UNION {ClaimsOf(i, dev) : i \in rivals})
<1> DEFINE N == Len(candidates)
           C(n) == UNION {ClaimsOf(candidates[m], dev) : m \in 1..n}
<1>1. /\ candidates \in Seq(Nat) /\ N \in Nat /\ DOMAIN candidates = 1..N
      /\ \A n \in 1..N : candidates[n] \in rivals
  BY DEF Descends, Range
<1>2. Len(candidates) \in Nat /\ \A k \in 1..Len(candidates) : candidates[k] \in DOMAIN Catalogue
  BY <1>1
<1>3. PICK f : Among(f, candidates, dev) /\ Best(candidates, dev) = f[N]
  BY <1>2, BestOf
<1>4. f[0] = <<>> /\ \A n \in 1..N : f[n] = BestWith(f[n - 1], candidates[n], dev)
  <2>1. \A n \in 0..N : f[n] = IF n = 0 THEN <<>> ELSE BestWith(f[n - 1], candidates[n], dev)
    BY <1>3 DEF Among
  <2>2. 0 \in 0..N /\ \A n \in 1..N : n \in 0..N /\ n # 0
    BY <1>1
  <2> QED BY <2>1, <2>2
<1>5. \A i \in DOMAIN Catalogue : \A c \in ClaimsOf(i, dev) : c \in Claim /\ c[2] = i
  <2> SUFFICES ASSUME NEW i \in DOMAIN Catalogue, NEW c \in ClaimsOf(i, dev)
               PROVE  c \in Claim /\ c[2] = i
    OBVIOUS
  <2>1. PICK g \in Range(Catalogue[i].fingerprints) : c = <<g.priority, i>>
    BY DEF ClaimsOf
  <2>2. PICK k \in 1..Len(Catalogue[i].fingerprints) : g = Catalogue[i].fingerprints[k]
    BY FingerprintsAreListed DEF Range
  <2> QED BY <2>1, <2>2, FingerprintsAreListed
<1> DEFINE T == {n \in 0..N : IsBest(f[n], C(n))}
<1>6. 0 \in T
  <2>1. C(0) = {} /\ f[0] = <<>> /\ 0 \in 0..N
    BY <1>1, <1>4
  <2>2. IsBest(<<>>, {})
    BY DEF IsBest
  <2> HIDE DEF C
  <2> QED BY <2>1, <2>2
<1>7. ASSUME NEW n \in 1..N, n - 1 \in T PROVE n \in T
  <2> DEFINE i == candidates[n]
  <2>1. i \in DOMAIN Catalogue
    BY <1>1
  <2>2. C(n) = C(n - 1) \cup ClaimsOf(i, dev)
    <3>1. 1..n = 1..(n - 1) \cup {n}
      BY <1>1
    <3> QED BY <3>1
  <2>3. C(n - 1) \in SUBSET Claim /\ \A e \in C(n - 1) : e[2] >= i
    <3> SUFFICES ASSUME NEW m \in 1..(n - 1), NEW e \in ClaimsOf(candidates[m], dev)
                 PROVE  e \in Claim /\ e[2] >= i
      OBVIOUS
    <3>1. m \in DOMAIN candidates /\ n \in DOMAIN candidates /\ m < n
      BY <1>1
    <3>2. candidates[m] > i /\ candidates[m] \in DOMAIN Catalogue /\ candidates[m] \in Nat /\ i \in Nat
      BY <1>1, <3>1 DEF Descends
    <3>3. e \in Claim /\ e[2] = candidates[m]
      BY <1>5, <3>2
    <3> QED BY <3>2, <3>3
  <2>4. IsBest(f[n - 1], C(n - 1))
    BY <1>7
  <2>5. f[n] = BestWith(f[n - 1], i, dev)
    BY <1>4
  <2> HIDE DEF C, i
  <2>6. IsBest(BestWith(f[n - 1], i, dev), C(n - 1) \cup ClaimsOf(i, dev))
    BY <2>1, <2>3, <2>4, BestWithIsBest
  <2>7. IsBest(f[n], C(n)) /\ n \in 0..N
    BY <2>2, <2>5, <2>6
  <2> QED BY <2>7
<1> HIDE DEF T
<1>8. N \in T
  <2> HIDE DEF N
  <2>1. 0..N \subseteq T
    BY <1>1, <1>6, <1>7, UpTo
  <2> QED BY <1>1, <2>1
<1>9. C(N) = UNION {ClaimsOf(i, dev) : i \in rivals}
  <2>1. rivals = {candidates[m] : m \in 1..N}
    BY <1>1 DEF Descends, Range
  <2> QED BY <2>1
<1> HIDE DEF C
<1> QED BY <1>3, <1>8, <1>9 DEF T

-----------------------------------------------------------------------------
(* Names and keys.                                                         *)

\* A model the interview has put into shape: it has no padding.
Trimmed(model) == IsName(model) /\ model.padded = FALSE

Name(n, c, p) == [name |-> n, capitals |-> c, padded |-> p]

Made(r, n, c, p) ==
  /\ r = [k \in DOMAIN r |-> r[k]] /\ DOMAIN r = {"name", "capitals", "padded"}
  /\ r.name = n /\ r.capitals = c /\ r.padded = p

LEMMA SameName ==
  ASSUME NEW r, NEW n, NEW c, NEW p, Made(r, n, c, p)
  PROVE  r = Name(n, c, p)
<1> DEFINE t == Name(n, c, p)
<1>1. /\ t = [k \in {"name", "capitals", "padded"} |-> t[k]]
      /\ t.name = n /\ t.capitals = c /\ t.padded = p
  BY DEF Name
<1>2. \A k \in {"name", "capitals", "padded"} : r[k] = t[k]
  BY <1>1 DEF Made
<1> HIDE DEF t
<1> QED BY <1>1, <1>2 DEF t, Made

LEMMA KeyOfRecord ==
  ASSUME NEW n, NEW c, NEW p
  PROVE  /\ Lower(Name(n, c, p)) = Name(n, FALSE, p)
         /\ NormaliseModel(Name(n, c, p)) = Name(n, c, FALSE)
         /\ IndexKey(Name(n, c, p)) = Name(n, FALSE, FALSE)
<1>1. \A x, y, z : Lower(Name(x, y, z)) = Name(x, FALSE, z)
  <2> SUFFICES ASSUME NEW x, NEW y, NEW z PROVE Lower(Name(x, y, z)) = Name(x, FALSE, z)
    OBVIOUS
  <2> DEFINE r == Lower(Name(x, y, z))
  <2>1. Made(r, x, FALSE, z)
    BY DEF Made, Lower, Name
  <2> HIDE DEF r
  <2>2. r = Name(x, FALSE, z)
    BY <2>1, SameName
  <2> QED BY <2>2 DEF r
<1>2. NormaliseModel(Name(n, c, p)) = Name(n, c, FALSE)
  <2> DEFINE r == NormaliseModel(Name(n, c, p))
  <2>1. Made(r, n, c, FALSE)
    BY DEF Made, NormaliseModel, Name
  <2> HIDE DEF r
  <2>2. r = Name(n, c, FALSE)
    BY <2>1, SameName
  <2> QED BY <2>2 DEF r
<1> QED BY <1>1, <1>2 DEF IndexKey

LEMMA KeyOfName ==
  ASSUME NEW s, IsName(s), NEW m, Trimmed(m)
  PROVE  /\ Lower(m) = IndexKey(m) /\ NormaliseModel(m) = m
         /\ IndexKey(m) \in {Lower(s), IndexKey(s)} <=> IndexKey(s) = IndexKey(m)
<1>1. /\ Lower(s) = Name(s.name, FALSE, s.padded)
      /\ NormaliseModel(s) = Name(s.name, s.capitals, FALSE)
      /\ IndexKey(s) = Name(s.name, FALSE, FALSE)
  <2>1. s = Name(s.name, s.capitals, s.padded)
    BY DEF IsName, Name
  <2> DEFINE n == s.name
             c == s.capitals
             p == s.padded
  <2> HIDE DEF n, c, p
  <2>2. /\ Lower(Name(n, c, p)) = Name(n, FALSE, p)
        /\ NormaliseModel(Name(n, c, p)) = Name(n, c, FALSE)
        /\ IndexKey(Name(n, c, p)) = Name(n, FALSE, FALSE)
    BY KeyOfRecord
  <2>3. s = Name(n, c, p)
    BY <2>1 DEF n, c, p
  <2>4. /\ Lower(s) = Name(n, FALSE, p)
        /\ NormaliseModel(s) = Name(n, c, FALSE)
        /\ IndexKey(s) = Name(n, FALSE, FALSE)
    BY <2>2, <2>3
  <2> QED BY <2>4 DEF n, c, p
<1>2. m = Name(m.name, m.capitals, FALSE)
  BY DEF Trimmed, IsName, Name
<1>3. /\ NormaliseModel(m) = m
      /\ Lower(m) = Name(m.name, FALSE, FALSE)
      /\ IndexKey(m) = Name(m.name, FALSE, FALSE)
  BY <1>2, KeyOfRecord
<1>4. IndexKey(m) = Lower(s) => IndexKey(m) = IndexKey(s)
  <2> SUFFICES ASSUME IndexKey(m) = Lower(s) PROVE s.padded = FALSE
    BY <1>1
  <2>1. Lower(s).padded = s.padded /\ IndexKey(m).padded = FALSE
    BY <1>1, <1>3 DEF Name
  <2> QED BY <2>1
<1> QED BY <1>3, <1>4

LEMMA NamesAreNames ==
  ASSUME NEW i \in DOMAIN Catalogue, NEW s \in Names(Catalogue[i])
  PROVE  IsName(s)
<1>1. Catalogue[i] \in Range(Catalogue)
  BY CatalogueIsListed
<1>2. CASE s \in Range(Catalogue[i].models)
  BY <1>1, <1>2, MatchingAssumption
<1>3. CASE s \in {f.needs.model : f \in {g \in Range(Catalogue[i].fingerprints) :
                                           "model" \in DOMAIN g.needs}}
  BY <1>1, <1>3, MatchingAssumption
<1> QED BY <1>2, <1>3 DEF Names

(***************************************************************************)
(* The candidates for a model are its rivals, the last inserted first.     *)
(***************************************************************************)
LEMMA CandidatesAreRivals ==
  ASSUME NEW model, Trimmed(model)
  PROVE  Descends(Candidates(model), Rivals(model))
<1>1. ASSUME NEW i \in DOMAIN Catalogue
      PROVE  IndexKey(model) \in Keys(Catalogue[i])
               <=> \E s \in Names(Catalogue[i]) : IndexKey(s) = IndexKey(model)
  <2>1. IndexKey(model) \in Keys(Catalogue[i])
          <=> \E s \in Names(Catalogue[i]) : IndexKey(model) \in {Lower(s), IndexKey(s)}
    BY DEF Keys
  <2>2. \A s \in Names(Catalogue[i]) :
          IndexKey(model) \in {Lower(s), IndexKey(s)} <=> IndexKey(s) = IndexKey(model)
    BY NamesAreNames, KeyOfName
  <2> QED BY <2>1, <2>2
<1>2. {i \in DOMAIN Catalogue : Hit(IndexKey(model), i)} = Rivals(model)
  BY <1>1 DEF Hit, Rivals
<1>3. Lower(model) = IndexKey(model)
  BY KeyOfName DEF Trimmed
<1>4. Candidates(model) = ByModel(IndexKey(model))
  BY <1>3 DEF Candidates
<1> QED BY <1>2, <1>4, ByModelDescends

LEMMA ListingIsLast ==
  ASSUME NEW model, Trimmed(model), NEW candidates, NEW rivals, Descends(candidates, rivals)
  PROVE  LET listing == {i \in rivals : model \in Range(Catalogue[i].models)}
         IN Listing(candidates, model) = {i \in listing : \A j \in listing : i >= j}
<1> DEFINE places == {n \in DOMAIN candidates :
                        Range(Catalogue[candidates[n]].models) \cap {model, NormaliseModel(model)} # {}}
           listing == {i \in rivals : model \in Range(Catalogue[i].models)}
<1>a. /\ DOMAIN candidates \subseteq Nat
      /\ \A n \in DOMAIN candidates : candidates[n] \in Nat /\ candidates[n] \in rivals
      /\ \A i \in rivals : \E n \in DOMAIN candidates : candidates[n] = i
      /\ \A m, n \in DOMAIN candidates : m < n => candidates[m] > candidates[n]
  BY DEF Descends, Range
<1>1. NormaliseModel(model) = model
  BY KeyOfName DEF Trimmed
<1>2. \A n \in DOMAIN candidates : n \in places <=> candidates[n] \in listing
  BY <1>1, <1>a
<1>b. places \subseteq DOMAIN candidates /\ listing \subseteq rivals
  OBVIOUS
<1> HIDE DEF places, listing
<1>3. ASSUME NEW n \in places, \A k \in places : n <= k
      PROVE  candidates[n] \in listing /\ \A j \in listing : candidates[n] >= j
  <2>1. candidates[n] \in listing
    BY <1>2, <1>b
  <2>2. ASSUME NEW j \in listing PROVE candidates[n] >= j
    <3>1. PICK k \in places : candidates[k] = j
      BY <1>2, <1>a, <1>b
    <3>2. n <= k /\ n \in DOMAIN candidates /\ k \in DOMAIN candidates
      BY <1>3, <1>b
    <3>3. n = k \/ n < k
      BY <3>2, <1>a
    <3> QED BY <1>a, <3>1, <3>2, <3>3
  <2> QED BY <2>1, <2>2
<1>4. ASSUME NEW i \in listing, \A j \in listing : i >= j
      PROVE  \E n \in places : candidates[n] = i /\ \A k \in places : n <= k
  <2>1. PICK n \in places : candidates[n] = i
    BY <1>2, <1>a, <1>b
  <2>2. ASSUME NEW k \in places PROVE n <= k
    <3>1. candidates[n] >= candidates[k]
      BY <1>2, <1>4, <1>b, <2>1
    <3>2. n \in DOMAIN candidates /\ k \in DOMAIN candidates /\ n \in Nat /\ k \in Nat
      BY <1>a, <1>b
    <3>3. ~(k < n)
      BY <1>a, <3>1, <3>2
    <3> QED BY <3>2, <3>3
  <2> QED BY <2>1, <2>2
<1>5. Listing(candidates, model) = {candidates[n] : n \in {k \in places : \A j \in places : k <= j}}
  BY DEF Listing, places
<1>6. Listing(candidates, model) = {i \in listing : \A j \in listing : i >= j}
  BY <1>3, <1>4, <1>5
<1> QED BY <1>6 DEF listing

-----------------------------------------------------------------------------
(* The definition a device has is its own.                                 *)

LEMMA SoleCandidate ==
  ASSUME NEW candidates, NEW rivals, Descends(candidates, rivals), NEW i,
         rivals = {i}
  PROVE  Len(candidates) = 1 /\ candidates[1] = i
<1>a. /\ candidates \in Seq(Nat)
      /\ {candidates[n] : n \in DOMAIN candidates} = {i}
  BY DEF Descends, Range
<1>1. /\ Len(candidates) \in Nat /\ DOMAIN candidates = 1..Len(candidates)
      /\ \A n \in DOMAIN candidates : candidates[n] = i /\ candidates[n] \in Nat
  <2>1. /\ Len(candidates) \in Nat /\ DOMAIN candidates = 1..Len(candidates)
        /\ \A n \in DOMAIN candidates : candidates[n] \in Nat
    BY <1>a
  <2>2. ASSUME NEW n \in DOMAIN candidates PROVE candidates[n] = i
    <3>1. candidates[n] \in {candidates[m] : m \in DOMAIN candidates}
      OBVIOUS
    <3> QED BY <1>a, <3>1
  <2> QED BY <2>1, <2>2
<1>2. \E n \in DOMAIN candidates : candidates[n] = i
  BY <1>a
<1>3. Len(candidates) >= 1 /\ 1 \in DOMAIN candidates
  BY <1>1, <1>2
<1>4. ASSUME Len(candidates) >= 2 PROVE FALSE
  <2>1. 1 \in DOMAIN candidates /\ 2 \in DOMAIN candidates /\ 1 < 2
    BY <1>1, <1>4
  <2>2. candidates[1] > candidates[2]
    BY <2>1 DEF Descends
  <2>3. candidates[1] = candidates[2] /\ candidates[1] \in Nat
    BY <1>1, <2>1
  <2> QED BY <2>2, <2>3
<1> QED BY <1>1, <1>3, <1>4

BestRivals(rivals, dev) ==
  {i \in rivals : \E f \in Satisfied(i, dev) :
     \A j \in rivals : \A g \in Satisfied(j, dev) :
       f.priority > g.priority \/ (f.priority = g.priority /\ i >= j)}

(***************************************************************************)
(* The best claim is that of the one rival whose fingerprint wins.         *)
(***************************************************************************)
LEMMA BestClaimWins ==
  ASSUME NEW rivals \in SUBSET DOMAIN Catalogue, NEW dev, NEW b,
         IsBest(b, UNION {ClaimsOf(i, dev) : i \in rivals})
  PROVE  BestRivals(rivals, dev) = IF b = <<>> THEN {} ELSE {b[2]}
<1> DEFINE claims == UNION {ClaimsOf(i, dev) : i \in rivals}
<1>1. \A i \in rivals : \A f \in Satisfied(i, dev) :
        f.priority \in Int /\ i \in Nat /\ <<f.priority, i>> \in claims
  <2> SUFFICES ASSUME NEW i \in rivals, NEW f \in Satisfied(i, dev)
               PROVE  f.priority \in Int /\ i \in Nat /\ <<f.priority, i>> \in claims
    OBVIOUS
  <2>1. i \in Nat /\ Catalogue[i] \in Range(Catalogue)
    BY CatalogueIsListed
  <2>2. f \in Range(Catalogue[i].fingerprints) /\ f.priority \in Int
    BY <2>1, MatchingAssumption DEF Satisfied
  <2>3. <<f.priority, i>> \in ClaimsOf(i, dev)
    BY DEF ClaimsOf, Satisfied
  <2> QED BY <2>1, <2>2, <2>3
<1>2. \A c \in claims : \E i \in rivals : \E f \in Satisfied(i, dev) : c = <<f.priority, i>>
  BY DEF ClaimsOf, Satisfied
<1>a. IsBest(b, claims)
  OBVIOUS
<1> HIDE DEF claims
<1>3. CASE claims = {}
  <2>1. b = <<>>
    BY <1>3, <1>a DEF IsBest
  <2>2. \A i \in rivals : Satisfied(i, dev) = {}
    BY <1>1, <1>3
  <2> QED BY <2>1, <2>2 DEF BestRivals
<1>4. CASE claims # {}
  <2>1. b \in claims /\ \A c \in claims : b[1] > c[1] \/ (b[1] = c[1] /\ b[2] >= c[2])
    BY <1>4, <1>a DEF IsBest
  <2>2. PICK i \in rivals : \E f \in Satisfied(i, dev) : b = <<f.priority, i>>
    BY <1>2, <2>1
  <2>3. PICK f \in Satisfied(i, dev) : b = <<f.priority, i>>
    BY <2>2
  <2>4. b # <<>> /\ b[1] = f.priority /\ b[2] = i
    BY <2>3
  <2>5. \A j \in rivals : \A g \in Satisfied(j, dev) :
          f.priority > g.priority \/ (f.priority = g.priority /\ i >= j)
    <3> SUFFICES ASSUME NEW j \in rivals, NEW g \in Satisfied(j, dev)
                 PROVE  f.priority > g.priority \/ (f.priority = g.priority /\ i >= j)
      OBVIOUS
    <3> DEFINE c == <<g.priority, j>>
    <3>1. c \in claims /\ c[1] = g.priority /\ c[2] = j
      BY <1>1
    <3> HIDE DEF c
    <3>2. b[1] > c[1] \/ (b[1] = c[1] /\ b[2] >= c[2])
      BY <2>1, <3>1
    <3> QED BY <2>4, <3>1, <3>2
  <2>6. i \in BestRivals(rivals, dev)
    BY <2>5 DEF BestRivals
  <2>7. ASSUME NEW j \in BestRivals(rivals, dev) PROVE j = i
    <3>1. PICK g \in Satisfied(j, dev) :
            \A h \in rivals : \A e \in Satisfied(h, dev) :
              g.priority > e.priority \/ (g.priority = e.priority /\ j >= h)
      BY <2>7 DEF BestRivals
    <3>2. j \in rivals
      BY <2>7 DEF BestRivals
    <3>3. g.priority > f.priority \/ (g.priority = f.priority /\ j >= i)
      BY <3>1
    <3>4. f.priority > g.priority \/ (f.priority = g.priority /\ i >= j)
      BY <2>5, <3>2
    <3>5. f.priority \in Int /\ g.priority \in Int /\ i \in Nat /\ j \in Nat
      BY <1>1, <3>2
    <3> QED BY <3>3, <3>4, <3>5
  <2> QED BY <2>4, <2>6, <2>7
<1> QED BY <1>3, <1>4

(***************************************************************************)
(* What the index resolves a device to is who wins among its rivals.       *)
(***************************************************************************)
LEMMA ResolvesRightly ==
  ASSUME NEW dev, "model" \in DOMAIN dev.fields => Trimmed(dev.fields.model)
  PROVE  Resolve(dev) = Rightful(dev)
<1> DEFINE model == dev.fields.model
           rivals == Rivals(model)
           candidates == Candidates(model)
<1>1. CASE "model" \notin DOMAIN dev.fields
  BY <1>1 DEF Resolve, Rightful
<1>2. CASE "model" \in DOMAIN dev.fields
  <2> DEFINE best == Best(candidates, dev)
             listing == {i \in rivals : model \in Range(Catalogue[i].models)}
             last == {i \in listing : \A j \in listing : i >= j}
             sole == \E i \in rivals : rivals = {i} /\ Catalogue[i].models # <<>>
  <2>1. Trimmed(model)
    BY <1>2
  <2>2. Descends(candidates, rivals) /\ rivals \in SUBSET DOMAIN Catalogue
    BY <2>1, CandidatesAreRivals DEF Rivals
  <2>3. IsBest(best, UNION {ClaimsOf(i, dev) : i \in rivals})
    BY <2>2, BestIsBest
  <2>4. BestRivals(rivals, dev) = IF best = <<>> THEN {} ELSE {best[2]}
    BY <2>2, <2>3, BestClaimWins
  <2>5. Listing(candidates, model) = last
    BY <2>1, <2>2, ListingIsLast
  <2>6. Rightful(dev) = IF sole THEN rivals
                        ELSE IF BestRivals(rivals, dev) # {} THEN BestRivals(rivals, dev)
                        ELSE last
    BY <1>2 DEF Rightful, BestRivals
  <2>7. Resolve(dev) = IF Len(candidates) = 1 /\ Catalogue[candidates[1]].models # <<>>
                       THEN {candidates[1]}
                       ELSE IF best # <<>> THEN {best[2]}
                       ELSE Listing(candidates, model)
    BY <1>2 DEF Resolve
  <2> HIDE DEF model, rivals, candidates, best, last
  <2>8. CASE sole
    <3>1. PICK i \in rivals : rivals = {i} /\ Catalogue[i].models # <<>>
      BY <2>8
    <3>2. Len(candidates) = 1 /\ candidates[1] = i
      BY <2>2, <3>1, SoleCandidate
    <3> QED BY <2>6, <2>7, <2>8, <3>1, <3>2
  <2>9. CASE ~sole
    <3>1. ~(Len(candidates) = 1 /\ Catalogue[candidates[1]].models # <<>>)
      <4> SUFFICES ASSUME Len(candidates) = 1, Catalogue[candidates[1]].models # <<>>
                   PROVE  FALSE
        OBVIOUS
      <4>1. DOMAIN candidates = {1}
        BY <2>2 DEF Descends
      <4>2. rivals = {candidates[1]}
        BY <2>2, <4>1 DEF Descends, Range
      <4> QED BY <2>9, <4>2
    <3> QED BY <2>4, <2>5, <2>6, <2>7, <2>9, <3>1
  <2> QED BY <2>8, <2>9
<1> QED BY <1>1, <1>2

LEMMA AtMostOneIsRightful ==
  ASSUME NEW dev, "model" \in DOMAIN dev.fields => Trimmed(dev.fields.model)
  PROVE  /\ Rightful(dev) \in SUBSET DOMAIN Catalogue
         /\ \A i, j \in Rightful(dev) : i = j
<1>1. CASE "model" \notin DOMAIN dev.fields
  BY <1>1 DEF Rightful
<1>2. CASE "model" \in DOMAIN dev.fields
  <2> DEFINE model == dev.fields.model
             rivals == Rivals(model)
             listing == {i \in rivals : model \in Range(Catalogue[i].models)}
             last == {i \in listing : \A j \in listing : i >= j}
             sole == \E i \in rivals : rivals = {i} /\ Catalogue[i].models # <<>>
  <2>1. rivals \in SUBSET DOMAIN Catalogue /\ rivals \subseteq Nat
    BY CatalogueIsListed DEF Rivals
  <2>2. Descends(Candidates(model), rivals)
    BY <1>2, CandidatesAreRivals
  <2>3. IsBest(Best(Candidates(model), dev), UNION {ClaimsOf(i, dev) : i \in rivals})
    BY <2>1, <2>2, BestIsBest
  <2>4. \E b : BestRivals(rivals, dev) = IF b = <<>> THEN {} ELSE {b[2]}
    BY <2>1, <2>3, BestClaimWins
  <2>5. \A i, j \in last : i = j
    <3> SUFFICES ASSUME NEW i \in last, NEW j \in last PROVE i = j
      OBVIOUS
    <3>1. i >= j /\ j >= i /\ i \in Nat /\ j \in Nat
      BY <2>1
    <3> QED BY <3>1
  <2>6. Rightful(dev) = IF sole THEN rivals
                        ELSE IF BestRivals(rivals, dev) # {} THEN BestRivals(rivals, dev)
                        ELSE last
    BY <1>2 DEF Rightful, BestRivals
  <2>7. BestRivals(rivals, dev) \subseteq rivals /\ last \subseteq rivals
    BY DEF BestRivals
  <2> HIDE DEF rivals, last, model
  <2> QED BY <2>1, <2>4, <2>5, <2>6, <2>7
<1> QED BY <1>1, <1>2

(***************************************************************************)
(* What the interview heard of a model has no padding.                     *)
(***************************************************************************)
LEMMA HeardIsTrimmed ==
  ASSUME NEW i \in Identity, NEW b \in {<<>>, Heard(i)}, "model" \in DOMAIN b
  PROVE  Trimmed(b.model)
<1>1. b = Heard(i)
  OBVIOUS
<1>2. "model" \in DOMAIN i /\ b.model = Text(i.model)
  BY <1>1 DEF Heard
<1>3. IsName(i.model)
  BY <1>2, CommandsAssumption
<1>4. i.model = Name(i.model.name, i.model.capitals, i.model.padded)
  BY <1>3 DEF IsName, Name
<1>5. Text(i.model) = NormaliseModel(i.model)
  BY DEF Text, NormaliseModel
<1>6. b.model = Name(i.model.name, i.model.capitals, FALSE)
  <2>1. NormaliseModel(Name(i.model.name, i.model.capitals, i.model.padded))
          = Name(i.model.name, i.model.capitals, FALSE)
    BY KeyOfRecord
  <2> QED BY <1>2, <1>4, <1>5, <2>1
<1> QED BY <1>6 DEF Trimmed, IsName, Name

\* The definition a device has follows from what is known of it.
Follows ==
  /\ identity \in Identity
  /\ basic \in {<<>>, Heard(identity)}
  /\ def = Resolved(basic, known)

(***************************************************************************)
(* What a device resolves to is what is rightful, and nothing else is.     *)
(***************************************************************************)
LEMMA ResolvedIsRightful ==
  ASSUME NEW b, NEW eps, "model" \in DOMAIN b => Trimmed(b.model)
  PROVE  /\ {Catalogue[i] : i \in Rightful(DeviceMatch(b, eps))} = {Resolved(b, eps)} \ {None}
         /\ Resolved(b, eps) \in Range(Catalogue) \cup {None}
<1> DEFINE dev == DeviceMatch(b, eps)
           found == Rightful(dev)
<1>1. dev.fields = b
  BY DEF DeviceMatch
<1>2. Resolve(dev) = found
  BY <1>1, ResolvesRightly
<1>3. found \in SUBSET DOMAIN Catalogue /\ \A i, j \in found : i = j
  BY <1>1, AtMostOneIsRightful
<1>4. Resolved(b, eps) = IF found = {} THEN None ELSE Catalogue[CHOOSE i \in found : TRUE]
  BY <1>2 DEF Resolved
<1> HIDE DEF dev, found
<1>5. CASE found = {}
  BY <1>4, <1>5 DEF found, dev
<1>6. CASE found # {}
  <2>1. PICK i \in found : i = CHOOSE j \in found : TRUE
    BY <1>6
  <2>2. found = {i}
    BY <1>3
  <2>3. Resolved(b, eps) = Catalogue[i]
    BY <1>4, <1>6, <2>1
  <2>4. Catalogue[i] \in Range(Catalogue)
    BY <1>3, CatalogueIsListed
  <2>5. Catalogue[i] # None
    BY <2>4, CommandsAssumption
  <2> QED BY <2>2, <2>3, <2>4, <2>5 DEF found, dev
<1> QED BY <1>5, <1>6

LEMMA FollowsIsOwn == Follows => ItsOwnDefinition
BY HeardIsTrimmed, ResolvedIsRightful DEF Follows, ItsOwnDefinition

LEMMA FollowsIsCatalogued == Follows => def \in Range(Catalogue) \cup {None}
BY HeardIsTrimmed, ResolvedIsRightful DEF Follows

LEMMA InitFollows == Init => Follows
BY DEF Init, Follows

LEMMA StepFollows == Follows /\ [Next]_vars => Follows'
<1> SUFFICES ASSUME Follows, [Next]_vars PROVE Follows'
  OBVIOUS
<1>1. CASE UNCHANGED <<itself, facts>>
  BY <1>1 DEF Follows, itself, facts
<1>2. CASE Interviewed
  BY <1>2 DEF Interviewed, Learned, Follows, itself
<1>3. ASSUME NEW c, RunCommand(c) PROVE UNCHANGED <<itself, facts>>
  BY <1>3 DEF RunCommand
<1>4. ASSUME NEW p, NEW v, Changes(p, v) PROVE UNCHANGED <<itself, facts>>
  BY <1>4 DEF Changes
<1>5. ASSUME NEW p, Report(p) PROVE UNCHANGED <<itself, facts>>
  BY <1>5 DEF Report
<1>6. CASE Configure \/ Bind \/ BindingDone \/ Untyped \/ ConfigureReporting
  BY <1>1, <1>6 DEF Configure, Bind, BindingDone, Untyped, ConfigureReporting, NextStep
<1>7. CASE UNCHANGED vars
  BY <1>1, <1>7 DEF vars, itself, facts
<1> QED BY <1>1, <1>2, <1>3, <1>4, <1>5, <1>6, <1>7 DEF Next

(***************************************************************************)
(* The definition a device has is the one that is its own: what resolve()  *)
(* comes to by way of the index, in the order of insertion and with its    *)
(* shortcut for a sole candidate (index.rs), is who is rightful by the     *)
(* catalogue alone, and it is so again after every interview.              *)
(***************************************************************************)
THEOREM Own == Spec => []ItsOwnDefinition
BY InitFollows, StepFollows, FollowsIsOwn, PTL DEF Spec

-----------------------------------------------------------------------------
(* Sequences put together.                                                 *)

Listed(s) == s \in Seq(Range(s))

\* What two sequences put together have is what each has.
LEMMA Concatenated ==
  ASSUME NEW S, NEW s \in Seq(S), NEW t \in Seq(S)
  PROVE  s \o t \in Seq(S) /\ Range(s \o t) = Range(s) \cup Range(t)
<1> DEFINE r == s \o t
<1>1. /\ r \in Seq(S) /\ Len(s) \in Nat /\ Len(t) \in Nat
      /\ DOMAIN r = 1..(Len(s) + Len(t))
      /\ DOMAIN s = 1..Len(s) /\ DOMAIN t = 1..Len(t)
      /\ \A i \in 1..Len(s) : r[i] = s[i]
      /\ \A i \in 1..Len(t) : r[Len(s) + i] = t[i]
  OBVIOUS
<1> HIDE DEF r
<1>2. \A i \in DOMAIN s : i \in DOMAIN r /\ r[i] = s[i]
  BY <1>1
<1>3. \A i \in DOMAIN t : Len(s) + i \in DOMAIN r /\ r[Len(s) + i] = t[i]
  BY <1>1
<1>4. \A i \in DOMAIN r : i \in DOMAIN s \/ (i - Len(s) \in DOMAIN t /\ r[i] = t[i - Len(s)])
  <2> SUFFICES ASSUME NEW i \in DOMAIN r, i \notin DOMAIN s
               PROVE  i - Len(s) \in DOMAIN t /\ r[i] = t[i - Len(s)]
    OBVIOUS
  <2>1. i - Len(s) \in 1..Len(t) /\ Len(s) + (i - Len(s)) = i
    BY <1>1
  <2> QED BY <1>1, <2>1
<1>5. Range(r) = Range(s) \cup Range(t)
  <2>1. \A x \in Range(r) : x \in Range(s) \cup Range(t)
    BY <1>2, <1>4 DEF Range
  <2>2. \A x \in Range(s) : x \in Range(r)
    BY <1>2 DEF Range
  <2>3. \A x \in Range(t) : x \in Range(r)
    BY <1>3 DEF Range
  <2> QED BY <2>1, <2>2, <2>3
<1> QED BY <1>1, <1>5 DEF r

LEMMA ListedIs == ASSUME NEW S, NEW s \in Seq(S) PROVE Listed(s)
BY DEF Listed, Range

LEMMA Joined ==
  ASSUME NEW s, Listed(s), NEW t, Listed(t)
  PROVE  Listed(s \o t) /\ Range(s \o t) = Range(s) \cup Range(t)
<1> DEFINE S == Range(s) \cup Range(t)
<1>1. s \in Seq(S) /\ t \in Seq(S)
  BY DEF Listed
<1> HIDE DEF S
<1>2. s \o t \in Seq(S) /\ Range(s \o t) = Range(s) \cup Range(t)
  BY <1>1, Concatenated
<1> QED BY <1>2, ListedIs

Flat(f, seqs) ==
  f = [i \in 1..Len(seqs) |-> IF i = 1 THEN seqs[i] ELSE f[i - 1] \o seqs[i]]

LEMMA FlatExists ==
  ASSUME NEW S, NEW seqs \in Seq(Seq(S))
  PROVE  \E f \in [1..Len(seqs) -> Seq(S)] : Flat(f, seqs)
<1> DEFINE n == Len(seqs)
           Q == Seq(S)
           G(k, s) == IF k = 1 THEN seqs[1] ELSE s \o seqs[k]
           g == [k \in 1..n |-> [s \in Q |-> G(k, s)]]
<1>1. n \in Nat /\ <<>> \in Q /\ \A k \in 1..n : seqs[k] \in Q /\ (1 \in 1..n)
  OBVIOUS
<1>2. g \in [1..n -> [Q -> Q]]
  <2> SUFFICES ASSUME NEW k \in 1..n, NEW s \in Q PROVE G(k, s) \in Q
    OBVIOUS
  <2> QED BY <1>1
<1>3. \A k \in 1..n, s \in Q : g[k][s] = G(k, s)
  OBVIOUS
<1> HIDE DEF n, g, Q, G
<1>c. \E f \in [0..n -> Q] : f[0] = <<>> /\ \A k \in 1..n : f[k] = g[k][f[k - 1]]
  <2>1. Leads(Q, <<>>, n, g)
    BY <1>1, <1>2, StepsExist
  <2> QED BY <2>1 DEF Leads
<1>4. PICK h \in [0..n -> Q] : h[0] = <<>> /\ \A k \in 1..n : h[k] = g[k][h[k - 1]]
  BY <1>c
<1> DEFINE f == [k \in 1..n |-> h[k]]
<1>5. \A k \in 1..n : k \in 0..n /\ k - 1 \in 0..n /\ h[k] \in Q /\ h[k - 1] \in Q
  BY <1>1, <1>4
<1>6. f \in [1..n -> Q]
  BY <1>5
<1>7. ASSUME NEW k \in 1..n PROVE f[k] = IF k = 1 THEN seqs[k] ELSE f[k - 1] \o seqs[k]
  <2>1. f[k] = G(k, h[k - 1])
    BY <1>3, <1>4, <1>5
  <2>2. k # 1 => k - 1 \in 1..n /\ f[k - 1] = h[k - 1]
    BY <1>1
  <2> HIDE DEF f
  <2> QED BY <2>1, <2>2 DEF G
<1>8. f = [k \in 1..n |-> IF k = 1 THEN seqs[k] ELSE f[k - 1] \o seqs[k]]
  <2>1. f = [k \in 1..n |-> f[k]]
    OBVIOUS
  <2> HIDE DEF f
  <2> QED BY <1>7, <2>1
<1> HIDE DEF f
<1>9. Flat(f, seqs)
  BY <1>8 DEF Flat, n
<1> QED BY <1>6, <1>9 DEF n, Q

(***************************************************************************)
(* What is flattened has the elements of each, and no other.               *)
(***************************************************************************)
LEMMA Flattens ==
  ASSUME NEW S, NEW seqs \in Seq(Seq(S))
  PROVE  /\ Listed(FlattenSeq(seqs))
         /\ Range(FlattenSeq(seqs)) = UNION {Range(seqs[i]) : i \in DOMAIN seqs}
<1> DEFINE n == Len(seqs)
           All(k) == UNION {Range(seqs[i]) : i \in 1..k}
<1>1. n \in Nat /\ DOMAIN seqs = 1..n /\ \A i \in 1..n : seqs[i] \in Seq(S)
  OBVIOUS
<1>2. CASE n = 0
  <2>1. FlattenSeq(seqs) = <<>> /\ DOMAIN seqs = {}
    BY <1>1, <1>2 DEF FlattenSeq
  <2> QED BY <2>1 DEF Listed, Range
<1>3. CASE n # 0
  <2> DEFINE f == CHOOSE f : Flat(f, seqs)
  <2>1. Flat(f, seqs)
    BY FlatExists, Zenon
  <2>2. FlattenSeq(seqs) = f[n]
    BY <1>3 DEF FlattenSeq, Flat
  <2>3. \A i \in 1..n : f[i] = IF i = 1 THEN seqs[i] ELSE f[i - 1] \o seqs[i]
    BY <2>1 DEF Flat
  <2> HIDE DEF f
  <2> DEFINE T == {k \in 0..n : k # 0 => f[k] \in Seq(S) /\ Range(f[k]) = All(k)}
  <2>4. 0 \in T
    BY <1>1
  <2>5. ASSUME NEW k \in 1..n, k - 1 \in T PROVE k \in T
    <3>1. k \in 0..n /\ seqs[k] \in Seq(S)
      BY <1>1
    <3>2. CASE k = 1
      <4>1. f[k] = seqs[k]
        BY <2>3, <3>2
      <4>2. All(k) = Range(seqs[k])
        BY <3>2
      <4> HIDE DEF All
      <4> QED BY <3>1, <4>1, <4>2
    <3>3. CASE k # 1
      <4>1. f[k] = f[k - 1] \o seqs[k]
        BY <2>3, <3>3
      <4>2. f[k - 1] \in Seq(S) /\ Range(f[k - 1]) = All(k - 1)
        BY <2>5, <3>3, <1>1
      <4>3. 1..k = 1..(k - 1) \cup {k}
        BY <1>1
      <4>4. All(k) = All(k - 1) \cup Range(seqs[k])
        BY <4>3
      <4> HIDE DEF All
      <4>6. f[k] \in Seq(S) /\ Range(f[k]) = All(k)
        BY <3>1, <4>1, <4>2, <4>4, Concatenated
      <4> QED BY <3>1, <4>6
    <3> QED BY <3>2, <3>3
  <2> HIDE DEF T
  <2>6. n \in T
    <3> HIDE DEF n
    <3>1. 0..n \subseteq T
      BY <1>1, <2>4, <2>5, UpTo
    <3> QED BY <1>1, <3>1
  <2>7. f[n] \in Seq(S) /\ Range(f[n]) = All(n)
    BY <1>3, <2>6 DEF T
  <2>8. Listed(f[n])
    <3> DEFINE r == f[n]
    <3>1. r \in Seq(S)
      BY <2>7
    <3> HIDE DEF r
    <3>2. r \in Seq(Range(r))
      BY <3>1 DEF Range
    <3> QED BY <3>2 DEF Listed, r
  <2> QED BY <1>1, <2>2, <2>7, <2>8
<1> QED BY <1>2, <1>3

LEMMA OneOf ==
  ASSUME NEW x
  PROVE  Listed(<<x>>) /\ Range(<<x>>) = {x} /\ Listed(<<>>) /\ Range(<<>>) = {}
BY DEF Listed, Range

LEMMA Whenever ==
  ASSUME NEW p, NEW x
  PROVE  /\ Listed(When(p, x))
         /\ Range(When(p, x)) = IF p THEN {x} ELSE {}
BY OneOf DEF When

(***************************************************************************)
(* What an extension implies is a list.                                    *)
(***************************************************************************)
LEMMA ImpliedIsListed ==
  ASSUME NEW e
  PROVE  Listed(Implied(e))
<1> DEFINE s == Boolean("state", "onOff")
<1> HIDE DEF s
<1>1. CASE e.kind = "light"
  <2>1. Implied(e) = <<s>> \o When(e.brightness, Numeric("brightness", "level", 0, 1))
    BY <1>1 DEF Implied, s
  <2> QED BY <2>1, OneOf, Whenever, Joined
<1>2. CASE e.kind = "cover"
  <2>1. Implied(e) = When(e.lift, Numeric("position", "cover", 8, 1))
                       \o When(e.tilt, Numeric("tilt", "cover", 9, 1))
    BY <1>2 DEF Implied
  <2> QED BY <2>1, Whenever, Joined
<1>3. CASE e.kind = "onOff"
  <2>1. Implied(e) = <<s>>
    BY <1>3 DEF Implied, s
  <2> QED BY <2>1, OneOf
<1>4. CASE e.kind = "lock"
  <2>1. Implied(e) = <<Boolean("lock", "lock")>>
    BY <1>4 DEF Implied
  <2> QED BY <2>1, OneOf
<1>5. CASE e.kind = "source"
  <2>1. Implied(e) = <<e.source>>
    BY <1>5 DEF Implied
  <2> QED BY <2>1, OneOf
<1>6. CASE e.kind \notin {"onOff", "light", "cover", "lock", "source"}
  <2>1. Implied(e) = <<>>
    BY <1>6 DEF Implied
  <2> QED BY <2>1, OneOf
<1> QED BY <1>1, <1>2, <1>3, <1>4, <1>5, <1>6

(***************************************************************************)
(* The sources of a definition are those that its extensions imply.        *)
(***************************************************************************)
LEMMA SourcesAreImplied ==
  ASSUME NEW d \in Range(Catalogue)
  PROVE  /\ Listed(Sources(d))
         /\ Range(Sources(d)) = UNION {Range(Implied(e)) : e \in Range(d.extend)}
<1> DEFINE seqs == [i \in DOMAIN d.extend |-> Implied(d.extend[i])]
           S == UNION {Range(Implied(d.extend[i])) : i \in DOMAIN d.extend}
           n == Len(d.extend)
<1>1. d.extend \in Seq(Range(d.extend))
  BY DefinitionsAreLists
<1>2. n \in Nat /\ DOMAIN d.extend = 1..n
  BY <1>1
<1>3. ASSUME NEW i \in 1..n PROVE seqs[i] \in Seq(S)
  <2> DEFINE r == Implied(d.extend[i])
  <2>1. r \in Seq(Range(r))
    BY ImpliedIsListed DEF Listed
  <2>2. Range(r) \subseteq S
    BY <1>2
  <2>3. seqs[i] = r
    BY <1>2
  <2> HIDE DEF r, S, seqs
  <2> QED BY <2>1, <2>2, <2>3
<1>4. seqs \in [1..n -> Seq(S)]
  <2>1. seqs = [i \in 1..n |-> seqs[i]]
    BY <1>2
  <2> HIDE DEF seqs, S
  <2> QED BY <1>3, <2>1
<1>5. seqs \in Seq(Seq(S))
  <2> HIDE DEF seqs, S, n
  <2> QED BY <1>2, <1>4
<1>6. Sources(d) = FlattenSeq(seqs)
  BY DEF Sources
<1>7. UNION {Range(seqs[i]) : i \in DOMAIN seqs}
        = UNION {Range(Implied(e)) : e \in Range(d.extend)}
  <2>1. \A e : e \in Range(d.extend) <=> \E i \in 1..n : e = d.extend[i]
    BY <1>2 DEF Range
  <2>2. DOMAIN seqs = 1..n /\ \A i \in 1..n : seqs[i] = Implied(d.extend[i])
    BY <1>2
  <2> HIDE DEF seqs, n
  <2>3. \A x : x \in UNION {Range(seqs[i]) : i \in DOMAIN seqs}
                <=> \E i \in 1..n : x \in Range(Implied(d.extend[i]))
    BY <2>2
  <2>4. \A x : x \in UNION {Range(Implied(e)) : e \in Range(d.extend)}
                <=> \E i \in 1..n : x \in Range(Implied(d.extend[i]))
    BY <2>1
  <2> QED BY <2>3, <2>4
<1> HIDE DEF seqs, S
<1> QED BY <1>5, <1>6, <1>7, Flattens

(***************************************************************************)
(* An attribute a source has feeds something.                              *)
(***************************************************************************)
LEMMA SourceFeeds ==
  ASSUME NEW d \in Range(Catalogue), NEW s \in Range(Sources(d))
  PROVE  Feeds(d, s.cluster, s.attr) # {}
<1> DEFINE r == Sources(d)
           from == {j \in DOMAIN r : r[j].cluster = s.cluster /\ r[j].attr = s.attr}
<1>1. DOMAIN r \subseteq Nat
  BY SourcesAreImplied DEF Listed
<1>2. from # {}
  BY DEF Range
<1>3. from \subseteq Nat
  BY <1>1
<1>4. Feeds(d, s.cluster, s.attr) = {r[i] : i \in FirstOf(from)}
  BY DEF Feeds
<1> HIDE DEF from
<1>5. FirstOf(from) # {}
  BY <1>2, <1>3, LeastNatural DEF FirstOf
<1> QED BY <1>4, <1>5

(***************************************************************************)
(* What feeds an attribute is a source of it.                              *)
(***************************************************************************)
LEMMA FeedsAreSources ==
  ASSUME NEW d, NEW cluster, NEW attr, NEW s \in Feeds(d, cluster, attr)
  PROVE  s \in Range(Sources(d)) /\ s.cluster = cluster /\ s.attr = attr
BY DEF Feeds, FirstOf, Range

-----------------------------------------------------------------------------
(* The configure plan.                                                     *)

\* A step that only binds, or one attribute whose type is known if it feeds
\* a capability.
Sound(d, step) ==
  step.attrs = {} \/ \E a : /\ step.attrs = {a}
                            /\ Feeds(d, step.cluster, a) # {} => step.typed = TRUE

\* The steps of one binding, as Explicit has them.
BindingSteps(d, eps, b) ==
  IF eps # <<>> /\ ~Known(eps, b.ep) THEN <<>>
  ELSE IF b.reporting = <<>> THEN <<Step(b.ep, b.cluster, {}, FALSE)>>
  ELSE [i \in DOMAIN b.reporting |->
          Step(b.ep, b.cluster, {b.reporting[i]}, Feeds(d, b.cluster, b.reporting[i]) # {})]

LEMMA BindingIsSound ==
  ASSUME NEW d \in Range(Catalogue), NEW eps, NEW b \in Range(d.bindings)
  PROVE  /\ Listed(BindingSteps(d, eps, b))
         /\ \A x \in Range(BindingSteps(d, eps, b)) : Sound(d, x)
         /\ eps = <<>> \/ Known(eps, b.ep) =>
              \E x \in Range(BindingSteps(d, eps, b)) : Pair(x) = <<b.ep, b.cluster>>
<1> DEFINE r == BindingSteps(d, eps, b)
           only == Step(b.ep, b.cluster, {}, FALSE)
           G(i) == Step(b.ep, b.cluster, {b.reporting[i]}, Feeds(d, b.cluster, b.reporting[i]) # {})
<1>1. CASE eps # <<>> /\ ~Known(eps, b.ep)
  <2>1. r = <<>>
    BY <1>1 DEF BindingSteps
  <2> QED BY <1>1, <2>1, OneOf
<1>2. CASE ~(eps # <<>> /\ ~Known(eps, b.ep)) /\ b.reporting = <<>>
  <2>1. r = <<only>>
    BY <1>2 DEF BindingSteps
  <2>2. Sound(d, only) /\ Pair(only) = <<b.ep, b.cluster>>
    BY DEF Sound, Step, Pair
  <2> HIDE DEF only
  <2>3. Listed(<<only>>) /\ Range(<<only>>) = {only}
    BY OneOf
  <2> QED BY <2>1, <2>2, <2>3
<1>3. CASE ~(eps # <<>> /\ ~Known(eps, b.ep)) /\ b.reporting # <<>>
  <2> DEFINE n == Len(b.reporting)
  <2>1. b.reporting \in Seq(Range(b.reporting))
    BY DefinitionsAreLists
  <2>2. n \in Nat /\ DOMAIN b.reporting = 1..n /\ n # 0
    BY <1>3, <2>1
  <2>3. r = [i \in 1..n |-> G(i)]
    BY <1>3, <2>2 DEF BindingSteps
  <2>4. ASSUME NEW i \in 1..n PROVE Sound(d, G(i)) /\ Pair(G(i)) = <<b.ep, b.cluster>>
    <3>1. /\ G(i).attrs = {b.reporting[i]} /\ G(i).cluster = b.cluster
          /\ G(i).typed = (Feeds(d, b.cluster, b.reporting[i]) # {})
          /\ Pair(G(i)) = <<b.ep, b.cluster>>
      BY DEF Step, Pair
    <3> HIDE DEF G
    <3> QED BY <3>1 DEF Sound
  <2> HIDE DEF G, n, r
  <2>5. DOMAIN r = 1..n /\ \A i \in 1..n : r[i] = G(i)
    BY <2>3
  <2>6. r \in [1..n -> Range(r)]
    BY <2>3 DEF Range
  <2>7. Listed(r)
    BY <2>2, <2>6 DEF Listed
  <2>8. \A x \in Range(r) : Sound(d, x)
    BY <2>4, <2>5 DEF Range
  <2>9. r[1] \in Range(r) /\ Pair(r[1]) = <<b.ep, b.cluster>>
    <3>1. 1 \in 1..n
      BY <2>2
    <3> QED BY <2>4, <2>5, <3>1 DEF Range
  <2> QED BY <2>7, <2>8, <2>9 DEF r
<1> QED BY <1>1, <1>2, <1>3

(***************************************************************************)
(* What a definition lists becomes sound steps, one for each binding.      *)
(***************************************************************************)
LEMMA ExplicitIsSound ==
  ASSUME NEW d \in Range(Catalogue), NEW eps
  PROVE  /\ Listed(Explicit(d, eps))
         /\ \A x \in Range(Explicit(d, eps)) : Sound(d, x)
         /\ \A b \in Range(d.bindings) :
              eps = <<>> \/ Known(eps, b.ep) =>
                \E x \in Range(Explicit(d, eps)) : Pair(x) = <<b.ep, b.cluster>>
<1> DEFINE n == Len(d.bindings)
           seqs == [i \in DOMAIN d.bindings |-> BindingSteps(d, eps, d.bindings[i])]
           S == UNION {Range(BindingSteps(d, eps, b)) : b \in Range(d.bindings)}
<1>1. d.bindings \in Seq(Range(d.bindings))
  BY DefinitionsAreLists
<1>2. /\ n \in Nat /\ DOMAIN d.bindings = 1..n
      /\ \A i \in 1..n : d.bindings[i] \in Range(d.bindings)
      /\ \A b \in Range(d.bindings) : \E i \in 1..n : b = d.bindings[i]
  BY <1>1 DEF Range
<1>3. DOMAIN seqs = 1..n /\ \A i \in 1..n : seqs[i] = BindingSteps(d, eps, d.bindings[i])
  BY <1>2
<1>4. ASSUME NEW i \in 1..n PROVE seqs[i] \in Seq(S)
  <2> DEFINE r == seqs[i]
  <2>1. r \in Seq(Range(r))
    BY <1>2, <1>3, BindingIsSound DEF Listed
  <2>2. Range(r) \subseteq S
    BY <1>2, <1>3
  <2> HIDE DEF r, S, seqs
  <2>3. r \in Seq(S)
    BY <2>1, <2>2
  <2> QED BY <2>3 DEF r
<1>5. seqs \in Seq(Seq(S))
  <2>1. seqs = [i \in 1..n |-> seqs[i]]
    BY <1>2
  <2> HIDE DEF seqs, S, n
  <2>2. seqs \in [1..n -> Seq(S)]
    BY <1>4, <2>1
  <2> QED BY <1>2, <2>2
<1>6. Explicit(d, eps) = FlattenSeq(seqs)
  BY DEF Explicit, BindingSteps
<1> HIDE DEF seqs, S, n
<1>7. /\ Listed(Explicit(d, eps))
      /\ Range(Explicit(d, eps)) = UNION {Range(seqs[i]) : i \in 1..n}
  BY <1>3, <1>5, <1>6, Flattens
<1>8. \A x \in Range(Explicit(d, eps)) : Sound(d, x)
  BY <1>2, <1>3, <1>7, BindingIsSound
<1>9. ASSUME NEW b \in Range(d.bindings), eps = <<>> \/ Known(eps, b.ep)
      PROVE  \E x \in Range(Explicit(d, eps)) : Pair(x) = <<b.ep, b.cluster>>
  <2>1. PICK i \in 1..n : b = d.bindings[i]
    BY <1>2
  <2>2. \E x \in Range(seqs[i]) : Pair(x) = <<b.ep, b.cluster>>
    BY <1>3, <1>9, <2>1, BindingIsSound
  <2> QED BY <1>7, <2>2
<1> QED BY <1>7, <1>8, <1>9

PlanSoFar(f, d, eps) ==
  f = [n \in 0..Len(ImpliedSteps(d, eps)) |->
         IF n = 0 THEN Explicit(d, eps) ELSE UnlessSeen(f[n - 1], ImpliedSteps(d, eps)[n])]

LEMMA ImpliedStepsAreSources ==
  ASSUME NEW d \in Range(Catalogue), NEW eps
  PROVE  /\ Len(ImpliedSteps(d, eps)) \in Nat
         /\ DOMAIN ImpliedSteps(d, eps) = 1..Len(ImpliedSteps(d, eps))
         /\ \A s \in Range(Sources(d)) : \E n \in 1..Len(ImpliedSteps(d, eps)) :
              Key(ImpliedSteps(d, eps)[n]) = <<HostOf(eps, s.cluster), s.cluster, {s.attr}>>
         /\ \A n \in 1..Len(ImpliedSteps(d, eps)) : Sound(d, ImpliedSteps(d, eps)[n])
<1> DEFINE src == Sources(d)
           G(i) == Step(HostOf(eps, src[i].cluster), src[i].cluster, {src[i].attr}, TRUE)
           r == ImpliedSteps(d, eps)
           n == Len(src)
<1>1. n \in Nat /\ DOMAIN src = 1..n
  BY SourcesAreImplied DEF Listed
<1>2. r = [i \in 1..n |-> G(i)]
  BY <1>1 DEF ImpliedSteps
<1>3. \A i \in 1..n : /\ Key(G(i)) = <<HostOf(eps, src[i].cluster), src[i].cluster, {src[i].attr}>>
                      /\ Sound(d, G(i))
  BY DEF Step, Key, Sound
<1> HIDE DEF r, G, n
<1>4. Len(r) = n /\ DOMAIN r = 1..n /\ \A i \in 1..n : r[i] = G(i)
  BY <1>1, <1>2
<1>5. \A s \in Range(src) : \E i \in 1..n : s = src[i]
  BY <1>1 DEF Range
<1> QED BY <1>1, <1>3, <1>4, <1>5 DEF r

LEMMA UnlessSeenAdds ==
  ASSUME NEW S, NEW s \in Seq(S), NEW x \in S
  PROVE  /\ UnlessSeen(s, x) \in Seq(S)
         /\ Range(s) \subseteq Range(UnlessSeen(s, x))
         /\ \E y \in Range(UnlessSeen(s, x)) : Key(y) = Key(x)
<1>1. CASE \E y \in Range(s) : Key(y) = Key(x)
  BY <1>1 DEF UnlessSeen
<1>2. CASE ~\E y \in Range(s) : Key(y) = Key(x)
  <2> DEFINE r == Append(s, x)
  <2>1. UnlessSeen(s, x) = r
    BY <1>2 DEF UnlessSeen
  <2>2. /\ r \in Seq(S) /\ DOMAIN s = 1..Len(s) /\ Len(s) \in Nat
        /\ DOMAIN r = 1..(Len(s) + 1) /\ r[Len(s) + 1] = x
        /\ \A i \in 1..Len(s) : r[i] = s[i]
    OBVIOUS
  <2> HIDE DEF r
  <2>3. Range(s) \subseteq Range(r)
    BY <2>2 DEF Range
  <2>4. x \in Range(r)
    BY <2>2 DEF Range
  <2> QED BY <2>1, <2>2, <2>3, <2>4
<1> QED BY <1>1, <1>2

LEMMA PlanSoFarExists ==
  ASSUME NEW d \in Range(Catalogue), NEW eps
  PROVE  \E f : PlanSoFar(f, d, eps)
<1> DEFINE r == ImpliedSteps(d, eps)
           e == Explicit(d, eps)
           n == Len(r)
           S == Range(e) \cup {r[i] : i \in 1..n}
           Q == Seq(S)
           g == [k \in 1..n |-> [s \in Q |-> UnlessSeen(s, r[k])]]
<1>1. n \in Nat
  BY ImpliedStepsAreSources
<1>2. e \in Q
  BY ExplicitIsSound DEF Listed
<1>3. g \in [1..n -> [Q -> Q]]
  <2> SUFFICES ASSUME NEW k \in 1..n, NEW s \in Q PROVE UnlessSeen(s, r[k]) \in Q
    OBVIOUS
  <2>1. r[k] \in S
    OBVIOUS
  <2> HIDE DEF S, r
  <2> QED BY <2>1, UnlessSeenAdds
<1>4. \A k \in 1..n, s \in Q : g[k][s] = UnlessSeen(s, r[k])
  OBVIOUS
<1> HIDE DEF n, g, Q, S, e, r
<1>c. \E f \in [0..n -> Q] : f[0] = e /\ \A k \in 1..n : f[k] = g[k][f[k - 1]]
  <2>1. Leads(Q, e, n, g)
    BY <1>1, <1>2, <1>3, StepsExist
  <2> QED BY <2>1 DEF Leads
<1>5. PICK f \in [0..n -> Q] : f[0] = e /\ \A k \in 1..n : f[k] = g[k][f[k - 1]]
  BY <1>c
<1>6. ASSUME NEW k \in 0..n PROVE f[k] = IF k = 0 THEN e ELSE UnlessSeen(f[k - 1], r[k])
  <2>1. CASE k = 0
    BY <1>5, <2>1
  <2>2. CASE k # 0
    <3>1. k \in 1..n /\ f[k - 1] \in Q
      BY <1>1, <1>5, <2>2
    <3> QED BY <1>4, <1>5, <2>2, <3>1
  <2> QED BY <2>1, <2>2
<1>7. f = [k \in 0..n |-> f[k]]
  BY <1>5
<1>8. PlanSoFar(f, d, eps)
  BY <1>6, <1>7 DEF PlanSoFar, n, e, r
<1> QED BY <1>8

LEMMA PlanIsComputed ==
  ASSUME NEW d \in Range(Catalogue), NEW eps
  PROVE  \E f : PlanSoFar(f, d, eps) /\ ConfigurePlan(d, eps) = f[Len(ImpliedSteps(d, eps))]
<1> DEFINE f == CHOOSE f : PlanSoFar(f, d, eps)
<1>1. PlanSoFar(f, d, eps)
  BY PlanSoFarExists, Zenon
<1>2. ConfigurePlan(d, eps) = f[Len(ImpliedSteps(d, eps))]
  BY DEF ConfigurePlan, PlanSoFar
<1> QED BY <1>1, <1>2

(***************************************************************************)
(* The plan of a definition is sound steps, with one for each attribute    *)
(* that feeds a capability and one for each binding it lists.              *)
(***************************************************************************)
LEMMA ThePlan ==
  ASSUME NEW d \in Range(Catalogue), NEW eps
  PROVE  /\ Listed(ConfigurePlan(d, eps))
         /\ \A x \in Range(ConfigurePlan(d, eps)) : Sound(d, x)
         /\ \A s \in Range(Sources(d)) : \E x \in Range(ConfigurePlan(d, eps)) :
              Key(x) = <<HostOf(eps, s.cluster), s.cluster, {s.attr}>>
         /\ \A b \in Range(d.bindings) :
              eps = <<>> \/ Known(eps, b.ep) =>
                \E x \in Range(ConfigurePlan(d, eps)) : Pair(x) = <<b.ep, b.cluster>>
<1> DEFINE r == ImpliedSteps(d, eps)
           e == Explicit(d, eps)
           n == Len(r)
           S == {x \in Range(e) \cup {r[i] : i \in 1..n} : Sound(d, x)}
           Has(s, k) == /\ s \in Seq(S)
                        /\ Range(e) \subseteq Range(s)
                        /\ \A i \in 1..k : \E x \in Range(s) : Key(x) = Key(r[i])
<1>1. n \in Nat /\ \A i \in 1..n : r[i] \in S
  BY ImpliedStepsAreSources
<1>2. e \in Seq(S)
  <2>1. e \in Seq(Range(e))
    BY ExplicitIsSound DEF Listed
  <2>2. Range(e) \subseteq S
    BY ExplicitIsSound
  <2> HIDE DEF e, S
  <2> QED BY <2>1, <2>2
<1>3. PICK f : PlanSoFar(f, d, eps) /\ ConfigurePlan(d, eps) = f[n]
  BY PlanIsComputed
<1>4. f[0] = e /\ \A k \in 1..n : f[k] = UnlessSeen(f[k - 1], r[k])
  <2>1. \A k \in 0..n : f[k] = IF k = 0 THEN e ELSE UnlessSeen(f[k - 1], r[k])
    BY <1>3 DEF PlanSoFar
  <2>2. 0 \in 0..n /\ \A k \in 1..n : k \in 0..n /\ k # 0
    BY <1>1
  <2> QED BY <2>1, <2>2
<1>5. \A x \in S : Sound(d, x)
  OBVIOUS
<1> HIDE DEF n, S, e, r
<1> DEFINE T == {k \in 0..n : Has(f[k], k)}
<1>6. 0 \in T
  BY <1>1, <1>2, <1>4
<1>7. ASSUME NEW k \in 1..n, k - 1 \in T PROVE k \in T
  <2> DEFINE s == f[k - 1]
             u == f[k]
  <2>1. Has(s, k - 1)
    BY <1>7
  <2>2. u = UnlessSeen(s, r[k]) /\ r[k] \in S /\ s \in Seq(S) /\ k \in 0..n
    BY <1>1, <1>4, <2>1
  <2>a. 1..k = 1..(k - 1) \cup {k}
    BY <1>1
  <2> HIDE DEF s, u
  <2>3. u \in Seq(S) /\ Range(s) \subseteq Range(u) /\ \E y \in Range(u) : Key(y) = Key(r[k])
    BY <2>2, UnlessSeenAdds
  <2>4. Has(u, k)
    BY <2>1, <2>3, <2>a
  <2> QED BY <2>2, <2>4 DEF u
<1> HIDE DEF T
<1>8. n \in T
  <2>1. 0..n \subseteq T
    BY <1>1, <1>6, <1>7, UpTo
  <2> QED BY <1>1, <2>1
<1>9. Has(f[n], n)
  BY <1>8 DEF T
<1> DEFINE p == f[n]
<1>a. p \in Seq(S)
  BY <1>9
<1>b. Range(e) \subseteq Range(p) /\ \A i \in 1..n : \E x \in Range(p) : Key(x) = Key(r[i])
  BY <1>9
<1>c. p = ConfigurePlan(d, eps)
  BY <1>3
<1> HIDE DEF p, Has
<1>d. Listed(p) /\ \A x \in Range(p) : Sound(d, x)
  BY <1>5, <1>a DEF Listed, Range
<1>e. \A s \in Range(Sources(d)) : \E x \in Range(p) :
        Key(x) = <<HostOf(eps, s.cluster), s.cluster, {s.attr}>>
  <2>1. \A s \in Range(Sources(d)) : \E i \in 1..n :
          Key(r[i]) = <<HostOf(eps, s.cluster), s.cluster, {s.attr}>>
    BY ImpliedStepsAreSources DEF r, n
  <2> QED BY <1>b, <2>1
<1>f. \A b \in Range(d.bindings) : eps = <<>> \/ Known(eps, b.ep) =>
        \E x \in Range(p) : Pair(x) = <<b.ep, b.cluster>>
  BY <1>b, ExplicitIsSound DEF e
<1> QED BY <1>c, <1>d, <1>e, <1>f

-----------------------------------------------------------------------------
(* A plan under way.                                                       *)

Bound(p, n) == {Pair(p[i]) : i \in 1..n}

Reported(p, n) == {i \in 1..n : p[i].attrs # {}}

Total(out) == out.bound + out.configured + out.failed

\* What became of a plan p after n of its steps: the rest is as planned, the
\* pairs of those done, and maybe of the next, were tried, what is known to
\* feed a capability was asked for, and everything was counted once.
Done(p, n, rest, pairs, reports, out) ==
  /\ n \in 0..Len(p)
  /\ rest \in Seq(Range(p))
  /\ Len(rest) = Len(p) - n
  /\ \A i \in 1..Len(rest) : rest[i] = p[n + i]
  /\ pairs = Bound(p, n) \/ (n < Len(p) /\ pairs = Bound(p, n + 1))
  /\ IsFiniteSet(pairs)
  /\ \A a \in reports : <<a[1], a[2]>> \in pairs
  /\ \A i \in 1..n : p[i].typed = TRUE =>
       \A a \in p[i].attrs : <<p[i].ep, p[i].cluster, a>> \in reports
  /\ out \in [bound : Nat, configured : Nat, failed : Nat]
  /\ Total(out) = Cardinality(pairs) + Cardinality(Reported(p, n))

\* No plan was carried out since, or one is under way or just over.
Underway ==
  \/ steps = <<>> /\ tried = {} /\ asked = {}
  \/ /\ def # None
     /\ \E n \in Nat : Done(ConfigurePlan(def, known), n, steps, tried, asked, outcome)

LEMMA ReportedIsFinite ==
  ASSUME NEW p, NEW n \in Nat
  PROVE  /\ IsFiniteSet(Reported(p, n)) /\ Cardinality(Reported(p, n)) \in Nat
         /\ Cardinality(Reported(p, n + 1)) = Cardinality(Reported(p, n))
                                              + (IF p[n + 1].attrs # {} THEN 1 ELSE 0)
<1>1. IsFiniteSet(1..n)
  BY FS_Interval
<1>2. IsFiniteSet(Reported(p, n))
  BY <1>1, FS_Subset DEF Reported
<1>3. Cardinality(Reported(p, n)) \in Nat
  BY <1>2, FS_CardinalityType
<1>4. 1..(n + 1) = 1..n \cup {n + 1} /\ n + 1 \notin 1..n
  OBVIOUS
<1>5. CASE p[n + 1].attrs # {}
  <2>1. Reported(p, n + 1) = Reported(p, n) \cup {n + 1} /\ n + 1 \notin Reported(p, n)
    BY <1>4, <1>5 DEF Reported
  <2>2. Cardinality(Reported(p, n) \cup {n + 1}) = Cardinality(Reported(p, n)) + 1
    BY <1>2, <2>1, FS_AddElement
  <2> QED BY <1>2, <1>3, <1>5, <2>1, <2>2
<1>6. CASE p[n + 1].attrs = {}
  <2>1. Reported(p, n + 1) = Reported(p, n)
    BY <1>4, <1>6 DEF Reported
  <2> QED BY <1>2, <1>3, <1>6, <2>1
<1> QED BY <1>5, <1>6

LEMMA Starts ==
  ASSUME NEW p, Listed(p)
  PROVE  Done(p, 0, p, {}, {}, NoOutcome)
<1>1. Len(p) \in Nat /\ p \in Seq(Range(p)) /\ 0 \in 0..Len(p)
  BY DEF Listed
<1>2. \A i \in 1..Len(p) : p[i] = p[0 + i]
  OBVIOUS
<1>3. Bound(p, 0) = {} /\ Reported(p, 0) = {}
  BY DEF Bound, Reported
<1>4. IsFiniteSet({}) /\ Cardinality({}) = 0
  BY FS_EmptySet
<1>5. NoOutcome \in [bound : Nat, configured : Nat, failed : Nat] /\ Total(NoOutcome) = 0
  BY DEF NoOutcome, Total
<1>6. Len(p) = Len(p) - 0 /\ 1..0 = {} /\ Total(NoOutcome) = 0 + 0
  BY <1>1, <1>5
<1>7. Total(NoOutcome) = Cardinality({}) + Cardinality(Reported(p, 0))
  BY <1>3, <1>4, <1>6
<1>8. \A i \in 1..0 : p[i].typed = TRUE =>
        \A a \in p[i].attrs : <<p[i].ep, p[i].cluster, a>> \in {}
  BY <1>6
<1> QED BY <1>1, <1>2, <1>3, <1>4, <1>5, <1>6, <1>7, <1>8, Zenon DEF Done

\* One more of something was counted.
OneMore(out, new) ==
  new \in [bound : Nat, configured : Nat, failed : Nat] /\ Total(new) = Total(out) + 1

LEMMA Counts ==
  ASSUME NEW out \in [bound : Nat, configured : Nat, failed : Nat],
         NEW field \in {"bound", "configured", "failed"}
  PROVE  OneMore(out, [out EXCEPT ![field] = @ + 1])
BY DEF OneMore, Total

\* The next step of a plan, and what it binds.
LEMMA TheNext ==
  ASSUME NEW p, NEW n, NEW rest, NEW pairs, NEW reports, NEW out,
         Done(p, n, rest, pairs, reports, out), rest # <<>>
  PROVE  /\ n \in Nat /\ Len(p) \in Nat /\ n < Len(p) /\ n + 1 \in 1..Len(p)
         /\ Head(rest) = p[n + 1]
         /\ Bound(p, n + 1) = Bound(p, n) \cup {Pair(Head(rest))}
<1>1. rest \in Seq(Range(p)) /\ Len(rest) = Len(p) - n /\ n \in 0..Len(p)
  BY DEF Done
<1>2. Len(rest) \in Nat /\ Len(rest) # 0 /\ Head(rest) = rest[1]
  BY <1>1
<1>3. n \in Nat /\ Len(p) \in Nat /\ n < Len(p) /\ n + 1 \in 1..Len(p)
  BY <1>1, <1>2
<1>4. rest[1] = p[n + 1]
  <2>1. 1 \in 1..Len(rest)
    BY <1>2
  <2> QED BY <2>1 DEF Done
<1>5. 1..(n + 1) = 1..n \cup {n + 1}
  BY <1>3
<1> QED BY <1>2, <1>3, <1>4, <1>5 DEF Bound

LEMMA Binds ==
  ASSUME NEW p, NEW n, NEW rest, NEW pairs, NEW reports, NEW out, NEW new,
         Done(p, n, rest, pairs, reports, out), rest # <<>>,
         Pair(Head(rest)) \notin pairs, OneMore(out, new)
  PROVE  Done(p, n, rest, pairs \cup {Pair(Head(rest))}, reports, new)
<1> DEFINE pair == Pair(Head(rest))
           more == pairs \cup {pair}
<1>1. n < Len(p) /\ Bound(p, n + 1) = Bound(p, n) \cup {pair} /\ n \in Nat
  BY TheNext
<1>2. pairs = Bound(p, n)
  BY <1>1 DEF Done
<1>3. more = Bound(p, n + 1)
  BY <1>1, <1>2
<1>4. IsFiniteSet(pairs)
  BY DEF Done
<1>5. IsFiniteSet(more) /\ Cardinality(more) = Cardinality(pairs) + 1 /\ Cardinality(pairs) \in Nat
  BY <1>4, FS_AddElement, FS_CardinalityType
<1>6. Total(new) = Cardinality(more) + Cardinality(Reported(p, n))
  <2>1. Cardinality(Reported(p, n)) \in Nat
    BY <1>1, ReportedIsFinite
  <2>2. Total(new) = Total(out) + 1
    BY DEF OneMore
  <2>3. Total(out) = Cardinality(pairs) + Cardinality(Reported(p, n))
    BY DEF Done
  <2> QED BY <1>5, <2>1, <2>2, <2>3
<1> HIDE DEF pair
<1>7. \A a \in reports : <<a[1], a[2]>> \in more
  BY DEF Done
<1> HIDE DEF more
<1>8. Done(p, n, rest, more, reports, new)
  BY <1>1, <1>3, <1>5, <1>6, <1>7 DEF Done, OneMore
<1> QED BY <1>8 DEF more, pair

LEMMA StepsOn ==
  ASSUME NEW p, NEW n, NEW rest, NEW pairs, NEW reports, NEW out, NEW asks, NEW new,
         Done(p, n, rest, pairs, reports, out), rest # <<>>,
         Pair(Head(rest)) \in pairs,
         reports \subseteq asks,
         \A a \in asks \ reports : <<a[1], a[2]>> = Pair(Head(rest)),
         Head(rest).typed = TRUE =>
           \A a \in Head(rest).attrs : <<Head(rest).ep, Head(rest).cluster, a>> \in asks,
         IF Head(rest).attrs # {} THEN OneMore(out, new) ELSE new = out
  PROVE  Done(p, n + 1, Tail(rest), pairs, asks, new)
<1>1. /\ n \in Nat /\ n < Len(p) /\ n + 1 \in 0..Len(p) /\ Len(p) \in Nat
      /\ Head(rest) = p[n + 1]
      /\ Bound(p, n + 1) = Bound(p, n) \cup {Pair(Head(rest))}
  BY TheNext
<1>2. pairs = Bound(p, n + 1)
  BY <1>1 DEF Done
<1>3. /\ Tail(rest) \in Seq(Range(p)) /\ Len(Tail(rest)) = Len(p) - (n + 1)
      /\ \A i \in 1..Len(Tail(rest)) : Tail(rest)[i] = p[(n + 1) + i]
  <2>1. rest \in Seq(Range(p)) /\ Len(rest) = Len(p) - n
    BY DEF Done
  <2>2. /\ Tail(rest) \in Seq(Range(p)) /\ Len(Tail(rest)) = Len(rest) - 1
        /\ \A i \in 1..Len(Tail(rest)) : Tail(rest)[i] = rest[i + 1]
    BY <2>1
  <2>3. \A i \in 1..Len(Tail(rest)) : i + 1 \in 1..Len(rest) /\ n + (i + 1) = (n + 1) + i
    BY <1>1, <2>1, <2>2
  <2>4. \A i \in 1..Len(rest) : rest[i] = p[n + i]
    BY DEF Done
  <2> HIDE DEF Done
  <2> QED BY <1>1, <2>1, <2>2, <2>3, <2>4
<1>4. \A a \in asks : <<a[1], a[2]>> \in pairs
  BY DEF Done
<1>5. ASSUME NEW i \in 1..(n + 1), p[i].typed = TRUE, NEW a \in p[i].attrs
      PROVE  <<p[i].ep, p[i].cluster, a>> \in asks
  <2>1. CASE i = n + 1
    BY <1>1, <1>5, <2>1
  <2>2. CASE i # n + 1
    <3>1. i \in 1..n
      BY <1>1, <2>2
    <3>2. <<p[i].ep, p[i].cluster, a>> \in reports
      BY <1>5, <3>1 DEF Done
    <3> QED BY <3>2
  <2> QED BY <2>1, <2>2
<1>6. IsFiniteSet(pairs) /\ Cardinality(pairs) \in Nat
  BY FS_CardinalityType DEF Done
<1>7. /\ new \in [bound : Nat, configured : Nat, failed : Nat]
      /\ Total(new) = Cardinality(pairs) + Cardinality(Reported(p, n + 1))
  <2>1. /\ out \in [bound : Nat, configured : Nat, failed : Nat]
        /\ Total(out) = Cardinality(pairs) + Cardinality(Reported(p, n))
    BY DEF Done
  <2>2. /\ Cardinality(Reported(p, n)) \in Nat
        /\ Cardinality(Reported(p, n + 1)) = Cardinality(Reported(p, n))
                                             + (IF Head(rest).attrs # {} THEN 1 ELSE 0)
    BY <1>1, ReportedIsFinite
  <2> QED BY <1>6, <2>1, <2>2 DEF OneMore
<1> QED BY <1>1, <1>2, <1>3, <1>4, <1>5, <1>6, <1>7 DEF Done
(***************************************************************************)
(* The plan whose steps are done is whole.                                 *)
(***************************************************************************)
LEMMA UnderwayIsWhole == Follows /\ Underway => PlanIsWhole
<1> SUFFICES ASSUME Follows, Underway PROVE PlanIsWhole
  OBVIOUS
<1>1. CASE steps = <<>> /\ tried = {} /\ asked = {}
  BY <1>1 DEF PlanIsWhole
<1>2. ASSUME def # None, NEW n \in Nat,
             Done(ConfigurePlan(def, known), n, steps, tried, asked, outcome)
      PROVE  PlanIsWhole
  <2> DEFINE p == ConfigurePlan(def, known)
  <2>1. def \in Range(Catalogue)
    BY <1>2, FollowsIsCatalogued
  <2>2. /\ Listed(p) /\ \A x \in Range(p) : Sound(def, x)
        /\ \A s \in Range(Sources(def)) : \E x \in Range(p) :
             Key(x) = <<HostOf(known, s.cluster), s.cluster, {s.attr}>>
        /\ \A b \in Range(def.bindings) :
             known = <<>> \/ Known(known, b.ep) =>
               \E x \in Range(p) : Pair(x) = <<b.ep, b.cluster>>
    BY <2>1, ThePlan
  <2>3. \A a \in asked : <<a[1], a[2]>> \in tried
    BY <1>2 DEF Done
  <2>4. ASSUME Idle
        PROVE  /\ \A s \in Range(Sources(def)) :
                    <<HostOf(known, s.cluster), s.cluster, s.attr>> \in asked
               /\ \A b \in Range(def.bindings) :
                    known = <<>> \/ Known(known, b.ep) => <<b.ep, b.cluster>> \in tried
               /\ Total(outcome) = Cardinality(tried) + Cardinality({i \in DOMAIN p : p[i].attrs # {}})
    <3> HIDE DEF p
    <3>1. Done(p, n, steps, tried, asked, outcome)
      BY <1>2 DEF p
    <3>2. Len(p) \in Nat /\ DOMAIN p = 1..Len(p)
      BY <2>2 DEF Listed
    <3>3. Len(steps) = 0 /\ n = Len(p)
      <4>1. Len(steps) = 0
        BY <2>4 DEF Idle
      <4>2. Len(steps) = Len(p) - n
        BY <3>1 DEF Done
      <4>3. \A l, k \in Nat : l - k = 0 => k = l
        OBVIOUS
      <4> QED BY <3>2, <4>1, <4>2, <4>3
    <3>4. tried = Bound(p, n)
      BY <3>1, <3>2, <3>3 DEF Done
    <3>5. \A x \in Range(p) : \E i \in 1..n : x = p[i]
      BY <3>2, <3>3 DEF Range
    <3>6. ASSUME NEW s \in Range(Sources(def))
          PROVE  <<HostOf(known, s.cluster), s.cluster, s.attr>> \in asked
      <4>1. PICK x \in Range(p) : Key(x) = <<HostOf(known, s.cluster), s.cluster, {s.attr}>>
        BY <2>2
      <4>2. x.ep = HostOf(known, s.cluster) /\ x.cluster = s.cluster /\ x.attrs = {s.attr}
        BY <4>1 DEF Key
      <4>3. Feeds(def, s.cluster, s.attr) # {}
        BY <2>1, SourceFeeds
      <4>4. x.typed = TRUE
        <5>1. Sound(def, x)
          BY <2>2
        <5>2. PICK a : x.attrs = {a} /\ (Feeds(def, x.cluster, a) # {} => x.typed = TRUE)
          BY <4>2, <5>1 DEF Sound
        <5>3. a = s.attr
          BY <4>2, <5>2
        <5> QED BY <4>2, <4>3, <5>2, <5>3
      <4>5. PICK i \in 1..n : x = p[i]
        BY <3>5
      <4>6. s.attr \in x.attrs
        BY <4>2
      <4>7. <<x.ep, x.cluster, s.attr>> \in asked
        BY <3>1, <4>4, <4>5, <4>6 DEF Done
      <4> QED BY <4>2, <4>7
    <3>7. ASSUME NEW b \in Range(def.bindings), known = <<>> \/ Known(known, b.ep)
          PROVE  <<b.ep, b.cluster>> \in tried
      <4>1. PICK x \in Range(p) : Pair(x) = <<b.ep, b.cluster>>
        BY <2>2, <3>7
      <4>2. PICK i \in 1..n : x = p[i]
        BY <3>5
      <4> QED BY <3>4, <4>1, <4>2 DEF Bound
    <3>8. Reported(p, n) = {i \in DOMAIN p : p[i].attrs # {}}
      BY <3>2, <3>3 DEF Reported
    <3>9. Total(outcome) = Cardinality(tried) + Cardinality(Reported(p, n))
      BY <3>1 DEF Done
    <3> QED BY <3>6, <3>7, <3>8, <3>9
  <2> QED BY <2>3, <2>4 DEF PlanIsWhole, Total
<1> QED BY <1>1, <1>2 DEF Underway

LEMMA PlannedIsUnderway ==
  ASSUME def' \in Range(Catalogue) \cup {None},
         steps' = IF def' = None THEN <<>> ELSE ConfigurePlan(def', known'),
         tried' = {}, asked' = {}, outcome' = NoOutcome
  PROVE  Underway'
<1>1. CASE def' = None
  BY <1>1 DEF Underway
<1>2. CASE def' # None
  <2>1. Listed(ConfigurePlan(def', known'))
    BY <1>2, ThePlan
  <2>2. Done(ConfigurePlan(def', known'), 0, steps', tried', asked', outcome')
    BY <1>2, <2>1, Starts
  <2> QED BY <1>2, <2>2 DEF Underway
<1> QED BY <1>1, <1>2

LEMMA CountedIsOneMore ==
  ASSUME outcome \in [bound : Nat, configured : Nat, failed : Nat],
         NEW field \in {"bound", "configured", "failed"}, Counted(field)
  PROVE  OneMore(outcome, outcome')
BY Counts DEF Counted

LEMMA BindGoesOn ==
  ASSUME Underway, Bind
  PROVE  Underway'
<1>1. steps # <<>>
  BY DEF Bind
<1>2. def # None
  BY <1>1 DEF Underway
<1>3. PICK n \in Nat : Done(ConfigurePlan(def, known), n, steps, tried, asked, outcome)
  BY <1>1 DEF Underway
<1>4. outcome \in [bound : Nat, configured : Nat, failed : Nat]
  BY <1>3 DEF Done
<1>5. Counted("bound") \/ Counted("failed")
  BY DEF Bind
<1>6. OneMore(outcome, outcome')
  BY <1>4, <1>5, CountedIsOneMore
<1>7. Pair(Head(steps)) \notin tried /\ tried' = tried \cup {Pair(Head(steps))}
  BY DEF Bind
<1>8. steps' = steps /\ asked' = asked /\ def' = def /\ known' = known
  BY DEF Bind, facts
<1>9. Done(ConfigurePlan(def, known), n, steps, tried \cup {Pair(Head(steps))}, asked, outcome')
  BY <1>1, <1>3, <1>6, <1>7, Binds
<1> QED BY <1>2, <1>7, <1>8, <1>9 DEF Underway

LEMMA NextGoesOn ==
  ASSUME Underway, NextStep,
         asked \subseteq asked',
         \A a \in asked' \ asked : <<a[1], a[2]>> = Pair(Head(steps)),
         Head(steps).typed = TRUE =>
           \A a \in Head(steps).attrs : <<Head(steps).ep, Head(steps).cluster, a>> \in asked',
         IF Head(steps).attrs # {}
           THEN \E field \in {"bound", "configured", "failed"} : Counted(field)
           ELSE outcome' = outcome
  PROVE  Underway'
<1>1. steps # <<>>
  BY DEF NextStep
<1>2. def # None
  BY <1>1 DEF Underway
<1>3. PICK n \in Nat : Done(ConfigurePlan(def, known), n, steps, tried, asked, outcome)
  BY <1>1 DEF Underway
<1>4. outcome \in [bound : Nat, configured : Nat, failed : Nat]
  BY <1>3 DEF Done
<1>5. IF Head(steps).attrs # {} THEN OneMore(outcome, outcome') ELSE outcome' = outcome
  BY <1>4, CountedIsOneMore
<1>6. /\ Pair(Head(steps)) \in tried /\ steps' = Tail(steps)
      /\ tried' = tried /\ def' = def /\ known' = known
  BY DEF NextStep, facts
<1>7. Done(ConfigurePlan(def, known), n + 1, Tail(steps), tried, asked', outcome')
  <2>1. Pair(Head(steps)) \in tried
    BY <1>6
  <2> QED BY <1>1, <1>3, <1>5, <2>1, StepsOn
<1>8. n + 1 \in Nat
  OBVIOUS
<1> QED BY <1>2, <1>6, <1>7, <1>8 DEF Underway

LEMMA InitIsUnderway == Init => Underway
BY DEF Init, Underway

LEMMA StepIsUnderway == Follows' /\ Underway /\ [Next]_vars => Underway'
<1> SUFFICES ASSUME Follows', Underway, [Next]_vars PROVE Underway'
  OBVIOUS
<1>1. ASSUME Answered PROVE Underway'
  BY <1>1 DEF Answered, Underway
<1>2. ASSUME NEW c, RunCommand(c) PROVE Underway'
  BY <1>1, <1>2 DEF RunCommand
<1>3. ASSUME NEW p, NEW v, Changes(p, v) PROVE Underway'
  BY <1>1, <1>3 DEF Changes
<1>4. ASSUME NEW p, Report(p) PROVE Underway'
  BY <1>1, <1>4 DEF Report
<1>5. (def \in Range(Catalogue) \cup {None})'
  BY FollowsIsCatalogued, PTL
<1>6. CASE Interviewed
  <2>1. PICK eps : known' = eps /\ Planned(def', eps)
    BY <1>6 DEF Interviewed, Learned
  <2>2. /\ steps' = IF def' = None THEN <<>> ELSE ConfigurePlan(def', known')
        /\ tried' = {} /\ asked' = {} /\ outcome' = NoOutcome
    BY <2>1 DEF Planned
  <2> QED BY <1>5, <2>2, PlannedIsUnderway
<1>7. CASE Configure
  <2>1. def' = def /\ known' = known
    BY <1>7 DEF Configure, facts
  <2>2. /\ steps' = IF def' = None THEN <<>> ELSE ConfigurePlan(def', known')
        /\ tried' = {} /\ asked' = {} /\ outcome' = NoOutcome
    BY <1>7, <2>1 DEF Configure, Planned
  <2> QED BY <1>5, <2>2, PlannedIsUnderway
<1>8. CASE Bind
  BY <1>8, BindGoesOn
<1>9. CASE BindingDone
  BY <1>9, NextGoesOn DEF BindingDone
<1>10. CASE Untyped
  <2>1. Head(steps).typed # TRUE
    BY <1>10 DEF Untyped, TypeKnown
  <2> QED BY <1>10, <2>1, NextGoesOn DEF Untyped
<1>11. CASE ConfigureReporting
  <2> DEFINE new == {<<Head(steps).ep, Head(steps).cluster, a>> : a \in Head(steps).attrs}
  <2>1. asked' = asked \cup new
    BY <1>11 DEF ConfigureReporting
  <2>2. \A a \in new : <<a[1], a[2]>> = Pair(Head(steps))
    BY DEF Pair
  <2>3. \A a \in Head(steps).attrs : <<Head(steps).ep, Head(steps).cluster, a>> \in new
    OBVIOUS
  <2> HIDE DEF new
  <2> QED BY <1>11, <2>1, <2>2, <2>3, NextGoesOn DEF ConfigureReporting
<1>12. CASE UNCHANGED vars
  BY <1>12 DEF vars, Underway
<1> QED BY <1>2, <1>3, <1>4, <1>6, <1>7, <1>8, <1>9, <1>10, <1>11, <1>12 DEF Next

(***************************************************************************)
(* A plan that is over has asked for everything, whatever of it failed,    *)
(* and counted each binding and each report once                           *)
(* (execute_configure_plan), for any definition and any endpoints known.   *)
(***************************************************************************)
THEOREM Whole == Spec => []PlanIsWhole
<1>1. Follows /\ Underway /\ [Next]_vars => (Follows /\ Underway)'
  BY StepFollows, StepIsUnderway
<1> QED BY InitFollows, InitIsUnderway, UnderwayIsWhole, <1>1, PTL DEF Spec

-----------------------------------------------------------------------------
(* What a command writes is read back.                                     *)

\* Numbers in their order, whatever one counts them in.
LEMMA Ordered ==
  ASSUME NEW a \in Int, NEW b \in Int, NEW S \in Nat, a <= b
  PROVE  a * S <= b * S
<1> DEFINE k == b - a
<1>1. k \in Nat /\ b = a + k
  OBVIOUS
<1> HIDE DEF k
<1>2. b * S = a * S + k * S
  BY <1>1
<1>3. k * S \in Nat /\ a * S \in Int
  BY <1>1
<1> QED BY <1>2, <1>3

LEMMA NearestIsNear ==
  ASSUME NEW q \in Int
  PROVE  Nearest(q) \in Int /\ Near(Nearest(q) * Scale, q)
<1> DEFINE a == 2 * q + Scale
           b == 2 * Scale
           n == a \div b
           m == a % b
<1>1. Scale \in Nat \ {0} /\ a \in Int /\ b \in Nat \ {0}
  BY DefinitionsAssumption
<1>2. n \in Int /\ m \in 0..(b - 1) /\ a = b * n + m
  <2> HIDE DEF a, b
  <2> QED BY <1>1
<1>3. b * n = 2 * (n * Scale) /\ n * Scale \in Int
  <2> HIDE DEF n
  <2> QED BY <1>1, <1>2
<1> DEFINE p == n * Scale
<1>4. 2 * q + Scale = 2 * p + m /\ 0 <= m /\ m < 2 * Scale /\ p \in Int /\ m \in Int
  <2> HIDE DEF n, m
  <2> QED BY <1>1, <1>2, <1>3
<1>5. Nearest(q) = n
  BY DEF Nearest
<1> HIDE DEF m, n, p
<1>6. 2 * (p - q) <= Scale /\ 2 * (q - p) <= Scale
  BY <1>1, <1>4
<1> QED BY <1>2, <1>5, <1>6 DEF Near, p

(***************************************************************************)
(* A rounded quantity is half a unit off at most.                          *)
(***************************************************************************)
LEMMA RoundIsNear ==
  ASSUME NEW q \in Int
  PROVE  Round(q) \in Int /\ Near(Round(q) * Scale, q)
<1>1. CASE q < 0
  <2> DEFINE n == Nearest(-q)
             p == n * Scale
  <2>1. n \in Int /\ Near(p, -q) /\ Scale \in Int
    BY NearestIsNear, DefinitionsAssumption
  <2>2. Round(q) = -n
    BY <1>1 DEF Round
  <2> HIDE DEF n
  <2>3. (-n) * Scale = -p /\ p \in Int
    BY <2>1
  <2> HIDE DEF p
  <2>4. Near(-p, q)
    BY <2>1, <2>3 DEF Near
  <2> QED BY <2>1, <2>2, <2>3, <2>4
<1>2. CASE ~(q < 0)
  BY <1>2, NearestIsNear DEF Round
<1> QED BY <1>1, <1>2

(***************************************************************************)
(* What is near a quantity is, cut off at a limit, near what that leaves   *)
(* of the quantity.                                                        *)
(***************************************************************************)
LEMMA CutOff ==
  ASSUME NEW n \in Int, NEW q \in Int, NEW M \in Int, Near(n * Scale, q)
  PROVE  Near((IF n > M THEN M ELSE n) * Scale, AtMost(M * Scale, q))
<1> DEFINE a == n * Scale
           b == M * Scale
<1>1. Scale \in Nat \ {0} /\ a \in Int /\ b \in Int
  BY DefinitionsAssumption
<1>2. 2 * (a - q) <= Scale /\ 2 * (q - a) <= Scale
  BY DEF Near
<1>3. CASE n > M
  <2>1. (M + 1) * Scale <= a /\ (M + 1) * Scale = b + Scale
    BY <1>1, <1>3, Ordered
  <2> HIDE DEF a, b
  <2>2. q > b
    BY <1>1, <1>2, <2>1
  <2> QED BY <1>1, <1>3, <2>2 DEF AtMost, Near, b
<1>4. CASE n = M
  <2>1. a = b
    BY <1>4
  <2> HIDE DEF a, b
  <2>2. Near(a, AtMost(b, q))
    BY <1>1, <1>2, <2>1 DEF AtMost, Near
  <2> QED BY <1>4, <2>2 DEF a, b
<1>5. CASE n < M
  <2>1. (n + 1) * Scale <= b /\ (n + 1) * Scale = a + Scale
    BY <1>1, <1>5, Ordered
  <2> HIDE DEF a, b
  <2>2. ~(q > b)
    BY <1>1, <1>2, <2>1
  <2>3. Near(a, AtMost(b, q))
    BY <1>2, <2>2 DEF AtMost, Near
  <2> QED BY <1>5, <2>3 DEF a, b
<1> QED BY <1>3, <1>4, <1>5

\* One number for what is wanted is one number for what is read.
LEMMA SameQuantity ==
  ASSUME NEW v \in Int, NEW o \in Int, NEW D \in Nat \ {0}, Scale % D = 0
  PROVE  ((v - o) * D) * (Scale \div D) + o * Scale = v * Scale
<1> DEFINE k == Scale \div D
<1>1. Scale \in Nat
  BY DefinitionsAssumption
<1>2. k \in Int /\ Scale = D * k
  BY <1>1
<1> HIDE DEF k
<1> DEFINE a == v - o
<1>3. a \in Int /\ v = a + o
  OBVIOUS
<1> HIDE DEF a
<1>4. (a * D) * k = a * (D * k)
  BY <1>2, <1>3
<1>5. a * Scale + o * Scale = (a + o) * Scale
  BY <1>1, <1>3
<1>6. (a * D) * k + o * Scale = v * Scale
  BY <1>2, <1>3, <1>4, <1>5
<1> QED BY <1>6 DEF a, k

\* What is said of a datapoint.
LEMMA PointsAre ==
  ASSUME NEW d \in Range(Catalogue), NEW p \in Range(d.points)
  PROVE  /\ p.kind = "bool" => p.inverted \in BOOLEAN
         /\ p.kind = "enum" => DOMAIN p.names \subseteq Nat
         /\ p.kind = "value" => /\ p.offset \in Int
                               /\ Divisor(p) \in Nat \ {0} /\ Scale % Divisor(p) = 0
<1>1. \A q \in Range(d.points) :
        /\ q.kind = "bool" => q.inverted \in BOOLEAN
        /\ q.kind = "enum" => q.names \in Seq(Range(q.names))
        /\ q.kind = "value" => /\ q.offset \in Int
                              /\ Divisor(q) \in Nat \ {0} /\ Scale % Divisor(q) = 0
  BY DefinitionsAreLists
<1>2. p.kind = "bool" => p.inverted \in BOOLEAN
  BY <1>1, Zenon
<1>3. p.kind = "enum" => p.names \in Seq(Range(p.names))
  BY <1>1, Zenon
<1>4. p.kind = "value" => /\ p.offset \in Int
                         /\ Divisor(p) \in Nat \ {0} /\ Scale % Divisor(p) = 0
  BY <1>1, Zenon
<1>5. p.kind = "enum" => DOMAIN p.names \subseteq Nat
  BY <1>3
<1> QED BY <1>2, <1>4, <1>5

\* The values that are told and asked for here.
Datum(value) ==
  \/ \E b \in BOOLEAN : value = <<"bool", b>>
  \/ \E n \in Int : value = <<"int", n>>
  \/ \E n : value = <<"name", n>>

LEMMA DatumIs ==
  ASSUME NEW value, Datum(value)
  PROVE  /\ value[1] = "bool" => value[2] \in BOOLEAN /\ value = <<"bool", value[2]>>
         /\ value[1] = "int" => value[2] \in Int /\ value = <<"int", value[2]>>
         /\ value[1] = "name" => value = <<"name", value[2]>>
<1>1. CASE \E b \in BOOLEAN : value = <<"bool", b>>
  BY <1>1
<1>2. CASE \E n \in Int : value = <<"int", n>>
  BY <1>2
<1>3. CASE \E n : value = <<"name", n>>
  BY <1>3
<1> QED BY <1>1, <1>2, <1>3 DEF Datum

\* What is decoded of a value that was encoded, exactly.
Decodes(value, got) ==
  CASE value[1] = "bool" ->
         got \in {value, <<"name", IF value[2] THEN "ON" ELSE "OFF">>}
    [] value[1] = "int" -> got = <<"num", value[2] * Scale>>
    [] OTHER -> got = value

(***************************************************************************)
(* What a value was encoded to, the same entry of the table converts back. *)
(***************************************************************************)
LEMMA EncodedComesBack ==
  ASSUME NEW d \in Range(Catalogue), Unambiguous(d), NEW p \in Range(d.points),
         NEW value, Datum(value),
         NEW w \in EncodeIntent(p, value),
         NEW r \in Convert(p, w)
  PROVE  w[1] # "raw" /\ Decodes(value, r)
<1>1. CASE p.kind = "bool" /\ value[1] = "bool"
  <2>1. w = <<"bool", value[2] # p.inverted>>
    BY <1>1 DEF EncodeIntent
  <2>2. r = <<"bool", w[2] # p.inverted>>
    BY <1>1, <2>1 DEF Convert
  <2>3. p.inverted \in BOOLEAN
    BY <1>1, PointsAre
  <2>4. PICK b \in BOOLEAN : value = <<"bool", b>>
    BY <1>1, DatumIs
  <2>5. w[2] = (b # p.inverted)
    BY <2>1, <2>4
  <2>6. ((b # p.inverted) # p.inverted) = b
    BY <2>3, <2>4
  <2>7. r = value
    BY <2>2, <2>4, <2>5, <2>6
  <2> QED BY <1>1, <2>1, <2>7 DEF Decodes
<1>2. CASE p.kind = "value" /\ value[1] = "int"
  <2>1. PICK n \in Int : value = <<"int", n>>
    BY <1>2, DatumIs
  <2>2. w = <<"number", (n - p.offset) * Divisor(p)>>
    BY <1>2, <2>1 DEF EncodeIntent
  <2>3. r = <<"num", Apply(p, w[2])>>
    BY <1>2, <2>2 DEF Convert
  <2>4. p.offset \in Int /\ Divisor(p) \in Nat \ {0} /\ Scale % Divisor(p) = 0
    BY <1>2, PointsAre
  <2>5. Apply(p, (n - p.offset) * Divisor(p)) = n * Scale
    BY <2>4, SameQuantity DEF Apply
  <2>6. w[1] = "number" /\ w[2] = (n - p.offset) * Divisor(p)
    BY <2>2
  <2>7. r = <<"num", n * Scale>>
    BY <2>3, <2>5, <2>6
  <2> QED BY <2>1, <2>6, <2>7 DEF Decodes
<1>3. CASE p.kind = "enum" /\ value[1] \in {"name", "bool"}
  <2> DEFINE name == IF value[1] = "name" THEN value[2]
                     ELSE IF value[2] THEN "ON" ELSE "OFF"
  <2>1. PICK n \in RawNamed(p.names, name) : w = <<"enum", n>>
    BY <1>3 DEF EncodeIntent
  <2> HIDE DEF name
  <2>2. PICK i \in DOMAIN p.names : p.names[i][1] = n /\ p.names[i][2] = name
    BY <2>1 DEF RawNamed, FirstOf
  <2>3. \A j \in DOMAIN p.names : p.names[j][1] = n => j = i
    BY <1>3, <2>2 DEF Unambiguous
  <2>4. Named(p.names, n) = {name}
    <3>1. DOMAIN p.names \subseteq Nat
      BY <1>3, PointsAre
    <3>2. {j \in DOMAIN p.names : p.names[j][1] = n} = {i}
      BY <2>2, <2>3
    <3>3. FirstOf({i}) = {i}
      BY <2>2, <3>1 DEF FirstOf
    <3>4. Named(p.names, n) = {p.names[k][2] : k \in {i}}
      BY <3>2, <3>3, Zenon DEF Named
    <3> QED BY <2>2, <3>4
  <2>5. r = <<"name", name>>
    <3>1. Convert(p, w) = OrElse({<<"name", m>> : m \in Named(p.names, n)}, <<"int", n>>)
      BY <1>3, <2>1 DEF Convert
    <3>2. {<<"name", m>> : m \in Named(p.names, n)} = {<<"name", name>>}
      BY <2>4, Zenon
    <3>3. Convert(p, w) = {<<"name", name>>}
      BY <3>1, <3>2, Zenon DEF OrElse
    <3> QED BY <3>3
  <2>6. w[1] = "enum"
    BY <2>1
  <2>7. CASE value[1] = "name"
    <3>1. value = <<"name", value[2]>>
      BY <2>7, DatumIs
    <3>2. r = value
      BY <2>5, <2>7, <3>1 DEF name
    <3> QED BY <2>6, <2>7, <3>2 DEF Decodes
  <2>8. CASE value[1] = "bool"
    <3>1. r = <<"name", IF value[2] THEN "ON" ELSE "OFF">>
      BY <2>5, <2>8 DEF name
    <3> QED BY <2>6, <2>8, <3>1 DEF Decodes
  <2> QED BY <1>3, <2>7, <2>8
<1>4. CASE ~(p.kind = "bool" /\ value[1] = "bool") /\ ~(p.kind = "value" /\ value[1] = "int")
           /\ ~(p.kind = "enum" /\ value[1] \in {"name", "bool"})
  BY <1>4 DEF EncodeIntent
<1> QED BY <1>1, <1>2, <1>3, <1>4

\* The entry of a number is the one that has it.
LEMMA NumberedIs ==
  ASSUME NEW d, Unambiguous(d), NEW p \in Range(d.points), NEW q \in Numbered(d, p.dp)
  PROVE  q = p
<1>1. PICK i \in DOMAIN d.points : q = d.points[i] /\ d.points[i].dp = p.dp
  BY DEF Numbered, FirstOf
<1>2. PICK j \in DOMAIN d.points : p = d.points[j]
  BY DEF Range
<1> QED BY <1>1, <1>2 DEF Unambiguous

\* What a command intends is one thing, of a type a datapoint may have.
LEMMA OneWant ==
  ASSUME NEW cap, NEW value, Datum(value), NEW want \in Wants(cap, value)
  PROVE  (\A other \in Wants(cap, value) : other = want) /\ Datum(want.value)
<1>1. want = [cap |-> cap, value |-> value]
  BY DEF Wants
<1>2. want.value = value
  BY <1>1
<1> QED BY <1>1, <1>2 DEF Wants

LEMMA Data ==
  /\ \A b \in BOOLEAN : Datum(<<"bool", b>>)
  /\ \A n \in Int : Datum(<<"int", n>>)
  /\ \A n : Datum(<<"name", n>>)
BY DEF Datum

LEMMA Intends ==
  ASSUME NEW c \in Command, NEW want \in IntentOf(c)
  PROVE  /\ c.op # "Set"
         /\ \A other \in IntentOf(c) : other = want
         /\ Datum(want.value)
<1> SUFFICES ASSUME IntentOf(c) # {}
             PROVE  c.op # "Set" /\ \E cap, value : IntentOf(c) = Wants(cap, value) /\ Datum(value)
  BY OneWant
<1>1. CASE c.op = "SetOn"
  <2>1. IntentOf(c) = Wants("state", <<"bool", c.arg>>) /\ c.arg \in BOOLEAN
    BY <1>1, CommandsAreTyped DEF IntentOf
  <2> QED BY <1>1, <2>1, Data
<1>2. CASE c.op \in {"Lock", "Unlock"}
  <2>1. IntentOf(c) = Wants("lock", <<"bool", c.op = "Lock">>) /\ (c.op = "Lock") \in BOOLEAN
    BY <1>2 DEF IntentOf
  <2> QED BY <1>2, <2>1, Data
<1>3. CASE c.op = "SetBrightness"
  <2>1. IntentOf(c) = Wants("brightness", <<"int", c.arg>>) /\ c.arg \in Int
    BY <1>3, CommandsAreTyped DEF IntentOf
  <2> QED BY <1>3, <2>1, Data
<1>4. CASE c.op = "SetPosition"
  <2>1. IntentOf(c) = Wants("position", <<"int", c.arg>>) /\ c.arg \in Int
    BY <1>4, CommandsAreTyped DEF IntentOf
  <2> QED BY <1>4, <2>1, Data
<1>5. CASE c.op = "SetTargetTemperature"
  <2>1. c.arg \in Int /\ Scale \in Nat \ {0}
    BY <1>5, CommandsAreTyped, DefinitionsAssumption
  <2>2. Round(c.arg) \in Int
    BY <2>1, RoundIsNear
  <2>3. IntentOf(c) = Wants("current_heating_setpoint", <<"int", Round(c.arg)>>)
    BY <1>5 DEF IntentOf
  <2> QED BY <1>5, <2>2, <2>3, Data
<1>6. CASE c.op = "SetPreset"
  <2>1. IntentOf(c) = Wants("preset", <<"name", c.arg>>)
    BY <1>6 DEF IntentOf
  <2> QED BY <1>6, <2>1, Data
<1>7. CASE c.op \in {"Open", "Close", "Stop"}
  <2>1. \E n : IntentOf(c) = Wants("state", <<"name", n>>)
    BY <1>7 DEF IntentOf
  <2> QED BY <1>7, <2>1, Data
<1>8. CASE c.op \notin {"SetOn", "Lock", "Unlock", "SetBrightness", "SetPosition",
                        "SetTargetTemperature", "SetPreset", "Open", "Close", "Stop"}
  BY <1>8 DEF IntentOf
<1> QED BY <1>1, <1>2, <1>3, <1>4, <1>5, <1>6, <1>7, <1>8

(***************************************************************************)
(* What the table makes of a command, it reads back as what was intended.  *)
(***************************************************************************)
LEMMA TableReadsBack ==
  ASSUME NEW d \in Range(Catalogue), Unambiguous(d), NEW c \in Command,
         NEW f \in CommandToDatapoint(d, c), NEW want \in IntentOf(c),
         NEW r \in DatapointToState(d, f.id, f.value)
  PROVE  f.value[1] # "raw" /\ r[1] = want.cap /\ Decodes(want.value, r[2])
<1>1. PICK i \in IntentOf(c) : \E p \in NamedPoint(d, i.cap) :
          \E w \in EncodeIntent(p, i.value) : f = PointFrame(p.dp, w)
  BY DEF CommandToDatapoint
<1>2. i = want /\ Datum(want.value)
  BY Intends
<1>3. PICK p \in NamedPoint(d, want.cap) :
          \E w \in EncodeIntent(p, want.value) : f = PointFrame(p.dp, w)
  BY <1>1, <1>2
<1>4. PICK w \in EncodeIntent(p, want.value) : f = PointFrame(p.dp, w)
  BY <1>3
<1>5. p \in Range(d.points) /\ p.name = want.cap
  BY DEF NamedPoint, FirstOf, Range
<1>6. f.id = p.dp /\ f.value = w
  BY <1>4 DEF PointFrame
<1>7. PICK q \in Numbered(d, p.dp) : \E x \in Convert(q, w) : r = <<q.name, x>>
  BY <1>6 DEF DatapointToState
<1>8. q = p
  BY <1>5, NumberedIs
<1>9. PICK x \in Convert(p, w) : r = <<p.name, x>>
  BY <1>7, <1>8
<1>10. w[1] # "raw" /\ Decodes(want.value, x)
  BY <1>2, <1>5, EncodedComesBack
<1>11. r[1] = p.name /\ r[2] = x
  BY <1>9
<1> QED BY <1>5, <1>6, <1>10, <1>11

(***************************************************************************)
(* A schedule that is written is read back as its text.                    *)
(***************************************************************************)
LEMMA ScheduleReadsBack ==
  ASSUME NEW d \in Range(Catalogue), Unambiguous(d), NEW c,
         NEW f \in ScheduleFrames(d, c), NEW p \in OfSchedule(d),
         NEW r \in DatapointToState(d, f.id, f.value)
  PROVE  f.value[1] = "raw" /\ r[1] = p.name /\ r[2] = <<"name", c.arg>>
<1>1. PICK o \in OfSchedule(d) :
        \E text \in {c.arg} \cap Schedule : f = PointFrame(o.dp, <<"raw", text>>)
  BY DEF ScheduleFrames, OfDay
<1>2. f = PointFrame(o.dp, <<"raw", c.arg>>)
  BY <1>1
<1>3. f.id = o.dp /\ f.value = <<"raw", c.arg>>
  BY <1>2 DEF PointFrame
<1>4. o = p
  <2> DEFINE S == {j \in DOMAIN d.points : d.points[j].kind = "schedule"}
  <2>1. S \subseteq Nat
    BY DefinitionsAreLists
  <2>2. PICK i \in FirstOf(S) : o = d.points[i]
    BY DEF OfSchedule
  <2>3. PICK j \in FirstOf(S) : p = d.points[j]
    BY DEF OfSchedule
  <2> HIDE DEF S
  <2>4. i = j
    BY <2>1 DEF FirstOf
  <2> QED BY <2>2, <2>3, <2>4
<1>5. p \in Range(d.points) /\ p.kind = "schedule"
  BY DEF OfSchedule, FirstOf, Range
<1>6. PICK q \in Numbered(d, p.dp) : \E x \in Convert(q, <<"raw", c.arg>>) : r = <<q.name, x>>
  BY <1>3, <1>4 DEF DatapointToState
<1>7. q = p
  BY <1>5, NumberedIs
<1>8. PICK x \in Convert(p, <<"raw", c.arg>>) : r = <<p.name, x>>
  BY <1>6, <1>7
<1>9. x = <<"name", c.arg>>
  BY <1>5 DEF Convert
<1>10. r[1] = p.name /\ r[2] = <<"name", c.arg>>
  BY <1>8, <1>9
<1> QED BY <1>3, <1>10

\* A command with an argument of its type.
Fits(s) ==
  /\ s.op = "SetOn" => s.arg \in BOOLEAN
  /\ s.op = "SetBrightness" => s.arg \in 0..(ByteMax - 1)
  /\ s.op \in {"SetPosition", "SetTilt"} => s.arg \in 0..Top

\* There is one truth and one byte to a value, if any.
LEMMA OneTruth ==
  ASSUME NEW value, NEW a \in Truthy(value), NEW b \in Truthy(value),
         value[1] = "bool" => value[2] \in BOOLEAN
  PROVE  a = b /\ a \in BOOLEAN
<1>1. CASE value[1] = "bool"
  BY <1>1 DEF Truthy
<1>2. CASE value[1] = "int"
  BY <1>2 DEF Truthy
<1>3. CASE value[1] = "name"
  <2>1. a = Truth[value[2]] /\ b = Truth[value[2]] /\ value[2] \in DOMAIN Truth
    BY <1>3 DEF Truthy
  <2>2. \A n \in DOMAIN Truth : Truth[n] \in BOOLEAN
    <3>1. DOMAIN Truth = Yes \cup No
      BY DEF Truth
    <3> SUFFICES ASSUME NEW n \in Yes \cup No PROVE Truth[n] \in BOOLEAN
      BY <3>1, Zenon
    <3>2. CASE n \in Yes
      <4>1. Truth[n] = TRUE
        BY <3>2 DEF Truth
      <4> QED BY <4>1
    <3>3. CASE n \notin Yes
      <4>1. Truth[n] = (n \in Yes)
        BY Zenon DEF Truth
      <4>2. (n \in Yes) = FALSE
        BY <3>3
      <4> QED BY <4>1, <4>2
    <3> QED BY <3>2, <3>3
  <2> QED BY <2>1, <2>2
<1>4. CASE value[1] \notin {"bool", "int", "name"}
  BY <1>4 DEF Truthy
<1> QED BY <1>1, <1>2, <1>3, <1>4

LEMMA OneByte ==
  ASSUME NEW value, NEW a \in Byte(value), NEW b \in Byte(value)
  PROVE  a = b /\ a \in 0..ByteMax
<1>1. \E n : Integer(value) \subseteq {n}
  BY DEF Integer
<1> QED BY <1>1 DEF Byte

(***************************************************************************)
(* A byte of a value is near the quantity that was asked for.              *)
(***************************************************************************)
LEMMA ByteIsNear ==
  ASSUME NEW value, value[1] \in {"int", "num"} => value[2] \in Int,
         NEW n \in Byte(value), NEW q \in Quantity(value)
  PROVE  n \in Int /\ q \in Int /\ Near(n * Scale, q)
<1>1. Scale \in Nat \ {0}
  BY DefinitionsAssumption
<1>2. CASE value[1] = "int"
  <2>1. n = value[2] /\ q = value[2] * Scale /\ n \in Int
    BY <1>2 DEF Byte, Integer, Quantity
  <2>2. q \in Int /\ n * Scale = q
    BY <1>1, <2>1
  <2>3. Near(q, q)
    BY <1>1, <2>2 DEF Near
  <2> QED BY <2>1, <2>2, <2>3
<1>3. CASE value[1] = "num"
  <2>1. n = Round(value[2]) /\ q = value[2] /\ q \in Int
    BY <1>3 DEF Byte, Integer, Quantity
  <2> QED BY <2>1, RoundIsNear
<1>4. CASE value[1] \notin {"int", "num"}
  BY <1>4 DEF Quantity
<1> QED BY <1>2, <1>3, <1>4

(***************************************************************************)
(* The general form of a command stands for one command, or none.          *)
(***************************************************************************)
LEMMA OneSpecific ==
  ASSUME NEW c \in Command, NEW s \in Specific(c), NEW t \in Specific(c)
  PROVE  s = t /\ Fits(s)
<1>1. CASE c.op # "Set"
  <2>1. s = c /\ t = c
    BY <1>1 DEF Specific
  <2> QED BY <2>1, CommandsAreTyped DEF Fits
<1>2. CASE c.op = "Set"
  <2> DEFINE cap == c.arg[1].cap
             value == c.arg[1].value
  <2>1. /\ c.arg \in Seq(Range(c.arg))
        /\ \A i \in DOMAIN c.arg :
             /\ c.arg[i].value[1] = "bool" => c.arg[i].value[2] \in BOOLEAN
             /\ c.arg[i].value[1] \in {"int", "num"} => c.arg[i].value[2] \in Int
    BY <1>2, CommandsAreTyped
  <2>2. Len(c.arg) = 1 /\ s \in Lowered(cap, value) /\ t \in Lowered(cap, value)
    BY <1>2 DEF Specific
  <2>3. 1 \in DOMAIN c.arg
    BY <2>1, <2>2
  <2>4. value[1] = "bool" => value[2] \in BOOLEAN
    BY <2>1, <2>3
  <2>5. ByteMax \in Nat /\ Top \in Nat /\ ByteMax > 2
    BY DefinitionsAssumption
  <2> HIDE DEF cap, value
  <2>6. CASE cap = "state" /\ value = <<"name", "TOGGLE">>
    <3>1. s = [op |-> "Toggle", arg |-> 0] /\ t = [op |-> "Toggle", arg |-> 0]
      BY <2>2, <2>6 DEF Lowered
    <3> QED BY <3>1 DEF Fits
  <2>7. CASE cap = "state" /\ value # <<"name", "TOGGLE">>
    <3>1. Lowered(cap, value) = {[op |-> "SetOn", arg |-> on] : on \in Truthy(value)}
      BY <2>7 DEF Lowered
    <3>2. PICK a \in Truthy(value) : s = [op |-> "SetOn", arg |-> a]
      BY <2>2, <3>1
    <3>3. PICK b \in Truthy(value) : t = [op |-> "SetOn", arg |-> b]
      BY <2>2, <3>1
    <3>4. a = b /\ a \in BOOLEAN
      BY <2>4, OneTruth
    <3> QED BY <3>2, <3>3, <3>4 DEF Fits
  <2>8. CASE cap = "brightness"
    <3>1. Lowered(cap, value) = {[op |-> "SetBrightness", arg |-> Brightness(n)] : n \in Byte(value)}
      BY <2>8 DEF Lowered
    <3>2. PICK a \in Byte(value) : s = [op |-> "SetBrightness", arg |-> Brightness(a)]
      BY <2>2, <3>1
    <3>3. PICK b \in Byte(value) : t = [op |-> "SetBrightness", arg |-> Brightness(b)]
      BY <2>2, <3>1
    <3>4. a = b /\ a \in 0..ByteMax
      BY OneByte
    <3>5. Brightness(a) \in 0..(ByteMax - 1)
      BY <2>5, <3>4 DEF Brightness
    <3> QED BY <3>2, <3>3, <3>4, <3>5 DEF Fits
  <2>9. CASE cap = "position"
    <3>1. Lowered(cap, value) = {[op |-> "SetPosition", arg |-> Percent(n)] : n \in Byte(value)}
      BY <2>9 DEF Lowered
    <3>2. PICK a \in Byte(value) : s = [op |-> "SetPosition", arg |-> Percent(a)]
      BY <2>2, <3>1
    <3>3. PICK b \in Byte(value) : t = [op |-> "SetPosition", arg |-> Percent(b)]
      BY <2>2, <3>1
    <3>4. a = b /\ a \in 0..ByteMax
      BY OneByte
    <3>5. Percent(a) \in 0..Top
      BY <2>5, <3>4 DEF Percent
    <3> QED BY <3>2, <3>3, <3>4, <3>5 DEF Fits
  <2>10. CASE cap \notin {"state", "brightness", "position"}
    BY <2>2, <2>10 DEF Lowered
  <2> QED BY <2>6, <2>7, <2>8, <2>9, <2>10
<1> QED BY <1>1, <1>2

\* What an extension that is no source stands for.
LEMMA ImpliedBy ==
  ASSUME NEW e, NEW s \in Range(Implied(e))
  PROVE  \/ e.kind = "source" /\ s = e.source
         \/ s = Boolean("state", "onOff") \/ s = Boolean("lock", "lock")
         \/ s = Numeric("brightness", "level", 0, 1)
         \/ s = Numeric("position", "cover", 8, 1) \/ s = Numeric("tilt", "cover", 9, 1)
<1> DEFINE on == Boolean("state", "onOff")
           lock == Boolean("lock", "lock")
           b == Numeric("brightness", "level", 0, 1)
           l == Numeric("position", "cover", 8, 1)
           t == Numeric("tilt", "cover", 9, 1)
<1> HIDE DEF on, lock, b, l, t
<1>1. CASE e.kind = "onOff"
  <2>1. Implied(e) = <<on>>
    BY <1>1 DEF Implied, on
  <2>2. s = on
    BY <2>1, OneOf
  <2> QED BY <2>2 DEF on
<1>2. CASE e.kind = "light"
  <2>1. Implied(e) = <<on>> \o When(e.brightness, b)
    BY <1>2 DEF Implied, on, b
  <2>2. Range(<<on>>) = {on} /\ Listed(<<on>>)
    BY OneOf
  <2>3. Listed(When(e.brightness, b)) /\ Range(When(e.brightness, b)) \subseteq {b}
    BY Whenever
  <2>4. s = on \/ s = b
    BY <2>1, <2>2, <2>3, Joined
  <2> QED BY <2>4 DEF on, b
<1>3. CASE e.kind = "cover"
  <2>1. Implied(e) = When(e.lift, l) \o When(e.tilt, t)
    BY <1>3 DEF Implied, l, t
  <2>2. /\ Listed(When(e.lift, l)) /\ Range(When(e.lift, l)) \subseteq {l}
        /\ Listed(When(e.tilt, t)) /\ Range(When(e.tilt, t)) \subseteq {t}
    BY Whenever
  <2>3. s = l \/ s = t
    BY <2>1, <2>2, Joined
  <2> QED BY <2>3 DEF l, t
<1>4. CASE e.kind = "lock"
  <2>1. Implied(e) = <<lock>>
    BY <1>4 DEF Implied, lock
  <2>2. s = lock
    BY <2>1, OneOf
  <2> QED BY <2>2 DEF lock
<1>5. CASE e.kind = "source"
  <2>1. Implied(e) = <<e.source>>
    BY <1>5 DEF Implied
  <2>2. s = e.source
    BY <2>1, OneOf
  <2> QED BY <1>5, <2>2
<1>6. CASE e.kind \notin {"onOff", "light", "cover", "lock", "source"}
  <2>1. Implied(e) = <<>>
    BY <1>6 DEF Implied
  <2> QED BY <2>1, OneOf
<1> QED BY <1>1, <1>2, <1>3, <1>4, <1>5, <1>6

(***************************************************************************)
(* What a command writes feeds the capability of its extension.            *)
(***************************************************************************)
LEMMA FedBy ==
  ASSUME NEW d \in Range(Catalogue), Unambiguous(d),
         NEW cluster, NEW attr, <<cluster, attr>> \in Commanded,
         NEW s \in Feeds(d, cluster, attr)
  PROVE  /\ cluster = "onOff" => s = Boolean("state", "onOff")
         /\ cluster = "lock" => s = Boolean("lock", "lock")
         /\ cluster = "level" => s = Numeric("brightness", "level", 0, 1)
         /\ cluster = "cover" /\ attr = 8 => s = Numeric("position", "cover", 8, 1)
         /\ cluster = "cover" /\ attr = 9 => s = Numeric("tilt", "cover", 9, 1)
<1>1. s \in Range(Sources(d)) /\ s.cluster = cluster /\ s.attr = attr
  BY FeedsAreSources
<1>2. PICK e \in Range(d.extend) : s \in Range(Implied(e))
  BY <1>1, SourcesAreImplied
<1>3. ~(e.kind = "source" /\ s = e.source)
  BY <1>1 DEF Unambiguous
<1>4. \/ s = Boolean("state", "onOff") \/ s = Boolean("lock", "lock")
      \/ s = Numeric("brightness", "level", 0, 1)
      \/ s = Numeric("position", "cover", 8, 1) \/ s = Numeric("tilt", "cover", 9, 1)
  BY <1>2, <1>3, ImpliedBy
<1>5. /\ Boolean("state", "onOff").cluster = "onOff"
      /\ Boolean("lock", "lock").cluster = "lock"
      /\ Numeric("brightness", "level", 0, 1).cluster = "level"
      /\ Numeric("position", "cover", 8, 1).cluster = "cover"
      /\ Numeric("position", "cover", 8, 1).attr = 8
      /\ Numeric("tilt", "cover", 9, 1).cluster = "cover"
      /\ Numeric("tilt", "cover", 9, 1).attr = 9
  BY DEF Boolean, Numeric
<1> QED BY <1>1, <1>4, <1>5

\* What a reading of them is.
LEMMA BooleanReads ==
  ASSUME NEW cap, NEW cluster, NEW wire, NEW r \in Reads(Boolean(cap, cluster), wire)
  PROVE  /\ \A b \in BOOLEAN : wire = <<"bool", b>> => r = <<"bool", b>>
         /\ \A n \in Nat : wire = <<"enum", n>> /\ n # ByteMax => r = <<"bool", n = 1>>
<1> DEFINE s == Boolean(cap, cluster)
<1>1. s.value.shape = "boolean" /\ s.value.on = 1
  BY DEF Boolean
<1> HIDE DEF s
<1>2. ASSUME NEW b \in BOOLEAN, wire = <<"bool", b>> PROVE r = <<"bool", b>>
  <2>1. wire[1] = "bool" /\ wire[2] = b
    BY <1>2
  <2>2. wire \notin {<<"uint", ByteMax>>, <<"enum", ByteMax>>}
    BY <2>1
  <2>3. PICK raw \in AsInt(wire) : r = <<"bool", raw = s.value.on>>
    BY <1>1, <2>2 DEF Reads, s
  <2>4. raw = IF b THEN 1 ELSE 0
    BY <2>1 DEF AsInt
  <2>5. (raw = s.value.on) = b
    BY <1>1, <2>4
  <2> QED BY <2>3, <2>5
<1>3. ASSUME NEW n \in Nat, wire = <<"enum", n>>, n # ByteMax PROVE r = <<"bool", n = 1>>
  <2>1. wire[1] = "enum" /\ wire[2] = n
    BY <1>3
  <2>2. wire \notin {<<"uint", ByteMax>>, <<"enum", ByteMax>>}
    BY <1>3, <2>1
  <2>3. PICK raw \in AsInt(wire) : r = <<"bool", raw = s.value.on>>
    BY <1>1, <2>2 DEF Reads, s
  <2>4. raw = n
    BY <2>1 DEF AsInt
  <2> QED BY <1>1, <2>3, <2>4
<1> QED BY <1>2, <1>3

LEMMA NumericReads ==
  ASSUME NEW cap, NEW cluster, NEW attr, NEW n \in Nat, n # ByteMax,
         NEW r \in Reads(Numeric(cap, cluster, attr, 1), <<"uint", n>>)
  PROVE  r = <<"num", n * Scale>>
<1> DEFINE s == Numeric(cap, cluster, attr, 1)
           wire == <<"uint", n>>
<1>1. s.value.shape = "numeric" /\ s.value.divisor = 1 /\ s.value.offset = 0
  BY DEF Numeric
<1>2. wire[1] = "uint" /\ wire[2] = n
  OBVIOUS
<1> HIDE DEF s, wire
<1>3. wire \notin {<<"uint", ByteMax>>, <<"enum", ByteMax>>}
  BY <1>2
<1>4. PICK raw \in AsNumber(wire) : r = <<"num", Apply(s.value, raw)>>
  BY <1>1, <1>3 DEF Reads, s, wire
<1>5. raw = n
  BY <1>2 DEF AsNumber, AsInt
<1>6. Apply(s.value, n) = n * Scale
  <2>1. Scale \in Nat /\ Divisor(s.value) = 1
    BY <1>1, DefinitionsAssumption DEF Divisor
  <2>2. Scale \div 1 = Scale /\ 0 * Scale = 0 /\ n * Scale + 0 = n * Scale
    BY <2>1
  <2> QED BY <1>1, <2>1, <2>2 DEF Apply
<1> QED BY <1>4, <1>5, <1>6

\* A reading of an attribute comes from what feeds it.
LEMMA AttributeReading ==
  ASSUME NEW d, NEW ep, NEW cluster, NEW attr, NEW v,
         NEW r \in ReadingOf(d, <<"zcl", ep, cluster, attr>>, v)
  PROVE  \E s \in Feeds(d, cluster, attr) : \E x \in Reads(s, v) : r = <<s.cap, x>>
BY DEF ReadingOf, ReportToState

\* What may have been asked for, when the extensions are given a command.
Stands(s, w) ==
  \/ s.op = "SetOn" /\ w = <<"state", <<"bool", s.arg>>>>
  \/ s.op \in {"Lock", "Unlock"} /\ w = <<"lock", <<"bool", s.op = "Lock">>>>
  \/ s.op = "Open" /\ w = <<"position", <<"num", Top * Scale>>>>
  \/ s.op = "Close" /\ w = <<"position", <<"num", 0>>>>
  \/ \E q \in Int :
       /\ Near(s.arg * Scale, q)
       /\ \/ s.op = "SetBrightness" /\ w = <<"brightness", <<"num", q>>>>
          \/ s.op = "SetPosition" /\ w = <<"position", <<"num", q>>>>
          \/ s.op = "SetTilt" /\ w = <<"tilt", <<"num", q>>>>

\* A whole number that is in its range.
LEMMA WholeIsAsked ==
  ASSUME NEW most \in Nat, NEW cap, NEW n \in 0..most, NEW w \in Cropped(most, cap, <<"int", n>>)
  PROVE  w = <<cap, <<"num", n * Scale>>>> /\ n * Scale \in Int /\ Near(n * Scale, n * Scale)
<1> DEFINE value == <<"int", n>>
<1>1. Scale \in Nat \ {0} /\ n * Scale \in Int /\ most * Scale \in Int
  BY DefinitionsAssumption
<1>2. value[1] = "int" /\ value[2] = n
  OBVIOUS
<1> HIDE DEF value
<1>3. Quantity(value) = {n * Scale}
  BY <1>2 DEF Quantity
<1>4. w = <<cap, <<"num", AtMost(most * Scale, n * Scale)>>>>
  BY <1>3 DEF Cropped, value
<1>5. n * Scale <= most * Scale
  BY <1>1, Ordered
<1>6. AtMost(most * Scale, n * Scale) = n * Scale
  BY <1>1, <1>5 DEF AtMost
<1> QED BY <1>1, <1>4, <1>6 DEF Near

(***************************************************************************)
(* What a command asks for is what stands for it asks for, also of the     *)
(* general form and of a quantity that is no whole number.                 *)
(***************************************************************************)
LEMMA AskedStands ==
  ASSUME NEW c \in Command, NEW f, f.via = "zcl", NEW s \in Specific(c),
         s.op \notin {"SetPreset", "SetTargetTemperature"},
         NEW w \in Asks(f, c)
  PROVE  Stands(s, w)
<1> DEFINE M == ByteMax - 1
<1>1. ByteMax \in Nat /\ Top \in Nat /\ M \in Nat /\ Scale \in Nat \ {0}
  BY DefinitionsAssumption
<1>2. CASE c.op # "Set"
  <2>1. s = c
    BY <1>2 DEF Specific
  <2>2. CASE c.op = "SetOn"
    <3>1. c.arg \in BOOLEAN /\ w \in AskedOf("state", <<"bool", c.arg>>)
      BY <2>2, CommandsAreTyped DEF Asks
    <3>2. Truthy(<<"bool", c.arg>>) = {c.arg}
      BY DEF Truthy
    <3>3. AskedOf("state", <<"bool", c.arg>>) = {<<"state", <<"bool", on>>>> : on \in {c.arg}}
      BY <3>2 DEF AskedOf
    <3> QED BY <2>1, <2>2, <3>1, <3>3 DEF Stands
  <2>3. CASE c.op = "SetBrightness"
    <3>1. c.arg \in 0..M /\ w \in AskedOf("brightness", <<"int", c.arg>>)
      BY <2>3, CommandsAreTyped DEF Asks
    <3>2. w \in Cropped(M, "brightness", <<"int", c.arg>>)
      BY <3>1 DEF AskedOf
    <3> HIDE DEF M
    <3>3. w = <<"brightness", <<"num", c.arg * Scale>>>> /\ c.arg * Scale \in Int
          /\ Near(c.arg * Scale, c.arg * Scale)
      BY <1>1, <3>1, <3>2, WholeIsAsked
    <3> QED BY <2>1, <2>3, <3>3 DEF Stands
  <2>4. CASE c.op = "SetPosition"
    <3>1. c.arg \in 0..Top /\ w \in AskedOf("position", <<"int", c.arg>>)
      BY <2>4, CommandsAreTyped DEF Asks
    <3>2. w \in Cropped(Top, "position", <<"int", c.arg>>)
      BY <3>1 DEF AskedOf
    <3>3. w = <<"position", <<"num", c.arg * Scale>>>> /\ c.arg * Scale \in Int
          /\ Near(c.arg * Scale, c.arg * Scale)
      BY <1>1, <3>1, <3>2, WholeIsAsked
    <3> QED BY <2>1, <2>4, <3>3 DEF Stands
  <2>5. CASE c.op = "SetTilt"
    <3>1. c.arg \in 0..Top /\ w \in AskedOf("tilt", <<"int", c.arg>>)
      BY <2>5, CommandsAreTyped DEF Asks
    <3>2. w \in Cropped(Top, "tilt", <<"int", c.arg>>)
      BY <3>1 DEF AskedOf
    <3>3. w = <<"tilt", <<"num", c.arg * Scale>>>> /\ c.arg * Scale \in Int
          /\ Near(c.arg * Scale, c.arg * Scale)
      BY <1>1, <3>1, <3>2, WholeIsAsked
    <3> QED BY <2>1, <2>5, <3>3 DEF Stands
  <2>6. CASE c.op \in {"Lock", "Unlock"}
    BY <2>1, <2>6 DEF Asks, Stands
  <2>7. CASE c.op \in {"Open", "Close"}
    <3> DEFINE n == IF c.op = "Open" THEN Top ELSE 0
    <3>1. n \in 0..Top
      BY <1>1
    <3>2. w \in AskedOf("position", <<"int", n>>)
      BY <2>7 DEF Asks
    <3> HIDE DEF n
    <3>3. w \in Cropped(Top, "position", <<"int", n>>)
      BY <3>2 DEF AskedOf
    <3>4. w = <<"position", <<"num", n * Scale>>>>
      BY <1>1, <3>1, <3>3, WholeIsAsked
    <3>5. 0 * Scale = 0
      BY <1>1
    <3> QED BY <2>1, <2>7, <3>4, <3>5 DEF Stands, n
  <2>8. CASE c.op \notin {"SetOn", "SetBrightness", "SetPosition", "SetTilt", "Lock",
                          "Unlock", "Open", "Close"}
    <3>1. c.op \notin {"SetPreset", "SetTargetTemperature"}
      BY <2>1
    <3> QED BY <1>2, <2>8, <3>1 DEF Asks
  <2> QED BY <2>2, <2>3, <2>4, <2>5, <2>6, <2>7, <2>8
<1>3. CASE c.op = "Set"
  <2> DEFINE cap == c.arg[1].cap
             value == c.arg[1].value
  <2>1. /\ c.arg \in Seq(Range(c.arg))
        /\ \A i \in DOMAIN c.arg :
             /\ c.arg[i].value[1] = "bool" => c.arg[i].value[2] \in BOOLEAN
             /\ c.arg[i].value[1] \in {"int", "num"} => c.arg[i].value[2] \in Int
    BY <1>3, CommandsAreTyped
  <2>2. Len(c.arg) = 1 /\ s \in Lowered(cap, value)
    BY <1>3 DEF Specific
  <2>3. w \in AskedOf(cap, value)
    BY <1>3, <2>2 DEF Asks
  <2>4. 1 \in DOMAIN c.arg
    BY <2>1, <2>2
  <2>5. /\ value[1] = "bool" => value[2] \in BOOLEAN
        /\ value[1] \in {"int", "num"} => value[2] \in Int
    BY <2>1, <2>4
  <2> HIDE DEF cap, value
  <2>6. CASE cap = "state"
    <3>1. PICK on \in Truthy(value) : w = <<cap, <<"bool", on>>>>
      BY <2>3, <2>6 DEF AskedOf
    <3>2. value # <<"name", "TOGGLE">>
      <4>1. "TOGGLE" \notin DOMAIN Truth
        BY DEF Truth, Yes, No
      <4>2. Truthy(<<"name", "TOGGLE">>) = {}
        BY <4>1 DEF Truthy
      <4> QED BY <4>2
    <3>3. PICK a \in Truthy(value) : s = [op |-> "SetOn", arg |-> a]
      BY <2>2, <2>6, <3>2 DEF Lowered
    <3>4. a = on
      BY <2>5, OneTruth
    <3> QED BY <2>6, <3>1, <3>3, <3>4 DEF Stands
  <2>7. CASE cap = "brightness"
    <3>1. PICK q \in Quantity(value) : w = <<cap, <<"num", AtMost(M * Scale, q)>>>>
      BY <2>3, <2>7 DEF AskedOf, Cropped
    <3>2. PICK n \in Byte(value) : s = [op |-> "SetBrightness", arg |-> Brightness(n)]
      BY <2>2, <2>7 DEF Lowered
    <3>3. n \in Int /\ q \in Int /\ Near(n * Scale, q)
      BY <2>5, ByteIsNear
    <3>4. Brightness(n) = IF n > M THEN M ELSE n
      BY DEF Brightness
    <3> HIDE DEF M
    <3>5. Near(Brightness(n) * Scale, AtMost(M * Scale, q))
      BY <1>1, <3>3, <3>4, CutOff
    <3>6. AtMost(M * Scale, q) \in Int
      BY <1>1, <3>3 DEF AtMost
    <3> QED BY <2>7, <3>1, <3>2, <3>5, <3>6 DEF Stands
  <2>8. CASE cap = "position"
    <3>1. PICK q \in Quantity(value) : w = <<cap, <<"num", AtMost(Top * Scale, q)>>>>
      BY <2>3, <2>8 DEF AskedOf, Cropped
    <3>2. PICK n \in Byte(value) : s = [op |-> "SetPosition", arg |-> Percent(n)]
      BY <2>2, <2>8 DEF Lowered
    <3>3. n \in Int /\ q \in Int /\ Near(n * Scale, q)
      BY <2>5, ByteIsNear
    <3>4. Percent(n) = IF n > Top THEN Top ELSE n
      BY DEF Percent
    <3>5. Near(Percent(n) * Scale, AtMost(Top * Scale, q))
      BY <1>1, <3>3, <3>4, CutOff
    <3>6. AtMost(Top * Scale, q) \in Int
      BY <1>1, <3>3 DEF AtMost
    <3> QED BY <2>8, <3>1, <3>2, <3>5, <3>6 DEF Stands
  <2>9. CASE cap \notin {"state", "brightness", "position"}
    BY <2>2, <2>9 DEF Lowered
  <2> QED BY <2>6, <2>7, <2>8, <2>9
<1> QED BY <1>2, <1>3

\* What is told of a place that is no cover's, and of one that is.
LEMMA ToldAsItIs ==
  ASSUME NEW d, NEW p, NEW value, p[3] # "cover" \/ ~Upright(d)
  PROVE  Told(d, p, value) = value
BY DEF Told, Mirrored

LEMMA ToldMirrored ==
  ASSUME NEW d, NEW ep, NEW attr, NEW value, Upright(d)
  PROVE  Told(d, <<"zcl", ep, "cover", attr>>, value) = <<"num", Top * Scale - value[2]>>
<1> DEFINE p == <<"zcl", ep, "cover", attr>>
<1>1. p[1] = "zcl" /\ p[3] = "cover"
  OBVIOUS
<1> HIDE DEF p
<1>2. Told(d, p, value) = <<"num", Top * Scale - value[2]>>
  BY <1>1 DEF Told, Mirrored
<1> QED BY <1>2 DEF p

\* What a frame of a cluster does to its place, and what that is told as.
LEMMA OnOffReadsBack ==
  ASSUME def \in Range(Catalogue), Unambiguous(def), NEW s, Fits(s), NEW ep,
         s.op \in {"SetOn", "Toggle"}, NEW f, f = Frame(ep, "onOff", OnOffId(s), 0),
         NEW w, Stands(s, w), NEW v \in Effect(f)[MainPlace(f)],
         NEW r \in ReadingOf(def, MainPlace(f), v)
  PROVE  r[1] = w[1] /\ Means(Told(def, MainPlace(f), w[2]), r[2])
<1>1. f.via = "zcl" /\ f.ep = ep /\ f.cluster = "onOff" /\ f.id = OnOffId(s)
  BY DEF Frame
<1>2. MainPlace(f) = <<"zcl", ep, "onOff", 0>>
  BY <1>1 DEF MainPlace, Place
<1>3. s.op = "SetOn" /\ w = <<"state", <<"bool", s.arg>>>>
  BY DEF Stands
<1>4. s.arg \in BOOLEAN
  BY <1>3 DEF Fits
<1>5. f.id = IF s.arg THEN 1 ELSE 0
  BY <1>1, <1>3, <1>4 DEF OnOffId
<1>6. Effect(f) = [p \in {<<"zcl", ep, "onOff", 0>>} |-> {<<"bool", f.id = 1>>}]
  <2>1. f.id # 2
    BY <1>5
  <2> QED BY <1>1, <2>1 DEF Effect, Place
<1>7. v = <<"bool", f.id = 1>> /\ (f.id = 1) = s.arg
  BY <1>2, <1>4, <1>5, <1>6
<1>8. v = <<"bool", s.arg>>
  BY <1>7
<1>9. PICK t \in Feeds(def, "onOff", 0) : \E x \in Reads(t, v) : r = <<t.cap, x>>
  BY <1>2, AttributeReading
<1>10. t = Boolean("state", "onOff")
  BY FedBy DEF Commanded
<1>11. PICK x \in Reads(t, v) : r = <<t.cap, x>>
  BY <1>9
<1>12. x = <<"bool", s.arg>>
  BY <1>4, <1>8, <1>10, BooleanReads
<1>13. t.cap = "state"
  BY <1>10 DEF Boolean
<1>14. Told(def, MainPlace(f), w[2]) = w[2]
  <2>1. MainPlace(f)[3] # "cover"
    BY <1>2
  <2> QED BY <2>1, ToldAsItIs
<1> QED BY <1>3, <1>11, <1>12, <1>13, <1>14 DEF Means

LEMMA LevelReadsBack ==
  ASSUME def \in Range(Catalogue), Unambiguous(def), NEW s, Fits(s), NEW ep,
         s.op = "SetBrightness", NEW f, f = Frame(ep, "level", 4, s.arg),
         NEW w, Stands(s, w), NEW v \in Effect(f)[MainPlace(f)],
         NEW r \in ReadingOf(def, MainPlace(f), v)
  PROVE  r[1] = w[1] /\ Means(Told(def, MainPlace(f), w[2]), r[2])
<1>1. f.via = "zcl" /\ f.ep = ep /\ f.cluster = "level" /\ f.id = 4 /\ f.value = s.arg
  BY DEF Frame
<1>2. MainPlace(f) = <<"zcl", ep, "level", 0>>
  BY <1>1 DEF MainPlace, Place
<1>3. PICK q \in Int : Near(s.arg * Scale, q) /\ w = <<"brightness", <<"num", q>>>>
  BY DEF Stands
<1>4. s.arg \in Nat /\ s.arg # ByteMax
  BY DefinitionsAssumption DEF Fits
<1>5. Effect(f) = [p \in {<<"zcl", ep, "level", 0>>, <<"zcl", ep, "onOff", 0>>} |->
                     IF p[3] = "level" THEN {<<"uint", s.arg>>} ELSE {<<"bool", s.arg > 0>>}]
  BY <1>1 DEF Effect, Place
<1>6. v = <<"uint", s.arg>>
  BY <1>2, <1>5
<1>7. PICK t \in Feeds(def, "level", 0) : \E x \in Reads(t, v) : r = <<t.cap, x>>
  BY <1>2, AttributeReading
<1>8. t = Numeric("brightness", "level", 0, 1)
  BY FedBy DEF Commanded
<1>9. PICK x \in Reads(t, v) : r = <<t.cap, x>>
  BY <1>7
<1>10. x = <<"num", s.arg * Scale>>
  BY <1>4, <1>6, <1>8, <1>9, NumericReads
<1>11. t.cap = "brightness"
  BY <1>8 DEF Numeric
<1>12. Told(def, MainPlace(f), w[2]) = w[2]
  <2>1. MainPlace(f)[3] # "cover"
    BY <1>2
  <2> QED BY <2>1, ToldAsItIs
<1> QED BY <1>3, <1>9, <1>10, <1>11, <1>12 DEF Means

(***************************************************************************)
(* A cover that has a percentage n, closed or open as it counts, is told   *)
(* of as what was asked, q, or as the mirror of it.                        *)
(***************************************************************************)
LEMMA CoverIsTold ==
  ASSUME def \in Range(Catalogue), Unambiguous(def), NEW ep, NEW attr \in {8, 9},
         NEW n \in 0..Top, NEW open \in 0..Top, NEW q \in Int, Near(open * Scale, q),
         n = IF Upright(def) THEN Top - open ELSE open,
         NEW m, m = <<"zcl", ep, "cover", attr>>,
         NEW v, v = <<"uint", n>>, NEW want, want = <<"num", q>>,
         NEW r \in ReadingOf(def, m, v)
  PROVE  /\ r[1] = IF attr = 8 THEN "position" ELSE "tilt"
         /\ Means(Told(def, m, want), r[2])
<1> DEFINE cap == IF attr = 8 THEN "position" ELSE "tilt"
<1>1. Scale \in Nat \ {0} /\ Top \in Nat /\ n \in Nat /\ n # ByteMax
  BY DefinitionsAssumption
<1>2. PICK t \in Feeds(def, "cover", attr) :
        \E x \in Reads(t, <<"uint", n>>) : r = <<t.cap, x>>
  BY DEF ReadingOf, ReportToState
<1>3. t = Numeric(cap, "cover", attr, 1)
  BY FedBy DEF Commanded
<1>4. PICK x \in Reads(t, <<"uint", n>>) : r = <<t.cap, x>>
  BY <1>2
<1>5. x = <<"num", n * Scale>>
  BY <1>1, <1>3, <1>4, NumericReads
<1>6. t.cap = cap
  BY <1>3 DEF Numeric
<1>7. CASE Upright(def)
  <2>1. Told(def, m, <<"num", q>>) = <<"num", Top * Scale - q>>
    BY <1>7, ToldMirrored
  <2> DEFINE a == open * Scale
             b == Top * Scale
  <2>2. n * Scale = b - a /\ a \in Int /\ b \in Int
    BY <1>1, <1>7
  <2> HIDE DEF a, b
  <2>3. Near(a, q)
    BY DEF a
  <2>4. Near(n * Scale, b - q)
    BY <1>1, <2>2, <2>3 DEF Near
  <2>5. Near(n * Scale, Top * Scale - q)
    BY <2>4 DEF b
  <2>6. Means(<<"num", Top * Scale - q>>, <<"num", n * Scale>>)
    BY <2>5 DEF Means
  <2> QED BY <1>4, <1>5, <1>6, <2>1, <2>6
<1>8. CASE ~Upright(def)
  <2>1. Told(def, m, <<"num", q>>) = <<"num", q>>
    BY <1>8, ToldAsItIs
  <2>2. Means(<<"num", q>>, <<"num", n * Scale>>)
    BY <1>8 DEF Means
  <2> QED BY <1>4, <1>5, <1>6, <2>1, <2>2
<1> QED BY <1>7, <1>8

\* What a position does to a cover.
LEMMA EffectOnCover ==
  ASSUME NEW f, f.via # "tuya", f.cluster = "cover", f.id \in {5, 8}
  PROVE  Effect(f) = [p \in {Place(f, IF f.id = 5 THEN 8 ELSE 9)} |-> {<<"uint", f.value>>}]
BY DEF Effect

\* A definition has one cover at most, which is upright or not.
LEMMA OneCover ==
  ASSUME NEW d \in Range(Catalogue), NEW cover \in Cover(d)
  PROVE  Upright(d) <=> ~cover.inverted
<1> DEFINE S == Extended(d, {"cover"})
<1>1. S \subseteq Nat
  BY DefinitionsAreLists DEF Extended
<1>2. \A i, j \in FirstOf(S) : i = j
  <2> HIDE DEF S
  <2> QED BY <1>1 DEF FirstOf
<1>3. \A other \in Cover(d) : other = cover
  BY <1>2 DEF Cover
<1> QED BY <1>3 DEF Upright

LEMMA CoverReadsBack ==
  ASSUME def \in Range(Catalogue), Unambiguous(def), NEW s, Fits(s),
         NEW cover \in Cover(def),
         NEW f, f.via = "zcl", f.cluster = "cover", f.id \in {5, 8},
         s.op = IF f.id = 5 THEN "SetPosition" ELSE "SetTilt",
         f.value = CoverPercent(s.arg, cover.inverted),
         NEW w, Stands(s, w), NEW v \in Effect(f)[MainPlace(f)],
         NEW r \in ReadingOf(def, MainPlace(f), v)
  PROVE  r[1] = w[1] /\ Means(Told(def, MainPlace(f), w[2]), r[2])
<1> DEFINE ep == f.ep
           id == f.id
           attr == IF id = 5 THEN 8 ELSE 9
           cap == IF id = 5 THEN "position" ELSE "tilt"
           n == CoverPercent(s.arg, cover.inverted)
<1>1. f.via = "zcl" /\ f.ep = ep /\ f.cluster = "cover" /\ f.id = id /\ f.value = n
  OBVIOUS
<1>a. id \in {5, 8} /\ s.op = IF id = 5 THEN "SetPosition" ELSE "SetTilt"
  OBVIOUS
<1> HIDE DEF ep, id
<1>2. MainPlace(f) = <<"zcl", ep, "cover", attr>>
  <2>1. CASE id = 5
    BY <1>1, <2>1 DEF MainPlace, Place
  <2>2. CASE id = 8
    BY <1>1, <2>2 DEF MainPlace, Place
  <2> QED BY <1>a, <2>1, <2>2
<1>3. PICK q \in Int : Near(s.arg * Scale, q) /\ w = <<cap, <<"num", q>>>>
  BY <1>a DEF Stands
<1>4. s.arg \in 0..Top /\ Top \in Nat
  BY <1>a, DefinitionsAssumption DEF Fits
<1>5. n = IF Upright(def) THEN Top - s.arg ELSE s.arg
  BY OneCover DEF CoverPercent
<1>6. n \in 0..Top
  BY <1>4, <1>5
<1> HIDE DEF n
<1>7. Effect(f) = [p \in {<<"zcl", ep, "cover", attr>>} |-> {<<"uint", n>>}]
  <2> HIDE DEF attr
  <2>1. Effect(f) = [p \in {Place(f, IF f.id = 5 THEN 8 ELSE 9)} |-> {<<"uint", f.value>>}]
    <3>1. f.via # "tuya" /\ f.cluster = "cover" /\ f.id \in {5, 8}
      BY <1>1, <1>a
    <3> QED BY <3>1, EffectOnCover
  <2>2. Place(f, IF f.id = 5 THEN 8 ELSE 9) = <<"zcl", ep, "cover", attr>>
    BY <1>1 DEF Place, attr
  <2> QED BY <1>1, <2>1, <2>2
<1>8. v = <<"uint", n>>
  BY <1>2, <1>7
<1>9. attr \in {8, 9} /\ cap = IF attr = 8 THEN "position" ELSE "tilt"
  OBVIOUS
<1> HIDE DEF attr, cap
<1>10. r \in ReadingOf(def, MainPlace(f), v)
  OBVIOUS
<1>11. r[1] = cap /\ Means(Told(def, MainPlace(f), w[2]), r[2])
  <2> DEFINE open == s.arg
  <2>1. open \in 0..Top /\ q \in Int /\ Near(open * Scale, q)
        /\ n = IF Upright(def) THEN Top - open ELSE open
    BY <1>3, <1>4, <1>5
  <2>2. w[2] = <<"num", q>>
    BY <1>3
  <2> HIDE DEF open
  <2>3. r[1] = (IF attr = 8 THEN "position" ELSE "tilt")
        /\ Means(Told(def, MainPlace(f), w[2]), r[2])
    BY <1>2, <1>6, <1>8, <1>9, <1>10, <2>1, <2>2, CoverIsTold
  <2> QED BY <1>9, <2>3
<1>12. w[1] = cap
  BY <1>3
<1> QED BY <1>11, <1>12

(***************************************************************************)
(* All of the way is a position too.                                       *)
(***************************************************************************)
LEMMA AllOfTheWay ==
  ASSUME def \in Range(Catalogue), Unambiguous(def), NEW s, NEW ep,
         s.op \in {"Open", "Close"}, NEW f, f = Frame(ep, "cover", CoverId(s), 0),
         NEW w, Stands(s, w), NEW v \in Effect(f)[MainPlace(f)],
         NEW r \in ReadingOf(def, MainPlace(f), v)
  PROVE  r[1] = w[1] /\ Means(Told(def, MainPlace(f), w[2]), r[2])
<1> DEFINE open == IF s.op = "Open" THEN Top ELSE 0
           n == IF Upright(def) THEN Top - open ELSE open
           q == open * Scale
<1>1. Scale \in Nat \ {0} /\ Top \in Nat /\ 0 * Scale = 0 /\ Top * Scale \in Int
  BY DefinitionsAssumption
<1>2. /\ f.via = "zcl" /\ f.ep = ep /\ f.cluster = "cover"
      /\ f.id = IF s.op = "Open" THEN 0 ELSE 1
  BY DEF Frame, CoverId
<1>3. MainPlace(f) = <<"zcl", ep, "cover", 8>>
  BY <1>2 DEF MainPlace, Place
<1>4. open \in 0..Top /\ n \in 0..Top /\ q \in Int
  BY <1>1
<1>5. w = <<"position", <<"num", q>>>>
  BY <1>1 DEF Stands
<1>6. Effect(f) = [p \in {Place(f, 8)} |-> {<<"uint", IF (f.id = 1) = Upright(def) THEN Top ELSE 0>>}]
  BY <1>2 DEF Effect
<1>7. (IF (f.id = 1) = Upright(def) THEN Top ELSE 0) = n
  <2>1. Upright(def) \in BOOLEAN
    BY DEF Upright
  <2>2. CASE s.op = "Open"
    <3>1. (f.id = 1) = FALSE /\ open = Top
      BY <1>2, <2>2
    <3> QED BY <1>1, <2>1, <3>1
  <2>3. CASE s.op = "Close"
    <3>1. (f.id = 1) = TRUE /\ open = 0
      BY <1>2, <2>3
    <3> QED BY <1>1, <2>1, <3>1
  <2> QED BY <2>2, <2>3
<1>8. v = <<"uint", n>>
  <2> HIDE DEF n
  <2>1. Place(f, 8) = <<"zcl", ep, "cover", 8>>
    BY <1>2 DEF Place
  <2>2. Effect(f) = [p \in {<<"zcl", ep, "cover", 8>>} |-> {<<"uint", n>>}]
    BY <1>6, <1>7, <2>1
  <2> QED BY <1>3, <2>2
<1>9. Near(open * Scale, q)
  <2> HIDE DEF open
  <2> QED BY <1>1, <1>4 DEF Near
<1>10. n = IF Upright(def) THEN Top - open ELSE open
  OBVIOUS
<1> HIDE DEF n, open, q
<1>11. w[1] = "position" /\ w[2] = <<"num", q>>
  BY <1>5
<1>12. r[1] = "position" /\ Means(Told(def, MainPlace(f), w[2]), r[2])
  <2>1. r \in ReadingOf(def, MainPlace(f), v)
    OBVIOUS
  <2> QED BY <1>3, <1>4, <1>8, <1>9, <1>10, <1>11, <2>1, CoverIsTold
<1> QED BY <1>11, <1>12

LEMMA LockReadsBack ==
  ASSUME def \in Range(Catalogue), Unambiguous(def), NEW s, s.op \in {"Lock", "Unlock"},
         NEW f, f.via = "zcl", f.cluster = "lock", f.id = IF s.op = "Unlock" THEN 1 ELSE 0,
         NEW w, Stands(s, w), NEW v \in Effect(f)[MainPlace(f)],
         NEW r \in ReadingOf(def, MainPlace(f), v)
  PROVE  r[1] = w[1] /\ Means(Told(def, MainPlace(f), w[2]), r[2])
<1> DEFINE ep == f.ep
<1>2. MainPlace(f) = <<"zcl", ep, "lock", 0>>
  BY DEF MainPlace, Place
<1>3. w = <<"lock", <<"bool", s.op = "Lock">>>>
  BY DEF Stands
<1>4. Effect(f) = [p \in {<<"zcl", ep, "lock", 0>>} |-> {<<"enum", f.id + 1>>}]
  BY DEF Effect, Place
<1>5. v = <<"enum", f.id + 1>>
  BY <1>2, <1>4
<1>6. /\ f.id + 1 \in Nat /\ f.id + 1 # ByteMax
      /\ (f.id + 1 = 1) = (s.op = "Lock")
  BY DefinitionsAssumption
<1>7. PICK t \in Feeds(def, "lock", 0) : \E x \in Reads(t, v) : r = <<t.cap, x>>
  BY <1>2, AttributeReading
<1>8. t = Boolean("lock", "lock")
  BY FedBy DEF Commanded
<1>9. PICK x \in Reads(t, v) : r = <<t.cap, x>>
  BY <1>7
<1>10. x = <<"bool", f.id + 1 = 1>>
  BY <1>5, <1>6, <1>8, BooleanReads
<1>11. x = <<"bool", s.op = "Lock">>
  BY <1>6, <1>10
<1>12. t.cap = "lock"
  BY <1>8 DEF Boolean
<1>13. Told(def, MainPlace(f), w[2]) = w[2]
  <2>1. MainPlace(f)[3] # "cover"
    BY <1>2
  <2> QED BY <2>1, ToldAsItIs
<1> QED BY <1>3, <1>9, <1>11, <1>12, <1>13 DEF Means

(***************************************************************************)
(* What the extensions make of a command is read back as it was asked.     *)
(***************************************************************************)
LEMMA ExtensionsReadBack ==
  ASSUME def \in Range(Catalogue), Unambiguous(def), NEW eps, NEW s, Fits(s),
         NEW f \in PlanSpecific(def, eps, s),
         NEW w, Stands(s, w), NEW v \in Effect(f)[MainPlace(f)],
         NEW r \in ReadingOf(def, MainPlace(f), v)
  PROVE  r[1] = w[1] /\ Means(Told(def, MainPlace(f), w[2]), r[2])
<1>1. CASE s.op = "SetOn"
  <2>1. \E ep : f = Frame(ep, "onOff", OnOffId(s), 0)
    BY <1>1 DEF PlanSpecific
  <2> QED BY <1>1, <2>1, OnOffReadsBack
<1>2. CASE s.op = "SetBrightness"
  <2>1. \E ep : f = Frame(ep, "level", 4, s.arg)
    BY <1>2 DEF PlanSpecific
  <2> QED BY <1>2, <2>1, LevelReadsBack
<1>3. CASE s.op \in {"Open", "Close"}
  <2>1. \E ep : f = Frame(ep, "cover", CoverId(s), 0)
    BY <1>3 DEF PlanSpecific
  <2> QED BY <1>3, <2>1, AllOfTheWay
<1>4. CASE s.op = "SetPosition"
  <2>1. PICK cover \in Cover(def) : \E ep : f = Frame(ep, "cover", 5, CoverPercent(s.arg, cover.inverted))
    BY <1>4 DEF PlanSpecific
  <2>2. f.via = "zcl" /\ f.cluster = "cover" /\ f.id = 5 /\ f.value = CoverPercent(s.arg, cover.inverted)
    BY <2>1 DEF Frame
  <2> QED BY <1>4, <2>2, CoverReadsBack
<1>5. CASE s.op = "SetTilt"
  <2>1. PICK cover \in Cover(def) : \E ep : f = Frame(ep, "cover", 8, CoverPercent(s.arg, cover.inverted))
    BY <1>5 DEF PlanSpecific
  <2>2. f.via = "zcl" /\ f.cluster = "cover" /\ f.id = 8 /\ f.value = CoverPercent(s.arg, cover.inverted)
    BY <2>1 DEF Frame
  <2> QED BY <1>5, <2>2, CoverReadsBack
<1>6. CASE s.op \in {"Lock", "Unlock"}
  <2>1. f.via = "zcl" /\ f.cluster = "lock" /\ f.id = IF s.op = "Unlock" THEN 1 ELSE 0
    BY <1>6 DEF PlanSpecific, Frame
  <2> QED BY <1>6, <2>1, LockReadsBack
<1> QED BY <1>1, <1>2, <1>3, <1>4, <1>5, <1>6 DEF Stands

(***************************************************************************)
(* What a datapoint is read back as, is what was asked for.                *)
(***************************************************************************)
LEMMA DecodedIsAsked ==
  ASSUME NEW c \in Command, NEW f, f.via = "tuya", f.value[1] # "raw",
         NEW want \in IntentOf(c), NEW w \in Asks(f, c), NEW got, Decodes(want.value, got)
  PROVE  w[1] = want.cap /\ Means(w[2], got)
<1> DEFINE M == ByteMax - 1
<1>1. ByteMax \in Nat /\ Top \in Nat /\ M \in Nat /\ Scale \in Nat \ {0}
  BY DefinitionsAssumption
<1>2. ASSUME NEW cap, NEW value, IntentOf(c) = Wants(cap, value)
      PROVE  want.cap = cap /\ want.value = value
  BY <1>2 DEF Wants
<1>3. ASSUME NEW most \in Nat, NEW cap, NEW n \in 0..most,
             IntentOf(c) = Wants(cap, <<"int", n>>), w \in Cropped(most, cap, <<"int", n>>)
      PROVE  w[1] = want.cap /\ Means(w[2], got)
  <2>1. want.cap = cap /\ want.value = <<"int", n>>
    BY <1>2, <1>3
  <2>2. w = <<cap, <<"num", n * Scale>>>> /\ Near(n * Scale, n * Scale)
    BY <1>3, WholeIsAsked
  <2>3. got = <<"num", n * Scale>>
    BY <2>1 DEF Decodes
  <2> QED BY <2>1, <2>2, <2>3 DEF Means
<1>4. CASE c.op = "SetOn"
  <2>1. c.arg \in BOOLEAN /\ IntentOf(c) = Wants("state", <<"bool", c.arg>>)
    BY <1>4, CommandsAreTyped DEF IntentOf
  <2>2. want.cap = "state" /\ want.value = <<"bool", c.arg>>
    BY <1>2, <2>1
  <2>3. w \in AskedOf("state", <<"bool", c.arg>>)
    BY <1>4 DEF Asks
  <2>4. Truthy(<<"bool", c.arg>>) = {c.arg}
    BY DEF Truthy
  <2>5. w = <<"state", <<"bool", c.arg>>>>
    BY <2>3, <2>4 DEF AskedOf
  <2> QED BY <2>2, <2>5 DEF Decodes, Means
<1>5. CASE c.op = "SetBrightness"
  <2>1. c.arg \in 0..M /\ IntentOf(c) = Wants("brightness", <<"int", c.arg>>)
    BY <1>5, CommandsAreTyped DEF IntentOf
  <2>2. w \in Cropped(M, "brightness", <<"int", c.arg>>)
    BY <1>5 DEF Asks, AskedOf
  <2> HIDE DEF M
  <2> QED BY <1>1, <1>3, <2>1, <2>2
<1>6. CASE c.op = "SetPosition"
  <2>1. c.arg \in 0..Top /\ IntentOf(c) = Wants("position", <<"int", c.arg>>)
    BY <1>6, CommandsAreTyped DEF IntentOf
  <2>2. w \in Cropped(Top, "position", <<"int", c.arg>>)
    BY <1>6 DEF Asks, AskedOf
  <2> QED BY <1>1, <1>3, <2>1, <2>2
<1>7. CASE c.op = "SetTargetTemperature"
  <2>1. c.arg \in Int /\ Round(c.arg) \in Int /\ Near(Round(c.arg) * Scale, c.arg)
    BY <1>7, CommandsAreTyped, RoundIsNear
  <2>2. IntentOf(c) = Wants("current_heating_setpoint", <<"int", Round(c.arg)>>)
    BY <1>7 DEF IntentOf
  <2>3. want.cap = "current_heating_setpoint" /\ want.value = <<"int", Round(c.arg)>>
    BY <1>2, <2>2
  <2>4. w = <<"current_heating_setpoint", <<"num", c.arg>>>>
    BY <1>7 DEF Asks
  <2>5. got = <<"num", Round(c.arg) * Scale>>
    BY <2>3 DEF Decodes
  <2> QED BY <2>1, <2>3, <2>4, <2>5 DEF Means
<1>8. CASE c.op \in {"Lock", "Unlock"}
  <2>1. IntentOf(c) = Wants("lock", <<"bool", c.op = "Lock">>)
    BY <1>8 DEF IntentOf
  <2>2. want.cap = "lock" /\ want.value = <<"bool", c.op = "Lock">>
    BY <1>2, <2>1
  <2>3. w = <<"lock", <<"bool", c.op = "Lock">>>>
    BY <1>8 DEF Asks
  <2> QED BY <2>2, <2>3 DEF Decodes, Means
<1>9. CASE c.op \in {"Open", "Close", "Stop"}
  <2> DEFINE n == CASE c.op = "Open" -> "OPEN" [] c.op = "Close" -> "CLOSE"
                    [] c.op = "Stop" -> "STOP"
  <2>1. IntentOf(c) = Wants("state", <<"name", n>>)
    BY <1>9 DEF IntentOf
  <2>2. w = <<"state", <<"name", n>>>>
    BY <1>9 DEF Asks
  <2> HIDE DEF n
  <2>3. want.cap = "state" /\ want.value = <<"name", n>>
    BY <1>2, <2>1
  <2> QED BY <2>2, <2>3 DEF Decodes, Means
<1>10. CASE c.op = "SetPreset"
  <2>1. IntentOf(c) = Wants("preset", <<"name", c.arg>>)
    BY <1>10 DEF IntentOf
  <2>2. w = <<"preset", <<"name", c.arg>>>>
    BY <1>10 DEF Asks
  <2>3. want.cap = "preset" /\ want.value = <<"name", c.arg>>
    BY <1>2, <2>1
  <2> QED BY <2>2, <2>3 DEF Decodes, Means
<1>11. CASE c.op \notin {"SetOn", "Lock", "Unlock", "SetBrightness", "SetPosition",
                         "SetTargetTemperature", "SetPreset", "Open", "Close", "Stop"}
  BY <1>11 DEF IntentOf
<1> QED BY <1>4, <1>5, <1>6, <1>7, <1>8, <1>9, <1>10, <1>11

\* What is told of a datapoint is what it does.
LEMMA DatapointIsTold ==
  ASSUME NEW d, NEW dp, NEW value
  PROVE  Told(d, <<"dp", dp>>, value) = value
<1>1. <<"dp", dp>>[1] # "zcl"
  OBVIOUS
<1> QED BY <1>1 DEF Told, Mirrored

(***************************************************************************)
(* Whichever way a command is planned, what the device then has is read    *)
(* back as what was asked.                                                 *)
(***************************************************************************)
LEMMA CommandIsReadBack ==
  ASSUME def \in Range(Catalogue), Unambiguous(def), NEW c \in Command,
         NEW f \in Plan(def, known, c),
         NEW w \in Asks(f, c), MainPlace(f) \in DOMAIN Effect(f),
         NEW v \in Effect(f)[MainPlace(f)],
         NEW r \in ReadingOf(def, MainPlace(f), v)
  PROVE  r[1] = w[1] /\ Means(Told(def, MainPlace(f), w[2]), r[2])
<1>1. ASSUME f.via = "tuya", f.cluster = "tuya"
      PROVE  /\ r \in DatapointToState(def, f.id, f.value)
             /\ Told(def, MainPlace(f), w[2]) = w[2]
  <2>1. Effect(f) = [p \in {<<"dp", f.id>>} |-> {f.value}]
    BY <1>1 DEF Effect
  <2>2. MainPlace(f) = <<"dp", f.id>>
    BY <1>1 DEF MainPlace
  <2>3. v = f.value
    BY <2>1, <2>2
  <2>4. r \in DatapointToState(def, f.id, f.value)
    BY <2>2, <2>3 DEF ReadingOf
  <2> QED BY <2>2, <2>4, DatapointIsTold
<1>2. CASE f \in CommandToDatapoint(def, c)
  <2>1. f.via = "tuya" /\ f.cluster = "tuya"
    BY <1>2 DEF CommandToDatapoint, PointFrame
  <2>2. r \in DatapointToState(def, f.id, f.value)
    BY <1>1, <2>1
  <2>3. PICK want \in IntentOf(c) : TRUE
    BY <1>2 DEF CommandToDatapoint
  <2>4. f.value[1] # "raw" /\ r[1] = want.cap /\ Decodes(want.value, r[2])
    BY <1>2, <2>2, TableReadsBack
  <2>5. w[1] = want.cap /\ Means(w[2], r[2])
    BY <2>1, <2>4, DecodedIsAsked
  <2> QED BY <1>1, <2>1, <2>4, <2>5
<1>3. CASE f \in ScheduleFrames(def, c) /\ ScheduleClaims(def, c)
  <2>1. f.via = "tuya" /\ f.cluster = "tuya"
    BY <1>3 DEF ScheduleFrames, PointFrame
  <2>2. r \in DatapointToState(def, f.id, f.value)
    BY <1>1, <2>1
  <2>3. c.op = "SetPreset" /\ OfSchedule(def) # {}
    BY <1>3 DEF ScheduleClaims, OfDay
  <2>4. f.value[1] = "raw"
    BY <1>3, <2>2, <2>3, ScheduleReadsBack
  <2>5. PICK p \in OfSchedule(def) : w = <<p.name, <<"name", c.arg>>>>
    BY <2>1, <2>3, <2>4 DEF Asks
  <2>6. r[1] = p.name /\ r[2] = <<"name", c.arg>>
    BY <1>3, <2>2, ScheduleReadsBack
  <2>7. Means(<<"name", c.arg>>, <<"name", c.arg>>)
    BY DEF Means
  <2> QED BY <1>1, <2>1, <2>5, <2>6, <2>7
<1>4. CASE f \in PlanCommand(def, known, c)
  <2>1. PICK s \in Specific(c) : f \in PlanSpecific(def, known, s)
    BY <1>4 DEF PlanCommand
  <2>2. Fits(s)
    BY OneSpecific
  <2>3. s.op \notin {"SetPreset", "SetTargetTemperature"}
    BY <2>1 DEF PlanSpecific
  <2>4. f.via = "zcl"
    BY <2>1, ExtensionsAllow DEF Spoken
  <2>5. Stands(s, w)
    BY <2>3, <2>4, AskedStands
  <2> QED BY <2>1, <2>2, <2>5, ExtensionsReadBack
<1> QED BY <1>2, <1>3, <1>4 DEF Plan

\* The same places are had, commanded and told of; what was told is a
\* reading of what a place has; and such a reading is what was commanded.
ReadsBack ==
  /\ DOMAIN wanted = DOMAIN mem /\ DOMAIN shown = DOMAIN mem
  /\ \A p \in DOMAIN mem : \A r \in shown[p] : \E v \in mem[p] : r \in ReadingOf(def, p, v)
  /\ def # None /\ Unambiguous(def) =>
       \A p \in DOMAIN mem : \A w \in wanted[p], v \in mem[p] :
         \A r \in ReadingOf(def, p, v) : r[1] = w[1] /\ Means(Told(def, p, w[2]), r[2])

LEMMA ReadsBackHolds == ReadsBack => CommandsReadBack
BY DEF ReadsBack, CommandsReadBack

LEMMA InitReadsBack == Init => ReadsBack
BY DEF Init, Nothing, ReadsBack

LEMMA RunReadsBack ==
  ASSUME Follows, ReadsBack, NEW c \in Command, RunCommand(c)
  PROVE  ReadsBack'
<1>1. def' = def /\ def # None
  BY DEF RunCommand, facts
<1>2. def \in Range(Catalogue)
  BY <1>1, FollowsIsCatalogued
<1>3. CASE UNCHANGED device
  BY <1>1, <1>3 DEF ReadsBack, device
<1>4. ASSUME NEW f \in Plan(def, known, c), Executes(f, Asks(f, c))
      PROVE  ReadsBack'
  <2> DEFINE e == Effect(f)
             touched == DOMAIN e \cap DOMAIN mem
             asks == Asks(f, c)
             m == MainPlace(f)
  <2>1. /\ mem' = [p \in DOMAIN mem |-> IF p \in touched THEN e[p] ELSE mem[p]]
        /\ shown' = [p \in DOMAIN mem |-> IF p \in touched THEN {} ELSE shown[p]]
        /\ wanted' = [p \in DOMAIN mem |->
                        IF p \in touched THEN (IF p = m THEN asks ELSE {}) ELSE wanted[p]]
    BY <1>4 DEF Executes
  <2>2. Unambiguous(def) /\ m \in DOMAIN e =>
          \A w \in asks, v \in e[m] : \A r \in ReadingOf(def, m, v) :
            r[1] = w[1] /\ Means(Told(def, m, w[2]), r[2])
    BY <1>2, <1>4, CommandIsReadBack
  <2> HIDE DEF e, asks, m
  <2>3. DOMAIN mem' = DOMAIN mem /\ DOMAIN wanted' = DOMAIN mem /\ DOMAIN shown' = DOMAIN mem
    BY <2>1
  <2>4. ASSUME NEW p \in DOMAIN mem, p \notin touched
        PROVE  mem'[p] = mem[p] /\ shown'[p] = shown[p] /\ wanted'[p] = wanted[p]
    BY <2>1, <2>4
  <2>5. ASSUME NEW p \in touched
        PROVE  mem'[p] = e[p] /\ shown'[p] = {} /\ wanted'[p] \subseteq asks
               /\ (p # m => wanted'[p] = {})
    BY <2>1
  <2> HIDE DEF touched
  <2>6. \A p \in DOMAIN mem : \A r \in shown'[p] : \E v \in mem'[p] : r \in ReadingOf(def, p, v)
    <3> SUFFICES ASSUME NEW p \in DOMAIN mem, NEW r \in shown'[p]
                 PROVE  \E v \in mem'[p] : r \in ReadingOf(def, p, v)
      OBVIOUS
    <3>1. p \notin touched
      BY <2>5
    <3>2. mem'[p] = mem[p] /\ shown'[p] = shown[p]
      BY <2>4, <3>1
    <3> QED BY <3>2 DEF ReadsBack
  <2>7. ASSUME Unambiguous(def), NEW p \in DOMAIN mem, NEW w \in wanted'[p],
               NEW v \in mem'[p], NEW r \in ReadingOf(def, p, v)
        PROVE  r[1] = w[1] /\ Means(Told(def, p, w[2]), r[2])
    <3>1. CASE p \notin touched
      <4>1. w \in wanted[p] /\ v \in mem[p]
        BY <2>4, <3>1
      <4> QED BY <1>1, <2>7, <4>1 DEF ReadsBack
    <3>2. CASE p \in touched
      <4>1. p = m /\ w \in asks /\ v \in e[p]
        BY <2>5, <3>2
      <4>2. p \in DOMAIN e
        BY <3>2 DEF touched
      <4> QED BY <2>2, <2>7, <4>1, <4>2
    <3> QED BY <3>1, <3>2
  <2> QED BY <1>1, <2>3, <2>6, <2>7 DEF ReadsBack
<1> QED BY <1>3, <1>4 DEF RunCommand

LEMMA ChangesReadBack ==
  ASSUME ReadsBack, NEW p, NEW v, Changes(p, v)
  PROVE  ReadsBack'
<1>1. /\ mem' = [mem EXCEPT ![p] = {v}]
      /\ shown' = [shown EXCEPT ![p] = {}]
      /\ wanted' = [wanted EXCEPT ![p] = {}]
      /\ def' = def
  BY DEF Changes, facts
<1>2. DOMAIN wanted = DOMAIN mem /\ DOMAIN shown = DOMAIN mem
  BY DEF ReadsBack
<1>3. DOMAIN mem' = DOMAIN mem /\ DOMAIN wanted' = DOMAIN mem /\ DOMAIN shown' = DOMAIN mem
  BY <1>1, <1>2
<1>4. \A q \in DOMAIN mem : q # p =>
        mem'[q] = mem[q] /\ shown'[q] = shown[q] /\ wanted'[q] = wanted[q]
  BY <1>1, <1>2
<1>5. p \in DOMAIN mem => shown'[p] = {} /\ wanted'[p] = {}
  BY <1>1, <1>2
<1>6. \A q \in DOMAIN mem' : \A r \in shown'[q] : \E u \in mem'[q] : r \in ReadingOf(def', q, u)
  BY <1>1, <1>3, <1>4, <1>5 DEF ReadsBack
<1>7. ASSUME def' # None, Unambiguous(def'), NEW q \in DOMAIN mem', NEW w \in wanted'[q],
             NEW u \in mem'[q], NEW r \in ReadingOf(def', q, u)
      PROVE  r[1] = w[1] /\ Means(Told(def', q, w[2]), r[2])
  <2>1. q # p
    BY <1>3, <1>5
  <2>2. w \in wanted[q] /\ u \in mem[q] /\ q \in DOMAIN mem
    BY <1>3, <1>4, <2>1
  <2> QED BY <1>1, <1>7, <2>2 DEF ReadsBack
<1> QED BY <1>2, <1>3, <1>6, <1>7 DEF ReadsBack

LEMMA ReportReadsBack ==
  ASSUME ReadsBack, NEW p, Report(p)
  PROVE  ReadsBack'
<1>1. def' = def /\ mem' = mem /\ wanted' = wanted
  BY DEF Report, facts
<1>2. PICK v \in mem[p] : shown' = [shown EXCEPT ![p] = ReadingOf(def, p, v)]
  BY DEF Report
<1>3. DOMAIN wanted = DOMAIN mem /\ DOMAIN shown = DOMAIN mem /\ DOMAIN shown' = DOMAIN mem
  BY <1>2 DEF ReadsBack
<1>4. ASSUME NEW q \in DOMAIN mem, NEW r \in shown'[q]
      PROVE  \E u \in mem[q] : r \in ReadingOf(def, q, u)
  <2>1. CASE q = p
    BY <1>2, <1>3, <2>1
  <2>2. CASE q # p
    <3>1. r \in shown[q]
      BY <1>2, <1>3, <2>2
    <3> QED BY <3>1 DEF ReadsBack
  <2> QED BY <2>1, <2>2
<1> QED BY <1>1, <1>3, <1>4 DEF ReadsBack

LEMMA StepReadsBack == Follows /\ ReadsBack /\ [Next]_vars => ReadsBack'
<1> SUFFICES ASSUME Follows, ReadsBack, [Next]_vars PROVE ReadsBack'
  OBVIOUS
<1>1. ASSUME NEW c \in Command, RunCommand(c) PROVE ReadsBack'
  BY <1>1, RunReadsBack
<1>2. ASSUME NEW p, NEW v, Changes(p, v) PROVE ReadsBack'
  BY <1>2, ChangesReadBack
<1>3. ASSUME NEW p, Report(p) PROVE ReadsBack'
  BY <1>3, ReportReadsBack
<1>4. CASE Interviewed
  BY <1>4 DEF Interviewed, Nothing, ReadsBack
<1>5. CASE UNCHANGED <<facts, device>>
  BY <1>5 DEF facts, device, ReadsBack
<1>6. CASE Configure \/ Bind \/ BindingDone \/ Untyped \/ ConfigureReporting
  BY <1>5, <1>6 DEF Configure, Bind, BindingDone, Untyped, ConfigureReporting, NextStep
<1>7. CASE UNCHANGED vars
  BY <1>5, <1>7 DEF vars, facts, device
<1> QED BY <1>1, <1>2, <1>3, <1>4, <1>5, <1>6, <1>7 DEF Next

(***************************************************************************)
(* What goes out comes back: whatever of a table or of a cluster a command *)
(* is encoded by (encode_intent, lower, plan_command), the report of what  *)
(* the device then has is decoded to the capability and value the caller   *)
(* asked for, to the nearest unit (convert, report_to_state), in any order *)
(* of commands, reports and changes.  The position of a cover that is not  *)
(* inverted is decoded to the mirror of what was asked.  It is so of any   *)
(* definition that says one thing only of what a command writes.           *)
(***************************************************************************)
THEOREM ReadBack == Spec => []CommandsReadBack
<1>1. Follows /\ ReadsBack /\ [Next]_vars => (Follows /\ ReadsBack)'
  BY StepFollows, StepReadsBack
<1> QED BY InitFollows, InitReadsBack, ReadsBackHolds, <1>1, PTL DEF Spec

=============================================================================
