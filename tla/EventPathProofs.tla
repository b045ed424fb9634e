-------------------------- MODULE EventPathProofs --------------------------
(***************************************************************************)
(* The way of what a device reports, for any sizes: from the stick to the  *)
(* runtime nothing is lost or overtaken (EmberLink), and what the runtime  *)
(* makes of it is complete at the broker (Gateway).  The two are separate  *)
(* specifications over separate variables.  Of both it is also shown what  *)
(* may keep them waiting, and what a reader can rely on when they do.      *)
(*                                                                         *)
(* The order of the callbacks rests on nothing: not on channels that have  *)
(* room, nor on which callbacks mean something.  That only full channels   *)
(* stop the runtime needs channels with room for one (LinkAssumption).     *)
(***************************************************************************)
EXTENDS EmberLink, Gateway, TLAPS, WellFoundedInduction

-----------------------------------------------------------------------------
(* Induction, from the library's theorem on well-founded relations.        *)

(***************************************************************************)
(* A set of numbers that is not empty has a least one.                     *)
(***************************************************************************)
LEMMA LeastNatural ==
  ASSUME NEW T, T \subseteq Nat, T # {}
  PROVE  \E n \in T : \A m \in T : n <= m
<1> DEFINE R == OpToRel(<, Nat)
<1>1. IsWellFoundedOn(R, Nat)
  BY NatLessThanWellFounded
<1>2. \A m, n \in Nat : m < n => <<m, n>> \in R
  BY Zenon DEF OpToRel
<1> HIDE DEF R
<1>3. PICK n \in T : \A m \in T : <<m, n>> \notin R
  BY <1>1, WFMin, Zenon
<1>4. \A m \in T : m \in Nat /\ n \in Nat /\ ~(m < n)
  BY <1>2, <1>3
<1>5. \A m \in T : n <= m
  BY <1>4
<1> QED BY <1>5

(***************************************************************************)
(* So what holds of zero and passes from a number to the next holds of     *)
(* all.                                                                    *)
(***************************************************************************)
LEMMA Induction ==
  ASSUME NEW T, 0 \in T, \A n \in Nat : n \in T => n + 1 \in T
  PROVE  Nat \subseteq T
<1> SUFFICES ASSUME Nat \ T # {} PROVE FALSE
  OBVIOUS
<1>1. PICK n \in Nat \ T : \A m \in Nat \ T : n <= m
  BY LeastNatural
<1>2. n # 0 /\ n - 1 \in Nat
  BY <1>1
<1>3. n - 1 \in T
  BY <1>1, <1>2
<1> QED BY <1>1, <1>2, <1>3
-----------------------------------------------------------------------------
(* The callbacks that mean something.                                      *)

\* f says what is relevant of each beginning of s, up to n callbacks.
Kept(f, s, n) ==
  f = [i \in 0..n |-> IF i = 0 THEN <<>>
                      ELSE IF s[i] \in Unhandled THEN f[i - 1] ELSE Append(f[i - 1], s[i])]

LEMMA KeptStep ==
  ASSUME NEW f, NEW s, NEW n \in Nat, Kept(f, s, n), NEW i \in 1..n
  PROVE  f[i] = IF s[i] \in Unhandled THEN f[i - 1] ELSE Append(f[i - 1], s[i])
<1>1. i \in 0..n /\ i # 0
  OBVIOUS
<1> DEFINE G(j) == IF j = 0 THEN <<>>
                   ELSE IF s[j] \in Unhandled THEN f[j - 1] ELSE Append(f[j - 1], s[j])
<1>2. f = [j \in 0..n |-> G(j)]
  BY DEF Kept
<1> HIDE DEF G
<1>3. f[i] = G(i)
  BY <1>1, <1>2
<1> QED BY <1>1, <1>3 DEF G

(***************************************************************************)
(* The recursion by which the relevant callbacks are picked defines a      *)
(* function for every number of callbacks.                                 *)
(***************************************************************************)
LEMMA KeptExists ==
  ASSUME NEW s
  PROVE  \A n \in Nat : \E f : Kept(f, s, n)
<1> DEFINE T == {n \in Nat : \E f : Kept(f, s, n)}
<1>1. 0 \in T
  <2> DEFINE f == [i \in 0..0 |-> <<>>]
  <2>1. Kept(f, s, 0)
    BY DEF Kept
  <2> QED BY <2>1
<1>2. ASSUME NEW n \in Nat, n \in T PROVE n + 1 \in T
  <2>1. PICK f : Kept(f, s, n)
    BY <1>2
  <2> DEFINE g == [i \in 0..(n + 1) |->
                     IF i <= n THEN f[i]
                     ELSE IF s[i] \in Unhandled THEN f[i - 1] ELSE Append(f[i - 1], s[i])]
  <2>2. \A i \in 0..n : g[i] = f[i]
    OBVIOUS
  <2>3. \A i \in 0..(n + 1) :
          g[i] = IF i = 0 THEN <<>>
                 ELSE IF s[i] \in Unhandled THEN g[i - 1] ELSE Append(g[i - 1], s[i])
    <3> SUFFICES ASSUME NEW i \in 0..(n + 1)
                 PROVE  g[i] = IF i = 0 THEN <<>>
                               ELSE IF s[i] \in Unhandled THEN g[i - 1] ELSE Append(g[i - 1], s[i])
      OBVIOUS
    <3>1. CASE i = 0
      BY <2>1, <3>1 DEF Kept
    <3>2. CASE i \in 1..n
      <4>1. f[i] = IF s[i] \in Unhandled THEN f[i - 1] ELSE Append(f[i - 1], s[i])
        BY <2>1, <3>2, KeptStep
      <4>2. i - 1 \in 0..n /\ i \in 0..n
        BY <3>2
      <4>3. g[i - 1] = f[i - 1] /\ g[i] = f[i]
        BY <2>2, <4>2
      <4> HIDE DEF g
      <4> QED BY <3>2, <4>1, <4>3
    <3>3. CASE i = n + 1
      <4>1. i \in 0..(n + 1) /\ ~(i <= n) /\ i # 0 /\ i - 1 \in 0..n
        BY <3>3
      <4>2. g[i] = IF s[i] \in Unhandled THEN f[i - 1] ELSE Append(f[i - 1], s[i])
        BY <4>1
      <4>3. g[i - 1] = f[i - 1]
        BY <2>2, <4>1
      <4> HIDE DEF g
      <4> QED BY <4>1, <4>2, <4>3
    <3> QED BY <3>1, <3>2, <3>3
  <2>4. g = [i \in 0..(n + 1) |-> g[i]]
    OBVIOUS
  <2> HIDE DEF g
  <2>5. Kept(g, s, n + 1)
    BY <2>3, <2>4 DEF Kept
  <2> QED BY <2>5
<1> HIDE DEF T
<1>3. Nat \subseteq T
  BY <1>1, <1>2, Induction
<1> QED BY <1>3 DEF T

(***************************************************************************)
(* It defines one only: on a common beginning two such functions agree.    *)
(***************************************************************************)
LEMMA KeptUnique ==
  ASSUME NEW s, NEW t, NEW n \in Nat, NEW m \in Nat, n <= m, NEW f, NEW g,
         Kept(f, s, n), Kept(g, t, m), \A i \in 1..n : s[i] = t[i]
  PROVE  \A i \in 0..n : f[i] = g[i]
<1> DEFINE T == {i \in Nat : i <= n => f[i] = g[i]}
<1>1. 0 \in T
  BY DEF Kept
<1>2. ASSUME NEW i \in Nat, i \in T PROVE i + 1 \in T
  <2>1. CASE i + 1 <= n
    <3>1. f[i] = g[i] /\ s[i + 1] = t[i + 1]
      BY <1>2, <2>1
    <3>a. i + 1 \in 1..n /\ i + 1 \in 1..m /\ (i + 1) - 1 = i
      BY <2>1
    <3>2. f[i + 1] = IF s[i + 1] \in Unhandled THEN f[(i + 1) - 1]
                     ELSE Append(f[(i + 1) - 1], s[i + 1])
      BY <3>a, KeptStep
    <3>3. g[i + 1] = IF t[i + 1] \in Unhandled THEN g[(i + 1) - 1]
                     ELSE Append(g[(i + 1) - 1], t[i + 1])
      BY <3>a, KeptStep
    <3> QED BY <3>a, <3>1, <3>2, <3>3
  <2> QED BY <2>1
<1> HIDE DEF T
<1>3. Nat \subseteq T
  BY <1>1, <1>2, Induction
<1> QED BY <1>3 DEF T

LEMMA KeptOf ==
  ASSUME NEW s, Len(s) \in Nat
  PROVE  \E f : Kept(f, s, Len(s)) /\ Relevant(s) = f[Len(s)]
<1>1. \E f : Kept(f, s, Len(s))
  BY KeptExists
<1> DEFINE f == CHOOSE f : Kept(f, s, Len(s))
<1>2. Kept(f, s, Len(s))
  BY <1>1, Zenon
<1>3. Relevant(s) = f[Len(s)]
  BY DEF Relevant, Kept
<1> QED BY <1>2, <1>3

LEMMA RelevantEmpty == Relevant(<<>>) = <<>>
<1>1. PICK f : Kept(f, <<>>, 0) /\ Relevant(<<>>) = f[0]
  BY KeptOf
<1> QED BY <1>1 DEF Kept

(***************************************************************************)
(* What is relevant of a sequence, with one callback more.                 *)
(***************************************************************************)
LEMMA RelevantAppend ==
  ASSUME NEW S, NEW s \in Seq(S), NEW x \in S
  PROVE  Relevant(Append(s, x)) = IF x \in Unhandled THEN Relevant(s) ELSE Append(Relevant(s), x)
<1> DEFINE t == Append(s, x)
<1>1. /\ Len(s) \in Nat /\ Len(t) = Len(s) + 1 /\ t[Len(s) + 1] = x
      /\ \A i \in 1..Len(s) : s[i] = t[i]
  OBVIOUS
<1> HIDE DEF t
<1>2. PICK f : Kept(f, s, Len(s)) /\ Relevant(s) = f[Len(s)]
  BY <1>1, KeptOf
<1>3. PICK g : Kept(g, t, Len(t)) /\ Relevant(t) = g[Len(t)]
  BY <1>1, KeptOf
<1>4. f[Len(s)] = g[Len(s)]
  <2> DEFINE n == Len(s)
             m == Len(t)
  <2>1. n \in Nat /\ m \in Nat /\ n <= m /\ n \in 0..n /\ \A i \in 1..n : s[i] = t[i]
    BY <1>1
  <2>2. Kept(f, s, n) /\ Kept(g, t, m)
    BY <1>2, <1>3
  <2> HIDE DEF n, m
  <2>3. \A i \in 0..n : f[i] = g[i]
    BY <2>1, <2>2, KeptUnique
  <2> QED BY <2>1, <2>3 DEF n
<1>5. g[Len(s) + 1] = IF x \in Unhandled THEN g[Len(s)] ELSE Append(g[Len(s)], x)
  <2> DEFINE i == Len(s) + 1
  <2>1. i \in 1..Len(t) /\ t[i] = x /\ i - 1 = Len(s) /\ Len(t) \in Nat
    BY <1>1
  <2> HIDE DEF i
  <2>2. g[i] = IF t[i] \in Unhandled THEN g[i - 1] ELSE Append(g[i - 1], t[i])
    BY <1>3, <2>1, KeptStep
  <2> QED BY <2>1, <2>2 DEF i
<1> QED BY <1>1, <1>2, <1>3, <1>4, <1>5 DEF t

\* Induction over sequences, by their length.
LEMMA SequenceInduction ==
  ASSUME NEW S, NEW T, <<>> \in T,
         \A s \in Seq(S), x \in S : s \in T => Append(s, x) \in T
  PROVE  Seq(S) \subseteq T
<1> DEFINE N == {n \in Nat : \A s \in Seq(S) : Len(s) = n => s \in T}
<1>1. 0 \in N
  OBVIOUS
<1>2. ASSUME NEW n \in Nat, n \in N PROVE n + 1 \in N
  <2> SUFFICES ASSUME NEW s \in Seq(S), Len(s) = n + 1 PROVE s \in T
    OBVIOUS
  <2> DEFINE front == [i \in 1..n |-> s[i]]
  <2>1. front \in Seq(S) /\ Len(front) = n /\ s[n + 1] \in S
    OBVIOUS
  <2>2. s = Append(front, s[n + 1])
    OBVIOUS
  <2> QED BY <1>2, <2>1, <2>2
<1> HIDE DEF N
<1>3. Nat \subseteq N
  BY <1>1, <1>2, Induction
<1> QED BY <1>3 DEF N

(***************************************************************************)
(* Of any sequence what is picked is relevant.                             *)
(***************************************************************************)
LEMMA RelevantTyped ==
  ASSUME NEW S, NEW s \in Seq(S)
  PROVE  Relevant(s) \in Seq(S \ Unhandled) /\ Relevant(s) \in Seq(S)
<1> DEFINE T == {t \in Seq(S) : Relevant(t) \in Seq(S \ Unhandled)}
<1>1. <<>> \in T
  <2>1. <<>> \in Seq(S) /\ <<>> \in Seq(S \ Unhandled)
    OBVIOUS
  <2> QED BY <2>1, RelevantEmpty
<1>2. ASSUME NEW t \in Seq(S), NEW x \in S, t \in T PROVE Append(t, x) \in T
  <2>1. Relevant(t) \in Seq(S \ Unhandled) /\ Append(t, x) \in Seq(S)
    BY <1>2
  <2>2. x \notin Unhandled => Append(Relevant(t), x) \in Seq(S \ Unhandled)
    BY <2>1
  <2> QED BY <2>1, <2>2, RelevantAppend
<1> HIDE DEF T
<1>3. Seq(S) \subseteq T
  BY <1>1, <1>2, SequenceInduction
<1>4. Relevant(s) \in Seq(S \ Unhandled)
  BY <1>3 DEF T
<1> QED BY <1>4

(***************************************************************************)
(* What is relevant of two stretches is so stretch by stretch: it makes no *)
(* difference where on its way a callback is looked at.                    *)
(***************************************************************************)
LEMMA RelevantConcat ==
  ASSUME NEW S, NEW s \in Seq(S), NEW t \in Seq(S)
  PROVE  Relevant(s \o t) = Relevant(s) \o Relevant(t)
<1> DEFINE T == {u \in Seq(S) : Relevant(s \o u) = Relevant(s) \o Relevant(u)}
<1>1. <<>> \in T
  <2>1. s \o <<>> = s /\ Relevant(s) \o <<>> = Relevant(s)
    BY RelevantTyped
  <2>2. <<>> \in Seq(S)
    OBVIOUS
  <2> QED BY <2>1, <2>2, RelevantEmpty
<1>2. ASSUME NEW u \in Seq(S), NEW x \in S, u \in T PROVE Append(u, x) \in T
  <2>1. s \o Append(u, x) = Append(s \o u, x) /\ s \o u \in Seq(S) /\ Append(u, x) \in Seq(S)
    OBVIOUS
  <2>2. Relevant(s) \in Seq(S) /\ Relevant(u) \in Seq(S)
    BY RelevantTyped
  <2>3. Relevant(s) \o Append(Relevant(u), x) = Append(Relevant(s) \o Relevant(u), x)
    BY <2>2
  <2>4. Relevant(s \o u) = Relevant(s) \o Relevant(u)
    BY <1>2
  <2>5. Relevant(Append(u, x)) = IF x \in Unhandled THEN Relevant(u) ELSE Append(Relevant(u), x)
    BY RelevantAppend
  <2>6. Relevant(Append(s \o u, x)) = IF x \in Unhandled THEN Relevant(s \o u)
                                      ELSE Append(Relevant(s \o u), x)
    BY <2>1, RelevantAppend
  <2>7. Relevant(s \o Append(u, x)) = Relevant(s) \o Relevant(Append(u, x))
    BY <2>1, <2>3, <2>4, <2>5, <2>6, Zenon
  <2> QED BY <2>1, <2>7
<1> HIDE DEF T
<1>3. Seq(S) \subseteq T
  BY <1>1, <1>2, SequenceInduction
<1> QED BY <1>3 DEF T

LEMMA RelevantOne ==
  ASSUME NEW x
  PROVE  Relevant(<<x>>) = IF x \in Unhandled THEN <<>> ELSE <<x>>
<1>1. <<x>> = Append(<<>>, x)
  OBVIOUS
<1>2. <<>> \in Seq({x}) /\ x \in {x}
  OBVIOUS
<1> QED BY <1>1, <1>2, RelevantEmpty, RelevantAppend

-----------------------------------------------------------------------------
(* The link.                                                               *)

\* What is on its way to the runtime, before anybody asked what it means.
Raw == callbacks \o batch \o ncp
Acted == handled \o events \o held

\* The channels hold callbacks.
LinkTyped ==
  /\ made \in Nat
  /\ ncp \in Seq(Nat) /\ batch \in Seq(Nat) /\ callbacks \in Seq(Nat)
  /\ held \in Seq(Nat) /\ events \in Seq(Nat) /\ handled \in Seq(Nat)

\* Who waits for whom, and who has nothing in hand.
Turns ==
  /\ request => task = "asking" /\ conn # "executing"
  /\ conn = "executing" => task = "asking"
  /\ conn # "forwarding" => batch = <<>>
  /\ pump \in {"unborn", "waiting"} => held = <<>>
  /\ task = "starting" => pump = "unborn"

\* With what the runtime was given, that is all there was.
AllOnTheWay == task # "ended" /\ pump # "ended" => Acted \o Relevant(Raw) = Produced

\* What every step keeps.
LinkInv == LinkTyped /\ Turns /\ AllOnTheWay

LEMMA Parts ==
  ASSUME NEW S, NEW s \in Seq(S), s # <<>>
  PROVE  /\ Head(s) \in S /\ Tail(s) \in Seq(S) /\ <<Head(s)>> \in Seq(S)
         /\ s = <<Head(s)>> \o Tail(s)
OBVIOUS

(***************************************************************************)
(* Every step keeps the types of the channels.                             *)
(***************************************************************************)
LEMMA LinkTypedStep == LinkTyped /\ [LinkNext]_linkVars => LinkTyped'
<1> SUFFICES ASSUME LinkTyped, [LinkNext]_linkVars PROVE LinkTyped'
  OBVIOUS
<1> USE DEF LinkTyped
<1>0. <<>> \in Seq(Nat)
  OBVIOUS
<1>1. CASE RuntimeSteps
  <2>1. CASE TakeEvent
    <3>1. Head(events) \in Nat /\ Tail(events) \in Seq(Nat)
      BY <2>1, Parts DEF TakeEvent
    <3>2. Append(handled, Head(events)) \in Seq(Nat)
      BY <3>1
    <3> QED BY <2>1, <3>1, <3>2 DEF TakeEvent, world, connVars, pumpVars
  <2>2. CASE StartFails \/ FinishStop
    BY <1>0, <2>2 DEF StartFails, FinishStop, world, connVars, pumpVars
  <2>3. CASE Command \/ Started \/ TakeOther \/ HandlerEnds \/ BeginStop
    BY <2>3 DEF Command, Started, TakeOther, HandlerEnds, BeginStop, world, connVars, pumpVars
  <2> QED BY <1>1, <2>1, <2>2, <2>3 DEF RuntimeSteps
<1>2. CASE ConnSteps
  <2>1. CASE ConnForwards
    <3>1. Head(batch) \in Nat /\ Tail(batch) \in Seq(Nat)
      BY <2>1, Parts DEF ConnForwards
    <3>2. Append(callbacks, Head(batch)) \in Seq(Nat)
      BY <3>1
    <3>3. UNCHANGED <<made, ncp, held, events, handled>>
      BY <2>1 DEF ConnForwards, world, pumpVars
    <3>4. batch' \in Seq(Nat) /\ callbacks' \in Seq(Nat)
      <4>1. \/ batch' = Tail(batch) /\ callbacks' = Append(callbacks, Head(batch))
            \/ batch' = <<>> /\ callbacks' = callbacks
        BY <2>1 DEF ConnForwards
      <4> QED BY <1>0, <3>1, <3>2, <4>1
    <3> QED BY <3>3, <3>4
  <2>2. CASE ConnExecuted \/ ConnPolled
    BY <1>0, <2>2 DEF ConnExecuted, ConnPolled, world, pumpVars
  <2>3. CASE ConnTakes \/ ConnPolls \/ ConnPollFails \/ ConnEnds \/ ConnForwarded
    BY <2>3 DEF ConnTakes, ConnPolls, ConnPollFails, ConnEnds, ConnForwarded, world, pumpVars
  <2> QED BY <1>2, <2>1, <2>2, <2>3 DEF ConnSteps
<1>3. CASE PumpSteps
  <2>1. CASE PumpTakes
    <3>1. <<Head(callbacks)>> \in Seq(Nat) /\ Tail(callbacks) \in Seq(Nat)
      BY <2>1, Parts DEF PumpTakes
    <3> QED BY <2>1, <3>1 DEF PumpTakes, world, connVars, pumpVars
  <2>2. CASE PumpSends
    <3>1. events \o held \in Seq(Nat)
      OBVIOUS
    <3> QED BY <1>0, <2>2, <3>1 DEF PumpSends, world, connVars
  <2>3. CASE PumpEnds
    BY <1>0, <2>3 DEF PumpEnds, world, connVars
  <2> QED BY <1>3, <2>1, <2>2, <2>3 DEF PumpSteps
<1>4. CASE Produce
  <2>1. Append(ncp, made + 1) \in Seq(Nat) /\ made + 1 \in Nat
    OBVIOUS
  <2> QED BY <1>4, <2>1 DEF Produce, pumpVars
<1>5. CASE LosePort
  BY <1>5 DEF LosePort, connVars, pumpVars
<1>6. CASE UNCHANGED linkVars
  BY <1>6 DEF linkVars
<1> QED BY <1>1, <1>2, <1>3, <1>4, <1>5, <1>6 DEF LinkNext

(***************************************************************************)
(* Every step keeps the turns.                                             *)
(***************************************************************************)
LEMMA TurnsStep == Turns /\ [LinkNext]_linkVars => Turns'
<1> SUFFICES ASSUME Turns, [LinkNext]_linkVars PROVE Turns'
  OBVIOUS
<1> USE DEF Turns
<1>1. CASE RuntimeSteps
  BY <1>1 DEF RuntimeSteps, Command, Started, StartFails, TakeEvent, TakeOther, HandlerEnds,
              BeginStop, FinishStop, world, connVars, pumpVars
<1>2. CASE ConnSteps
  BY <1>2 DEF ConnSteps, ConnTakes, ConnExecuted, ConnPolls, ConnPolled, ConnPollFails, ConnEnds,
              ConnForwards, ConnForwarded, world, pumpVars, Answered
<1>3. CASE PumpSteps
  BY <1>3 DEF PumpSteps, PumpTakes, PumpSends, PumpEnds, world, connVars, pumpVars
<1>4. CASE Produce \/ LosePort
  BY <1>4 DEF Produce, LosePort, connVars, pumpVars
<1>5. CASE UNCHANGED linkVars
  BY <1>5 DEF linkVars
<1> QED BY <1>1, <1>2, <1>3, <1>4, <1>5 DEF LinkNext

\* Alive: the channels end at somebody.
Alive == task # "ended" /\ pump # "ended"

(***************************************************************************)
(* The end of either side is for good: the answer to a command finds       *)
(* nobody but a task that waits for it.                                    *)
(***************************************************************************)
LEMMA AliveStep == Turns /\ [LinkNext]_linkVars /\ Alive' => Alive
<1> SUFFICES ASSUME Turns, [LinkNext]_linkVars, Alive' PROVE Alive
  OBVIOUS
<1> USE DEF Turns, Alive
<1>1. CASE RuntimeSteps
  BY <1>1 DEF RuntimeSteps, Command, Started, StartFails, TakeEvent, TakeOther, HandlerEnds,
              BeginStop, FinishStop, world, connVars, pumpVars
<1>2. CASE ConnSteps
  BY <1>2 DEF ConnSteps, ConnTakes, ConnExecuted, ConnPolls, ConnPolled, ConnPollFails, ConnEnds,
              ConnForwards, ConnForwarded, world, pumpVars
<1>3. CASE PumpSteps
  BY <1>3 DEF PumpSteps, PumpTakes, PumpSends, PumpEnds, pumpVars
<1>4. CASE Produce \/ LosePort
  BY <1>4 DEF Produce, LosePort, pumpVars
<1>5. CASE UNCHANGED linkVars
  BY <1>5 DEF linkVars
<1> QED BY <1>1, <1>2, <1>3, <1>4, <1>5 DEF LinkNext

LEMMA Moved ==
  ASSUME NEW S, NEW s \in Seq(S), NEW t \in Seq(S), t # <<>>
  PROVE  Append(s, Head(t)) \o Tail(t) = s \o t
OBVIOUS

LEMMA HeadOfCons ==
  ASSUME NEW S, NEW x \in S, NEW s \in Seq(S)
  PROVE  <<x>> \o s # <<>> /\ Head(<<x>> \o s) = x /\ Tail(<<x>> \o s) = s
OBVIOUS

LEMMA Associative ==
  ASSUME NEW S, NEW r \in Seq(S), NEW s \in Seq(S), NEW t \in Seq(S)
  PROVE  (r \o s) \o t = r \o (s \o t)
OBVIOUS

LEMMA NothingAdded ==
  ASSUME NEW S, NEW s \in Seq(S)
  PROVE  s \o <<>> = s
OBVIOUS

\* A step passes callbacks on without looking at them, reads one that means
\* nothing, hands one over, or adds one at the far end.
LEMMA Onward ==
  ASSUME LinkTyped, Turns, [LinkNext]_linkVars, Alive, Alive'
  PROVE  \/ Acted' = Acted /\ Raw' = Raw /\ made' = made
         \/ /\ Raw # <<>> /\ Raw' = Tail(Raw) /\ made' = made
            /\ Acted' = IF Head(Raw) \in Unhandled THEN Acted ELSE Append(Acted, Head(Raw))
         \/ Acted' = Acted /\ Raw' = Append(Raw, made + 1) /\ made' = made + 1
<1>0. /\ ncp \in Seq(Nat) /\ batch \in Seq(Nat) /\ callbacks \in Seq(Nat)
      /\ held \in Seq(Nat) /\ events \in Seq(Nat) /\ handled \in Seq(Nat) /\ made \in Nat
  BY DEF LinkTyped
<1>1. CASE TakeEvent
  <2>1. Append(handled, Head(events)) \o Tail(events) = handled \o events
    BY <1>0, <1>1, Moved DEF TakeEvent
  <2> QED BY <1>1, <2>1 DEF TakeEvent, Acted, Raw, world, connVars, pumpVars
<1>2. CASE Command \/ Started \/ TakeOther \/ HandlerEnds \/ BeginStop
  BY <1>2 DEF Command, Started, TakeOther, HandlerEnds, BeginStop, Acted, Raw, world, connVars,
              pumpVars
<1>3. CASE StartFails \/ FinishStop \/ PumpEnds
  BY <1>3 DEF StartFails, FinishStop, PumpEnds, Alive
<1>4. CASE ConnExecuted \/ ConnPolled
  <2>1. batch = <<>> /\ batch' = ncp /\ ncp' = <<>>
        /\ UNCHANGED <<handled, events, held, callbacks, made>>
    BY <1>4 DEF ConnExecuted, ConnPolled, Turns, world, pumpVars
  <2>2. (callbacks \o <<>>) \o ncp = (callbacks \o ncp) \o <<>>
    BY <1>0
  <2> QED BY <2>1, <2>2 DEF Acted, Raw
<1>5. CASE ConnForwards
  <2>1. batch # <<>> /\ batch' = Tail(batch) /\ callbacks' = Append(callbacks, Head(batch))
        /\ UNCHANGED <<handled, events, held, ncp, made>>
    BY <1>5 DEF ConnForwards, world, pumpVars, Alive
  <2>2. Append(callbacks, Head(batch)) \o Tail(batch) = callbacks \o batch
    BY <1>0, <2>1, Moved
  <2> QED BY <2>1, <2>2 DEF Acted, Raw
<1>6. CASE ConnTakes \/ ConnPolls \/ ConnPollFails \/ ConnEnds \/ ConnForwarded
  BY <1>6 DEF ConnTakes, ConnPolls, ConnPollFails, ConnEnds, ConnForwarded, Acted, Raw, world,
              pumpVars
<1>7. CASE PumpTakes
  <2>1. /\ held = <<>> /\ callbacks # <<>> /\ callbacks' = Tail(callbacks)
        /\ held' = IF Head(callbacks) \in Unhandled THEN <<>> ELSE <<Head(callbacks)>>
        /\ UNCHANGED <<handled, events, batch, ncp, made>>
    BY <1>7 DEF PumpTakes, Turns, world, connVars, pumpVars
  <2>2. Raw # <<>> /\ Head(Raw) = Head(callbacks) /\ Tail(Raw) = (Tail(callbacks) \o batch) \o ncp
    <3>1. /\ callbacks = <<Head(callbacks)>> \o Tail(callbacks)
          /\ Head(callbacks) \in Nat /\ Tail(callbacks) \in Seq(Nat)
      BY <1>0, <2>1, Parts
    <3>2. ASSUME NEW x \in Nat, NEW u \in Seq(Nat), callbacks = <<x>> \o u
          PROVE  Raw # <<>> /\ Head(Raw) = x /\ Tail(Raw) = (u \o batch) \o ncp
      <4>a. <<x>> \in Seq(Nat) /\ u \o batch \in Seq(Nat)
        BY <1>0, <3>2
      <4>b. (<<x>> \o u) \o batch = <<x>> \o (u \o batch)
        BY <1>0, <3>2, <4>a, Associative
      <4>c. (<<x>> \o (u \o batch)) \o ncp = <<x>> \o ((u \o batch) \o ncp)
        <5>1. <<x>> \in Seq(Nat) /\ u \o batch \in Seq(Nat) /\ ncp \in Seq(Nat)
          BY <1>0, <4>a
        <5> QED BY <5>1
      <4>1. Raw = <<x>> \o ((u \o batch) \o ncp)
        BY <3>2, <4>b, <4>c DEF Raw
      <4>2. (u \o batch) \o ncp \in Seq(Nat)
        BY <1>0, <4>a
      <4> QED BY <3>2, <4>1, <4>2, HeadOfCons
    <3> QED BY <3>1, <3>2
  <2>3. Raw' = Tail(Raw) /\ made' = made
    BY <2>1, <2>2 DEF Raw
  <2>4. Acted' = IF Head(Raw) \in Unhandled THEN Acted ELSE Append(Acted, Head(Raw))
    <3>1. Acted = handled \o events /\ handled \o events \in Seq(Nat) /\ Head(callbacks) \in Nat
      BY <1>0, <2>1, Parts DEF Acted
    <3>2. (handled \o events) \o <<Head(callbacks)>> = Append(handled \o events, Head(callbacks))
      BY <3>1
    <3>3. (handled \o events) \o <<>> = handled \o events
      BY <3>1
    <3> QED BY <2>1, <2>2, <3>1, <3>2, <3>3 DEF Acted
  <2> QED BY <2>2, <2>3, <2>4
<1>8. CASE PumpSends
  <2>1. /\ events' = events \o held /\ held' = <<>>
        /\ UNCHANGED <<handled, callbacks, batch, ncp, made>>
    BY <1>8 DEF PumpSends, world, connVars
  <2>2. (handled \o (events \o held)) \o <<>> = (handled \o events) \o held
    <3>1. handled \o events \in Seq(Nat) /\ (handled \o events) \o held \in Seq(Nat)
      BY <1>0
    <3>2. (handled \o events) \o held = handled \o (events \o held)
      <4>1. handled \in Seq(Nat) /\ events \in Seq(Nat) /\ held \in Seq(Nat)
        BY <1>0
      <4> QED BY <4>1
    <3>3. ((handled \o events) \o held) \o <<>> = (handled \o events) \o held
      BY <3>1, NothingAdded, Zenon
    <3> QED BY <3>2, <3>3, Zenon
  <2> QED BY <2>1, <2>2 DEF Acted, Raw
<1>9. CASE Produce
  <2>1. /\ made' = made + 1 /\ ncp' = Append(ncp, made + 1)
        /\ UNCHANGED <<handled, events, held, callbacks, batch>>
    BY <1>9 DEF Produce, pumpVars
  <2>2. callbacks \o batch \in Seq(Nat)
    BY <1>0
  <2>3. (callbacks \o batch) \o Append(ncp, made + 1) =
          Append((callbacks \o batch) \o ncp, made + 1)
    <3>1. made + 1 \in Nat
      BY <1>0
    <3>2. ncp \in Seq(Nat)
      BY <1>0
    <3>3. ASSUME NEW s \in Seq(Nat), NEW t \in Seq(Nat), NEW x \in Nat
          PROVE  s \o Append(t, x) = Append(s \o t, x)
      OBVIOUS
    <3> QED BY <2>2, <3>1, <3>2, <3>3
  <2> QED BY <2>1, <2>3 DEF Acted, Raw
<1>10. CASE LosePort
  BY <1>10 DEF LosePort, Acted, Raw, connVars, pumpVars
<1>11. CASE UNCHANGED linkVars
  BY <1>11 DEF linkVars, Acted, Raw
<1> QED
  BY <1>1, <1>2, <1>3, <1>4, <1>5, <1>6, <1>7, <1>8, <1>9, <1>10, <1>11
  DEF LinkNext, RuntimeSteps, ConnSteps, PumpSteps

(***************************************************************************)
(* What the stick has produced, with one callback more.                    *)
(***************************************************************************)
LEMMA ProducedNext ==
  ASSUME NEW n \in Nat
  PROVE  Relevant([i \in 1..(n + 1) |-> i]) =
           IF n + 1 \in Unhandled THEN Relevant([i \in 1..n |-> i])
                                  ELSE Append(Relevant([i \in 1..n |-> i]), n + 1)
<1> DEFINE s == [i \in 1..n |-> i]
<1>1. s \in Seq(Nat) /\ Len(s) = n
  OBVIOUS
<1>2. [i \in 1..(n + 1) |-> i] = Append(s, n + 1)
  <2> DEFINE t == [i \in 1..(n + 1) |-> i]
             u == Append(s, n + 1)
  <2>1. t \in Seq(Nat) /\ Len(t) = n + 1 /\ \A i \in 1..(n + 1) : t[i] = i
    OBVIOUS
  <2>2. u \in Seq(Nat) /\ Len(u) = n + 1 /\ \A i \in 1..(n + 1) : u[i] = i
    BY <1>1
  <2> HIDE DEF t, u
  <2>3. t = u
    BY <2>1, <2>2
  <2> QED BY <2>3 DEF t, u
<1> HIDE DEF s
<1>3. Relevant(Append(s, n + 1)) =
        IF n + 1 \in Unhandled THEN Relevant(s) ELSE Append(Relevant(s), n + 1)
  <2>1. ASSUME NEW x \in Nat
        PROVE  Relevant(Append(s, x)) =
                 IF x \in Unhandled THEN Relevant(s) ELSE Append(Relevant(s), x)
    BY <1>1, RelevantAppend
  <2>2. n + 1 \in Nat
    OBVIOUS
  <2> QED BY <2>1, <2>2
<1> QED BY <1>2, <1>3 DEF s

(***************************************************************************)
(* Every step of the link keeps all of it.                                 *)
(***************************************************************************)
LEMMA LinkInvStep == LinkInv /\ [LinkNext]_linkVars => LinkInv'
<1> SUFFICES ASSUME LinkInv, [LinkNext]_linkVars PROVE LinkInv'
  OBVIOUS
<1>1. LinkTyped /\ Turns /\ AllOnTheWay /\ LinkTyped' /\ Turns'
  BY LinkTypedStep, TurnsStep DEF LinkInv
<1>2. ASSUME Alive' PROVE Acted' \o Relevant(Raw') = Produced'
  <2>1. Alive /\ Acted \o Relevant(Raw) = Produced
    BY <1>1, <1>2, AliveStep DEF AllOnTheWay, Alive
  <2>2. Acted \in Seq(Nat) /\ Raw \in Seq(Nat) /\ Relevant(Raw) \in Seq(Nat)
    <3>1. Acted \in Seq(Nat) /\ Raw \in Seq(Nat)
      BY <1>1 DEF LinkTyped, Acted, Raw
    <3> QED BY <3>1, RelevantTyped
  <2>3. CASE Acted' = Acted /\ Raw' = Raw /\ made' = made
    BY <2>1, <2>3 DEF Produced
  <2>4. CASE /\ Raw # <<>> /\ Raw' = Tail(Raw) /\ made' = made
             /\ Acted' = IF Head(Raw) \in Unhandled THEN Acted ELSE Append(Acted, Head(Raw))
    <3>1. Raw = <<Head(Raw)>> \o Tail(Raw) /\ Head(Raw) \in Nat /\ Tail(Raw) \in Seq(Nat)
          /\ <<Head(Raw)>> \in Seq(Nat)
      BY <2>2, <2>4, Parts
    <3>2. Relevant(Raw) = Relevant(<<Head(Raw)>>) \o Relevant(Tail(Raw))
      BY <3>1, RelevantConcat
    <3>3. Relevant(Tail(Raw)) \in Seq(Nat)
      BY <3>1, RelevantTyped
    <3>4. CASE Head(Raw) \in Unhandled
      <4>1. Relevant(Raw) = Relevant(Tail(Raw))
        BY <3>2, <3>3, <3>4, RelevantOne
      <4> QED BY <2>1, <2>4, <3>4, <4>1 DEF Produced
    <3>5. CASE Head(Raw) \notin Unhandled
      <4>1. Relevant(Raw) = <<Head(Raw)>> \o Relevant(Tail(Raw))
        BY <3>2, <3>5, RelevantOne
      <4>2. ASSUME NEW x \in Nat, NEW u \in Seq(Nat)
            PROVE  Acted \o (<<x>> \o u) = Append(Acted, x) \o u
        <5>1. <<x>> \in Seq(Nat) /\ Acted \o <<x>> = Append(Acted, x)
          BY <2>2, <4>2
        <5>2. (Acted \o <<x>>) \o u = Acted \o (<<x>> \o u)
          BY <2>2, <4>2, <5>1, Associative
        <5> QED BY <5>1, <5>2
      <4>3. Acted \o Relevant(Raw) = Append(Acted, Head(Raw)) \o Relevant(Tail(Raw))
        BY <3>1, <3>3, <4>1, <4>2
      <4> QED BY <2>1, <2>4, <3>5, <4>3 DEF Produced
    <3> QED BY <3>4, <3>5
  <2>5. CASE Acted' = Acted /\ Raw' = Append(Raw, made + 1) /\ made' = made + 1
    <3>1. made \in Nat /\ made + 1 \in Nat
      BY <1>1 DEF LinkTyped
    <3>2. Produced' = IF made + 1 \in Unhandled THEN Produced ELSE Append(Produced, made + 1)
      BY <2>5, <3>1, ProducedNext DEF Produced
    <3>3. Relevant(Raw') =
            IF made + 1 \in Unhandled THEN Relevant(Raw) ELSE Append(Relevant(Raw), made + 1)
      BY <2>2, <2>5, <3>1, RelevantAppend
    <3>4. Acted \o Append(Relevant(Raw), made + 1) = Append(Acted \o Relevant(Raw), made + 1)
      BY <2>2, <3>1
    <3> QED BY <2>1, <2>5, <3>2, <3>3, <3>4
  <2> QED BY <1>1, <1>2, <2>1, <2>3, <2>4, <2>5, Onward
<1> QED BY <1>1, <1>2 DEF LinkInv, AllOnTheWay, Alive

LEMMA LinkInvInit == LinkInit => LinkInv
<1> SUFFICES ASSUME LinkInit PROVE LinkInv
  OBVIOUS
<1>1. /\ ncp = <<>> /\ batch = <<>> /\ callbacks = <<>>
      /\ held = <<>> /\ events = <<>> /\ handled = <<>>
      /\ made = 0
  BY DEF LinkInit
<1>2. LinkTyped /\ Turns
  BY <1>1 DEF LinkInit, LinkTyped, Turns
<1>3. Acted \o Relevant(Raw) = Produced
  <2>1. Raw = <<>> /\ Acted = <<>> /\ [n \in 1..0 |-> n] = <<>>
    BY <1>1 DEF Raw, Acted
  <2> QED BY <1>1, <2>1, RelevantEmpty DEF Produced
<1> QED BY <1>2, <1>3 DEF LinkInv, AllOnTheWay

LEMMA InvMeansOrder == LinkInv => InOrder
<1> SUFFICES ASSUME LinkInv, Alive
             PROVE  /\ IsPrefix(Acted \o Relevant(callbacks \o batch), Produced)
                    /\ (Acted \o Relevant(callbacks \o batch)) \o Relevant(ncp) = Produced
  BY DEF InOrder, Acted, Alive
<1>1. callbacks \o batch \in Seq(Nat) /\ ncp \in Seq(Nat) /\ Acted \in Seq(Nat)
  BY DEF LinkInv, LinkTyped, Acted
<1> DEFINE x == Relevant(callbacks \o batch)
           y == Relevant(ncp)
<1>2. x \in Seq(Nat) /\ y \in Seq(Nat)
  BY <1>1, RelevantTyped
<1>3. Relevant(Raw) = x \o y
  BY <1>1, RelevantConcat DEF Raw
<1>4. Acted \o Relevant(Raw) = Produced
  BY DEF LinkInv, AllOnTheWay, Alive
<1> HIDE DEF x, y
<1>5. (Acted \o x) \o y = Produced
  <2>1. \A a, p, q \in Seq(Nat) : (a \o p) \o q = a \o (p \o q)
    <3> SUFFICES ASSUME NEW a \in Seq(Nat), NEW p \in Seq(Nat), NEW q \in Seq(Nat)
                 PROVE  (a \o p) \o q = a \o (p \o q)
      OBVIOUS
    <3> QED OBVIOUS
  <2>2. (Acted \o x) \o y = Acted \o (x \o y)
    BY <1>1, <1>2, <2>1, Zenon
  <2> QED BY <2>2, <1>3, <1>4, <2>1
<1>6. IsPrefix(Acted \o x, (Acted \o x) \o y)
  BY <1>1, <1>2 DEF IsPrefix
<1> QED BY <1>5, <1>6 DEF x, y

(***************************************************************************)
(* While the link is up every callback the runtime acts on is on its way   *)
(* to it or there, once and in the order the stick produced them, for      *)
(* channels of any size and however many callbacks mean nothing            *)
(* (connection.rs, Connection::spawn).                                     *)
(***************************************************************************)
THEOREM CallbacksInOrder == LinkSpec => []InOrder
BY LinkInvInit, LinkInvStep, InvMeansOrder, PTL DEF LinkSpec

-----------------------------------------------------------------------------
(* Who waits for whom.                                                     *)

\* No channel holds more than it has room for, and a command under way is in
\* the hands of a connection task that lives.
Bounds ==
  /\ Len(callbacks) <= CallbackRoom
  /\ Len(events) <= EventRoom
  /\ Len(held) <= 1

Hands ==
  /\ conn \in {"free", "executing", "polling", "forwarding", "ended"}
  /\ pump \in {"unborn", "waiting", "sending", "ended"}
  /\ task = "asking" => conn = "executing" \/ (request /\ conn # "ended")
  /\ pump = "unborn" => task \in {"starting", "asking"}

LEMMA BoundsStep ==
  ASSUME LinkTyped, Turns, Bounds, [LinkNext]_linkVars
  PROVE  Bounds'
<1>a. /\ callbacks \in Seq(Nat) /\ events \in Seq(Nat) /\ held \in Seq(Nat)
      /\ Len(callbacks) \in Nat /\ Len(events) \in Nat /\ Len(held) \in Nat
  BY DEF LinkTyped
<1>b. CallbackRoom \in Nat /\ EventRoom \in Nat /\ Len(<<>>) = 0
  BY LinkAssumption
<1>1. CASE TakeEvent
  <2>1. Len(events') <= Len(events)
    BY <1>a, <1>1 DEF TakeEvent
  <2>2. UNCHANGED <<callbacks, held>>
    BY <1>1 DEF TakeEvent, pumpVars
  <2> QED BY <1>a, <1>b, <2>1, <2>2 DEF Bounds, LinkTyped
<1>2. CASE FinishStop
  BY <1>b, <1>2 DEF FinishStop, pumpVars, Bounds
<1>3. CASE StartFails
  BY <1>b, <1>3 DEF StartFails, Bounds
<1>4. CASE ConnForwards
  <2>1. Len(callbacks') <= CallbackRoom
    <3>1. CASE Len(callbacks) < CallbackRoom /\ callbacks' = Append(callbacks, Head(batch))
      BY <1>a, <1>b, <3>1
    <3>2. CASE UNCHANGED callbacks
      BY <3>2 DEF Bounds
    <3> QED BY <1>4, <3>1, <3>2 DEF ConnForwards
  <2>2. UNCHANGED <<events, held>>
    BY <1>4 DEF ConnForwards, pumpVars
  <2> QED BY <2>1, <2>2 DEF Bounds
<1>5. CASE PumpTakes
  <2>1. Len(callbacks') <= Len(callbacks)
    BY <1>a, <1>5 DEF PumpTakes
  <2>2. Len(callbacks') <= CallbackRoom
    <3>1. Len(callbacks') \in Nat
      BY <1>a, <1>5 DEF PumpTakes
    <3> QED BY <1>a, <1>b, <2>1, <3>1 DEF Bounds
  <2>3. Len(held') <= 1
    <3>1. held' = held \/ held' = <<Head(callbacks)>>
      BY <1>5 DEF PumpTakes, pumpVars
    <3>2. Len(<<Head(callbacks)>>) = 1
      OBVIOUS
    <3>3. CASE held' = held
      BY <3>3 DEF Bounds
    <3>4. CASE held' = <<Head(callbacks)>>
      <4>1. Len(held') = 1
        BY <3>2, <3>4, Zenon
      <4> QED BY <4>1
    <3> QED BY <3>1, <3>3, <3>4
  <2>4. events' = events
    BY <1>5 DEF PumpTakes
  <2> QED BY <2>2, <2>3, <2>4 DEF Bounds
<1>6. CASE PumpSends
  <2>1. Len(events') = Len(events) + Len(held)
    BY <1>a, <1>6 DEF PumpSends
  <2>2. Len(events) < EventRoom /\ UNCHANGED callbacks /\ held' = <<>>
    BY <1>6 DEF PumpSends
  <2> QED BY <1>a, <1>b, <2>1, <2>2 DEF Bounds
<1>7. CASE PumpEnds
  BY <1>b, <1>7 DEF PumpEnds, Bounds
<1>8. ASSUME \/ Command \/ Started \/ TakeOther \/ HandlerEnds \/ BeginStop
             \/ ConnTakes \/ ConnExecuted \/ ConnPolls \/ ConnPolled \/ ConnPollFails \/ ConnEnds
             \/ ConnForwarded \/ Produce \/ LosePort \/ UNCHANGED linkVars
      PROVE  UNCHANGED <<callbacks, events, held>>
  BY <1>8 DEF Command, Started, TakeOther, HandlerEnds, BeginStop, ConnTakes, ConnExecuted,
              ConnPolls, ConnPolled, ConnPollFails, ConnEnds, ConnForwarded, Produce, LosePort,
              linkVars, pumpVars
<1>9. UNCHANGED <<callbacks, events, held>> => Bounds'
  BY DEF Bounds
<1> QED BY <1>1, <1>2, <1>3, <1>4, <1>5, <1>6, <1>7, <1>8, <1>9
        DEF LinkNext, RuntimeSteps, ConnSteps, PumpSteps

LEMMA HandsStep ==
  ASSUME Turns, Hands, [LinkNext]_linkVars
  PROVE  Hands'
<1> USE DEF Hands
<1>1. CASE RuntimeSteps
  <2>1. CASE Command
    BY <2>1 DEF Command, Turns, connVars, pumpVars
  <2>2. CASE Started \/ StartFails
    BY <2>2 DEF Started, StartFails, connVars
  <2>3. CASE TakeEvent \/ TakeOther \/ HandlerEnds \/ BeginStop \/ FinishStop
    BY <2>3 DEF TakeEvent, TakeOther, HandlerEnds, BeginStop, FinishStop, connVars, pumpVars
  <2> QED BY <1>1, <2>1, <2>2, <2>3 DEF RuntimeSteps
<1>2. CASE ConnSteps
  <2>1. CASE ConnTakes
    BY <2>1 DEF ConnTakes, pumpVars
  <2>2. CASE ConnExecuted
    BY <2>2 DEF ConnExecuted, Answered, Turns, pumpVars
  <2>3. CASE ConnPollFails
    BY <2>3 DEF ConnPollFails, Answered, Turns, pumpVars
  <2>4. CASE ConnPolls \/ ConnPolled \/ ConnEnds \/ ConnForwards \/ ConnForwarded
    BY <2>4 DEF ConnPolls, ConnPolled, ConnEnds, ConnForwards, ConnForwarded, pumpVars
  <2> QED BY <1>2, <2>1, <2>2, <2>3, <2>4 DEF ConnSteps
<1>3. CASE PumpSteps
  BY <1>3 DEF PumpSteps, PumpTakes, PumpSends, PumpEnds, connVars, pumpVars
<1>4. CASE Produce \/ LosePort \/ UNCHANGED linkVars
  BY <1>4 DEF Produce, LosePort, linkVars, connVars, pumpVars
<1> QED BY <1>1, <1>2, <1>3, <1>4 DEF LinkNext

\* What every step keeps of it.
WaitInv == LinkTyped /\ Turns /\ Bounds /\ Hands

LEMMA WaitInvInit == LinkInit => WaitInv
<1> SUFFICES ASSUME LinkInit PROVE WaitInv
  OBVIOUS
<1>1. LinkTyped /\ Turns
  BY LinkInvInit DEF LinkInv
<1>2. Bounds /\ Hands
  BY LinkAssumption DEF LinkInit, Bounds, Hands
<1> QED BY <1>1, <1>2 DEF WaitInv

LEMMA WaitInvStep == WaitInv /\ [LinkNext]_linkVars => WaitInv'
<1> SUFFICES ASSUME WaitInv, [LinkNext]_linkVars PROVE WaitInv'
  OBVIOUS
<1>1. LinkTyped' /\ Turns'
  BY LinkTypedStep, TurnsStep DEF WaitInv
<1>2. Bounds' /\ Hands'
  BY BoundsStep, HandsStep DEF WaitInv
<1> QED BY <1>1, <1>2 DEF WaitInv

\* The connection task, or the pump, has a next step: the guards of theirs.
ConnGoesOn ==
  \/ conn \in {"free", "executing", "polling"}
  \/ conn = "forwarding" /\ (batch = <<>> \/ pump = "ended" \/ Len(callbacks) < CallbackRoom)

PumpGoesOn ==
  \/ pump = "waiting" /\ callbacks # <<>>
  \/ pump = "sending" /\ (task = "ended" \/ Len(events) < EventRoom)

(***************************************************************************)
(* The runtime waits for a command, or for room for its last event, and    *)
(* the port to be closed, only while somebody else has a step to take,     *)
(* except in the circle of full channels (connection.rs, Connection::run,  *)
(* and lib.rs, the callback pump).                                         *)
(***************************************************************************)
OnlyFullChannelsStop ==
  /\ task = "asking" => ConnGoesOn \/ PumpGoesOn \/ Circle
  /\ task = "stopping" => Len(events) < EventRoom \/ StopWaits
  /\ task = "ended" /\ conn # "ended" => ConnGoesOn \/ PumpGoesOn

LEMMA InvMeansSteps == WaitInv => OnlyFullChannelsStop
<1> SUFFICES ASSUME WaitInv PROVE OnlyFullChannelsStop
  OBVIOUS
<1>a. /\ Len(callbacks) \in Nat /\ Len(events) \in Nat
      /\ CallbackRoom \in Nat /\ CallbackRoom > 0 /\ EventRoom \in Nat
      /\ Len(callbacks) <= CallbackRoom /\ Len(events) <= EventRoom
  BY LinkAssumption DEF WaitInv, LinkTyped, Bounds
<1>1. Len(callbacks) < CallbackRoom \/ Len(callbacks) = CallbackRoom
  BY <1>a
<1>2. Len(events) < EventRoom \/ Len(events) = EventRoom
  BY <1>a
<1>3. Len(callbacks) = CallbackRoom => callbacks # <<>>
  BY <1>a
<1>4. ASSUME task = "asking", ~ConnGoesOn, ~PumpGoesOn PROVE Circle
  <2>1. conn = "forwarding" /\ batch # <<>> /\ pump # "ended" /\ Len(callbacks) = CallbackRoom
    BY <1>1, <1>4 DEF WaitInv, Hands, ConnGoesOn
  <2>2. request
    BY <1>4, <2>1 DEF WaitInv, Hands
  <2>3. pump = "unborn" \/ (pump = "sending" /\ Len(events) = EventRoom)
    BY <1>2, <1>3, <1>4, <2>1 DEF WaitInv, Hands, PumpGoesOn
  <2> QED BY <1>4, <2>1, <2>2, <2>3 DEF Circle
<1>5. ASSUME task = "ended", conn # "ended", ~ConnGoesOn PROVE PumpGoesOn
  <2>1. pump # "ended" /\ Len(callbacks) = CallbackRoom
    BY <1>1, <1>5 DEF WaitInv, Hands, ConnGoesOn
  <2>2. pump \in {"waiting", "sending"}
    BY <1>5, <2>1 DEF WaitInv, Hands
  <2> QED BY <1>3, <1>5, <2>1, <2>2 DEF PumpGoesOn
<1> QED BY <1>2, <1>4, <1>5 DEF OnlyFullChannelsStop, StopWaits

(***************************************************************************)
(* Nothing makes the runtime wait for ever but a channel that is full, for *)
(* channels of any size: the connection task and the pump never wait for   *)
(* each other.                                                             *)
(***************************************************************************)
THEOREM StoppedByFullChannels == LinkSpec => []OnlyFullChannelsStop
BY WaitInvInit, WaitInvStep, InvMeansSteps, PTL DEF LinkSpec

(***************************************************************************)
(* The circle, once closed, stays closed, and so does a stop without room: *)
(* whatever the stick and the port do, nobody makes room again (lib.rs,    *)
(* build: "A full channel must drop with a counter").                      *)
(***************************************************************************)
FullChannelsStayFull == [][(Circle => Circle') /\ (StopWaits => StopWaits')]_linkVars

LEMMA CircleStays ==
  ASSUME WaitInv, LinkNext, Circle
  PROVE  Circle'
<1>a. /\ task = "asking" /\ request /\ conn = "forwarding" /\ batch # <<>> /\ pump # "ended"
      /\ Len(callbacks) = CallbackRoom
      /\ pump = "unborn" \/ (pump = "sending" /\ Len(events) = EventRoom)
  BY DEF Circle
<1>b. ~(Len(callbacks) < CallbackRoom) /\ (pump = "sending" => ~(Len(events) < EventRoom))
  BY <1>a, LinkAssumption
<1>1. ~RuntimeSteps
  BY <1>a DEF RuntimeSteps, Command, Started, StartFails, TakeEvent, TakeOther, HandlerEnds,
              BeginStop, FinishStop
<1>2. ~ConnSteps
  BY <1>a, <1>b DEF ConnSteps, ConnTakes, ConnExecuted, ConnPolls, ConnPolled, ConnPollFails,
                    ConnEnds, ConnForwards, ConnForwarded
<1>3. ~PumpSteps
  BY <1>a, <1>b DEF PumpSteps, PumpTakes, PumpSends, PumpEnds
<1>4. Produce \/ LosePort
  BY <1>1, <1>2, <1>3 DEF LinkNext
<1>5. UNCHANGED <<task, request, conn, batch, callbacks, pump, events>>
  BY <1>4 DEF Produce, LosePort, connVars, pumpVars
<1> QED BY <1>5 DEF Circle

LEMMA StopWaitsStays ==
  ASSUME WaitInv, LinkNext, StopWaits
  PROVE  StopWaits'
<1>a. task = "stopping" /\ ~(Len(events) < EventRoom)
  BY LinkAssumption DEF StopWaits
<1>b. ~request /\ conn # "executing"
  BY <1>a DEF WaitInv, Turns
<1>1. ~RuntimeSteps
  BY <1>a DEF RuntimeSteps, Command, Started, StartFails, TakeEvent, TakeOther, HandlerEnds,
              BeginStop, FinishStop
<1>2. ASSUME ConnSteps PROVE UNCHANGED <<task, events>>
  BY <1>b, <1>2 DEF ConnSteps, ConnTakes, ConnExecuted, ConnPolls, ConnPolled, ConnPollFails,
                    ConnEnds, ConnForwards, ConnForwarded
<1>3. ASSUME PumpSteps PROVE UNCHANGED <<task, events>>
  BY <1>a, <1>3 DEF PumpSteps, PumpTakes, PumpSends, PumpEnds
<1>4. ASSUME Produce \/ LosePort PROVE UNCHANGED <<task, events>>
  BY <1>4 DEF Produce, LosePort
<1> QED BY <1>1, <1>2, <1>3, <1>4 DEF LinkNext, StopWaits

(***************************************************************************)
(* So it is a deadlock and not a delay.                                    *)
(***************************************************************************)
THEOREM StoppedForGood == LinkSpec => FullChannelsStayFull
<1>1. WaitInv /\ [LinkNext]_linkVars
        => [(Circle => Circle') /\ (StopWaits => StopWaits')]_linkVars
  BY CircleStays, StopWaitsStays
<1> QED BY <1>1, WaitInvInit, WaitInvStep, PTL DEF LinkSpec, FullChannelsStayFull

-----------------------------------------------------------------------------
(* The gateway.                                                            *)

\* The feed, seen from the truth: of each reading the last event that carries
\* it says what was last reported, and with no event under way the state does.
LastIsTrue ==
  \A d \in Device, c \in Cap : \A i \in 1..Len(feed) :
    /\ <<d, c>> \in Readings(feed[i])
    /\ \A j \in (i + 1)..Len(feed) : <<d, c>> \notin Readings(feed[j])
    => feed[i].changes[c] = truth[d][c]

HeardIsTrue ==
  \A d \in Device, c \in Cap :
    /\ \A i \in 1..Len(feed) : <<d, c>> \notin Readings(feed[i])
    /\ <<d, c>> \notin unheard
    => state[d][c] = truth[d][c]

\* What goes to the broker, seen from the state.
Under == queue \o todo
For(d, r) == r.kind = "state" /\ r.dev = d

LastIsState ==
  \A d \in Device : \A i \in 1..Len(Under) :
    /\ For(d, Under[i])
    /\ \A j \in (i + 1)..Len(Under) : ~For(d, Under[j])
    => Under[i].payload = state[d]

ShownIsState ==
  \A d \in Device :
    /\ \A i \in 1..Len(Under) : ~For(d, Under[i])
    /\ d \notin unshown
    => shown[d] = state[d]

\* What may be queued to the client.
Sendable ==
  [kind : {"subscribe"}, filter : {Filters[i] : i \in DOMAIN Filters}]
    \cup [kind : {"online", "offline", "bridge", "disconnect"}]
    \cup [kind : {"state"}, dev : Device, payload : Payload]
    \cup [kind : {"response"}, to : Request]

Typed ==
  /\ feed \in Seq(Event)
  /\ truth \in [Device -> Payload]
  /\ state \in [Device -> Payload]
  /\ shown \in [Device -> Payload]
  /\ queue \in Seq(Sendable)
  /\ todo \in Seq(Sendable)
  /\ acting \in Message \cup {None}

\* A call to the runtime is awaited with nothing left to queue.
Calm == acting # None => todo = <<>>

Upstream == Typed /\ Calm /\ LastIsTrue /\ HeardIsTrue
Downstream == LastIsState /\ ShownIsState

LEMMA ReadingsOf ==
  ASSUME NEW e \in Event, NEW d, NEW c
  PROVE  <<d, c>> \in Readings(e) <=> e.kind = "state" /\ e.dev = d /\ c \in DOMAIN e.changes
BY DEF Readings

LEMMA ChangesOf ==
  ASSUME NEW e \in Event, e.kind = "state"
  PROVE  /\ e.dev \in Device
         /\ DOMAIN e.changes \in SUBSET Cap
         /\ \A c \in DOMAIN e.changes : e.changes[c] \in Value
<1>1. e.dev \in Device /\ e.changes \in Changes
  BY DEF Event
<1>2. PICK S \in SUBSET Cap : e.changes \in [S -> Value]
  BY <1>1, ChangesAreReadings
<1> QED BY <1>1, <1>2

LEMMA AppliedIs ==
  ASSUME NEW e \in Event, e.kind = "state", NEW r \in Payload
  PROVE  Applied(r, e.changes) \in Payload
BY ChangesOf DEF Applied, Payload

(***************************************************************************)
(* The types of what the gateway holds, to begin with ...                  *)
(***************************************************************************)
LEMMA TypedInit == Init => Typed
<1> SUFFICES ASSUME Init PROVE Typed
  OBVIOUS
<1>1. NoReadings \in [Device -> Payload]
  BY DEF NoReadings, Payload
<1>2. Start \in Seq(Sendable)
  <2>1. [i \in DOMAIN Filters |-> [kind |-> "subscribe", filter |-> Filters[i]]] \in Seq(Sendable)
    <3> DEFINE F(i) == [kind |-> "subscribe", filter |-> Filters[i]]
    <3>1. Len(Filters) \in Nat /\ DOMAIN Filters = 1..Len(Filters)
      BY FiltersAreListed
    <3>2. \A i \in 1..Len(Filters) : F(i) \in Sendable
      BY <3>1 DEF Sendable
    <3> HIDE DEF F
    <3>3. [i \in 1..Len(Filters) |-> F(i)] \in Seq(Sendable)
      BY <3>1, <3>2
    <3> QED BY <3>1, <3>3 DEF F
  <2>2. <<[kind |-> "online"]>> \in Seq(Sendable)
    BY DEF Sendable
  <2> QED BY <2>1, <2>2 DEF Start
<1> QED BY <1>1, <1>2 DEF Init, Typed

(***************************************************************************)
(* ... and after every step.                                               *)
(***************************************************************************)
LEMMA TypedStep == Typed /\ [Next]_vars => Typed'
<1> SUFFICES ASSUME Typed, [Next]_vars PROVE Typed'
  OBVIOUS
<1> USE DEF Typed
<1>1. ASSUME NEW e \in Event, Emit(e) PROVE Typed'
  <2>1. feed' \in Seq(Event)
    <3>1. feed' = Append(feed, e) \/ (Len(feed) = FeedSize /\ feed' = Append(Tail(feed), e))
      BY <1>1 DEF Emit
    <3>2. CASE feed' = Append(feed, e)
      BY <3>2
    <3>3. CASE Len(feed) = FeedSize /\ feed' = Append(Tail(feed), e)
      <4>1. feed # <<>>
        BY <3>3, FeedHasRoom
      <4>2. Tail(feed) \in Seq(Event)
        BY <4>1
      <4> QED BY <3>3, <4>2
    <3> QED BY <3>1, <3>2, <3>3
  <2>2. truth' \in [Device -> Payload]
    <3>1. CASE e.kind = "state"
      <4> DEFINE known == [c \in Cap |->
                             IF c \in DOMAIN e.changes THEN e.changes[c] ELSE truth[e.dev][c]]
      <4>1. known \in Payload
        BY <3>1, ChangesOf DEF Payload
      <4>2. e.dev \in Device
        BY <3>1, ChangesOf
      <4>3. truth' = [truth EXCEPT ![e.dev] = known]
        BY <1>1, <3>1, <4>2 DEF Emit
      <4> QED BY <4>1, <4>2, <4>3
    <3>2. CASE e.kind # "state"
      BY <1>1, <3>2 DEF Emit
    <3> QED BY <3>1, <3>2
  <2> QED BY <1>1, <2>1, <2>2 DEF Emit, gwVars, brokerVars
<1>2. CASE Queue
  BY <1>2 DEF Queue, rtVars, brokerVars
<1>3. CASE Receive
  <2>1. CASE lagged /\ lagged' = FALSE /\ UNCHANGED <<feed, unheard, state, todo>>
    BY <1>3, <2>1 DEF Receive, brokerVars
  <2>2. CASE feed # <<>> /\ feed' = Tail(feed)
    <3> DEFINE e == Head(feed)
    <3>1. e \in Event /\ feed' \in Seq(Event)
      BY <2>2
    <3>2. CASE /\ e.kind = "state"
               /\ state' = [state EXCEPT ![e.dev] = Applied(@, e.changes)]
               /\ todo' = <<[kind |-> "state", dev |-> e.dev, payload |-> state'[e.dev]]>>
      <4>1. e.dev \in Device /\ Applied(state[e.dev], e.changes) \in Payload
        BY <3>1, <3>2, ChangesOf, AppliedIs
      <4>2. state' \in [Device -> Payload]
        BY <3>2, <4>1
      <4>3. [kind |-> "state", dev |-> e.dev, payload |-> state'[e.dev]] \in Sendable
        BY <4>1, <4>2 DEF Sendable
      <4>4. todo' \in Seq(Sendable)
        BY <3>2, <4>3
      <4> QED BY <1>3, <3>1, <4>2, <4>4 DEF Receive, brokerVars
    <3>3. CASE todo' = <<[kind |-> "bridge"]>> /\ UNCHANGED state
      <4>1. [kind |-> "bridge"] \in Sendable
        BY DEF Sendable
      <4> QED BY <1>3, <3>1, <3>3, <4>1 DEF Receive, brokerVars
    <3>4. CASE UNCHANGED <<state, todo>>
      BY <1>3, <3>1, <3>4 DEF Receive, brokerVars
    <3> QED BY <1>3, <2>1, <2>2, <3>2, <3>3, <3>4 DEF Receive
  <2> QED BY <1>3, <2>1, <2>2 DEF Receive
<1>4. CASE Close
  <2>1. <<[kind |-> "offline"], [kind |-> "disconnect"]>> \in Seq(Sendable)
    BY DEF Sendable
  <2> QED BY <1>4, <2>1 DEF Close, rtVars, brokerVars
<1>5. CASE PollFails
  <2>1. queue' = queue \/ queue' = <<>>
    BY <1>5 DEF PollFails
  <2>2. <<>> \in Seq(Sendable)
    OBVIOUS
  <2>3. queue' \in Seq(Sendable)
    <3>1. CASE queue' = queue
      BY <3>1
    <3>2. CASE queue' = <<>>
      BY <2>2, <3>2
    <3> QED BY <2>1, <3>1, <3>2
  <2> QED BY <1>5, <2>3 DEF PollFails, rtVars
<1>6. CASE PollSends
  <2>1. Head(queue) \in Sendable /\ queue' \in Seq(Sendable)
    BY <1>6 DEF PollSends
  <2>2. shown' \in [Device -> Payload]
    <3>1. CASE Arrives(Head(queue))
      <4>1. Head(queue).kind = "state" =>
              Head(queue).dev \in Device /\ Head(queue).payload \in Payload
        BY <2>1 DEF Sendable
      <4> QED BY <3>1, <4>1 DEF Arrives
    <3> QED BY <1>6, <3>1 DEF PollSends
  <2> QED BY <1>6, <2>1, <2>2 DEF PollSends, rtVars, gwVars
<1>7. ASSUME NEW v, NEW q \in Request PROVE Response(v, q) \in Seq(Sendable)
  <2>1. [kind |-> "response", to |-> q] \in Sendable
    BY DEF Sendable
  <2> QED BY <2>1 DEF Response
<1>8. ASSUME NEW v \in Verb, NEW q \in Request, PollReceives(v, q) PROVE Typed'
  BY <1>7, <1>8 DEF PollReceives, Message, rtVars, brokerVars
<1>9. CASE CallReturns
  <2>1. acting[2] \in Request
    BY <1>9 DEF CallReturns, Message
  <2> QED BY <1>7, <1>9, <2>1 DEF CallReturns, rtVars, brokerVars
<1>10. CASE Stop \/ Return \/ PollConnects \/ Wake \/ LinkLost \/ KeepAliveLapses \/ BrokerBack
  BY <1>10 DEF Stop, Return, PollConnects, Wake, LinkLost, KeepAliveLapses, BrokerBack, Loses,
               rtVars, gwVars, brokerVars
<1>11. CASE UNCHANGED vars
  BY <1>11 DEF vars, rtVars, gwVars, brokerVars
<1> QED BY <1>1, <1>2, <1>3, <1>4, <1>5, <1>6, <1>8, <1>9, <1>10, <1>11 DEF Next

(***************************************************************************)
(* The runtime emits an event, to a feed with room or to one that loses    *)
(* its oldest event.                                                       *)
(***************************************************************************)
LEMMA EmitKeepsUp ==
  ASSUME Typed, LastIsTrue, HeardIsTrue, NEW e \in Event, Emit(e)
  PROVE  LastIsTrue' /\ HeardIsTrue'
<1>1. PICK k \in {0, 1} :
        /\ feed' = Append(IF k = 0 THEN feed ELSE Tail(feed), e)
        /\ k = 1 => Len(feed) = FeedSize /\ unheard' = unheard \cup Readings(Head(feed))
        /\ k = 0 => unheard' = unheard
  BY DEF Emit
<1>a. feed \in Seq(Event) /\ Len(feed) \in Nat
  BY DEF Typed
<1>b. k = 1 => feed # <<>>
  BY <1>1, <1>a, FeedHasRoom
<1>2. /\ Len(feed') = Len(feed) - k + 1
      /\ feed'[Len(feed')] = e
      /\ \A i \in 1..(Len(feed) - k) : feed'[i] = feed[i + k]
  <2>1. CASE k = 0
    BY <1>1, <1>a, <2>1
  <2>2. CASE k = 1
    <3> DEFINE rest == Tail(feed)
    <3>1. rest \in Seq(Event) /\ Len(rest) = Len(feed) - 1
      BY <1>a, <1>b, <2>2
    <3>2. \A i \in 1..Len(rest) : rest[i] = feed[i + 1]
      BY <1>a, <1>b, <2>2
    <3>3. feed' = Append(rest, e)
      BY <1>1, <2>2
    <3> HIDE DEF rest
    <3> QED BY <1>a, <2>2, <3>1, <3>2, <3>3
  <2> QED BY <2>1, <2>2
<1>c. state' = state
  BY DEF Emit, gwVars
<1>3. ASSUME NEW d \in Device, NEW c \in Cap, <<d, c>> \in Readings(e)
      PROVE  e.changes[c] = truth'[d][c]
  <2>1. e.kind = "state" /\ e.dev = d /\ c \in DOMAIN e.changes
    BY <1>3, ReadingsOf
  <2> QED BY <2>1 DEF Emit, Typed
<1>4. ASSUME NEW d \in Device, NEW c \in Cap, <<d, c>> \notin Readings(e)
      PROVE  truth'[d][c] = truth[d][c]
  <2>1. CASE e.kind # "state"
    BY <2>1 DEF Emit
  <2>2. CASE e.kind = "state" /\ e.dev # d
    BY <2>2 DEF Emit, Typed
  <2>3. CASE e.kind = "state" /\ e.dev = d /\ c \notin DOMAIN e.changes
    BY <2>3 DEF Emit, Typed
  <2> QED BY <1>4, <2>1, <2>2, <2>3, ReadingsOf
<1>5. LastIsTrue'
  <2> SUFFICES ASSUME NEW d \in Device, NEW c \in Cap, NEW i \in 1..Len(feed'),
                      <<d, c>> \in Readings(feed'[i]),
                      \A j \in (i + 1)..Len(feed') : <<d, c>> \notin Readings(feed'[j])
               PROVE  feed'[i].changes[c] = truth'[d][c]
    BY DEF LastIsTrue, Readings
  <2>1. CASE i = Len(feed')
    BY <1>2, <1>3, <2>1
  <2>2. CASE i # Len(feed')
    <3>1. <<d, c>> \notin Readings(e)
      BY <1>a, <1>2, <2>2
    <3>2. i + k \in 1..Len(feed) /\ feed'[i] = feed[i + k]
      BY <1>a, <1>2, <2>2
    <3>3. \A j \in (i + k + 1)..Len(feed) : <<d, c>> \notin Readings(feed[j])
      <4> SUFFICES ASSUME NEW j \in (i + k + 1)..Len(feed) PROVE <<d, c>> \notin Readings(feed[j])
        OBVIOUS
      <4>1. j - k \in (i + 1)..Len(feed') /\ j - k \in 1..(Len(feed) - k)
        BY <1>a, <1>2
      <4>2. feed'[j - k] = feed[j]
        BY <1>2, <4>1
      <4> QED BY <4>1, <4>2
    <3>4. feed[i + k].changes[c] = truth[d][c]
      BY <3>2, <3>3 DEF LastIsTrue
    <3> QED BY <1>4, <3>1, <3>2, <3>4
  <2> QED BY <2>1, <2>2
<1>6. HeardIsTrue'
  <2> SUFFICES ASSUME NEW d \in Device, NEW c \in Cap, <<d, c>> \notin unheard',
                      \A i \in 1..Len(feed') : <<d, c>> \notin Readings(feed'[i])
               PROVE  state[d][c] = truth'[d][c]
    BY <1>c DEF HeardIsTrue, Readings
  <2>1. <<d, c>> \notin Readings(e)
    <3>1. Len(feed') \in 1..Len(feed')
      BY <1>a, <1>1, <1>2
    <3> QED BY <1>2, <3>1
  <2>2. \A j \in 1..Len(feed) : <<d, c>> \notin Readings(feed[j])
    <3> SUFFICES ASSUME NEW j \in 1..Len(feed) PROVE <<d, c>> \notin Readings(feed[j])
      OBVIOUS
    <3>1. CASE j - k \in 1..(Len(feed) - k)
      <4>1. j - k \in 1..Len(feed') /\ (j - k) + k = j
        BY <1>a, <1>2, <3>1
      <4>2. feed'[j - k] = feed[j]
        BY <1>2, <3>1, <4>1
      <4> QED BY <4>1, <4>2
    <3>2. CASE k = 1 /\ j = 1
      BY <1>1, <1>b, <1>a, <3>2
    <3> QED BY <1>a, <3>1, <3>2
  <2>3. <<d, c>> \notin unheard
    BY <1>1
  <2> QED BY <1>4, <2>1, <2>2, <2>3 DEF HeardIsTrue
<1> QED BY <1>5, <1>6

\* The event at the head of the feed is taken out.
TakesEvent ==
  /\ feed # <<>> /\ feed' = Tail(feed)
  /\ unheard' = unheard \ Readings(Head(feed))
  /\ truth' = truth
  /\ IF Head(feed).kind = "state"
     THEN state' = [state EXCEPT ![Head(feed).dev] = Applied(@, Head(feed).changes)]
     ELSE state' = state

(***************************************************************************)
(* The gateway takes an event.                                             *)
(***************************************************************************)
LEMMA TakingKeepsUp ==
  ASSUME Typed, LastIsTrue, HeardIsTrue, TakesEvent
  PROVE  LastIsTrue' /\ HeardIsTrue'
<1> DEFINE e == Head(feed)
<1>a. /\ feed \in Seq(Event) /\ Len(feed) \in Nat /\ feed # <<>> /\ e \in Event /\ e = feed[1]
      /\ 1 \in 1..Len(feed)
  BY DEF Typed, TakesEvent
<1>2. /\ Len(feed') = Len(feed) - 1
      /\ \A i \in 1..Len(feed') : feed'[i] = feed[i + 1] /\ i + 1 \in 1..Len(feed)
  BY <1>a DEF TakesEvent
<1>b. truth' = truth
  BY DEF TakesEvent
<1> HIDE DEF e
<1>3. ASSUME NEW d \in Device, NEW c \in Cap, <<d, c>> \in Readings(e)
      PROVE  state'[d][c] = e.changes[c]
  <2>1. e.kind = "state" /\ e.dev = d /\ c \in DOMAIN e.changes
    BY <1>3, <1>a, ReadingsOf
  <2>2. state' = [state EXCEPT ![d] = Applied(@, e.changes)]
    BY <2>1 DEF TakesEvent, e
  <2> QED BY <2>1, <2>2 DEF Applied, Typed
<1>4. ASSUME NEW d \in Device, NEW c \in Cap, <<d, c>> \notin Readings(e)
      PROVE  state'[d][c] = state[d][c]
  <2>1. CASE e.kind # "state"
    BY <2>1 DEF TakesEvent, e
  <2>2. CASE e.kind = "state" /\ e.dev # d
    BY <2>2 DEF TakesEvent, e, Typed
  <2>3. CASE e.kind = "state" /\ e.dev = d /\ c \notin DOMAIN e.changes
    <3>1. state' = [state EXCEPT ![d] = Applied(@, e.changes)]
      BY <2>3 DEF TakesEvent, e
    <3> QED BY <2>3, <3>1 DEF Applied, Typed
  <2> QED BY <1>4, <1>a, <2>1, <2>2, <2>3, ReadingsOf
<1>5. LastIsTrue'
  <2> SUFFICES ASSUME NEW d \in Device, NEW c \in Cap, NEW i \in 1..Len(feed'),
                      <<d, c>> \in Readings(feed'[i]),
                      \A j \in (i + 1)..Len(feed') : <<d, c>> \notin Readings(feed'[j])
               PROVE  feed'[i].changes[c] = truth[d][c]
    BY <1>b DEF LastIsTrue, Readings
  <2>1. \A j \in (i + 2)..Len(feed) : <<d, c>> \notin Readings(feed[j])
    <3> SUFFICES ASSUME NEW j \in (i + 2)..Len(feed) PROVE <<d, c>> \notin Readings(feed[j])
      OBVIOUS
    <3>1. j - 1 \in (i + 1)..Len(feed') /\ j - 1 \in 1..Len(feed')
      BY <1>a, <1>2
    <3>2. feed'[j - 1] = feed[(j - 1) + 1] /\ (j - 1) + 1 = j
      BY <1>2, <3>1
    <3> QED BY <3>1, <3>2
  <2>2. \A j \in ((i + 1) + 1)..Len(feed) : <<d, c>> \notin Readings(feed[j])
    BY <2>1
  <2>3. i + 1 \in 1..Len(feed) /\ feed'[i] = feed[i + 1]
    BY <1>2
  <2>4. <<d, c>> \in Readings(feed[i + 1])
    BY <2>3, Zenon
  <2>5. feed[i + 1].changes[c] = truth[d][c]
    BY <2>2, <2>3, <2>4, Zenon DEF LastIsTrue
  <2> QED BY <2>3, <2>5, Zenon
<1>6. HeardIsTrue'
  <2> SUFFICES ASSUME NEW d \in Device, NEW c \in Cap, <<d, c>> \notin unheard',
                      \A i \in 1..Len(feed') : <<d, c>> \notin Readings(feed'[i])
               PROVE  state'[d][c] = truth[d][c]
    BY <1>b DEF HeardIsTrue, Readings
  <2>1. \A j \in 2..Len(feed) : <<d, c>> \notin Readings(feed[j])
    <3> SUFFICES ASSUME NEW j \in 2..Len(feed) PROVE <<d, c>> \notin Readings(feed[j])
      OBVIOUS
    <3>1. j - 1 \in 1..Len(feed')
      BY <1>a, <1>2
    <3>2. feed'[j - 1] = feed[(j - 1) + 1] /\ (j - 1) + 1 = j
      BY <1>2, <3>1
    <3> QED BY <3>1, <3>2
  <2>2. CASE <<d, c>> \in Readings(e)
    <3>1. e.changes[c] = truth[d][c]
      BY <1>a, <2>1, <2>2 DEF LastIsTrue
    <3> QED BY <1>3, <2>2, <3>1
  <2>3. CASE <<d, c>> \notin Readings(e)
    <3>1. \A j \in 1..Len(feed) : <<d, c>> \notin Readings(feed[j])
      BY <1>a, <2>1, <2>3
    <3>2. <<d, c>> \notin unheard
      BY <2>3 DEF TakesEvent, e
    <3> QED BY <1>4, <2>3, <3>1, <3>2 DEF HeardIsTrue
  <2> QED BY <2>2, <2>3
<1> QED BY <1>5, <1>6

LEMMA UnderTyped == Typed => Under \in Seq(Sendable) /\ Len(Under) = Len(queue) + Len(todo)
BY DEF Typed, Under

\* Requests that carry no payload are queued, and the state stays.
LEMMA OthersKeepDown ==
  ASSUME Typed, LastIsState, ShownIsState,
         NEW more \in Seq(Sendable), \A i \in 1..Len(more) : more[i].kind # "state",
         Under' = Under \o more, UNCHANGED <<state, shown, unshown>>
  PROVE  LastIsState' /\ ShownIsState'
<1>a. Under \in Seq(Sendable) /\ Len(Under) \in Nat /\ Len(more) \in Nat
  BY UnderTyped
<1>1. /\ Len(Under') = Len(Under) + Len(more)
      /\ \A i \in 1..Len(Under) : Under'[i] = Under[i] /\ i \in 1..Len(Under')
      /\ \A i \in 1..Len(Under') : i \notin 1..Len(Under) => \A d : ~For(d, Under'[i])
  <2>1. Len(Under') = Len(Under) + Len(more)
    BY <1>a
  <2>2. \A i \in 1..Len(Under) : Under'[i] = Under[i] /\ i \in 1..Len(Under')
    BY <1>a, <2>1
  <2>3. ASSUME NEW i \in 1..Len(Under'), i \notin 1..Len(Under), NEW d
        PROVE  ~For(d, Under'[i])
    <3>1. i - Len(Under) \in 1..Len(more) /\ Under'[i] = more[i - Len(Under)]
      BY <1>a, <2>1, <2>3
    <3> QED BY <3>1 DEF For
  <2> QED BY <2>1, <2>2, <2>3
<1>2. LastIsState'
  <2> SUFFICES ASSUME NEW d \in Device, NEW i \in 1..Len(Under'), For(d, Under'[i]),
                      \A j \in (i + 1)..Len(Under') : ~For(d, Under'[j])
               PROVE  Under'[i].payload = state[d]
    BY DEF LastIsState, For
  <2>1. i \in 1..Len(Under) /\ Under'[i] = Under[i]
    BY <1>1
  <2>2. \A j \in (i + 1)..Len(Under) : j \in (i + 1)..Len(Under') /\ j \in 1..Len(Under)
    BY <1>a, <1>1
  <2>3. \A j \in (i + 1)..Len(Under) : ~For(d, Under[j])
    BY <1>1, <2>2
  <2> QED BY <2>1, <2>3 DEF LastIsState
<1>3. ShownIsState'
  <2> SUFFICES ASSUME NEW d \in Device, d \notin unshown,
                      \A i \in 1..Len(Under') : ~For(d, Under'[i])
               PROVE  shown[d] = state[d]
    BY DEF ShownIsState, For
  <2> QED BY <1>1 DEF ShownIsState
<1> QED BY <1>2, <1>3

\* The state of a device changes, and is queued.
LEMMA PayloadKeepsDown ==
  ASSUME Typed, LastIsState, ShownIsState, NEW who \in Device, NEW r \in Sendable,
         For(who, r), r.payload = state'[who],
         Under' = Append(Under, r),
         \A d \in Device \ {who} : state'[d] = state[d],
         UNCHANGED <<shown, unshown>>
  PROVE  LastIsState' /\ ShownIsState'
<1>a. Under \in Seq(Sendable) /\ Len(Under) \in Nat
  BY UnderTyped
<1>1. /\ Len(Under') = Len(Under) + 1
      /\ Under'[Len(Under')] = r
      /\ \A i \in 1..Len(Under) : Under'[i] = Under[i] /\ i \in 1..Len(Under')
  BY <1>a
<1>b. \A d \in Device \ {who} : ~For(d, r)
  BY DEF For
<1>2. LastIsState'
  <2> SUFFICES ASSUME NEW d \in Device, NEW i \in 1..Len(Under'), For(d, Under'[i]),
                      \A j \in (i + 1)..Len(Under') : ~For(d, Under'[j])
               PROVE  Under'[i].payload = state'[d]
    BY DEF LastIsState, For
  <2>1. CASE d = who
    <3>1. i = Len(Under')
      BY <1>a, <1>1, <2>1
    <3> QED BY <1>1, <2>1, <3>1
  <2>2. CASE d # who
    <3>1. i \in 1..Len(Under) /\ Under'[i] = Under[i]
      BY <1>a, <1>1, <1>b, <2>2
    <3>2. \A j \in (i + 1)..Len(Under) : j \in (i + 1)..Len(Under') /\ j \in 1..Len(Under)
      BY <1>a, <1>1
    <3>3. \A j \in (i + 1)..Len(Under) : ~For(d, Under[j])
      BY <1>1, <3>2
    <3> QED BY <2>2, <3>1, <3>3 DEF LastIsState
  <2> QED BY <2>1, <2>2
<1>3. ShownIsState'
  <2> SUFFICES ASSUME NEW d \in Device, d \notin unshown,
                      \A i \in 1..Len(Under') : ~For(d, Under'[i])
               PROVE  shown[d] = state'[d]
    BY DEF ShownIsState, For
  <2>1. d # who
    BY <1>a, <1>1
  <2> QED BY <1>1, <2>1 DEF ShownIsState
<1> QED BY <1>2, <1>3

\* The oldest request is sent: it arrives, or is lost.
LEMMA SendingKeepsDown ==
  ASSUME Typed, LastIsState, ShownIsState, PollSends
  PROVE  LastIsState' /\ ShownIsState'
<1> DEFINE r == Head(queue)
<1>a. /\ queue \in Seq(Sendable) /\ Len(queue) \in Nat /\ queue # <<>>
      /\ r \in Sendable /\ r = queue[1]
      /\ todo = <<>> /\ todo' = <<>>
  BY DEF Typed, PollSends, Waiting, gwVars
<1>b. Under = queue /\ Under' = Tail(queue) /\ 1 \in 1..Len(queue)
  BY <1>a DEF Under, PollSends
<1>1. /\ Len(Under') = Len(queue) - 1
      /\ \A i \in 1..Len(Under') : Under'[i] = queue[i + 1] /\ i + 1 \in 1..Len(queue)
  BY <1>a, <1>b
<1>2. state' = state
  BY DEF PollSends, gwVars
<1> HIDE DEF r
<1>3. ASSUME NEW d \in Device, For(d, r), d \notin unshown'
      PROVE  shown'[d] = r.payload
  <2>1. d \in DevicesIn({r})
    BY <1>3 DEF DevicesIn, For
  <2>2. Arrives(r)
    BY <1>3, <2>1 DEF PollSends, r
  <2> QED BY <1>3, <2>2 DEF Arrives, For, Typed
<1>4. ASSUME NEW d \in Device, ~For(d, r), d \notin unshown'
      PROVE  d \notin unshown /\ shown'[d] = shown[d]
  <2>1. CASE Arrives(r)
    BY <1>4, <2>1 DEF Arrives, For, Typed
  <2>2. CASE unshown' = unshown \cup DevicesIn({r}) /\ shown' = shown
    BY <1>4, <2>2
  <2> QED BY <2>1, <2>2 DEF PollSends, r
<1>5. LastIsState'
  <2> SUFFICES ASSUME NEW d \in Device, NEW i \in 1..Len(Under'), For(d, Under'[i]),
                      \A j \in (i + 1)..Len(Under') : ~For(d, Under'[j])
               PROVE  Under'[i].payload = state[d]
    BY <1>2 DEF LastIsState, For
  <2>1. \A j \in ((i + 1) + 1)..Len(Under) : ~For(d, Under[j])
    <3> SUFFICES ASSUME NEW j \in ((i + 1) + 1)..Len(Under) PROVE ~For(d, Under[j])
      OBVIOUS
    <3>1. j - 1 \in (i + 1)..Len(Under') /\ j - 1 \in 1..Len(Under')
      BY <1>a, <1>b, <1>1
    <3> QED BY <1>a, <1>b, <1>1, <3>1
  <2>2. i + 1 \in 1..Len(Under) /\ Under[i + 1] = Under'[i]
    BY <1>1, <1>b
  <2> QED BY <2>1, <2>2 DEF LastIsState
<1>6. ShownIsState'
  <2> SUFFICES ASSUME NEW d \in Device, d \notin unshown',
                      \A i \in 1..Len(Under') : ~For(d, Under'[i])
               PROVE  shown'[d] = state[d]
    BY <1>2 DEF ShownIsState, For
  <2>1. \A j \in 2..Len(Under) : ~For(d, Under[j])
    <3> SUFFICES ASSUME NEW j \in 2..Len(Under) PROVE ~For(d, Under[j])
      OBVIOUS
    <3>1. j - 1 \in 1..Len(Under')
      BY <1>a, <1>b, <1>1
    <3>2. Under'[j - 1] = Under[j]
      <4>1. Under'[j - 1] = queue[(j - 1) + 1] /\ (j - 1) + 1 = j
        BY <1>1, <3>1
      <4> QED BY <1>b, <4>1
    <3> QED BY <3>1, <3>2
  <2>2. CASE For(d, r)
    <3>1. r.payload = state[d]
      BY <1>a, <1>b, <2>1, <2>2 DEF LastIsState
    <3> QED BY <1>3, <2>2, <3>1
  <2>3. CASE ~For(d, r)
    <3>1. \A j \in 1..Len(Under) : ~For(d, Under[j])
      BY <1>a, <1>b, <2>1, <2>3
    <3> QED BY <1>4, <2>3, <3>1 DEF ShownIsState
  <2> QED BY <2>2, <2>3
<1> QED BY <1>5, <1>6

\* What was queued is lost with its connection.
LEMMA LosingKeepsDown ==
  ASSUME Typed, LastIsState, ShownIsState, Waiting,
         queue' = <<>>, todo' = todo,
         unshown' = unshown \cup DevicesIn({queue[i] : i \in DOMAIN queue}),
         UNCHANGED <<state, shown>>
  PROVE  LastIsState' /\ ShownIsState'
<1>1. todo = <<>> /\ Under = queue /\ Under' = <<>> /\ DOMAIN queue = 1..Len(queue)
  BY DEF Waiting, Under, Typed
<1>2. LastIsState'
  BY <1>1 DEF LastIsState
<1>3. ShownIsState'
  <2> SUFFICES ASSUME NEW d \in Device, d \notin unshown' PROVE shown[d] = state[d]
    BY DEF ShownIsState
  <2>1. \A i \in 1..Len(queue) : ~For(d, queue[i])
    BY <1>1 DEF DevicesIn, For
  <2> QED BY <1>1, <2>1 DEF ShownIsState
<1> QED BY <1>2, <1>3

\* What every step of the gateway keeps.
GatewayInv == Upstream /\ Downstream

(***************************************************************************)
(* All of it holds when the loop begins, with nothing queued but the       *)
(* start.                                                                  *)
(***************************************************************************)
LEMMA GatewayInit == Init => GatewayInv
<1> SUFFICES ASSUME Init PROVE GatewayInv
  OBVIOUS
<1>1. Typed
  BY TypedInit
<1>2. Calm /\ LastIsTrue /\ HeardIsTrue
  BY DEF Init, Calm, LastIsTrue, HeardIsTrue
<1>3. \A d : \A i \in 1..Len(Under) : ~For(d, Under[i])
  <2>1. queue = Start /\ todo = <<>>
    BY DEF Init
  <2>2. Start \in Seq(Sendable) /\ Under = Start
    BY <2>1, <1>1 DEF Under, Typed
  <2>3. /\ Len(Start) = Len(Filters) + 1
        /\ \A i \in 1..Len(Start) : Start[i].kind \in {"subscribe", "online"}
    <3> DEFINE listed == [i \in DOMAIN Filters |-> [kind |-> "subscribe", filter |-> Filters[i]]]
    <3>1. DOMAIN Filters = 1..Len(Filters) /\ Len(Filters) \in Nat
      BY FiltersAreListed
    <3>2. listed \in Seq([kind : {"subscribe"}, filter : {Filters[i] : i \in DOMAIN Filters}])
      BY <3>1
    <3>3. Len(listed) = Len(Filters) /\ \A i \in 1..Len(listed) : listed[i].kind = "subscribe"
      BY <3>1, <3>2
    <3>4. Start = listed \o <<[kind |-> "online"]>>
      BY DEF Start
    <3> HIDE DEF listed
    <3>5. Start = Append(listed, [kind |-> "online"])
      BY <3>2, <3>4
    <3> QED BY <3>1, <3>2, <3>3, <3>5
  <2> QED BY <2>2, <2>3 DEF For
<1>4. LastIsState /\ ShownIsState
  BY <1>3 DEF LastIsState, ShownIsState, Init
<1> QED BY <1>1, <1>2, <1>4 DEF GatewayInv, Upstream, Downstream

LEMMA CalmStep == Calm /\ [Next]_vars => Calm'
<1> SUFFICES ASSUME Calm, [Next]_vars PROVE Calm'
  OBVIOUS
<1> USE DEF Calm
<1>1. ASSUME NEW e \in Event, Emit(e) PROVE Calm'
  BY <1>1 DEF Emit, gwVars
<1>2. ASSUME NEW v \in Verb, NEW q \in Request, PollReceives(v, q) PROVE Calm'
  BY <1>2 DEF PollReceives, Waiting
<1>3. CASE Queue \/ Receive \/ Close \/ CallReturns
  BY <1>3 DEF Queue, Receive, Close, CallReturns, Waiting
<1>4. CASE PollFails \/ PollSends
  BY <1>4 DEF PollFails, PollSends, gwVars
<1>5. CASE Stop \/ Return \/ PollConnects \/ Wake \/ LinkLost \/ KeepAliveLapses \/ BrokerBack
  BY <1>5 DEF Stop, Return, PollConnects, Wake, LinkLost, KeepAliveLapses, BrokerBack, Loses, gwVars
<1>6. CASE UNCHANGED vars
  BY <1>6 DEF vars, gwVars
<1> QED BY <1>1, <1>2, <1>3, <1>4, <1>5, <1>6 DEF Next

LEMMA UpApart ==
  ASSUME GatewayInv, UNCHANGED <<feed, unheard, truth, state>>
  PROVE  LastIsTrue' /\ HeardIsTrue'
BY DEF GatewayInv, Upstream, LastIsTrue, HeardIsTrue, Readings

LEMMA DownApart ==
  ASSUME GatewayInv, Under' = Under, UNCHANGED <<state, shown, unshown>>
  PROVE  Downstream'
BY DEF GatewayInv, Downstream, LastIsState, ShownIsState, For

\* A step that touches neither side.
LEMMA ApartKeepsBoth ==
  ASSUME GatewayInv, UNCHANGED <<feed, unheard, truth, state>>,
         UNCHANGED <<queue, todo, shown, unshown>>
  PROVE  LastIsTrue' /\ HeardIsTrue' /\ Downstream'
<1>1. Under' = Under
  BY DEF Under
<1> QED BY <1>1, UpApart, DownApart

(***************************************************************************)
(* Every step keeps it.                                                    *)
(***************************************************************************)
LEMMA GatewayStep == GatewayInv /\ [Next]_vars => GatewayInv'
<1> SUFFICES ASSUME GatewayInv, [Next]_vars PROVE GatewayInv'
  OBVIOUS
<1>a. Typed /\ Calm /\ LastIsTrue /\ HeardIsTrue /\ LastIsState /\ ShownIsState
  BY DEF GatewayInv, Upstream, Downstream
<1>b. Typed' /\ Calm'
  BY <1>a, TypedStep, CalmStep
<1>c. queue \in Seq(Sendable) /\ todo \in Seq(Sendable)
  BY <1>a DEF Typed
<1> SUFFICES LastIsTrue' /\ HeardIsTrue' /\ LastIsState' /\ ShownIsState'
  BY <1>b DEF GatewayInv, Upstream, Downstream
<1> HIDE DEF GatewayInv
<1>1. ASSUME NEW e \in Event, Emit(e) PROVE LastIsTrue' /\ HeardIsTrue' /\ Downstream'
  <2>1. LastIsTrue' /\ HeardIsTrue'
    BY <1>a, <1>1, EmitKeepsUp
  <2>2. Under' = Under /\ UNCHANGED <<state, shown, unshown>>
    BY <1>1 DEF Emit, gwVars, brokerVars, Under
  <2> QED BY <2>1, <2>2, DownApart
<1>2. CASE Queue
  <2>1. UNCHANGED <<feed, unheard, truth, state, shown, unshown>>
    BY <1>2 DEF Queue, rtVars, brokerVars
  <2>2. Under' = Under
    <3>1. /\ todo = <<Head(todo)>> \o Tail(todo)
          /\ Head(todo) \in Sendable /\ Tail(todo) \in Seq(Sendable)
      BY <1>2, <1>c DEF Queue
    <3>2. queue' = queue \o <<Head(todo)>>
      BY <1>2, <1>c, <3>1 DEF Queue
    <3>3. (queue \o <<Head(todo)>>) \o Tail(todo) = queue \o (<<Head(todo)>> \o Tail(todo))
      BY <1>c, <3>1
    <3> QED BY <1>2, <3>1, <3>2, <3>3 DEF Queue, Under
  <2> QED BY <2>1, <2>2, UpApart, DownApart DEF Downstream
<1>3. CASE Receive
  <2>a. todo = <<>> /\ queue' = queue /\ truth' = truth /\ UNCHANGED <<shown, unshown>>
    BY <1>3 DEF Receive, Waiting, brokerVars
  <2>1. CASE lagged /\ lagged' = FALSE /\ UNCHANGED <<feed, unheard, state, todo>>
    BY <2>a, <2>1, ApartKeepsBoth DEF Downstream
  <2>2. CASE feed # <<>> /\ feed' = Tail(feed) /\ unheard' = unheard \ Readings(Head(feed))
    <3> DEFINE e == Head(feed)
    <3>a. e \in Event
      BY <1>a, <2>2 DEF Typed
    <3>1. CASE /\ e.kind = "state"
               /\ state' = [state EXCEPT ![e.dev] = Applied(@, e.changes)]
               /\ todo' = <<[kind |-> "state", dev |-> e.dev, payload |-> state'[e.dev]]>>
      <4> DEFINE r == [kind |-> "state", dev |-> e.dev, payload |-> state'[e.dev]]
      <4>1. TakesEvent
        BY <2>a, <2>2, <3>1 DEF TakesEvent
      <4>2. e.dev \in Device /\ state'[e.dev] \in Payload
        BY <3>a, <3>1, <1>b, ChangesOf DEF Typed
      <4>3. r \in Sendable /\ For(e.dev, r) /\ r.payload = state'[e.dev]
        BY <4>2 DEF Sendable, For
      <4>4. \A d \in Device \ {e.dev} : state'[d] = state[d]
        BY <1>a, <3>1 DEF Typed
      <4> HIDE DEF r
      <4>5. todo' = <<r>>
        BY <3>1 DEF r
      <4>6. Under = queue /\ Under' = queue \o <<r>>
        BY <1>c, <2>a, <4>5 DEF Under
      <4>7. Under' = Append(Under, r)
        BY <1>c, <4>3, <4>6
      <4>8. LastIsState' /\ ShownIsState'
        BY <1>a, <2>a, <4>2, <4>3, <4>4, <4>7, PayloadKeepsDown
      <4> QED BY <1>a, <4>1, <4>8, TakingKeepsUp DEF Downstream
    <3>2. CASE /\ e.kind # "state" /\ state' = state
               /\ (todo' = <<>> \/ todo' = <<[kind |-> "bridge"]>>)
      <4>1. TakesEvent
        BY <2>a, <2>2, <3>2 DEF TakesEvent
      <4>2. todo' \in Seq(Sendable) /\ \A i \in 1..Len(todo') : todo'[i].kind # "state"
        BY <1>b, <3>2 DEF Typed
      <4>3. Under' = Under \o todo'
        BY <1>c, <2>a DEF Under
      <4>4. LastIsState' /\ ShownIsState'
        BY <1>a, <2>a, <3>2, <4>2, <4>3, OthersKeepDown
      <4> QED BY <1>a, <4>1, <4>4, TakingKeepsUp DEF Downstream
    <3>3. \/ /\ e.kind = "state"
             /\ state' = [state EXCEPT ![e.dev] = Applied(@, e.changes)]
             /\ todo' = <<[kind |-> "state", dev |-> e.dev, payload |-> state'[e.dev]]>>
          \/ e.kind # "state" /\ state' = state /\ (todo' = <<>> \/ todo' = <<[kind |-> "bridge"]>>)
          \/ lagged /\ lagged' = FALSE /\ UNCHANGED <<feed, unheard, state, todo>>
      BY <1>3, <2>a DEF Receive
    <3> QED BY <3>1, <3>2, <3>3, <2>1
  <2> QED BY <1>3, <2>1, <2>2 DEF Receive
<1>4. CASE Close
  <2>1. todo = <<>> /\ UNCHANGED <<feed, unheard, truth, state, queue, shown, unshown>>
    BY <1>4 DEF Close, Waiting, rtVars, brokerVars
  <2>2. todo' \in Seq(Sendable) /\ \A i \in 1..Len(todo') : todo'[i].kind # "state"
    BY <1>b, <1>4 DEF Close, Typed
  <2>3. Under' = Under \o todo'
    BY <1>c, <2>1 DEF Under
  <2> QED BY <1>a, <2>1, <2>2, <2>3, OthersKeepDown, UpApart DEF Downstream
<1>5. ASSUME NEW v \in Verb, NEW q \in Request, PollReceives(v, q)
      PROVE  LastIsTrue' /\ HeardIsTrue' /\ Downstream'
  <2>1. todo = <<>> /\ UNCHANGED <<feed, unheard, truth, state, queue, shown, unshown>>
    BY <1>5 DEF PollReceives, Waiting, rtVars, brokerVars
  <2>2. todo' \in Seq(Sendable) /\ \A i \in 1..Len(todo') : todo'[i].kind # "state"
    BY <1>b, <1>5, <2>1 DEF PollReceives, Response, Typed
  <2>3. Under' = Under \o todo'
    BY <1>c, <2>1 DEF Under
  <2> QED BY <1>a, <2>1, <2>2, <2>3, OthersKeepDown, UpApart DEF Downstream
<1>6. CASE CallReturns
  <2>1. todo = <<>> /\ UNCHANGED <<feed, unheard, truth, state, queue, shown, unshown>>
    BY <1>6, <1>a DEF CallReturns, Calm, rtVars, brokerVars
  <2>2. todo' \in Seq(Sendable) /\ \A i \in 1..Len(todo') : todo'[i].kind # "state"
    BY <1>b, <1>6 DEF CallReturns, Response, Typed
  <2>3. Under' = Under \o todo'
    BY <1>c, <2>1 DEF Under
  <2> QED BY <1>a, <2>1, <2>2, <2>3, OthersKeepDown, UpApart DEF Downstream
<1>7. CASE PollFails
  <2>1. UNCHANGED <<feed, unheard, truth, state, todo, shown>> /\ Waiting
    BY <1>7 DEF PollFails, rtVars
  <2>2. CASE UNCHANGED <<queue, unshown>>
    BY <2>1, <2>2, ApartKeepsBoth DEF Downstream
  <2>3. CASE queue' = <<>> /\ unshown' = unshown \cup DevicesIn({queue[i] : i \in DOMAIN queue})
    BY <1>a, <2>1, <2>3, UpApart, LosingKeepsDown DEF Downstream
  <2> QED BY <1>7, <2>2, <2>3 DEF PollFails
<1>8. CASE PollSends
  <2>1. UNCHANGED <<feed, unheard, truth, state>>
    BY <1>8 DEF PollSends, rtVars, gwVars
  <2> QED BY <1>8, <1>a, <2>1, UpApart, SendingKeepsDown DEF Downstream
<1>9. CASE Stop \/ Return \/ PollConnects \/ Wake \/ LinkLost \/ KeepAliveLapses \/ BrokerBack
  <2>1. UNCHANGED <<feed, unheard, truth, state>> /\ UNCHANGED <<queue, todo, shown, unshown>>
    BY <1>9 DEF Stop, Return, PollConnects, Wake, LinkLost, KeepAliveLapses, BrokerBack, Loses,
                rtVars, gwVars, brokerVars
  <2> QED BY <2>1, ApartKeepsBoth DEF Downstream
<1>10. CASE UNCHANGED vars
  <2>1. UNCHANGED <<feed, unheard, truth, state>> /\ UNCHANGED <<queue, todo, shown, unshown>>
    BY <1>10 DEF vars, rtVars, gwVars, brokerVars
  <2> QED BY <2>1, ApartKeepsBoth DEF Downstream
<1>11. LastIsTrue' /\ HeardIsTrue' /\ Downstream'
  BY <1>1, <1>2, <1>3, <1>4, <1>5, <1>6, <1>7, <1>8, <1>9, <1>10 DEF Next, Downstream
<1> QED BY <1>11 DEF Downstream

LEMMA InvMeansComplete == GatewayInv => PayloadsAreComplete
<1> SUFFICES ASSUME GatewayInv, Waiting, feed = <<>>, queue = <<>>,
                    NEW d \in Device \ unshown, NEW c \in Cap, <<d, c>> \notin unheard
             PROVE  shown[d][c] = truth[d][c]
  BY DEF PayloadsAreComplete
<1>1. todo = <<>> /\ Under = <<>>
  BY DEF Waiting, Under
<1>2. state[d][c] = truth[d][c]
  BY DEF GatewayInv, Upstream, HeardIsTrue
<1>3. shown[d] = state[d]
  BY <1>1 DEF GatewayInv, Downstream, ShownIsState
<1> QED BY <1>2, <1>3

(***************************************************************************)
(* Once all is quiet the last payload of a device has every reading ever   *)
(* reported of it but those whose last report fell into a gap, for any     *)
(* devices and readings, a feed and a queue of any size, and any number of *)
(* connections lost.                                                       *)
(***************************************************************************)
THEOREM Complete == Spec => []PayloadsAreComplete
BY GatewayInit, GatewayStep, InvMeansComplete, PTL DEF Spec

-----------------------------------------------------------------------------
(* What the gateway says of itself, and what it owes.                      *)

\* A step leaves what is on its way to the broker alone, adds to its end what
\* a handler queues, sends the first, or loses all.
LEMMA UnderMoves ==
  ASSUME Typed, Calm, [Next]_vars
  PROVE  \/ Under' = Under
         \/ Under' = Under \o todo' /\ (Receive \/ Close \/ CallReturns
                                        \/ \E v \in Verb, q \in Request : PollReceives(v, q))
         \/ PollSends /\ Under # <<>> /\ Head(Under) = Head(queue) /\ Under' = Tail(Under)
         \/ PollFails /\ connected /\ link # "up"
<1>a. queue \in Seq(Sendable) /\ todo \in Seq(Sendable)
  BY DEF Typed
<1>b. queue \o <<>> = queue
  BY <1>a
<1>1. CASE Queue
  <2>1. /\ todo = <<Head(todo)>> \o Tail(todo)
        /\ Head(todo) \in Sendable /\ Tail(todo) \in Seq(Sendable)
    BY <1>1, <1>a DEF Queue
  <2>2. queue' = queue \o <<Head(todo)>> /\ todo' = Tail(todo)
    BY <1>1, <1>a, <2>1 DEF Queue
  <2>3. (queue \o <<Head(todo)>>) \o Tail(todo) = queue \o (<<Head(todo)>> \o Tail(todo))
    BY <1>a, <2>1
  <2> QED BY <2>1, <2>2, <2>3 DEF Under
<1>2. CASE Receive \/ Close \/ CallReturns \/ \E v \in Verb, q \in Request : PollReceives(v, q)
  <2>1. todo = <<>> /\ queue' = queue
    BY <1>2 DEF Receive, Close, CallReturns, PollReceives, Waiting, Calm
  <2> QED BY <1>b, <1>2, <2>1 DEF Under
<1>3. CASE PollSends
  <2>1. todo = <<>> /\ todo' = <<>> /\ queue # <<>> /\ queue' = Tail(queue)
    BY <1>3 DEF PollSends, Waiting, gwVars
  <2>2. Tail(queue) \o <<>> = Tail(queue)
    BY <1>a, <2>1
  <2> QED BY <1>b, <1>3, <2>1, <2>2 DEF Under
<1>4. CASE PollFails
  BY <1>4 DEF PollFails, Under
<1>5. ASSUME NEW e \in Event, Emit(e) PROVE Under' = Under
  BY <1>5 DEF Emit, gwVars, Under
<1>6. CASE Stop \/ Return \/ PollConnects \/ Wake \/ LinkLost \/ KeepAliveLapses \/ BrokerBack
           \/ UNCHANGED vars
  BY <1>6 DEF Stop, Return, PollConnects, Wake, LinkLost, KeepAliveLapses, BrokerBack, Loses,
              vars, gwVars, Under
<1> QED BY <1>1, <1>2, <1>3, <1>4, <1>5, <1>6 DEF Next

\* What is on its way after a step was before it, or is no goodbye, or the
\* gateway is closing.
LEMMA NothingNew ==
  ASSUME Typed, Calm, Typed', [Next]_vars, NEW i \in DOMAIN Under'
  PROVE  \/ \E j \in DOMAIN Under : Under[j] = Under'[i]
         \/ Under'[i].kind # "disconnect"
         \/ doing' = "closing"
<1>a. /\ queue \in Seq(Sendable) /\ todo \in Seq(Sendable) /\ Under \in Seq(Sendable)
      /\ queue' \in Seq(Sendable) /\ todo' \in Seq(Sendable) /\ Under' \in Seq(Sendable)
  BY UnderTyped DEF Typed, Under
<1>1. CASE Under' = Under
  BY <1>1
<1>2. CASE Under' = Under \o todo' /\ (Receive \/ Close \/ CallReturns
                                      \/ \E v \in Verb, q \in Request : PollReceives(v, q))
  <2>1. CASE i \in 1..Len(Under)
    BY <1>a, <1>2, <2>1
  <2>2. CASE i \notin 1..Len(Under)
    <3>1. i - Len(Under) \in 1..Len(todo') /\ Under'[i] = todo'[i - Len(Under)]
      BY <1>a, <1>2, <2>2
    <3>2. \A k \in 1..Len(todo') : todo'[k].kind # "disconnect" \/ doing' = "closing"
      <4>1. CASE Receive
        BY <4>1 DEF Receive, Waiting
      <4>2. CASE Close
        BY <4>2 DEF Close
      <4>3. CASE CallReturns
        BY <4>3 DEF CallReturns, Response
      <4>4. CASE \E v \in Verb, q \in Request : PollReceives(v, q)
        BY <4>4 DEF PollReceives, Response, Waiting
      <4> QED BY <1>2, <4>1, <4>2, <4>3, <4>4
    <3> QED BY <3>1, <3>2
  <2> QED BY <2>1, <2>2
<1>3. CASE PollSends /\ Under # <<>> /\ Head(Under) = Head(queue) /\ Under' = Tail(Under)
  <2>1. i + 1 \in DOMAIN Under /\ Under[i + 1] = Under'[i]
    BY <1>a, <1>3
  <2> QED BY <2>1
<1>4. CASE PollFails /\ connected /\ link # "up"
  <2>1. queue' = <<>> \/ queue' = queue
    BY <1>4 DEF PollFails
  <2>2. todo = <<>> /\ todo' = <<>>
    BY <1>4 DEF PollFails, Waiting
  <2>3. Under' = <<>> \/ Under' = Under
    BY <1>a, <2>1, <2>2 DEF Under
  <2> QED BY <1>1, <2>3
<1> QED BY <1>1, <1>2, <1>3, <1>4, UnderMoves

\* What is on its way before a step is after it, or sent, or lost with the
\* connection.
LEMMA NothingForgotten ==
  ASSUME Typed, Calm, Typed', [Next]_vars, NEW j \in DOMAIN Under
  PROVE  \/ \E i \in DOMAIN Under' : Under'[i] = Under[j]
         \/ PollSends /\ Head(queue) = Under[j]
         \/ PollFails /\ connected /\ link # "up"
<1>a. /\ Under \in Seq(Sendable) /\ Under' \in Seq(Sendable) /\ todo' \in Seq(Sendable)
  BY UnderTyped DEF Typed, Under
<1>1. CASE Under' = Under
  BY <1>1
<1>2. CASE Under' = Under \o todo'
  <2>1. j \in DOMAIN Under' /\ Under'[j] = Under[j]
    BY <1>a, <1>2
  <2> QED BY <2>1
<1>3. CASE PollSends /\ Under # <<>> /\ Head(Under) = Head(queue) /\ Under' = Tail(Under)
  <2>1. CASE j = 1
    BY <1>a, <1>3, <2>1
  <2>2. CASE j # 1
    <3>1. j - 1 \in DOMAIN Under' /\ Under'[j - 1] = Under[j]
      BY <1>a, <1>3, <2>2
    <3> QED BY <3>1
  <2> QED BY <2>1, <2>2
<1> QED BY <1>1, <1>2, <1>3, UnderMoves

\* A goodbye is on its way only when the loop is over ...
Goodbye == \A i \in DOMAIN Under : Under[i].kind = "disconnect" => doing \in {"closing", "ended"}

\* ... and the client learns late of a lost connection, unless it is polled no
\* more.
LostOnce == connected /\ link # "up" => drops > 0 \/ Silent

Shape == Typed /\ Calm /\ drops \in Nat /\ Goodbye /\ LostOnce

LEMMA ShapeInit == Init => Shape
<1> SUFFICES ASSUME Init PROVE Shape
  OBVIOUS
<1>1. Typed /\ Calm
  BY GatewayInit DEF GatewayInv, Upstream
<1>2. queue = Start /\ todo = <<>> /\ Under = Start
  <2>1. queue = Start /\ todo = <<>>
    BY DEF Init
  <2> QED BY <1>1, <2>1 DEF Typed, Under
<1>3. \A i \in DOMAIN Start : Start[i].kind # "disconnect"
  <2> DEFINE listed == [i \in DOMAIN Filters |-> [kind |-> "subscribe", filter |-> Filters[i]]]
  <2>1. DOMAIN Filters = 1..Len(Filters) /\ Len(Filters) \in Nat
    BY FiltersAreListed
  <2>2. listed \in Seq([kind : {"subscribe"}, filter : {Filters[i] : i \in DOMAIN Filters}])
    BY <2>1
  <2>3. Len(listed) = Len(Filters) /\ \A i \in 1..Len(listed) : listed[i].kind = "subscribe"
    BY <2>1, <2>2
  <2>4. Start = listed \o <<[kind |-> "online"]>>
    BY DEF Start
  <2> HIDE DEF listed
  <2>5. Start = Append(listed, [kind |-> "online"])
    BY <2>2, <2>4
  <2> QED BY <2>1, <2>2, <2>3, <2>5
<1> QED BY <1>1, <1>2, <1>3 DEF Init, Shape, Goodbye, LostOnce

\* A loop that is over does not begin again.
LEMMA ClosingStays ==
  ASSUME [Next]_vars, doing \in {"closing", "ended"}
  PROVE  doing' \in {"closing", "ended"}
<1>1. ASSUME NEW e \in Event, Emit(e) PROVE doing' = doing
  BY <1>1 DEF Emit, gwVars
<1>2. ASSUME NEW v \in Verb, NEW q \in Request, PollReceives(v, q) PROVE doing' = doing
  BY <1>2 DEF PollReceives
<1>3. ~Close /\ ~PollFails /\ ~Wake
  BY DEF Close, PollFails, Wake, Waiting
<1>4. CASE Stop \/ Queue \/ Receive \/ Return \/ PollConnects \/ PollSends \/ CallReturns
           \/ LinkLost \/ KeepAliveLapses \/ BrokerBack \/ UNCHANGED vars
  BY <1>4 DEF Stop, Queue, Receive, Return, PollConnects, PollSends, CallReturns, LinkLost,
              KeepAliveLapses, BrokerBack, Loses, gwVars, vars
<1> QED BY <1>1, <1>2, <1>3, <1>4 DEF Next

\* A disconnect is never sent: nobody polls when one is queued.
LEMMA NoDisconnectSent ==
  ASSUME Typed, Goodbye, PollSends
  PROVE  Head(queue).kind # "disconnect"
<1>1. queue \in Seq(Sendable) /\ queue # <<>> /\ todo = <<>> /\ doing = "looping"
  BY DEF Typed, PollSends, Waiting
<1>2. Under = queue
  BY <1>1 DEF Under
<1>3. 1 \in DOMAIN Under /\ Under[1] = Head(queue)
  BY <1>1, <1>2
<1> QED BY <1>1, <1>3 DEF Goodbye

LEMMA GoodbyeStep ==
  ASSUME Typed, Calm, Goodbye, Typed', [Next]_vars
  PROVE  Goodbye'
<1> SUFFICES ASSUME NEW i \in DOMAIN Under', Under'[i].kind = "disconnect"
             PROVE  doing' \in {"closing", "ended"}
  BY DEF Goodbye
<1>1. CASE doing' = "closing"
  BY <1>1
<1>2. CASE \E j \in DOMAIN Under : Under[j] = Under'[i]
  <2>1. doing \in {"closing", "ended"}
    BY <1>2 DEF Goodbye
  <2> QED BY <2>1, ClosingStays
<1> QED BY <1>1, <1>2, NothingNew

\* The end is the end ...
LEMMA EndedStays ==
  ASSUME [Next]_vars, doing = "ended"
  PROVE  doing' = "ended"
<1>1. ~Waiting /\ ~Wake /\ ~Return
  BY DEF Wake, Return, Waiting
<1>2. ~Receive /\ ~Close /\ ~PollConnects /\ ~PollFails /\ ~PollSends
      /\ \A v \in Verb, q \in Request : ~PollReceives(v, q)
  BY <1>1 DEF Receive, Close, PollConnects, PollFails, PollSends, PollReceives
<1>3. ASSUME NEW e \in Event, Emit(e) PROVE doing' = doing
  BY <1>3 DEF Emit, gwVars
<1>4. ASSUME Stop \/ Queue \/ CallReturns \/ LinkLost \/ KeepAliveLapses \/ BrokerBack
             \/ UNCHANGED vars
      PROVE  doing' = doing
  BY <1>4 DEF Stop, Queue, CallReturns, LinkLost, KeepAliveLapses, BrokerBack, Loses, gwVars, vars
<1> QED BY <1>1, <1>2, <1>3, <1>4 DEF Next

\* ... and the loop that waits for room waits on.
LEMMA SilentStays ==
  ASSUME Calm, [Next]_vars, Silent
  PROVE  Silent'
<1>1. ASSUME NEW e \in Event, Emit(e) PROVE UNCHANGED <<queue, todo>>
  BY <1>1 DEF Emit, gwVars
<1>2. ASSUME Stop \/ LinkLost \/ KeepAliveLapses \/ BrokerBack \/ UNCHANGED vars
      PROVE  UNCHANGED <<queue, todo>>
  BY <1>2 DEF Stop, LinkLost, KeepAliveLapses, BrokerBack, Loses, gwVars, vars
<1>3. CASE doing = "ended"
  BY <1>3, EndedStays DEF Silent
<1>4. CASE Stuck
  <2>1. todo # <<>> /\ Len(queue) = QueueSize
    BY <1>4 DEF Stuck
  <2>2. acting = None
    BY <2>1 DEF Calm
  <2>3. ~Waiting /\ ~Return /\ ~CallReturns /\ ~Queue
    <3>1. ~(Len(queue) < QueueSize)
      BY <2>1, RoomForTheStart
    <3> QED BY <2>1, <2>2, <3>1 DEF Waiting, Return, CallReturns, Queue
  <2>4. ~Receive /\ ~Close /\ ~PollConnects /\ ~PollFails /\ ~PollSends
        /\ \A v \in Verb, q \in Request : ~PollReceives(v, q)
    BY <2>3 DEF Receive, Close, PollConnects, PollFails, PollSends, PollReceives
  <2>5. ASSUME Wake PROVE UNCHANGED <<queue, todo>>
    BY <2>5 DEF Wake
  <2>6. UNCHANGED <<queue, todo>>
    BY <1>1, <1>2, <2>3, <2>4, <2>5 DEF Next
  <2> QED BY <1>4, <2>6 DEF Stuck, Silent
<1> QED BY <1>3, <1>4 DEF Silent

LEMMA LostOnceStep ==
  ASSUME Shape, [Next]_vars
  PROVE  LostOnce' /\ drops' \in Nat /\ drops' >= drops
<1>a. Typed /\ Calm /\ drops \in Nat /\ Goodbye /\ LostOnce
  BY DEF Shape
<1>1. LinkLost => drops' = drops + 1
  BY DEF LinkLost
<1>2. ASSUME ~LinkLost PROVE drops' = drops
  <2>1. ASSUME NEW e \in Event, Emit(e) PROVE drops' = drops
    BY <2>1 DEF Emit, brokerVars
  <2>2. ASSUME NEW v \in Verb, NEW q \in Request, PollReceives(v, q) PROVE drops' = drops
    BY <2>2 DEF PollReceives, brokerVars
  <2>3. ASSUME Stop \/ Queue \/ Receive \/ Close \/ Return \/ CallReturns \/ Wake \/ UNCHANGED vars
        PROVE  drops' = drops
    BY <2>3 DEF Stop, Queue, Receive, Close, Return, CallReturns, Wake, brokerVars, vars
  <2>4. ASSUME PollConnects \/ PollFails \/ PollSends \/ KeepAliveLapses \/ BrokerBack
        PROVE  drops' = drops
    BY <2>4 DEF PollConnects, PollFails, PollSends, KeepAliveLapses, BrokerBack
  <2> QED BY <1>2, <2>1, <2>2, <2>3, <2>4 DEF Next
<1>3. drops' \in Nat /\ drops' >= drops /\ (LinkLost => drops' > 0)
  BY <1>a, <1>1, <1>2
<1>4. ASSUME connected', link' # "up", ~LinkLost, ~KeepAliveLapses
      PROVE  connected /\ link # "up"
  <2>1. ASSUME NEW e \in Event, Emit(e) PROVE UNCHANGED <<connected, link>>
    BY <2>1 DEF Emit, brokerVars
  <2>2. ASSUME NEW v \in Verb, NEW q \in Request, PollReceives(v, q)
        PROVE  UNCHANGED <<connected, link>>
    BY <2>2 DEF PollReceives, brokerVars
  <2>3. ASSUME Stop \/ Queue \/ Receive \/ Close \/ Return \/ CallReturns \/ Wake \/ UNCHANGED vars
        PROVE  UNCHANGED <<connected, link>>
    BY <2>3 DEF Stop, Queue, Receive, Close, Return, CallReturns, Wake, brokerVars, vars
  <2>4. ~PollConnects /\ ~PollFails
    BY <1>4 DEF PollConnects, PollFails
  <2>5. CASE PollSends
    <3>1. Head(queue).kind # "disconnect" /\ connected
      BY <1>a, <2>5, NoDisconnectSent DEF PollSends
    <3>2. link' = link
      BY <2>5, <3>1 DEF PollSends, Arrives
    <3> QED BY <1>4, <3>1, <3>2
  <2>6. CASE BrokerBack
    BY <1>4, <2>6 DEF BrokerBack
  <2> QED BY <1>4, <2>1, <2>2, <2>3, <2>4, <2>5, <2>6 DEF Next
<1>5. LostOnce'
  <2> SUFFICES ASSUME connected', link' # "up" PROVE drops' > 0 \/ Silent'
    BY DEF LostOnce
  <2>1. CASE LinkLost
    BY <1>3, <2>1
  <2>2. CASE Silent
    BY <1>a, <2>2, SilentStays
  <2>3. CASE ~LinkLost /\ ~Silent
    <3>1. connected /\ link # "up"
      BY <1>4, <2>3 DEF KeepAliveLapses
    <3>2. drops > 0
      BY <1>a, <2>3, <3>1 DEF LostOnce
    <3> QED BY <1>a, <1>3, <3>2
  <2> QED BY <2>1, <2>2, <2>3
<1> QED BY <1>3, <1>5

LEMMA ShapeStep == Shape /\ [Next]_vars => Shape'
<1> SUFFICES ASSUME Shape, [Next]_vars PROVE Shape'
  OBVIOUS
<1>1. Typed /\ Calm /\ Goodbye
  BY DEF Shape
<1>2. Typed' /\ Calm'
  BY <1>1, TypedStep, CalmStep
<1>3. Goodbye'
  BY <1>1, <1>2, GoodbyeStep
<1>4. LostOnce' /\ drops' \in Nat
  BY LostOnceStep
<1> QED BY <1>2, <1>3, <1>4 DEF Shape

(***************************************************************************)
(* The broker shows the gateway as online only over a connection that is   *)
(* up: whatever is queued, lost or sent again, and however it ends         *)
(* (lib.rs, the crate's comment: "Availability is a will").                *)
(***************************************************************************)
OnlineIsConnected == retained = "online" => link = "up"

LEMMA OnlineStep ==
  ASSUME Shape, OnlineIsConnected, [Next]_vars
  PROVE  OnlineIsConnected'
<1> SUFFICES ASSUME retained' = "online" PROVE link' = "up"
  BY DEF OnlineIsConnected
<1>1. ASSUME NEW e \in Event, Emit(e) PROVE UNCHANGED <<retained, link>>
  BY <1>1 DEF Emit, brokerVars
<1>2. ASSUME NEW v \in Verb, NEW q \in Request, PollReceives(v, q)
      PROVE  UNCHANGED <<retained, link>>
  BY <1>2 DEF PollReceives, brokerVars
<1>3. ASSUME Stop \/ Queue \/ Receive \/ Close \/ Return \/ CallReturns \/ Wake \/ UNCHANGED vars
      PROVE  UNCHANGED <<retained, link>>
  BY <1>3 DEF Stop, Queue, Receive, Close, Return, CallReturns, Wake, brokerVars, vars
<1>4. ASSUME PollFails PROVE UNCHANGED <<retained, link>>
  BY <1>4 DEF PollFails
<1>5. CASE PollConnects
  BY <1>5 DEF PollConnects
<1>6. CASE PollSends
  <2>1. Head(queue).kind # "disconnect"
    BY <1>6, NoDisconnectSent DEF Shape
  <2>2. CASE link = "up"
    BY <1>6, <2>1, <2>2 DEF PollSends, Arrives
  <2>3. CASE link # "up"
    BY <1>6, <2>3 DEF PollSends, OnlineIsConnected
  <2> QED BY <2>2, <2>3
<1>7. ~LinkLost /\ ~KeepAliveLapses
  BY DEF LinkLost, KeepAliveLapses, Loses, Will
<1>8. CASE BrokerBack
  BY <1>8 DEF BrokerBack, OnlineIsConnected
<1> QED BY <1>1, <1>2, <1>3, <1>4, <1>5, <1>6, <1>7, <1>8 DEF Next, OnlineIsConnected

(***************************************************************************)
(* The will and the queued announcements together never leave "online" at  *)
(* the broker without a connection behind it, for any number of lost       *)
(* connections and wherever the loop is when one is lost.                  *)
(***************************************************************************)
THEOREM OnlineOnly == Spec => []OnlineIsConnected
<1>1. Init => OnlineIsConnected
  <2>1. Init => retained = None /\ None # "online"
    BY NoneIsApart DEF Init
  <2> QED BY <2>1 DEF OnlineIsConnected
<1>2. Shape /\ OnlineIsConnected /\ [Next]_vars => Shape' /\ OnlineIsConnected'
  <2> SUFFICES ASSUME Shape, OnlineIsConnected, [Next]_vars PROVE Shape' /\ OnlineIsConnected'
    OBVIOUS
  <2> QED BY ShapeStep, OnlineStep
<1> QED BY <1>1, <1>2, ShapeInit, PTL DEF Spec

(***************************************************************************)
(* The gateway says goodbye only after the runtime: a gap, a sleep or a    *)
(* lost connection is not taken for its end, and nothing that was emitted  *)
(* is left unreceived (lib.rs, run: "until the runtime stops").            *)
(***************************************************************************)
EndsLast == doing \in {"closing", "ended"} => StreamEnded

LEMMA EndsLastStep == EndsLast /\ [Next]_vars => EndsLast'
<1> SUFFICES ASSUME EndsLast, [Next]_vars, doing' \in {"closing", "ended"} PROVE StreamEnded'
  BY DEF EndsLast
<1>1. CASE Close
  BY <1>1 DEF Close, rtVars, StreamEnded
<1>2. ASSUME ~Close PROVE doing \in {"closing", "ended"}
  <2>1. ASSUME NEW e \in Event, Emit(e) PROVE doing' = doing
    BY <2>1 DEF Emit, gwVars
  <2>2. ASSUME NEW v \in Verb, NEW q \in Request, PollReceives(v, q) PROVE doing' = doing
    BY <2>2 DEF PollReceives
  <2>3. ASSUME Stop \/ Queue \/ Receive \/ PollConnects \/ PollSends \/ CallReturns \/ LinkLost
               \/ KeepAliveLapses \/ BrokerBack \/ UNCHANGED vars
        PROVE  doing' = doing
    BY <2>3 DEF Stop, Queue, Receive, PollConnects, PollSends, CallReturns, LinkLost,
                KeepAliveLapses, BrokerBack, Loses, gwVars, vars
  <2>4. ~PollFails /\ ~Wake
    BY DEF PollFails, Wake
  <2>5. Return => doing = "closing"
    BY DEF Return
  <2> QED BY <1>2, <2>1, <2>2, <2>3, <2>4, <2>5 DEF Next
<1>3. CASE ~Close
  <2>1. StreamEnded /\ ~Waiting
    BY <1>2, <1>3 DEF EndsLast, Waiting
  <2>2. ~Stop /\ ~Receive /\ ~PollConnects /\ ~PollFails /\ ~PollSends
        /\ (\A e \in Event : ~Emit(e))
        /\ \A v \in Verb, q \in Request : ~PollReceives(v, q)
    BY <2>1 DEF StreamEnded, Stop, Receive, PollConnects, PollFails, PollSends, Emit, PollReceives
  <2>3. ASSUME Queue \/ Return \/ CallReturns \/ Wake \/ LinkLost \/ KeepAliveLapses \/ BrokerBack
               \/ UNCHANGED vars
        PROVE  UNCHANGED <<runtime, feed, lagged>>
    BY <2>3 DEF Queue, Return, CallReturns, Wake, LinkLost, KeepAliveLapses, BrokerBack, Loses,
                rtVars, vars
  <2>4. UNCHANGED <<runtime, feed, lagged>>
    BY <1>3, <2>2, <2>3 DEF Next
  <2> QED BY <2>1, <2>4 DEF StreamEnded
<1> QED BY <1>1, <1>3

(***************************************************************************)
(* Whoever sees the gateway leave knows that the runtime stopped, for a    *)
(* feed of any size.                                                       *)
(***************************************************************************)
THEOREM EndsAfter == Spec => []EndsLast
<1>1. Init => EndsLast
  BY DEF Init, EndsLast
<1> QED BY <1>1, EndsLastStep, PTL DEF Spec

\* The answer that is owed, and that it is not forgotten.
ResponseTo(q) == [kind |-> "response", to |-> q]

CaredFor(v, q) ==
  \/ q \in answered
  \/ acting = <<v, q>>
  \/ \E i \in DOMAIN Under : Under[i] = ResponseTo(q)

(***************************************************************************)
(* No request to the bridge is forgotten while the gateway runs and its    *)
(* connection holds: it is answered, or the runtime is asked, or its       *)
(* response is on its way, also when it was refused and also when the loop *)
(* waits for room (lib.rs, handle: "silence is indistinguishable from a    *)
(* broker problem").                                                       *)
(***************************************************************************)
RequestsAreKept ==
  drops = 0 /\ doing # "ended" =>
    \A v \in Verb, q \in Request : <<v, q>> \in asked /\ AnswersTo(v) => CaredFor(v, q)

\* What a handler queues is at the end of what is on its way.
LEMMA QueuedIsUnder ==
  ASSUME Typed, Typed', todo = <<>>, queue' = queue, NEW q, todo' = <<ResponseTo(q)>>
  PROVE  \E i \in DOMAIN Under' : Under'[i] = ResponseTo(q)
<1>1. queue \in Seq(Sendable) /\ Len(queue) \in Nat /\ todo' \in Seq(Sendable)
  BY DEF Typed
<1>2. Under' = queue \o <<ResponseTo(q)>>
  BY DEF Under
<1>3. Len(queue) + 1 \in DOMAIN Under' /\ Under'[Len(queue) + 1] = ResponseTo(q)
  BY <1>1, <1>2
<1> QED BY <1>3

\* A message that arrives is cared for from the start.
LEMMA ReceivedIsCared ==
  ASSUME Typed, Typed', NEW v \in Verb, NEW q \in Request, PollReceives(v, q), AnswersTo(v)
  PROVE  CaredFor(v, q)'
<1>1. CASE v = "unknown"
  <2>1. todo = <<>> /\ queue' = queue /\ todo' = <<ResponseTo(q)>>
    BY <1>1 DEF PollReceives, Waiting, Response, AnswersTo, ResponseTo
  <2> QED BY <2>1, QueuedIsUnder DEF CaredFor
<1>2. CASE v # "unknown"
  BY <1>2 DEF PollReceives, CaredFor
<1> QED BY <1>1, <1>2

\* The call under way goes on, or its answer is queued.
LEMMA ActingIsCared ==
  ASSUME Typed, Calm, Typed', [Next]_vars,
         NEW v \in Verb, NEW q \in Request, AnswersTo(v), acting = <<v, q>>
  PROVE  CaredFor(v, q)'
<1>1. acting # None
  BY NoneIsApart DEF Message
<1>2. ~Waiting /\ todo = <<>>
  BY <1>1 DEF Waiting, Calm
<1>3. ~Receive /\ ~Close /\ ~PollConnects /\ ~PollFails /\ ~PollSends
      /\ \A u \in Verb, p \in Request : ~PollReceives(u, p)
  BY <1>2 DEF Receive, Close, PollConnects, PollFails, PollSends, PollReceives
<1>4. CASE CallReturns
  <2>1. queue' = queue /\ todo' = <<ResponseTo(q)>>
    BY <1>4 DEF CallReturns, Response, ResponseTo
  <2> QED BY <1>2, <2>1, QueuedIsUnder DEF CaredFor
<1>5. ASSUME NEW e \in Event, Emit(e) PROVE acting' = acting
  BY <1>5 DEF Emit, gwVars
<1>6. ASSUME Stop \/ Queue \/ Return \/ Wake \/ LinkLost \/ KeepAliveLapses \/ BrokerBack
             \/ UNCHANGED vars
      PROVE  acting' = acting
  BY <1>6 DEF Stop, Queue, Return, Wake, LinkLost, KeepAliveLapses, BrokerBack, Loses, gwVars, vars
<1>7. acting' = acting => CaredFor(v, q)'
  BY DEF CaredFor
<1> QED BY <1>3, <1>4, <1>5, <1>6, <1>7 DEF Next

LEMMA AnsweredStays == [Next]_vars => answered \subseteq answered'
<1> SUFFICES ASSUME [Next]_vars PROVE answered \subseteq answered'
  OBVIOUS
<1>1. ASSUME NEW e \in Event, Emit(e) PROVE answered' = answered
  BY <1>1 DEF Emit, brokerVars
<1>2. ASSUME NEW v \in Verb, NEW q \in Request, PollReceives(v, q) PROVE answered' = answered
  BY <1>2 DEF PollReceives, brokerVars
<1>3. ASSUME Stop \/ Queue \/ Receive \/ Close \/ Return \/ CallReturns \/ Wake \/ UNCHANGED vars
      PROVE  answered' = answered
  BY <1>3 DEF Stop, Queue, Receive, Close, Return, CallReturns, Wake, brokerVars, vars
<1>4. ASSUME PollConnects \/ PollFails \/ LinkLost \/ KeepAliveLapses \/ BrokerBack
      PROVE  answered' = answered
  BY <1>4 DEF PollConnects, PollFails, LinkLost, KeepAliveLapses, BrokerBack, Loses
<1>5. PollSends => answered \subseteq answered'
  BY DEF PollSends, Arrives
<1> QED BY <1>1, <1>2, <1>3, <1>4, <1>5 DEF Next

\* A response on its way stays there, or arrives, while the connection holds.
LEMMA UnderIsCared ==
  ASSUME Typed, Calm, Typed', LostOnce, drops = 0, [Next]_vars, NEW v, NEW q,
         NEW j \in DOMAIN Under, Under[j] = ResponseTo(q)
  PROVE  CaredFor(v, q)'
<1>1. Waiting => ~Silent
  BY DEF Waiting, Silent, Stuck
<1>2. Waiting /\ connected => link = "up"
  BY <1>1 DEF LostOnce
<1>3. CASE \E i \in DOMAIN Under' : Under'[i] = Under[j]
  BY <1>3 DEF CaredFor
<1>4. CASE PollSends /\ Head(queue) = Under[j]
  <2>1. link = "up" /\ Arrives(ResponseTo(q))
    BY <1>2, <1>4 DEF PollSends
  <2>2. q \in answered'
    BY <2>1 DEF Arrives, ResponseTo
  <2> QED BY <2>2 DEF CaredFor
<1>5. CASE PollFails /\ connected /\ link # "up"
  BY <1>2, <1>5 DEF PollFails
<1> QED BY <1>3, <1>4, <1>5, NothingForgotten

\* Nobody asks but by a message.
LEMMA AskedByMessage ==
  ASSUME [Next]_vars, NEW m \in asked', m \notin asked
  PROVE  \E v \in Verb, q \in Request : m = <<v, q>> /\ PollReceives(v, q)
<1>1. ASSUME NEW e \in Event, Emit(e) PROVE asked' = asked
  BY <1>1 DEF Emit, gwVars
<1>2. ASSUME Stop \/ Queue \/ Receive \/ Close \/ Return \/ CallReturns \/ Wake \/ UNCHANGED vars
      PROVE  asked' = asked
  BY <1>2 DEF Stop, Queue, Receive, Close, Return, CallReturns, Wake, gwVars, vars
<1>3. ASSUME PollConnects \/ PollFails \/ PollSends \/ LinkLost \/ KeepAliveLapses \/ BrokerBack
      PROVE  asked' = asked
  BY <1>3 DEF PollConnects, PollFails, PollSends, LinkLost, KeepAliveLapses, BrokerBack, Loses, gwVars
<1>4. PICK v \in Verb, q \in Request : PollReceives(v, q)
  BY <1>1, <1>2, <1>3 DEF Next
<1>5. m = <<v, q>>
  BY <1>4 DEF PollReceives
<1> QED BY <1>4, <1>5

LEMMA RememberedStep ==
  ASSUME Shape, RequestsAreKept, [Next]_vars
  PROVE  RequestsAreKept'
<1>a. Typed /\ Calm /\ LostOnce /\ drops \in Nat
  BY DEF Shape
<1>b. Typed'
  BY ShapeStep DEF Shape
<1> SUFFICES ASSUME drops' = 0, doing' # "ended", NEW v \in Verb, NEW q \in Request,
                    <<v, q>> \in asked', AnswersTo(v)
             PROVE  CaredFor(v, q)'
  BY DEF RequestsAreKept, AnswersTo
<1>1. drops = 0 /\ doing # "ended"
  BY <1>a, LostOnceStep, EndedStays
<1>2. CASE <<v, q>> \notin asked
  <2>1. PollReceives(v, q)
    <3>1. PICK u \in Verb, p \in Request : <<v, q>> = <<u, p>> /\ PollReceives(u, p)
      BY <1>2, AskedByMessage
    <3>2. u = v /\ p = q
      BY <3>1
    <3> QED BY <3>1, <3>2
  <2> QED BY <1>a, <1>b, <2>1, ReceivedIsCared
<1>3. CASE <<v, q>> \in asked
  <2>1. CaredFor(v, q)
    BY <1>1, <1>3 DEF RequestsAreKept
  <2>2. CASE q \in answered
    BY <2>2, AnsweredStays DEF CaredFor
  <2>3. CASE acting = <<v, q>>
    BY <1>a, <1>b, <2>3, ActingIsCared
  <2>4. ASSUME NEW j \in DOMAIN Under, Under[j] = ResponseTo(q) PROVE CaredFor(v, q)'
    BY <1>a, <1>b, <1>1, <2>4, UnderIsCared
  <2> QED BY <2>1, <2>2, <2>3, <2>4 DEF CaredFor
<1> QED BY <1>2, <1>3

(***************************************************************************)
(* A request to the bridge is never forgotten between the broker and the   *)
(* runtime and back, for any number of requests and queues of any size.    *)
(* That it is answered in the end is RequestsAreAnswered.                  *)
(***************************************************************************)
THEOREM Remembered == Spec => []RequestsAreKept
<1>1. Init => RequestsAreKept
  BY DEF Init, RequestsAreKept
<1>2. Shape /\ RequestsAreKept /\ [Next]_vars => Shape' /\ RequestsAreKept'
  <2> SUFFICES ASSUME Shape, RequestsAreKept, [Next]_vars PROVE Shape' /\ RequestsAreKept'
    OBVIOUS
  <2> QED BY ShapeStep, RememberedStep
<1> QED BY <1>1, <1>2, ShapeInit, PTL DEF Spec

(***************************************************************************)
(* A gateway that waits for room in the client's queue, or ended, never    *)
(* polls again: nothing that happens at the broker or in the runtime gets  *)
(* it going (lib.rs, run: the loop that queues is the one that polls).     *)
(***************************************************************************)
SilentForGood == [][Silent => Silent']_vars

(***************************************************************************)
(* That is why the will is needed, and OnlineOnly says that it suffices.   *)
(***************************************************************************)
THEOREM NeverPolledAgain == Spec => SilentForGood
<1>1. Calm /\ [Next]_vars => [Silent => Silent']_vars
  BY SilentStays
<1>2. Init => Calm
  BY ShapeInit DEF Shape
<1> QED BY <1>1, <1>2, CalmStep, PTL DEF Spec, SilentForGood

=============================================================================
