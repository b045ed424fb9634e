------------------------------ MODULE Matching ------------------------------
(***************************************************************************)
(* Which definition a device has (rszigbee-devices, index.rs and           *)
(* matcher.rs; rszigbee-core, runtime/interview.rs and definitions/mod.rs, *)
(* for what it is found by).                                               *)
(*                                                                         *)
(* A string a device reports is a name, with or without capitals, padded   *)
(* or not, by spaces or by zeroes at its end.  What a device says of       *)
(* itself, and what a fingerprint requires, is a function on the fields    *)
(* there are.  A definition is found by its position in the catalogue.     *)
(***************************************************************************)
EXTENDS Integers, Sequences, SequencesExt

CONSTANT Catalogue  \* the definitions, in the order they are inserted in

IsName(s) == s = [name |-> s.name, capitals |-> s.capitals, padded |-> s.padded]

\* What a definition says of its models is names, and the rest is lists.
ASSUME MatchingAssumption ==
  /\ Catalogue \in Seq(Range(Catalogue))
  /\ \A d \in Range(Catalogue) :
       /\ \A s \in Range(d.models) : IsName(s)
       /\ d.fingerprints \in Seq(Range(d.fingerprints))
       /\ \A f \in Range(d.fingerprints) :
            f.priority \in Int /\ ("model" \in DOMAIN f.needs => IsName(f.needs.model))

Lower(s) == [s EXCEPT !.capitals = FALSE]
NormaliseModel(s) == [s EXCEPT !.padded = FALSE]
IndexKey(s) == Lower(NormaliseModel(s))

-----------------------------------------------------------------------------
(* What a definition is found by.                                          *)

IsEmpty(f) == DOMAIN f.needs = {} /\ f.endpoints = <<>>

\* insert refuses what nothing could match, and what anything would.
Accepted(d) ==
  /\ d.models # <<>> \/ d.fingerprints # <<>>
  /\ \A f \in Range(d.fingerprints) : ~IsEmpty(f)

Names(d) ==
  Range(d.models)
    \cup {f.needs.model : f \in {g \in Range(d.fingerprints) : "model" \in DOMAIN g.needs}}

Keys(d) == UNION {{Lower(s), IndexKey(s)} : s \in Names(d)}

\* The positions under one key: each insertion goes before the others.
ByModel(key) ==
  LET index[n \in 0..Len(Catalogue)] ==
        IF n = 0 THEN <<>>
        ELSE IF Accepted(Catalogue[n]) /\ key \in Keys(Catalogue[n])
          THEN <<n>> \o index[n - 1] ELSE index[n - 1]
  IN index[Len(Catalogue)]

Candidates(model) ==
  IF ByModel(Lower(model)) # <<>> THEN ByModel(Lower(model))
                                  ELSE ByModel(IndexKey(model))

-----------------------------------------------------------------------------
(* What is known of a device, and what it matches.                         *)

\* text(), of an attribute: trimmed, and without control characters.
Text(s) == [s EXCEPT !.padded = FALSE]

\* What basic_attributes makes of what the device says of itself.  The code
\* of its maker is in its node descriptor, and not learned.
Heard(identity) ==
  [field \in DOMAIN identity \ {"makerCode"} |->
     IF field \in {"model", "maker"} THEN Text(identity[field]) ELSE identity[field]]

DeviceMatch(basic, eps) == [fields |-> basic, endpoints |-> eps]

\* The same endpoints, as sets, each with what is required of it.
EndpointsMatch(f, dev) ==
  f.endpoints = <<>> \/
    /\ Len(f.endpoints) = Len(dev.endpoints)
    /\ \A required \in Range(f.endpoints) :
         \E found \in Range(dev.endpoints) :
           \A field \in DOMAIN required : found[field] = required[field]

\* What is not known does not match.
Matches(f, dev) ==
  /\ \A field \in DOMAIN f.needs :
       field \in DOMAIN dev.fields /\ dev.fields[field] = f.needs[field]
  /\ EndpointsMatch(f, dev)

\* A slip: of two claims of one priority the later one is taken.
BetterOrAsGood(best, claim) ==
  IF best = <<>> \/ claim[1] >= best[1] THEN claim ELSE best

Better(best, claim) ==
  IF best = <<>> \/ claim[1] > best[1] THEN claim ELSE best

\* A claim is <<priority, position>>, of a fingerprint that matches.  The best
\* one with those of one more candidate, in the order of its fingerprints,
BestWith(best, i, dev) ==
  LET fs == Catalogue[i].fingerprints
      among[k \in 0..Len(fs)] ==
        IF k = 0 THEN best
        ELSE IF Matches(fs[k], dev) THEN Better(among[k - 1], <<fs[k].priority, i>>)
                                    ELSE among[k - 1]
  IN among[Len(fs)]

\* and of all of them, in theirs.
Best(candidates, dev) ==
  LET among[n \in 0..Len(candidates)] ==
        IF n = 0 THEN <<>> ELSE BestWith(among[n - 1], candidates[n], dev)
  IN among[Len(candidates)]

\* The first candidate that lists the model, as it is or normalised.
Listing(candidates, model) ==
  LET listing == {n \in DOMAIN candidates :
                    Range(Catalogue[candidates[n]].models) \cap {model, NormaliseModel(model)} # {}}
  IN {candidates[n] : n \in {k \in listing : \A j \in listing : k <= j}}

\* The position resolve() comes to: that of a sole candidate, if it lists any
\* model at all, of the best fingerprint, or of the first list.
Resolve(dev) ==
  IF "model" \notin DOMAIN dev.fields THEN {}
  ELSE LET candidates == Candidates(dev.fields.model)
           best == Best(candidates, dev)
       IN IF Len(candidates) = 1 /\ Catalogue[candidates[1]].models # <<>>
            THEN {candidates[1]}
          ELSE IF best # <<>> THEN {best[2]}
          ELSE Listing(candidates, dev.fields.model)

=============================================================================
