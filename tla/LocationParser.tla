---------------------------- MODULE LocationParser ----------------------------
(***************************************************************************)
(* internal/geoparse/parser.go: which places and raions of Kyiv a text      *)
(* mentions.                                                                *)
(*                                                                         *)
(* The parser only asks which of its phrases a text contains, so a text is  *)
(* a set of phrases; one may contain another ("epitsentr" has "tsentr" in   *)
(* it).  MatchedRaions comes out of a Go map in any order and is a set; the *)
(* description, which only lists the points, is left out.                   *)
(***************************************************************************)
EXTENDS Naturals, Sequences

CONSTANTS
    Phrases,
    KyivPoints,             \* rules: [names, raion, nameUA], in order
    RaionStems,             \* the stems of each raion
    LeftBank, RightBank,    \* phrases for the banks of the river
    LeftRaions, RightRaions

Raions == DOMAIN RaionStems

\* A rule has several names, and several rules may have one nameUA.
ASSUME ParserAssumption ==
    /\ Len(KyivPoints) \in Nat
    /\ DOMAIN KyivPoints = 1..Len(KyivPoints)
    /\ \A i \in DOMAIN KyivPoints :
          KyivPoints[i].names \subseteq Phrases /\ KyivPoints[i].raion \in Raions
    /\ RaionStems \in [Raions -> SUBSET Phrases]
    /\ LeftBank \cup RightBank \subseteq Phrases
    /\ LeftRaions \cup RightRaions \subseteq Raions

\* Rule p as a point of the result.
PointOf(p) == [nameUA |-> p.nameUA, raion |-> p.raion]

NothingFound == [points |-> <<>>, seen |-> {}, raions |-> {}]

\* Faulty: seenPointNames is not looked at.
VisitAgain(found, p, t) ==
    IF p.names \cap t = {} THEN found
    ELSE [points |-> Append(found.points, PointOf(p)),
          seen   |-> found.seen \cup {p.nameUA},
          raions |-> found.raions \cup {p.raion}]

\* One turn of the loop over the rules, with what it has found so far.  The loop
\* over the names of rule p ends at the first that is in the text; a point of
\* that name was added by then, now or in an earlier turn.
Visit(found, p, t) ==
    IF p.names \cap t = {} \/ p.nameUA \in found.seen THEN found
    ELSE [points |-> Append(found.points, PointOf(p)),
          seen   |-> found.seen \cup {p.nameUA},
          raions |-> found.raions \cup {p.raion}]

\* What is found after each turn.
Turns(t) ==
    LET turn[n \in 0..Len(KyivPoints)] ==
          IF n = 0 THEN NothingFound ELSE Visit(turn[n - 1], KyivPoints[n], t)
    IN  turn

\* The bank of the river adds its raions whether or not the text names others.
BankRaions(t) ==
    IF LeftBank \cap t # {} THEN LeftRaions
    ELSE IF RightBank \cap t # {} THEN RightRaions ELSE {}

ExtractLocation(t) ==
    LET found == Turns(t)[Len(KyivPoints)]
    IN  [points |-> found.points,
         raions |-> found.raions \cup {r \in Raions : RaionStems[r] \cap t # {}}
                                 \cup BankRaions(t)]

\* What it returns for a text without a place; a text that only speaks of Kyiv
\* gets a description, which Resolve and LookupStatic do not look at.
Nowhere == [points |-> <<>>, raions |-> {}]

----------------------------------------------------------------------------
(* What the result should be, without the loop *)

\* The rules of which the text has a name, and the first of them with each
\* nameUA.
Named(t) == {i \in DOMAIN KyivPoints : KyivPoints[i].names \cap t # {}}
Firsts(t) ==
    {i \in Named(t) : \A j \in Named(t) : KyivPoints[j].nameUA = KyivPoints[i].nameUA => i <= j}

\* The points are those of the rules in S, each once and in their order.
Lists(points, S) ==
    \E rule \in [DOMAIN points -> S] :
        /\ \A j \in DOMAIN points : points[j] = PointOf(KyivPoints[rule[j]])
        /\ \A j, k \in DOMAIN points : j < k => rule[j] < rule[k]
        /\ \A i \in S : \E j \in DOMAIN points : rule[j] = i
===============================================================================
