----------------------------- MODULE AlertFrame -----------------------------
(***************************************************************************)
(* internal/alert/kyiv.go: whether a frame of the NEPTUN feed says that the *)
(* alert is on in the city of Kyiv.                                         *)
(*                                                                         *)
(* A name of the feed, trimmed and in lower case, is one of these:          *)
(*   "kyiv"    a name of the city that both kinds of entries may carry      *)
(*   "m.kyiv"  the spelling without a space, accepted for oblasts only      *)
(*   "oblast"  the name of an oblast                                        *)
(*   "none"    nothing                                                      *)
(* and the key of a raion is "city raion", one of the ten names in          *)
(* kyivCityRaions, or "raion".  Some of the ten exist elsewhere as well.    *)
(***************************************************************************)

CityNames == {"kyiv", "m.kyiv"}
CityOblasts == {"kyiv"}

Oblasts == [key : CityNames \cup {"oblast"}, name : CityNames \cup {"oblast"}]
Raions == [key : {"city raion", "raion"}, oblast : CityNames \cup {"oblast", "none"}]

\* What a frame consists of; marker says that its bytes contain
\* "type":"alerts", which a frame of another type or a broken one may do too.
AllFrames == [type : {"alerts", "other", "broken"}, marker : BOOLEAN,
              oblasts : SUBSET Oblasts, raions : SUBSET Raions]

IsKyivCityOblast(o) == o.key \in CityNames \/ o.name \in CityNames

\* Faulty: the key alone decides.
ByKey(r) == r.oblast \in CityOblasts \/ r.key = "city raion"

\* By the oblast the raion says it is in, or else by its own name, unless it
\* says that it is in an oblast.
IsKyivCityRaion(r) ==
    \/ r.oblast \in CityOblasts
    \/ r.key = "city raion" /\ r.oblast # "oblast"

KyivAlertActive(f) ==
    /\ f.type = "alerts"
    /\ \/ \E o \in f.oblasts : IsKyivCityOblast(o)
       \/ \E r \in f.raions : IsKyivCityRaion(r)

----------------------------------------------------------------------------
(* Properties *)

\* The entries that the feed has for the city: the city as an oblast entry,
\* whose key or name is a name of the city, and its raions, which have one of
\* the ten names and are in no oblast.
TheCity == {o \in Oblasts : {o.key, o.name} \cap CityNames # {}}
ItsRaions == [key : {"city raion"}, oblast : CityNames \cup {"none"}]

\* A raion without one of the ten names is never said to be in the city, and the
\* feed spells the type of a snapshot the way handleFrame looks for it.
Genuine(f) ==
    /\ f \in AllFrames
    /\ f.type = "alerts" => f.marker
    /\ \A r \in f.raions : r.key = "raion" => r.oblast \in {"oblast", "none"}

\* The alert is on in the city, as far as the frame tells.
InKyiv(f) ==
    /\ f.type = "alerts"
    /\ f.oblasts \cap TheCity # {} \/ f.raions \cap ItsRaions # {}
=============================================================================
