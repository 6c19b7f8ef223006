------------------------------ MODULE MCGeocoder ------------------------------
(* Geocoder with two concurrent callers.                                      *)
EXTENDS Geocoder

\* Three rules, of which one has its name within another's, one has two names and
\* two are for one place in different raions; and four raions.
MCKyivPoints ==
    <<[names |-> {"epitsentr"}, raion |-> "holosiivskyi", nameUA |-> "Epitsentr"],
      [names |-> {"tsentr", "maidan"}, raion |-> "shevchenkivskyi", nameUA |-> "Tsentr"],
      [names |-> {"arsenal"}, raion |-> "pecherskyi", nameUA |-> "Tsentr"]>>

MCRaionStems == [holosiivskyi |-> {"holosiiv"}, shevchenkivskyi |-> {"shevchenkivsk"},
                 pecherskyi |-> {"pechersk"}, darnytskyi |-> {"darnyts"}]

MCHolds ==
    [k \in Keys \cup {Blank} |->
        CASE k = "mall"     -> {"epitsentr", "tsentr", "left bank"}
          [] k = "crossing" -> {"arsenal", "maidan", "tsentr"}
          [] OTHER          -> {}]
===============================================================================
