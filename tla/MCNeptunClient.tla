--------------------------- MODULE MCNeptunClient ---------------------------
(* NeptunClient for TLC. *)
EXTENDS NeptunClient

Snapshot(os, rs) == [type |-> "alerts", marker |-> TRUE, oblasts |-> os, raions |-> rs]

\* The alert is on in the city, as an oblast and in one of its raions; or only in
\* the oblast and in a raion elsewhere that has a name of the city's; a frame of
\* another type, and one that holds the marker in its data.
MCFrames ==
    {Snapshot({[key |-> "m.kyiv", name |-> "oblast"]}, {[key |-> "city raion", oblast |-> "none"]}),
     Snapshot({[key |-> "oblast", name |-> "oblast"]},
              {[key |-> "city raion", oblast |-> "oblast"]}),
     [type |-> "other", marker |-> FALSE, oblasts |-> {}, raions |-> {}],
     [type |-> "other", marker |-> TRUE, oblasts |-> {}, raions |-> {}]}
=============================================================================
