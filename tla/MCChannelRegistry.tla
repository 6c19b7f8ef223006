------------------------- MODULE MCChannelRegistry -------------------------
(* ChannelRegistry on a private channel, which is configured, and a public  *)
(* one.                                                                     *)
EXTENDS ChannelRegistry

CONSTANTS c1, c2

\* SOURCE_CHANNELS names c1 by its ID.
MCSource == {[form |-> "id", ch |-> c1]}
=============================================================================
