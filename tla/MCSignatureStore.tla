-------------------------- MODULE MCSignatureStore --------------------------
(* SignatureStore on a channel whose key changes when it is resolved.       *)
EXTENDS SignatureStore

CONSTANTS c1, t1, t2

\* CHANNEL_SIGNATURES sets the default.
MCSeed == [k \in {Default} |-> t1]
=============================================================================
