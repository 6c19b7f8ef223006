------------------------------ MODULE SendOnce ------------------------------
(***************************************************************************)
(* What a caller of the notifier relies on: a call shows its message at     *)
(* most once, reports success only for a message that was shown, and        *)
(* returns.  An error says nothing: the message may have been shown.        *)
(***************************************************************************)
EXTENDS Naturals

VARIABLES
    shown,      \* messages this call has put in the chat
    result      \* "none" (no call yet) | "pending" | "ok" | "error"

svars == <<shown, result>>

SendInit == shown = 0 /\ result = "none"

Call ==
    /\ result # "pending"
    /\ shown' = 0
    /\ result' = "pending"

Show ==
    /\ result = "pending"
    /\ shown = 0
    /\ shown' = 1
    /\ UNCHANGED result

Return ==
    /\ result = "pending"
    /\ result' \in IF shown = 1 THEN {"ok", "error"} ELSE {"error"}
    /\ UNCHANGED shown

SendNext == Call \/ Show \/ Return

SendSafe == SendInit /\ [][SendNext]_svars

SendSpec == SendSafe /\ WF_svars(Return)
=============================================================================
