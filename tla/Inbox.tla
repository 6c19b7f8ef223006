-------------------------------- MODULE Inbox --------------------------------
(***************************************************************************)
(* What an administrator of the bot may rely on: commands are handled in    *)
(* the order in which they were sent, none is skipped, and none is          *)
(* forgotten before it was handled.  Only an interruption, which begins a   *)
(* new life, goes back, and to the first command that is not forgotten.     *)
(***************************************************************************)
EXTENDS Naturals

VARIABLES
    lives,      \* interruptions so far
    sent,       \* commands sent
    cursor,     \* the last command handled since the latest interruption
    done,       \* the last command ever handled
    forgotten   \* the last command that cannot come back

ivars == <<lives, sent, cursor, done, forgotten>>

InboxInit == lives = 0 /\ sent = 0 /\ cursor = 0 /\ done = 0 /\ forgotten = 0

Send ==
    /\ sent' = sent + 1
    /\ UNCHANGED <<lives, cursor, done, forgotten>>

Handle ==
    /\ cursor < sent
    /\ cursor' = cursor + 1
    /\ done' = IF done < cursor + 1 THEN cursor + 1 ELSE done
    /\ UNCHANGED <<lives, sent, forgotten>>

Forget ==
    /\ forgotten' = cursor
    /\ UNCHANGED <<lives, sent, cursor, done>>

Interrupt ==
    /\ lives' = lives + 1
    /\ cursor' = forgotten
    /\ UNCHANGED <<sent, done, forgotten>>

InboxNext == Send \/ Handle \/ Forget \/ Interrupt

InboxSafe == InboxInit /\ [][InboxNext]_ivars
==============================================================================
