------------------------------- MODULE Relay -------------------------------
(***************************************************************************)
(* What the forwarder promises to the people who read the destination      *)
(* chat, with none of its machinery: admitted posts wait in line, the post *)
(* at the front may appear in the chat at most once before it leaves the   *)
(* line, posts leave in the order they were admitted, and the death of the *)
(* process empties the line.                                               *)
(***************************************************************************)
EXTENDS Naturals, Sequences

CONSTANTS
    Posts,      \* channel posts
    Room        \* how many admitted posts can be waiting at once

VARIABLES
    line,       \* admitted posts that have not left yet, oldest first
    shown,      \* TRUE iff the post at the front has already appeared
    log         \* posts in the order they appeared in the chat

rvars == <<line, shown, log>>

RelayInit ==
    /\ line = <<>>
    /\ shown = FALSE
    /\ log = <<>>

\* A post joins the end of the line.
Admit(p) ==
    /\ Len(line) < Room
    /\ line' = Append(line, p)
    /\ UNCHANGED <<shown, log>>

\* The post at the front appears in the chat, for the first and only time.
Show ==
    /\ line # <<>>
    /\ ~shown
    /\ log' = Append(log, Head(line))
    /\ shown' = TRUE
    /\ UNCHANGED line

\* The post at the front leaves the line, whether or not it appeared.
Leave ==
    /\ line # <<>>
    /\ line' = Tail(line)
    /\ shown' = FALSE
    /\ UNCHANGED log

\* The process dies and the line with it.
Lose ==
    /\ line' = <<>>
    /\ shown' = FALSE
    /\ UNCHANGED log

RelayNext ==
    \/ \E p \in Posts : Admit(p)
    \/ Show
    \/ Leave
    \/ Lose

\* The safety part of the promise.
RelaySafe == RelayInit /\ [][RelayNext]_rvars

\* The whole promise: no post stays at the front for ever.
RelaySpec == RelaySafe /\ WF_rvars(Leave \/ Lose)
=============================================================================
