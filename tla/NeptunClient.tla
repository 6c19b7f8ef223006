---------------------------- MODULE NeptunClient ----------------------------
(***************************************************************************)
(* internal/client/neptun.go: the loop that keeps one WebSocket connection  *)
(* to NEPTUN with exponential backoff, the reader and the ping goroutine of *)
(* each connection, and the Kyiv alert flag (internal/alert/state.go) that  *)
(* the readers drive.                                                       *)
(*                                                                         *)
(* Connections are numbered; the goroutines of an old connection can still  *)
(* run when a new one is up.  Frames are those of AlertFrame.  Time is      *)
(* abstract: a timeout may happen whenever the code waits for it, and does  *)
(* if what it waits for never comes.                                        *)
(***************************************************************************)
EXTENDS Naturals, AlertFrame

CONSTANTS
    MinBackoff, MaxBackoff, \* MIN_ and MAX_RECONNECT_INTERVAL, in seconds
    MaxConns,               \* bound: connections made
    Buffered,               \* bound: frames a closed connection still holds
    Frames                  \* the frames the server sends

ASSUME NeptunAssumption ==
    /\ MinBackoff \in Nat \ {0}
    /\ MaxBackoff \in Nat
    /\ MinBackoff <= MaxBackoff
    /\ MaxConns \in Nat
    /\ Buffered \in Nat
    /\ \A f \in Frames : Genuine(f)

\* What a reader holds when it holds no frame.
NoFrame == [type |-> "none", marker |-> FALSE, oblasts |-> {}, raions |-> {}]

Conns == 1..MaxConns

\* The capacity of errChan.
SmallErrCap == 1        \* faulty: room for one of the two goroutines
ErrCap == 2

VARIABLES
    ctxDone,    \* the context was canceled
    main,       \* Start: "loop" | "dial" | "connected" | "sleep" | "returned"
    backoff,    \* the next delay
    conn,       \* the latest connection, 0 before the first
    closed,     \* connections closed by handleConnection
    dead,       \* connections whose peer is gone
    errs,       \* errors waiting in the errChan of each connection
    left,       \* frames buffered in each closed connection
    reader,     \* "none" | "reading" | "holding" | "storing" | "done"
    frame,      \* the frame each reader holds, or NoFrame
    pinger,     \* "none" | "waiting" | "done"
    active,     \* KyivAlertState.active
    \* History:
    newest,     \* the newest connection that sent a snapshot, and whether its
                \* last one had the alert on in Kyiv
    late,       \* a reader of an older connection has overwritten it since
    misled      \* ... or a frame that has the marker and is no snapshot

ctlVars == <<ctxDone, main, backoff, conn>>
connVars == <<closed, dead, errs, left>>
readVars == <<reader, frame>>
flagVars == <<active, newest, late, misled>>
vars == <<ctxDone, main, backoff, conn, closed, dead, errs, left, reader, frame,
          pinger, active, newest, late, misled>>

Init ==
    /\ ctxDone = FALSE
    /\ main = "loop"
    /\ backoff = MinBackoff
    /\ conn = 0
    /\ closed = {}
    /\ dead = {}
    /\ errs = [c \in Conns |-> 0]
    /\ left = [c \in Conns |-> 0]
    /\ reader = [c \in Conns |-> "none"]
    /\ frame = [c \in Conns |-> NoFrame]
    /\ pinger = [c \in Conns |-> "none"]
    /\ active = FALSE
    /\ newest = [conn |-> 0, verdict |-> FALSE]
    /\ late = FALSE
    /\ misled = FALSE

----------------------------------------------------------------------------
(* Start *)

\* The select at the top of the loop.
Loop ==
    /\ main = "loop"
    /\ main' = IF ctxDone THEN "returned" ELSE "dial"
    /\ UNCHANGED <<ctxDone, backoff, conn, connVars, readVars, pinger, flagVars>>

\* The dial fails, times out, or is canceled.
DialFails ==
    /\ main = "dial"
    /\ main' = "sleep"
    /\ UNCHANGED <<ctxDone, backoff, conn, connVars, readVars, pinger, flagVars>>

\* A new connection: the backoff starts over and handleConnection starts its
\* reader and its pinger.
DialOk ==
    /\ main = "dial"
    /\ conn < MaxConns
    /\ main' = "connected"
    /\ conn' = conn + 1
    /\ backoff' = MinBackoff
    /\ reader' = [reader EXCEPT ![conn + 1] = "reading"]
    /\ pinger' = [pinger EXCEPT ![conn + 1] = "waiting"]
    /\ UNCHANGED <<ctxDone, connVars, frame, flagVars>>

\* Faulty: the connection stays open.
LeaveOpen == UNCHANGED <<closed, left>>

\* handleConnection returns and closes the connection; some frames may remain
\* in its read buffer.
CloseConn ==
    /\ closed' = closed \cup {conn}
    /\ \E n \in 0..Buffered : left' = [left EXCEPT ![conn] = n]

\* The select of handleConnection takes an error.
ConnLost ==
    /\ main = "connected"
    /\ errs[conn] > 0
    /\ errs' = [errs EXCEPT ![conn] = @ - 1]
    /\ CloseConn
    /\ main' = IF ctxDone THEN "returned" ELSE "sleep"
    /\ UNCHANGED <<ctxDone, backoff, conn, dead, readVars, pinger, flagVars>>

\* The select of handleConnection takes ctx.Done.
IgnoreCancel == FALSE   \* faulty: no such case
ConnCanceled ==
    /\ main = "connected"
    /\ ctxDone
    /\ CloseConn
    /\ main' = "returned"
    /\ UNCHANGED <<ctxDone, backoff, conn, errs, dead, readVars, pinger, flagVars>>

\* The delay doubles up to MaxBackoff.
Uncapped(d) == d * 2    \* faulty: without the cap
NextBackoff(d) == IF d * 2 > MaxBackoff THEN MaxBackoff ELSE d * 2

\* The timer of sleepContext fires.
Wake ==
    /\ main = "sleep"
    /\ main' = "loop"
    /\ backoff' = NextBackoff(backoff)
    /\ UNCHANGED <<ctxDone, conn, connVars, readVars, pinger, flagVars>>

\* sleepContext sees ctx.Done.
SleepCanceled ==
    /\ main = "sleep"
    /\ ctxDone
    /\ main' = "returned"
    /\ UNCHANGED <<ctxDone, backoff, conn, connVars, readVars, pinger, flagVars>>

MainStep ==
    \/ Loop \/ DialFails \/ DialOk \/ ConnLost \/ ConnCanceled
    \/ Wake \/ SleepCanceled

----------------------------------------------------------------------------
(* The goroutines of connection c *)

\* ReadMessage returns a frame: a live connection delivers any, a closed one
\* what its buffer holds.
ReadFrame(c, f) ==
    /\ reader[c] = "reading"
    /\ IF c \in closed
       THEN left[c] > 0 /\ left' = [left EXCEPT ![c] = @ - 1]
       ELSE c \notin dead /\ UNCHANGED left
    /\ reader' = [reader EXCEPT ![c] = "holding"]
    /\ frame' = [frame EXCEPT ![c] = f]
    /\ UNCHANGED <<ctlVars, closed, dead, errs, pinger, flagVars>>

\* Reading cannot go on.
NoDeadline(c) == c \in closed   \* faulty: the read deadline is missing
Broken(c) == c \in closed \cup dead

\* ReadMessage fails: the connection is closed, or its peer is gone and the
\* read deadline of 60 seconds passes.  The send to errChan blocks while full.
ReadFails(c) ==
    /\ reader[c] = "reading"
    /\ Broken(c)
    /\ errs[c] < ErrCap
    /\ errs' = [errs EXCEPT ![c] = @ + 1]
    /\ reader' = [reader EXCEPT ![c] = "done"]
    /\ UNCHANGED <<ctlVars, closed, dead, left, frame, pinger, flagVars>>

\* handleFrame's search for the marker of a snapshot.
AnyFrame(f) == TRUE     \* faulty: every frame is taken for a snapshot
HasMarker(f) == f.marker

IsSnapshot(f) == f.type = "alerts"

\* handleFrame up to the comparison of SetActive: a frame without the marker
\* changes nothing, and neither does a verdict that is already stored.  (In the
\* history only a frame that is a snapshot counts as one.)
HandleFrame(c) ==
    /\ reader[c] = "holding"
    /\ LET f == frame[c]
           settled == ~HasMarker(f) \/ active = KyivAlertActive(f)
           newer == IsSnapshot(f) /\ c >= newest.conn
       IN  /\ reader' = [reader EXCEPT ![c] = IF settled THEN "reading" ELSE "storing"]
           /\ frame' = IF settled THEN [frame EXCEPT ![c] = NoFrame] ELSE frame
           /\ newest' = IF newer THEN [conn |-> c, verdict |-> InKyiv(f)] ELSE newest
           /\ late' = (late /\ ~newer)
           /\ misled' = (misled /\ ~newer)
    /\ UNCHANGED <<ctlVars, connVars, pinger, active>>

\* The Store of SetActive, after its Load: another reader may have come between.
StoreActive(c) ==
    /\ reader[c] = "storing"
    /\ active' = KyivAlertActive(frame[c])
    /\ late' = (c < newest.conn)
    /\ misled' = (frame[c].marker /\ ~IsSnapshot(frame[c]))
    /\ reader' = [reader EXCEPT ![c] = "reading"]
    /\ frame' = [frame EXCEPT ![c] = NoFrame]
    /\ UNCHANGED <<ctlVars, connVars, pinger, newest>>

\* Writing a ping fails; after handleConnection stopped the ticker this takes
\* a tick that was already due.
PingFails(c) ==
    /\ pinger[c] = "waiting"
    /\ errs[c] < ErrCap
    /\ errs' = [errs EXCEPT ![c] = @ + 1]
    /\ pinger' = [pinger EXCEPT ![c] = "done"]
    /\ UNCHANGED <<ctlVars, closed, dead, left, readVars, flagVars>>

PingCanceled(c) ==
    /\ pinger[c] = "waiting"
    /\ ctxDone
    /\ pinger' = [pinger EXCEPT ![c] = "done"]
    /\ UNCHANGED <<ctlVars, connVars, readVars, flagVars>>

----------------------------------------------------------------------------
(* The environment *)

\* The peer of the connection goes away, noticed or not.
PeerGone ==
    /\ main = "connected"
    /\ conn \notin dead
    /\ dead' = dead \cup {conn}
    /\ UNCHANGED <<ctlVars, closed, errs, left, readVars, pinger, flagVars>>

Cancel ==
    /\ ~ctxDone
    /\ ctxDone' = TRUE
    /\ UNCHANGED <<main, backoff, conn, connVars, readVars, pinger, flagVars>>

Next ==
    \/ MainStep
    \/ \E c \in Conns :
          \/ \E f \in Frames : ReadFrame(c, f)
          \/ ReadFails(c)
          \/ HandleFrame(c)
          \/ StoreActive(c)
          \/ PingFails(c)
          \/ PingCanceled(c)
    \/ PeerGone
    \/ Cancel

Spec == Init /\ [][Next]_vars

\* The scheduler runs every goroutine that can run, dials and sleeps end, and
\* ReadMessage fails on a closed or silent connection.  Frames, ping errors,
\* lost peers and the cancellation never have to happen.  Each select picks
\* among its ready cases at random.
Fairness ==
    /\ WF_vars(MainStep)
    /\ SF_vars(ConnCanceled) /\ SF_vars(SleepCanceled)
    /\ \A c \in Conns :
          /\ WF_vars(ReadFails(c))
          /\ WF_vars(HandleFrame(c) \/ StoreActive(c))
          /\ WF_vars(PingCanceled(c))

LiveSpec == Spec /\ Fairness

----------------------------------------------------------------------------
(* Properties *)

\* The values the code gives to its variables; the delay stays between the two
\* configured intervals.
TypeOK ==
    /\ ctxDone \in BOOLEAN
    /\ main \in {"loop", "dial", "connected", "sleep", "returned"}
    /\ backoff \in MinBackoff..MaxBackoff
    /\ conn \in 0..MaxConns
    /\ closed \subseteq Conns
    /\ dead \subseteq Conns
    /\ errs \in [Conns -> 0..ErrCap]
    /\ left \in [Conns -> 0..Buffered]
    /\ reader \in [Conns -> {"none", "reading", "holding", "storing", "done"}]
    /\ frame \in [Conns -> Frames \cup {NoFrame}]
    /\ \A c \in Conns : reader[c] \in {"holding", "storing"} => frame[c] \in Frames
    /\ pinger \in [Conns -> {"none", "waiting", "done"}]
    /\ active \in BOOLEAN
    /\ newest \in [conn : 0..MaxConns, verdict : BOOLEAN]
    /\ {late, misled} \subseteq BOOLEAN

\* A connection is open exactly while handleConnection serves it, so there is
\* never more than one, and no loop leaves one behind.
OneOpenConnection ==
    {c \in Conns : c <= conn /\ c \notin closed} =
        IF main = "connected" THEN {conn} ELSE {}

\* The flag says whether the alert was on in the city by the last snapshot of
\* the newest connection.  Two things make it wrong: the reader of an older
\* connection, which may overwrite it with what that one said, and a frame of
\* another type that contains the marker, which can switch the flag off, and never
\* on.  Nothing else does: not a reconnect, a frame without the marker, a raion or
\* oblast with a name like the city's, or the deduplication of SetActive.
FlagIsNewest ==
    \/ active = newest.verdict
    \/ late
    \/ misled /\ ~active
    \/ /\ newest.conn \in Conns
       /\ reader[newest.conn] = "storing"
       /\ IsSnapshot(frame[newest.conn])

\* What the comment of handleFrame says: only "alerts" frames drive the state.
OnlyAlertsDrive ==
    [][active' # active =>
          \E c \in Conns : reader[c] = "storing" /\ reader'[c] # "storing"
                           /\ IsSnapshot(frame[c])]_vars

\* Once canceled, the loop returns and no goroutine of any connection is left
\* behind, blocked on errChan or otherwise.
CancelStopsAll ==
    ctxDone ~> /\ main = "returned"
               /\ \A c \in 1..MaxConns :
                     reader[c] \in {"none", "done"} /\ pinger[c] \in {"none", "done"}

\* The reader of a closed connection ends: it never keeps applying frames or
\* waits for room in an errChan nobody reads.
ReadersEnd == \A c \in 1..MaxConns : c \in closed ~> reader[c] = "done"

\* A connection whose peer is gone is noticed and left for another dial.
DeadPeerNoticed ==
    (main = "connected" /\ conn \in dead) ~> (main = "dial" \/ ctxDone)
=============================================================================
