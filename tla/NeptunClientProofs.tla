------------------------- MODULE NeptunClientProofs -------------------------
(***************************************************************************)
(* Proofs about NeptunClient, for every pair of reconnect intervals and any *)
(* number of connections.                                                   *)
(***************************************************************************)
EXTENDS NeptunClient, TLAPS

USE DEF ctlVars, connVars, readVars, flagVars

----------------------------------------------------------------------------
(* One connection at a time *)

\* OneOpenConnection point by point, with what the loop knows of conn.
ConnInv ==
    /\ conn \in 0..MaxConns
    /\ closed \subseteq 1..conn
    /\ main = "connected" => conn >= 1
    /\ \A c \in 1..conn : c \notin closed <=> main = "connected" /\ c = conn

LEMMA ConnStep ==
  ASSUME ConnInv, [Next]_vars
  PROVE  ConnInv'
<1> USE NeptunAssumption DEF ConnInv
<1>1. CASE /\ UNCHANGED <<conn, closed>>
           /\ \/ main # "connected" /\ main' # "connected"
              \/ UNCHANGED main
  BY <1>1
<1>2. CASE Loop \/ DialFails \/ Wake \/ SleepCanceled
  BY <1>1, <1>2 DEF Loop, DialFails, Wake, SleepCanceled
<1>3. CASE DialOk
  <2>1. /\ conn' = conn + 1 /\ closed' = closed /\ conn < MaxConns
        /\ main = "dial" /\ main' = "connected"
    BY <1>3 DEF DialOk
  <2>2. \A c \in 1..conn' : c \in 1..conn \/ c = conn'
    BY <2>1
  <2> QED
    BY <2>1, <2>2
<1>4. CASE ConnLost \/ ConnCanceled
  <2>1. /\ closed' = closed \cup {conn} /\ conn' = conn
        /\ main = "connected" /\ main' # "connected"
    BY <1>4 DEF ConnLost, ConnCanceled, CloseConn
  <2> QED
    BY <2>1
<1>5. ASSUME NEW c \in Conns, NEW f \in Frames, ReadFrame(c, f) PROVE ConnInv'
  BY <1>1, <1>5 DEF ReadFrame
<1>6. ASSUME NEW c \in Conns,
             \/ ReadFails(c) \/ HandleFrame(c) \/ StoreActive(c)
             \/ PingFails(c) \/ PingCanceled(c)
      PROVE  ConnInv'
  BY <1>1, <1>6 DEF ReadFails, HandleFrame, StoreActive, PingFails, PingCanceled
<1>7. CASE PeerGone \/ Cancel
  BY <1>1, <1>7 DEF PeerGone, Cancel
<1>8. CASE UNCHANGED vars
  BY <1>1, <1>8 DEF vars
<1> QED
  BY <1>2, <1>3, <1>4, <1>5, <1>6, <1>7, <1>8 DEF Next, MainStep

\* Start never has two connections open and never leaves one behind
\* (neptun.go, Start and handleConnection's deferred Close).
THEOREM OneConnection == Spec => []OneOpenConnection
<1>1. Init => ConnInv
  BY NeptunAssumption DEF Init, ConnInv
<1>2. ConnInv /\ [Next]_vars => ConnInv'
  BY ConnStep
<1>3. ConnInv => OneOpenConnection
  <2> SUFFICES ASSUME ConnInv PROVE OneOpenConnection
    OBVIOUS
  <2>1. \A c \in Conns : c <= conn => c \in 1..conn
    BY NeptunAssumption DEF ConnInv, Conns
  <2>2. 1..conn \subseteq Conns
    BY NeptunAssumption DEF ConnInv, Conns
  <2>3. CASE main = "connected"
    <3>1. conn \in 1..conn /\ conn \in Conns /\ conn <= conn
      BY <2>2, <2>3, NeptunAssumption DEF ConnInv
    <3>2. \A c \in 1..conn : c \notin closed <=> c = conn
      BY <2>3 DEF ConnInv
    <3>3. {c \in Conns : c <= conn /\ c \notin closed} = {conn}
      BY <2>1, <3>1, <3>2
    <3> QED
      BY <2>3, <3>3 DEF OneOpenConnection
  <2>4. CASE main # "connected"
    BY <2>1, <2>4 DEF ConnInv, OneOpenConnection
  <2> QED
    BY <2>3, <2>4
<1> QED
  BY <1>1, <1>2, <1>3, PTL DEF Spec

----------------------------------------------------------------------------
(* The alert flag *)

ReaderStates == {"none", "reading", "holding", "storing", "done"}

\* Only connections that were made have readers, and only they give verdicts.
MadeInv ==
    /\ conn \in 0..MaxConns
    /\ reader \in [Conns -> ReaderStates]
    /\ \A c \in Conns : reader[c] # "none" => c <= conn
    /\ newest.conn \in 0..conn

LEMMA MadeStep ==
  ASSUME MadeInv, [Next]_vars
  PROVE  MadeInv'
<1> USE NeptunAssumption DEF MadeInv, ReaderStates, Conns
<1>1. CASE UNCHANGED <<conn, reader, newest>>
  BY <1>1
<1>2. CASE DialOk
  BY <1>2 DEF DialOk
<1>3. CASE \/ Loop \/ DialFails \/ ConnLost \/ ConnCanceled \/ Wake
           \/ SleepCanceled \/ PeerGone \/ Cancel
  BY <1>1, <1>3 DEF Loop, DialFails, ConnLost, ConnCanceled, Wake,
                    SleepCanceled, PeerGone, Cancel
<1>4. ASSUME NEW c \in Conns, NEW f \in Frames, ReadFrame(c, f) PROVE MadeInv'
  BY <1>4 DEF ReadFrame
<1>5. ASSUME NEW c \in Conns, ReadFails(c) PROVE MadeInv'
  BY <1>5 DEF ReadFails
<1>6. ASSUME NEW c \in Conns, HandleFrame(c) PROVE MadeInv'
  <2>1. /\ conn' = conn /\ c <= conn
        /\ newest' = newest \/ newest'.conn = c
        /\ \E s \in {"reading", "storing"} : reader' = [reader EXCEPT ![c] = s]
    BY <1>6 DEF HandleFrame
  <2> QED
    BY <2>1
<1>7. ASSUME NEW c \in Conns, StoreActive(c) PROVE MadeInv'
  BY <1>7 DEF StoreActive
<1>8. ASSUME NEW c \in Conns, PingFails(c) \/ PingCanceled(c) PROVE MadeInv'
  BY <1>1, <1>8 DEF PingFails, PingCanceled
<1>9. CASE UNCHANGED vars
  BY <1>1, <1>9 DEF vars
<1> QED
  BY <1>2, <1>3, <1>4, <1>5, <1>6, <1>7, <1>8, <1>9 DEF Next, MainStep

\* On the entries that the feed has, KyivAlertActive tells the truth
\* (kyiv.go isKyivCityOblast, isKyivCityRaion).
LEMMA Truthful ==
  ASSUME NEW f, Genuine(f)
  PROVE  KyivAlertActive(f) = InKyiv(f)
<1>1. \A o \in f.oblasts : IsKyivCityOblast(o) <=> o \in TheCity
  BY DEF Genuine, AllFrames, Oblasts, CityNames, IsKyivCityOblast, TheCity
<1>2. \A r \in f.raions : IsKyivCityRaion(r) <=> r \in ItsRaions
  <2> SUFFICES ASSUME NEW r \in f.raions
               PROVE  IsKyivCityRaion(r) <=> r \in ItsRaions
    OBVIOUS
  <2>1. /\ r \in Raions
        /\ r.key = "raion" => r.oblast \in {"oblast", "none"}
    BY DEF Genuine, AllFrames
  <2> QED
    BY <2>1 DEF Raions, CityNames, CityOblasts, IsKyivCityRaion, ItsRaions
<1>3. (\E o \in f.oblasts : IsKyivCityOblast(o)) <=> f.oblasts \cap TheCity # {}
  BY <1>1
<1>4. (\E r \in f.raions : IsKyivCityRaion(r)) <=> f.raions \cap ItsRaions # {}
  BY <1>2
<1>5. KyivAlertActive(f) <=> InKyiv(f)
  BY <1>3, <1>4 DEF KyivAlertActive, InKyiv
<1>6. KyivAlertActive(f) \in BOOLEAN /\ InKyiv(f) \in BOOLEAN
  BY DEF KyivAlertActive, InKyiv
<1> QED
  BY <1>5, <1>6

\* The verdict of a snapshot that is about to be stored is newest's or belongs to
\* an older connection.
Fresh(c) ==
    /\ c <= newest.conn
    /\ c = newest.conn => newest.verdict = KyivAlertActive(frame[c])

\* A frame that is no snapshot has the verdict of none.
LEMMA OthersSwitchOff ==
  ASSUME NEW f, ~IsSnapshot(f)
  PROVE  KyivAlertActive(f) = FALSE
BY DEF IsSnapshot, KyivAlertActive

\* A reader with a frame in hand has one that the server sent, and stores the
\* verdict only of one with the marker.

FlagInv ==
    /\ frame \in [Conns -> Frames \cup {NoFrame}]
    /\ \A c \in Conns : reader[c] \in {"holding", "storing"} => frame[c] \in Frames
    /\ \A c \in Conns : reader[c] = "storing" => frame[c].marker
    /\ \A c \in Conns : reader[c] = "storing" /\ IsSnapshot(frame[c]) => Fresh(c)
    /\ FlagIsNewest

LEMMA FlagStep ==
  ASSUME MadeInv, FlagInv, [Next]_vars
  PROVE  FlagInv'
<1> USE NeptunAssumption DEF MadeInv, FlagInv, FlagIsNewest, Fresh
<1>1. CASE UNCHANGED <<reader, frame, newest, late, misled, active>>
  BY <1>1
<1>2. CASE DialOk
  <2>1. /\ UNCHANGED <<frame, newest, late, misled, active>>
        /\ reader' = [reader EXCEPT ![conn + 1] = "reading"]
    BY <1>2 DEF DialOk
  <2>2. \A c \in Conns : reader'[c] # "reading" => reader'[c] = reader[c]
    BY <2>1
  <2>3. newest.conn # conn + 1
    OBVIOUS
  <2>4. newest.conn \in Conns => reader'[newest.conn] = reader[newest.conn]
    BY <2>1, <2>3
  <2>5. FlagIsNewest'
    BY <2>1, <2>4
  <2> QED
    BY <2>1, <2>2, <2>5
<1>3. CASE \/ Loop \/ DialFails \/ ConnLost \/ ConnCanceled \/ Wake
           \/ SleepCanceled \/ PeerGone \/ Cancel
  BY <1>1, <1>3 DEF Loop, DialFails, ConnLost, ConnCanceled, Wake,
                    SleepCanceled, PeerGone, Cancel
<1>4. ASSUME NEW c \in Conns, NEW f \in Frames, ReadFrame(c, f) PROVE FlagInv'
  <2>1. /\ reader[c] = "reading"
        /\ reader' = [reader EXCEPT ![c] = "holding"]
        /\ frame' = [frame EXCEPT ![c] = f]
        /\ UNCHANGED <<newest, late, misled, active>>
    BY <1>4 DEF ReadFrame
  <2>2. \A d \in Conns : d # c => reader'[d] = reader[d] /\ frame'[d] = frame[d]
    BY <2>1
  <2>3. reader'[c] = "holding" /\ frame'[c] = f
    BY <2>1
  <2> QED
    BY <2>1, <2>2, <2>3
<1>5. ASSUME NEW c \in Conns, ReadFails(c) PROVE FlagInv'
  BY <1>5 DEF ReadFails
<1>6. ASSUME NEW c \in Conns, HandleFrame(c) PROVE FlagInv'
  <2> DEFINE f == frame[c]
             v == KyivAlertActive(f)
             settled == ~f.marker \/ active = v
             newer == IsSnapshot(f) /\ c >= newest.conn
  <2>1. /\ reader[c] = "holding"
        /\ reader' = [reader EXCEPT ![c] = IF settled THEN "reading" ELSE "storing"]
        /\ frame' = IF settled THEN [frame EXCEPT ![c] = NoFrame] ELSE frame
        /\ newest' = IF newer THEN [conn |-> c, verdict |-> InKyiv(f)] ELSE newest
        /\ late' = (late /\ ~newer)
        /\ misled' = (misled /\ ~newer)
        /\ UNCHANGED active
    BY <1>6 DEF HandleFrame, HasMarker
  <2>2. InKyiv(f) = v /\ f \in Frames /\ (IsSnapshot(f) => f.marker)
    BY <2>1, Truthful DEF Genuine, IsSnapshot
  <2>3. c \in Nat /\ newest.conn \in Nat /\ \A d \in Conns : d \in Nat
    BY DEF Conns
  <2> HIDE DEF v
  <2>4. /\ \A d \in Conns \ {c} : reader'[d] = reader[d] /\ frame'[d] = frame[d]
        /\ reader'[c] = IF settled THEN "reading" ELSE "storing"
        /\ ~settled => frame' = frame
    BY <2>1
  <2>5. /\ frame' \in [Conns -> Frames \cup {NoFrame}]
        /\ \A d \in Conns : reader'[d] \in {"holding", "storing"} => frame'[d] \in Frames
        /\ \A d \in Conns : reader'[d] = "storing" => frame'[d].marker
    BY <2>1, <2>2, <2>4
  <2>6. CASE newer
    <3>1. newest'.conn = c /\ newest'.verdict = v
      BY <2>1, <2>2, <2>6
    <3>2. \A d \in Conns : reader'[d] = "storing" /\ IsSnapshot(frame'[d]) => Fresh(d)'
      <4> SUFFICES ASSUME NEW d \in Conns, reader'[d] = "storing", IsSnapshot(frame'[d])
                   PROVE  Fresh(d)'
        OBVIOUS
      <4>1. CASE d = c
        <5>1. frame'[d] = f
          BY <2>4, <4>1
        <5>2. KyivAlertActive(frame'[d]) = v
          BY <5>1, Zenon DEF v
        <5> QED
          BY <2>3, <3>1, <4>1, <5>2
      <4>2. CASE d # c
        <5>1. reader[d] = "storing" /\ d <= newest.conn
          BY <2>4, <4>2
        <5>2. d <= newest'.conn /\ d # newest'.conn
          BY <2>3, <2>6, <3>1, <4>2, <5>1
        <5> QED
          BY <5>2, Zenon
      <4> QED
        BY <4>1, <4>2
    <3>3. CASE active = v
      <4>1. active' = newest'.verdict
        BY <2>1, <3>1, <3>3
      <4> QED
        BY <2>5, <3>2, <4>1
    <3>4. CASE active # v
      <4>1. reader'[newest'.conn] = "storing" /\ IsSnapshot(frame'[newest'.conn])
        BY <2>2, <2>4, <2>6, <3>1, <3>4
      <4> QED
        BY <2>5, <3>1, <3>2, <4>1
    <3> QED
      BY <3>3, <3>4
  <2>7. CASE ~newer
    <3>1. UNCHANGED <<newest, active>> /\ (late => late') /\ (misled => misled')
      BY <2>1, <2>7
    <3>2. \A d \in Conns : reader'[d] = "storing" /\ IsSnapshot(frame'[d]) => Fresh(d)'
      <4> SUFFICES ASSUME NEW d \in Conns, reader'[d] = "storing", IsSnapshot(frame'[d])
                   PROVE  Fresh(d)'
        OBVIOUS
      <4>1. CASE d # c
        <5>1. reader[d] = "storing" /\ frame'[d] = frame[d]
          BY <2>4, <4>1
        <5> QED
          BY <3>1, <5>1
      <4>2. CASE d = c
        <5>1. IsSnapshot(f)
          BY <2>4, <4>2
        <5>2. c < newest.conn
          BY <2>3, <2>7, <5>1
        <5> QED
          BY <2>3, <3>1, <4>2, <5>2
      <4> QED
        BY <4>1, <4>2
    <3>3. newest.conn # c \/ reader[newest.conn] # "storing"
      BY <2>1
    <3>4. newest.conn \in Conns /\ newest.conn # c
             => /\ reader'[newest.conn] = reader[newest.conn]
                /\ frame'[newest.conn] = frame[newest.conn]
      BY <2>4
    <3>5. FlagIsNewest'
      BY <3>1, <3>3, <3>4
    <3> QED
      BY <2>5, <3>2, <3>5
  <2> QED
    BY <2>6, <2>7
<1>7. ASSUME NEW c \in Conns, StoreActive(c) PROVE FlagInv'
  <2>1. /\ reader[c] = "storing"
        /\ active' = KyivAlertActive(frame[c])
        /\ late' = (c < newest.conn)
        /\ misled' = (frame[c].marker /\ ~IsSnapshot(frame[c]))
        /\ reader' = [reader EXCEPT ![c] = "reading"]
        /\ frame' = [frame EXCEPT ![c] = NoFrame]
        /\ UNCHANGED newest
    BY <1>7 DEF StoreActive
  <2>2. /\ \A d \in Conns \ {c} : reader'[d] = reader[d] /\ frame'[d] = frame[d]
        /\ reader'[c] = "reading"
    BY <2>1
  <2>3. c \in Nat /\ newest.conn \in Nat
    BY DEF Conns
  <2>4. \A d \in Conns : reader'[d] = "storing" /\ IsSnapshot(frame'[d]) => Fresh(d)'
    BY <2>1, <2>2
  <2>5. /\ frame' \in [Conns -> Frames \cup {NoFrame}]
        /\ \A d \in Conns : reader'[d] \in {"holding", "storing"} => frame'[d] \in Frames
        /\ \A d \in Conns : reader'[d] = "storing" => frame'[d].marker
    BY <2>1, <2>2
  <2>6. FlagIsNewest'
    <3>1. CASE ~IsSnapshot(frame[c])
      BY <2>1, <3>1, OthersSwitchOff
    <3>2. CASE IsSnapshot(frame[c]) /\ c < newest.conn
      BY <2>1, <3>2
    <3>3. CASE IsSnapshot(frame[c]) /\ c >= newest.conn
      <4>1. c = newest.conn /\ newest.verdict = KyivAlertActive(frame[c])
        BY <2>1, <2>3, <3>3
      <4> QED
        BY <2>1, <4>1
    <3> QED
      BY <2>3, <3>1, <3>2, <3>3
  <2> QED
    BY <2>4, <2>5, <2>6
<1>8. ASSUME NEW c \in Conns, PingFails(c) \/ PingCanceled(c) PROVE FlagInv'
  BY <1>1, <1>8 DEF PingFails, PingCanceled
<1>9. CASE UNCHANGED vars
  BY <1>1, <1>9 DEF vars
<1> QED
  BY <1>2, <1>3, <1>4, <1>5, <1>6, <1>7, <1>8, <1>9 DEF Next, MainStep

\* The alert flag tells what the newest connection's last snapshot said of the
\* city, unless an older connection's reader stored after it, or a frame of
\* another type that contains the marker switched it off (neptun.go handleFrame,
\* state.go SetActive, kyiv.go KyivAlertActive).
THEOREM FlagCorrect == Spec => []FlagIsNewest
<1>1. Init => MadeInv
  BY NeptunAssumption DEF Init, MadeInv, ReaderStates
<1>2. Init => FlagInv
  <2> SUFFICES ASSUME Init PROVE FlagInv
    OBVIOUS
  <2>1. \A c \in Conns : reader[c] \notin {"holding", "storing"}
    BY DEF Init
  <2>2. active = newest.verdict
    BY DEF Init
  <2>3. frame \in [Conns -> Frames \cup {NoFrame}]
    BY DEF Init
  <2> QED
    BY <2>1, <2>2, <2>3 DEF FlagInv, FlagIsNewest
<1>3. MadeInv /\ FlagInv /\ [Next]_vars => MadeInv' /\ FlagInv'
  BY MadeStep, FlagStep
<1>4. FlagInv => FlagIsNewest
  BY DEF FlagInv
<1> QED
  BY <1>1, <1>2, <1>3, <1>4, PTL DEF Spec

----------------------------------------------------------------------------
(* Types and bounds *)

LEMMA TypeStep ==
  ASSUME TypeOK, ConnInv, [Next]_vars
  PROVE  TypeOK'
<1> USE NeptunAssumption DEF TypeOK, Conns, ErrCap
<1>1. CASE Loop \/ DialFails \/ SleepCanceled
  BY <1>1 DEF Loop, DialFails, SleepCanceled
<1>2. CASE DialOk
  BY <1>2 DEF DialOk
<1>3. CASE ConnLost \/ ConnCanceled
  <2>1. /\ conn \in Conns
        /\ closed' = closed \cup {conn}
        /\ \E n \in 0..Buffered : left' = [left EXCEPT ![conn] = n]
    BY <1>3 DEF ConnLost, ConnCanceled, CloseConn, ConnInv
  <2>2. closed' \subseteq Conns /\ left' \in [Conns -> 0..Buffered]
    BY <2>1
  <2>3. errs' \in [Conns -> 0..ErrCap]
    <3>1. CASE ConnLost
      <4>1. errs[conn] > 0 /\ errs' = [errs EXCEPT ![conn] = @ - 1]
        BY <3>1 DEF ConnLost
      <4>2. errs[conn] - 1 \in 0..ErrCap
        BY <4>1, <2>1
      <4> QED
        BY <4>1, <4>2, <2>1
    <3>2. CASE ConnCanceled
      BY <3>2 DEF ConnCanceled
    <3> QED
      BY <1>3, <3>1, <3>2
  <2>4. /\ main' \in {"returned", "sleep"}
        /\ UNCHANGED <<ctxDone, backoff, conn, dead, readVars, pinger, flagVars>>
    BY <1>3 DEF ConnLost, ConnCanceled
  <2> QED
    BY <2>2, <2>3, <2>4
<1>4. CASE Wake
  <2>1. NextBackoff(backoff) \in MinBackoff..MaxBackoff
    BY DEF NextBackoff
  <2> QED
    BY <1>4, <2>1 DEF Wake
<1>5. ASSUME NEW c \in Conns, NEW f \in Frames, ReadFrame(c, f) PROVE TypeOK'
  <2>1. left' \in [Conns -> 0..Buffered]
    BY <1>5 DEF ReadFrame
  <2>2. /\ reader' = [reader EXCEPT ![c] = "holding"]
        /\ frame' = [frame EXCEPT ![c] = f]
        /\ UNCHANGED <<ctlVars, closed, dead, errs, pinger, flagVars>>
    BY <1>5 DEF ReadFrame
  <2> QED
    BY <2>1, <2>2
<1>6. ASSUME NEW c \in Conns, ReadFails(c) PROVE TypeOK'
  <2>1. errs[c] \in 0..1 /\ errs' = [errs EXCEPT ![c] = errs[c] + 1]
    BY <1>6 DEF ReadFails
  <2>2. errs' \in [Conns -> 0..2]
    BY <2>1
  <2>3. reader' = [reader EXCEPT ![c] = "done"]
        /\ UNCHANGED <<ctlVars, closed, dead, left, frame, pinger, flagVars>>
    BY <1>6 DEF ReadFails
  <2> QED
    BY <2>2, <2>3
<1>7. ASSUME NEW c \in Conns, HandleFrame(c) PROVE TypeOK'
  <2>1. /\ reader[c] = "holding"
        /\ \/ /\ reader' = [reader EXCEPT ![c] = "reading"]
              /\ frame' = [frame EXCEPT ![c] = NoFrame]
           \/ reader' = [reader EXCEPT ![c] = "storing"] /\ frame' = frame
        /\ \/ newest' = [conn |-> c, verdict |-> InKyiv(frame[c])]
           \/ newest' = newest
        /\ late' \in BOOLEAN /\ misled' \in BOOLEAN
        /\ UNCHANGED <<ctlVars, connVars, pinger, active>>
    BY <1>7 DEF HandleFrame
  <2>2. InKyiv(frame[c]) \in BOOLEAN
    BY DEF InKyiv
  <2>3. newest' \in [conn : 0..MaxConns, verdict : BOOLEAN]
    BY <2>1, <2>2
  <2>4. /\ reader' \in [Conns -> {"none", "reading", "holding", "storing", "done"}]
        /\ frame' \in [Conns -> Frames \cup {NoFrame}]
        /\ \A d \in Conns : reader'[d] \in {"holding", "storing"} => frame'[d] \in Frames
    <3>1. /\ \A d \in Conns \ {c} : reader'[d] = reader[d] /\ frame'[d] = frame[d]
          /\ \/ reader'[c] = "reading"
             \/ frame'[c] = frame[c]
      BY <2>1
    <3>2. \A d \in Conns : reader'[d] \in {"holding", "storing"} => frame'[d] \in Frames
      BY <2>1, <3>1
    <3>3. reader' \in [Conns -> {"none", "reading", "holding", "storing", "done"}]
      <4>1. \E v \in {"reading", "storing"} : reader' = [reader EXCEPT ![c] = v]
        BY <2>1
      <4> QED
        BY <4>1
    <3>4. frame' \in [Conns -> Frames \cup {NoFrame}]
      <4>1. frame' = frame \/ frame' = [frame EXCEPT ![c] = NoFrame]
        BY <2>1
      <4> QED
        BY <4>1
    <3> QED
      BY <3>2, <3>3, <3>4
  <2>5. UNCHANGED <<ctlVars, connVars, pinger, active>> /\ {late', misled'} \subseteq BOOLEAN
    BY <2>1
  <2> QED
    BY <2>3, <2>4, <2>5
<1>8. ASSUME NEW c \in Conns, StoreActive(c) PROVE TypeOK'
  <2>1. KyivAlertActive(frame[c]) \in BOOLEAN
    BY DEF KyivAlertActive
  <2> QED
    BY <1>8, <2>1 DEF StoreActive
<1>9. ASSUME NEW c \in Conns, PingFails(c) \/ PingCanceled(c) PROVE TypeOK'
  <2>1. CASE PingCanceled(c)
    BY <2>1 DEF PingCanceled
  <2>2. CASE PingFails(c)
    <3>1. errs[c] \in 0..1 /\ errs' = [errs EXCEPT ![c] = errs[c] + 1]
      BY <2>2 DEF PingFails
    <3>2. errs' \in [Conns -> 0..2]
      BY <3>1
    <3>3. pinger' = [pinger EXCEPT ![c] = "done"]
          /\ UNCHANGED <<ctlVars, closed, dead, left, readVars, flagVars>>
      BY <2>2 DEF PingFails
    <3> QED
      BY <3>2, <3>3
  <2> QED
    BY <1>9, <2>1, <2>2
<1>10. CASE PeerGone
  BY <1>10 DEF PeerGone, ConnInv
<1>11. CASE Cancel \/ UNCHANGED vars
  BY <1>11 DEF Cancel, vars
<1> QED
  BY <1>1, <1>2, <1>3, <1>4, <1>5, <1>6, <1>7, <1>8, <1>9, <1>10, <1>11
     DEF Next, MainStep

\* The delay stays between the configured intervals however often it doubles,
\* and errChan has room for every error that is sent to it (neptun.go,
\* nextBackoff and handleConnection).
THEOREM TypeCorrect == Spec => []TypeOK
<1>1. Init => TypeOK /\ ConnInv
  <2> SUFFICES ASSUME Init PROVE TypeOK /\ ConnInv
    OBVIOUS
  <2> USE NeptunAssumption DEF Init
  <2>1. /\ errs \in [Conns -> 0..ErrCap] /\ left \in [Conns -> 0..Buffered]
        /\ backoff \in MinBackoff..MaxBackoff /\ conn \in 0..MaxConns
    BY DEF ErrCap
  <2>2. newest \in [conn : 0..MaxConns, verdict : BOOLEAN]
    OBVIOUS
  <2>3. /\ reader \in [Conns -> {"none", "reading", "holding", "storing", "done"}]
        /\ frame \in [Conns -> Frames \cup {NoFrame}]
        /\ pinger \in [Conns -> {"none", "waiting", "done"}]
        /\ \A c \in Conns : reader[c] \notin {"holding", "storing"}
    OBVIOUS
  <2>4. ConnInv
    BY DEF ConnInv
  <2> QED
    BY <2>1, <2>2, <2>3, <2>4 DEF TypeOK
<1>2. TypeOK /\ ConnInv /\ [Next]_vars => TypeOK' /\ ConnInv'
  BY TypeStep, ConnStep
<1> QED
  BY <1>1, <1>2, PTL DEF Spec
----------------------------------------------------------------------------
(* Who can make the flag wrong *)

\* Only the reader of a closed connection spoils the flag: the one connection
\* that is open never overwrites the verdict of a newer one, so a process whose
\* old readers have ended keeps a true flag (state.go SetActive under the
\* readers that neptun.go handleConnection leaves behind).
OnlyClosedSpoil ==
    [][late' /\ ~late => \E c \in closed : reader[c] = "storing" /\ c < newest.conn]_vars

LEMMA SpoilStep ==
  ASSUME MadeInv, ConnInv, [Next]_vars, late', ~late
  PROVE  \E c \in closed : reader[c] = "storing" /\ c < newest.conn
<1>1. PICK c \in Conns : StoreActive(c)
  <2>1. ~UNCHANGED late
    OBVIOUS
  <2>2. ~MainStep
    BY <2>1 DEF MainStep, Loop, DialFails, DialOk, ConnLost, ConnCanceled, Wake, SleepCanceled
  <2>3. \A c \in Conns : ~\E f \in Frames : ReadFrame(c, f)
    BY <2>1 DEF ReadFrame
  <2>4. \A c \in Conns : ~(ReadFails(c) \/ PingFails(c) \/ PingCanceled(c))
    BY <2>1 DEF ReadFails, PingFails, PingCanceled
  <2>5. \A c \in Conns : ~HandleFrame(c)
    BY DEF HandleFrame
  <2>6. ~(PeerGone \/ Cancel)
    BY <2>1 DEF PeerGone, Cancel
  <2>7. ~UNCHANGED vars
    BY <2>1 DEF vars
  <2> QED
    BY <2>2, <2>3, <2>4, <2>5, <2>6, <2>7 DEF Next
<1>2. reader[c] = "storing" /\ c < newest.conn
  BY <1>1 DEF StoreActive
<1>3. c \in 1..conn /\ c # conn
  BY <1>2, NeptunAssumption DEF MadeInv, Conns
<1>4. c \in closed
  BY <1>3 DEF ConnInv
<1> QED
  BY <1>2, <1>4

\* The verdicts of the newest connection are overwritten by readers of closed
\* connections only.
THEOREM SpoilCorrect == Spec => OnlyClosedSpoil
<1>1. Init => MadeInv /\ ConnInv
  BY NeptunAssumption DEF Init, MadeInv, ReaderStates, ConnInv
<1>2. MadeInv /\ ConnInv /\ [Next]_vars => MadeInv' /\ ConnInv'
  BY MadeStep, ConnStep
<1>3. MadeInv /\ ConnInv /\ [Next]_vars
         => [late' /\ ~late => \E c \in closed : reader[c] = "storing" /\ c < newest.conn]_vars
  BY SpoilStep
<1> QED
  BY <1>1, <1>2, <1>3, PTL DEF Spec, OnlyClosedSpoil

----------------------------------------------------------------------------
(* Room in errChan *)

Running(c) == reader[c] \in {"reading", "holding", "storing"}

\* The goroutines of connection c that still have an error to send.
Unsent(c) ==
    (IF Running(c) THEN 1 ELSE 0) + (IF pinger[c] = "waiting" THEN 1 ELSE 0)

\* Sent and unsent errors together never exceed the capacity; a connection that
\* was not made has neither.
RoomInv ==
    /\ conn \in 0..MaxConns
    /\ errs \in [Conns -> 0..ErrCap]
    /\ reader \in [Conns -> ReaderStates]
    /\ pinger \in [Conns -> {"none", "waiting", "done"}]
    /\ \A c \in Conns : errs[c] + Unsent(c) <= ErrCap
    /\ \A c \in Conns : c > conn => errs[c] = 0 /\ reader[c] = "none" /\ pinger[c] = "none"

LEMMA RoomStep ==
  ASSUME RoomInv, TypeOK, TypeOK', ConnInv, [Next]_vars
  PROVE  RoomInv'
<1> DEFINE Within == \A c \in Conns : errs[c] + Unsent(c) <= ErrCap
           NotMade == \A c \in Conns :
                        c > conn => errs[c] = 0 /\ reader[c] = "none" /\ pinger[c] = "none"
<1>0. /\ conn \in 0..MaxConns /\ MaxConns \in Nat /\ Conns = 1..MaxConns
      /\ errs \in [Conns -> 0..2]
      /\ reader \in [Conns -> ReaderStates]
      /\ pinger \in [Conns -> {"none", "waiting", "done"}]
      /\ conn' \in 0..MaxConns
      /\ errs' \in [Conns -> 0..2]
      /\ reader' \in [Conns -> ReaderStates]
      /\ pinger' \in [Conns -> {"none", "waiting", "done"}]
  BY NeptunAssumption DEF TypeOK, RoomInv, ErrCap, ReaderStates, Conns
<1>a. \A c \in Conns : errs[c] \in 0..2 /\ errs'[c] \in 0..2
  BY <1>0
<1>b. \A c \in Conns : Unsent(c) \in 0..2 /\ Unsent(c)' \in 0..2
  BY DEF Unsent
<1>c. Within /\ NotMade /\ ErrCap = 2
  BY DEF RoomInv, ErrCap
<1>d. Within' /\ NotMade' => RoomInv'
  BY <1>0 DEF RoomInv, ErrCap
\* No sum grows and no goroutine starts.
<1>e. ASSUME \A c \in Conns : errs'[c] + Unsent(c)' <= errs[c] + Unsent(c),
             conn' = conn,
             \A c \in Conns :
                /\ errs[c] = 0 => errs'[c] = 0 \/ reader[c] # "none" \/ pinger[c] # "none"
                /\ reader[c] = "none" => reader'[c] = "none"
                /\ pinger[c] = "none" => pinger'[c] = "none"
      PROVE  RoomInv'
  <2>1. Within'
    <3> SUFFICES ASSUME NEW c \in Conns PROVE errs'[c] + Unsent(c)' <= ErrCap
      BY DEF ErrCap
    <3>1. errs[c] + Unsent(c) <= 2 /\ errs'[c] + Unsent(c)' <= errs[c] + Unsent(c)
      BY <1>c, <1>e
    <3>2. {errs[c], errs'[c], Unsent(c), Unsent(c)'} \subseteq Nat
      BY <1>a, <1>b
    <3> QED
      BY <1>c, <3>1, <3>2
  <2>2. NotMade'
    BY <1>c, <1>e
  <2> QED
    BY <1>d, <2>1, <2>2
<1>1. CASE UNCHANGED <<conn, errs, reader, pinger>>
  BY <1>1 DEF RoomInv, Unsent, Running, ErrCap
<1>2. CASE DialOk
  <2>1. /\ conn' = conn + 1 /\ conn + 1 \in Conns /\ errs' = errs
        /\ reader' = [reader EXCEPT ![conn + 1] = "reading"]
        /\ pinger' = [pinger EXCEPT ![conn + 1] = "waiting"]
    BY <1>0, <1>2 DEF DialOk
  <2>2. errs'[conn + 1] = 0
    BY <1>0, <1>c, <2>1
  <2>3. \A c \in Conns \ {conn + 1} : reader'[c] = reader[c] /\ pinger'[c] = pinger[c]
    BY <1>0, <2>1
  <2>4. Within'
    <3> SUFFICES ASSUME NEW c \in Conns PROVE errs'[c] + Unsent(c)' <= ErrCap
      BY DEF ErrCap
    <3>1. CASE c = conn + 1
      BY <1>b, <1>c, <2>2, <3>1
    <3>2. CASE c # conn + 1
      <4>1. Unsent(c)' = Unsent(c) /\ errs'[c] = errs[c]
        BY <2>1, <2>3, <3>2 DEF Unsent, Running
      <4> QED
        BY <1>c, <4>1
    <3> QED
      BY <3>1, <3>2
  <2>5. NotMade'
    BY <1>0, <1>c, <2>1, <2>3
  <2> QED
    BY <1>d, <2>4, <2>5
<1>3. CASE ConnLost
  <2>1. /\ errs' = [errs EXCEPT ![conn] = errs[conn] - 1] /\ errs[conn] > 0
        /\ conn \in Conns /\ UNCHANGED <<conn, reader, pinger>>
    BY <1>0, <1>3 DEF ConnLost, ConnInv
  <2>2. /\ \A c \in Conns \ {conn} : errs'[c] = errs[c]
        /\ errs'[conn] = errs[conn] - 1
    BY <1>0, <2>1
  <2>3. \A c \in Conns : errs'[c] <= errs[c] /\ (errs[c] = 0 => errs'[c] = 0)
    BY <1>a, <2>1, <2>2
  <2>4. \A c \in Conns : Unsent(c)' = Unsent(c)
    BY <2>1 DEF Unsent, Running
  <2>5. \A c \in Conns : errs'[c] + Unsent(c)' <= errs[c] + Unsent(c)
    BY <1>a, <1>b, <2>3, <2>4
  <2> QED
    BY <1>e, <2>1, <2>3, <2>5
<1>4. CASE \/ Loop \/ DialFails \/ ConnCanceled \/ Wake \/ SleepCanceled
           \/ PeerGone \/ Cancel
  BY <1>1, <1>4 DEF Loop, DialFails, ConnCanceled, Wake, SleepCanceled, PeerGone, Cancel
<1>5. ASSUME NEW c \in Conns,
             \/ \E f \in Frames : ReadFrame(c, f)
             \/ HandleFrame(c) \/ StoreActive(c)
      PROVE  RoomInv'
  <2>1. /\ UNCHANGED <<conn, errs, pinger>> /\ Running(c)
        /\ \E s \in {"reading", "holding", "storing"} : reader' = [reader EXCEPT ![c] = s]
    BY <1>5 DEF ReadFrame, HandleFrame, StoreActive, Running
  <2>2. \A d \in Conns : /\ Running(d)' <=> Running(d)
                         /\ reader[d] = "none" => reader'[d] = "none"
    BY <1>0, <2>1 DEF Running
  <2>3. \A d \in Conns : errs'[d] = errs[d] /\ Unsent(d)' = Unsent(d)
    BY <2>1, <2>2 DEF Unsent
  <2>4. \A d \in Conns : errs'[d] + Unsent(d)' <= errs[d] + Unsent(d)
    BY <1>a, <1>b, <2>3
  <2> QED
    BY <1>e, <2>1, <2>2, <2>4
<1>6. ASSUME NEW c \in Conns, ReadFails(c) PROVE RoomInv'
  <2>1. /\ UNCHANGED <<conn, pinger>> /\ reader[c] = "reading"
        /\ errs' = [errs EXCEPT ![c] = errs[c] + 1]
        /\ reader' = [reader EXCEPT ![c] = "done"]
    BY <1>6 DEF ReadFails
  <2>2. /\ errs'[c] = errs[c] + 1 /\ reader'[c] = "done"
        /\ \A d \in Conns \ {c} : errs'[d] = errs[d] /\ reader'[d] = reader[d]
    BY <1>0, <2>1
  <2>3. /\ Unsent(c) = Unsent(c)' + 1
        /\ \A d \in Conns \ {c} : Unsent(d)' = Unsent(d)
    BY <2>1, <2>2 DEF Unsent, Running
  <2>4. \A d \in Conns : errs'[d] + Unsent(d)' <= errs[d] + Unsent(d)
    BY <1>a, <1>b, <2>2, <2>3
  <2> QED
    BY <1>e, <2>1, <2>2, <2>4
<1>7. ASSUME NEW c \in Conns, PingFails(c) PROVE RoomInv'
  <2>1. /\ UNCHANGED <<conn, reader>> /\ pinger[c] = "waiting"
        /\ errs' = [errs EXCEPT ![c] = errs[c] + 1]
        /\ pinger' = [pinger EXCEPT ![c] = "done"]
    BY <1>7 DEF PingFails
  <2>2. /\ errs'[c] = errs[c] + 1 /\ pinger'[c] = "done"
        /\ \A d \in Conns \ {c} : errs'[d] = errs[d] /\ pinger'[d] = pinger[d]
    BY <1>0, <2>1
  <2>3. /\ Unsent(c) = Unsent(c)' + 1
        /\ \A d \in Conns \ {c} : Unsent(d)' = Unsent(d)
    BY <2>1, <2>2 DEF Unsent, Running
  <2>4. \A d \in Conns : errs'[d] + Unsent(d)' <= errs[d] + Unsent(d)
    BY <1>a, <1>b, <2>2, <2>3
  <2> QED
    BY <1>e, <2>1, <2>2, <2>4
<1>8. ASSUME NEW c \in Conns, PingCanceled(c) PROVE RoomInv'
  <2>1. /\ UNCHANGED <<conn, errs, reader>> /\ pinger[c] = "waiting"
        /\ pinger' = [pinger EXCEPT ![c] = "done"]
    BY <1>8 DEF PingCanceled
  <2>2. /\ pinger'[c] = "done"
        /\ \A d \in Conns \ {c} : pinger'[d] = pinger[d]
    BY <1>0, <2>1
  <2>3. \A d \in Conns : errs'[d] = errs[d] /\ Unsent(d)' <= Unsent(d)
    BY <2>1, <2>2 DEF Unsent, Running
  <2>4. \A d \in Conns : errs'[d] + Unsent(d)' <= errs[d] + Unsent(d)
    BY <1>a, <1>b, <2>3
  <2> QED
    BY <1>e, <2>1, <2>2, <2>4
<1>9. CASE UNCHANGED vars
  BY <1>1, <1>9 DEF vars
<1> QED
  BY <1>2, <1>3, <1>4, <1>5, <1>6, <1>7, <1>8, <1>9 DEF Next, MainStep

\* A goroutine that has an error to send finds room in errChan, whether or not
\* anybody reads it any more: none is ever blocked there.
SendersFindRoom ==
    \A c \in Conns : Running(c) \/ pinger[c] = "waiting" => errs[c] < ErrCap

\* The reader and the pinger of a connection are never stuck at errChan, also
\* after handleConnection has returned (neptun.go handleConnection, where the
\* channel has room for both).
THEOREM RoomCorrect == Spec => []SendersFindRoom
<1>1. Init => RoomInv /\ ConnInv
  BY NeptunAssumption DEF Init, RoomInv, ConnInv, Unsent, Running, ReaderStates, ErrCap, Conns
<1>2. RoomInv /\ TypeOK /\ TypeOK' /\ ConnInv /\ [Next]_vars => RoomInv' /\ ConnInv'
  BY RoomStep, ConnStep
<1>3. RoomInv => SendersFindRoom
  BY DEF RoomInv, SendersFindRoom, Unsent, ErrCap
<1> QED
  BY <1>1, <1>2, <1>3, TypeCorrect, PTL DEF Spec
=============================================================================
