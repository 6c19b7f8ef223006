--------------------------- MODULE BotPostProofs ---------------------------
(***************************************************************************)
(* Proofs about BotPost, for every number of attempts.                      *)
(***************************************************************************)
EXTENDS BotPost, TLAPS

LEMMA NextKeepsOnce ==
  ASSUME OnceInv, [Next]_vars
  PROVE  OnceInv'
<1> USE BotPostAssumption DEF OnceInv, TypeOK, AtMostOnce, OkMeansShown
<1>1. ASSUME NEW m \in {"text", "photo", "html"}, NEW bad \in BOOLEAN, Call(m, bad)
      PROVE  OnceInv'
  <2>1. malformed' \in BOOLEAN
    BY <1>1 DEF Call
  <2>2. /\ phase' = "attempt" /\ method' \in {"text", "photo", "html"}
        /\ attempt' = 1 /\ body' = "full" /\ lastErr' = "none"
        /\ result' = "pending" /\ shown' = 0
    BY <1>1 DEF Call, StartPost
  <2> QED
    BY <2>1, <2>2
<1>2. CASE DialError
  BY <1>2 DEF DialError, Fail
<1>3. CASE SendBroken
  BY <1>3 DEF SendBroken, Fail
<1>4. CASE Accept
  BY <1>4 DEF Accept
<1>5. CASE AnswerOk
  BY <1>5 DEF AnswerOk
<1>6. CASE AnswerLost
  BY <1>6 DEF AnswerLost, Fail
<1>7. CASE RefuseMarkup
  BY <1>7 DEF RefuseMarkup, Fail
<1>8. CASE RefuseRequest
  BY <1>8 DEF RefuseRequest, Fail
<1>9. CASE FallBack
  BY <1>9 DEF FallBack, StartPost
<1>10. CASE GiveUp
  BY <1>10 DEF GiveUp
<1>11. CASE UNCHANGED vars
  BY <1>11 DEF vars
<1> QED
  BY <1>1, <1>2, <1>3, <1>4, <1>5, <1>6, <1>7, <1>8, <1>9, <1>10, <1>11
  DEF Next, Attempt, Finish

\* The reason a call shows its message at most once: whatever the network
\* does, the reader is empty once the message was shown.
THEOREM OnceCorrect == Spec => []OnceInv
<1>1. Init => OnceInv
  <2> SUFFICES ASSUME Init PROVE OnceInv
    OBVIOUS
  <2>1. malformed \in BOOLEAN
    BY DEF Init
  <2>2. TypeOK
    BY <2>1, BotPostAssumption DEF Init, TypeOK
  <2> QED
    BY <2>2 DEF Init, OnceInv, AtMostOnce, OkMeansShown
<1>2. OnceInv /\ [Next]_vars => OnceInv'
  BY NextKeepsOnce
<1> QED
  BY <1>1, <1>2, PTL DEF Spec

\* SendText, SendPhoto and SendTextReply implement SendOnce: at most one
\* message per call, and success only after it.
THEOREM ImplementsSendOnce == Spec => SendSafe
<1>1. Init => S!SendInit
  BY DEF Init, S!SendInit
<1>2. OnceInv /\ [Next]_vars => [S!SendNext]_(S!svars)
  <2> SUFFICES ASSUME OnceInv, [Next]_vars PROVE [S!SendNext]_(S!svars)
    OBVIOUS
  <2> USE DEF S!SendNext, S!Call, S!Show, S!Return, S!svars
  <2>1. ASSUME NEW m \in {"text", "photo", "html"}, NEW bad \in BOOLEAN, Call(m, bad)
        PROVE  S!Call
    BY <2>1 DEF Call, OnceInv, TypeOK
  <2>2. CASE Accept
    BY <2>2 DEF Accept, OnceInv, TypeOK, AtMostOnce
  <2>3. CASE AnswerOk \/ GiveUp
    BY <2>3 DEF AnswerOk, GiveUp, OnceInv, TypeOK
  <2>4. CASE \/ DialError \/ SendBroken \/ AnswerLost \/ RefuseMarkup
             \/ RefuseRequest \/ FallBack
    BY <2>4 DEF DialError, SendBroken, AnswerLost, RefuseMarkup,
                RefuseRequest, FallBack
  <2>5. CASE UNCHANGED vars
    BY <2>5 DEF vars
  <2> QED
    BY <2>1, <2>2, <2>3, <2>4, <2>5 DEF Next, Attempt, Finish
<1> QED
  BY <1>1, <1>2, OnceCorrect, PTL DEF Spec, SendSafe, S!SendSafe
=============================================================================
