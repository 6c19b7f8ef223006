------------------------------ MODULE BotPost ------------------------------
(***************************************************************************)
(* One caller of internal/notifier/telegram.go: SendText, SendPhoto and     *)
(* SendTextReply over post, the loop that repeats a Bot API request.  The   *)
(* body of a request is an io.Reader that post hands to every attempt; what *)
(* an attempt has read is gone for the next one.                            *)
(*                                                                         *)
(* A payload is reduced to how much of its reader is left: all of it, a     *)
(* part, or nothing.  Telegram can only accept a request that carries the   *)
(* whole payload, since chat_id is its first field.                         *)
(***************************************************************************)
EXTENDS Naturals

CONSTANTS
    Attempts        \* how often post sends a request: 3

ASSUME BotPostAssumption == Attempts \in Nat \ {0}

VARIABLES
    phase,      \* "idle" | "attempt" | "answer" | "failed"
    method,     \* "text" | "photo" | "html" (SendTextReply) | "plain" (its fallback)
    malformed,  \* Telegram cannot parse the HTML of this text
    attempt,    \* the attempt post is in
    body,       \* what is left in the reader: "full" | "partial" | "empty"
    lastErr,    \* "none" | "network" | "status" | "entities"
    result,     \* what the call returned last: "none" | "pending" | "ok" | "error"
    \* History of the call:
    shown       \* messages it put in the chat

vars == <<phase, method, malformed, attempt, body, lastErr, result, shown>>

Init ==
    /\ phase = "idle"
    /\ method = "text"
    /\ malformed = FALSE
    /\ attempt = 1
    /\ body = "empty"
    /\ lastErr = "none"
    /\ result = "none"
    /\ shown = 0

\* post begins with a new reader over the payload.
StartPost ==
    /\ phase' = "attempt"
    /\ attempt' = 1
    /\ body' = "full"
    /\ lastErr' = "none"

\* The caller sends a text, a photo or an HTML reply.
Call(m, bad) ==
    /\ phase = "idle"
    /\ bad => m = "html"
    /\ StartPost
    /\ method' = m
    /\ malformed' = bad
    /\ result' = "pending"
    /\ shown' = 0

\* Faulty: every attempt gets a fresh reader.
FailRewound(err, left) ==
    /\ lastErr' = err
    /\ body' = "full"
    /\ IF attempt < Attempts
       THEN phase' = "attempt" /\ attempt' = attempt + 1
       ELSE phase' = "failed" /\ UNCHANGED attempt

\* An attempt has failed with err: post remembers the error, forgetting the
\* one before, and tries again unless this was the last attempt.
Fail(err, left) ==
    /\ lastErr' = err
    /\ body' = left
    /\ IF attempt < Attempts
       THEN phase' = "attempt" /\ attempt' = attempt + 1
       ELSE phase' = "failed" /\ UNCHANGED attempt

\* The connection could not be made: the body is untouched.
DialError ==
    /\ phase = "attempt"
    /\ Fail("network", body)
    /\ UNCHANGED <<method, malformed, result, shown>>

\* The connection broke, or HTTP_TIMEOUT passed, before Telegram had the whole
\* request.
SendBroken ==
    /\ phase = "attempt"
    /\ body # "empty"
    /\ \E left \in {"partial", "empty"} : Fail("network", left)
    /\ UNCHANGED <<method, malformed, result, shown>>

Unparsable == method = "html" /\ malformed

\* Telegram accepts the request and shows the message ...
Accept ==
    /\ phase = "attempt"
    /\ body = "full"
    /\ ~Unparsable
    /\ shown' = shown + 1
    /\ body' = "empty"
    /\ phase' = "answer"
    /\ UNCHANGED <<method, malformed, attempt, lastErr, result>>

\* ... and its 2xx answer arrives ...
AnswerOk ==
    /\ phase = "answer"
    /\ phase' = "idle"
    /\ result' = "ok"
    /\ UNCHANGED <<method, malformed, attempt, body, lastErr, shown>>

\* ... or is lost.
AnswerLost ==
    /\ phase = "answer"
    /\ Fail("network", body)
    /\ UNCHANGED <<method, malformed, result, shown>>

\* Telegram refuses malformed HTML; the text of its answer may get lost.
RefuseMarkup ==
    /\ phase = "attempt"
    /\ body = "full"
    /\ Unparsable
    /\ \E err \in {"entities", "status"} : Fail(err, "empty")
    /\ UNCHANGED <<method, malformed, result, shown>>

\* Any other non-2xx answer: too many requests, a server error, or, for a
\* request without its whole payload, a bad request.
RefuseRequest ==
    /\ phase = "attempt"
    /\ Fail("status", "empty")
    /\ UNCHANGED <<method, malformed, result, shown>>

\* SendTextReply: the error post returned says "can't parse entities", so the
\* text is posted again without parse_mode.
FallBack ==
    /\ phase = "failed"
    /\ method = "html"
    /\ lastErr = "entities"
    /\ StartPost
    /\ method' = "plain"
    /\ UNCHANGED <<malformed, result, shown>>

\* Otherwise the error goes to the caller.
GiveUp ==
    /\ phase = "failed"
    /\ ~(method = "html" /\ lastErr = "entities")
    /\ phase' = "idle"
    /\ result' = "error"
    /\ UNCHANGED <<method, malformed, attempt, body, lastErr, shown>>

Attempt == DialError \/ SendBroken \/ Accept \/ RefuseMarkup \/ RefuseRequest

Finish == AnswerOk \/ AnswerLost \/ FallBack \/ GiveUp

Next ==
    \/ \E m \in {"text", "photo", "html"}, bad \in BOOLEAN : Call(m, bad)
    \/ Attempt
    \/ Finish

Spec == Init /\ [][Next]_vars

\* HTTP_TIMEOUT ends every attempt; nobody has to make another call.
LiveSpec == Spec /\ WF_vars(Attempt \/ Finish)

----------------------------------------------------------------------------
(* Properties *)

\* The values the code can give to the variables of a call.
TypeOK ==
    /\ phase \in {"idle", "attempt", "answer", "failed"}
    /\ method \in {"text", "photo", "html", "plain"}
    /\ malformed \in BOOLEAN
    /\ attempt \in 1..Attempts
    /\ body \in {"full", "partial", "empty"}
    /\ lastErr \in {"none", "network", "status", "entities"}
    /\ result \in {"none", "pending", "ok", "error"}
    /\ shown \in Nat
    /\ result = "pending" <=> phase # "idle"

\* A call shows its message at most once, however many attempts lose their
\* answer and although SendTextReply may post the text twice (post's loop and
\* the fallback).
AtMostOnce == shown <= 1

\* A call that reports success has shown its message.
OkMeansShown == result = "ok" => shown = 1

\* Why that is so: once the message was shown the reader is empty, and an
\* attempt refused for its markup has emptied the reader without showing it.
OnceInv ==
    /\ TypeOK
    /\ AtMostOnce
    /\ OkMeansShown
    /\ phase \in {"attempt", "answer", "failed"} =>
          /\ body # "empty" => shown = 0
          /\ lastErr = "entities" => shown = 0 /\ body = "empty"
    /\ phase = "answer" => shown = 1

\* post repeats the API call: every attempt carries the payload.
RetryCarriesPayload == phase = "attempt" => body = "full"

\* The notifier implements SendOnce: this is what Forwarder assumes of a send.
S == INSTANCE SendOnce

SendSafe == S!SendSafe
SendSpec == S!SendSpec
=============================================================================
