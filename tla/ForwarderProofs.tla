-------------------------- MODULE ForwarderProofs --------------------------
(***************************************************************************)
(* Proofs about Forwarder, for every set of posts, channels and handlers   *)
(* and every queue capacity.                                               *)
(***************************************************************************)
EXTENDS Forwarder, FiniteSetTheorems, TLAPS

USE DEF lifeVars, registryVars, handlerVars, workerVars

\* process returning keeps the types of what it assigns.
LEMMA SettleTypes ==
  ASSUME TypeOK, NEW f \in Fates, Settle(f), UNCHANGED chat
  PROVE  TypeOK'
<1> USE DEF TypeOK, Settle, Fates
<1>1. stats' \in [{"forwarded", "skipped", "filtered"} -> Nat]
  OBVIOUS
<1>2. fates' \in Seq(Fates)
  OBVIOUS
<1>3. /\ task' = NoPost /\ task' \in Posts \cup {NoPost}
      /\ wpc' = "select" /\ attempt' \in 0..1
  OBVIOUS
<1> QED
  BY <1>1, <1>2, <1>3

LEMMA InitTypes == Init => TypeOK
<1> SUFFICES ASSUME Init PROVE TypeOK
  OBVIOUS
<1> USE ForwarderAssumption DEF Init
<1>1. alert \in BOOLEAN /\ sawAlert \in BOOLEAN
  OBVIOUS
<1>2. boot \in 0..MaxBoots /\ attempt \in 0..1
  OBVIOUS
<1>3. /\ queue \in Seq(Posts) /\ Len(queue) <= QueueCapacity
      /\ admitted \in Seq(Posts)
      /\ fates \in Seq(Fates)
      /\ chat \in Seq([post : Posts, boot : Nat, ticket : Nat \ {0}])
  OBVIOUS
<1>4. /\ hpc \in [Handlers -> {"idle", "check", "insert", "writing", "enqueue"}]
      /\ hpost \in [Handlers -> Posts \cup {NoPost}]
      /\ \A h \in Handlers : hpc[h] = "idle" <=> hpost[h] = NoPost
  OBVIOUS
<1>5. stats \in [{"forwarded", "skipped", "filtered"} -> Nat]
  OBVIOUS
<1>6. /\ sources \subseteq Channels /\ seen \subseteq Posts /\ dropped \subseteq Posts
      /\ task \in Posts \cup {NoPost}
  OBVIOUS
<1> QED
  BY <1>1, <1>2, <1>3, <1>4, <1>5, <1>6 DEF TypeOK

LEMMA RestartTypes ==
  ASSUME TypeOK, Restart
  PROVE  TypeOK'
<1> USE ForwarderAssumption DEF Restart
<1>1. alert' \in BOOLEAN /\ sawAlert' \in BOOLEAN
  OBVIOUS
<1>2. boot' \in 0..MaxBoots /\ attempt' \in 0..1
  BY DEF TypeOK
<1>3. /\ queue' \in Seq(Posts) /\ Len(queue') <= QueueCapacity
      /\ admitted' \in Seq(Posts)
      /\ fates' \in Seq(Fates)
      /\ chat' \in Seq([post : Posts, boot : Nat, ticket : Nat \ {0}])
  BY DEF TypeOK
<1>4. /\ hpc' \in [Handlers -> {"idle", "check", "insert", "writing", "enqueue"}]
      /\ hpost' \in [Handlers -> Posts \cup {NoPost}]
      /\ \A h \in Handlers : hpc'[h] = "idle" <=> hpost'[h] = NoPost
  OBVIOUS
<1>5. stats' \in [{"forwarded", "skipped", "filtered"} -> Nat]
  OBVIOUS
<1>6. /\ sources' \subseteq Channels /\ seen' \subseteq Posts /\ dropped' \subseteq Posts
      /\ task' \in Posts \cup {NoPost}
  OBVIOUS
<1> QED
  BY <1>1, <1>2, <1>3, <1>4, <1>5, <1>6 DEF TypeOK

LEMMA HandlerTypes ==
  ASSUME TypeOK, NEW h \in Handlers, HandlerStep(h)
  PROVE  TypeOK'
<1> USE ForwarderAssumption DEF TypeOK
<1>1. ASSUME NEW p \in Posts, ReceiveUpdate(h, p) PROVE TypeOK'
  BY <1>1 DEF ReceiveUpdate
<1>2. CASE CheckSeen(h)
  BY <1>2 DEF CheckSeen
<1>3. CASE BeginInsert(h)
  BY <1>3 DEF BeginInsert
<1>4. CASE EndInsert(h)
  BY <1>4 DEF EndInsert
<1>5. CASE FatalMapAccess(h)
  BY <1>5 DEF FatalMapAccess
<1>6. CASE Enqueue(h)
  BY <1>6 DEF Enqueue, Room
<1>7. CASE Drop(h)
  BY <1>7 DEF Drop, Room
<1> QED
  BY <1>1, <1>2, <1>3, <1>4, <1>5, <1>6, <1>7 DEF HandlerStep

LEMMA WorkerTypes ==
  ASSUME TypeOK, WorkerStep
  PROVE  TypeOK'
<1>1. CASE TakeTask
  BY <1>1, ForwarderAssumption DEF TypeOK, TakeTask
<1>2. CASE StopWorker
  BY <1>2 DEF TypeOK, StopWorker
<1>3. CASE SkipEmpty \/ FilterOut \/ SkipQuiet
  BY <1>3, SettleTypes DEF SkipEmpty, FilterOut, SkipQuiet, Fates
<1>4. CASE PassGate
  BY <1>4 DEF TypeOK, PassGate
<1>5. CASE DownloadOk
  BY <1>5 DEF TypeOK, DownloadOk
<1>6. CASE ReferenceExpired
  BY <1>6 DEF TypeOK, ReferenceExpired
<1>7. CASE DownloadFailed \/ RefreshFailed \/ SendFailed \/ AnswerLost
  BY <1>7, SettleTypes
  DEF DownloadFailed, RefreshFailed, SendFailed, AnswerLost, Fates
<1>8. CASE RefreshOk
  BY <1>8 DEF TypeOK, RefreshOk, NextAttempt
<1>9. CASE FatalRegistryAccess
  BY <1>9 DEF TypeOK, FatalRegistryAccess
<1>10. CASE Deliver
  <2>1. Ticket \in Nat \ {0} /\ boot \in Nat /\ task \in Posts
    BY <1>10, ForwarderAssumption DEF TypeOK, Deliver, Ticket
  <2>2. chat' \in Seq([post : Posts, boot : Nat, ticket : Nat \ {0}])
    BY <1>10, <2>1 DEF TypeOK, Deliver
  <2>3. /\ wpc = "send" /\ wpc' = "reply"
        /\ UNCHANGED <<life, boot, alert, sources, seen, queue, hpc, hpost,
                       task, attempt, stats, admitted, fates, dropped, sawAlert>>
    BY <1>10 DEF Deliver
  <2> QED
    BY <2>2, <2>3 DEF TypeOK
<1>11. CASE SendOk
  BY <1>11, SettleTypes DEF SendOk, Fates
<1> QED
  BY <1>1, <1>2, <1>3, <1>4, <1>5, <1>6, <1>7, <1>8, <1>9, <1>10, <1>11
  DEF WorkerStep

LEMMA NextTypes ==
  ASSUME TypeOK, [Next]_vars
  PROVE  TypeOK'
<1>1. ASSUME NEW v \in BOOLEAN, SetActive(v) PROVE TypeOK'
  BY <1>1 DEF TypeOK, SetActive
<1>2. ASSUME NEW c \in Channels, AddChannel(c) \/ RemoveChannel(c)
      PROVE  TypeOK'
  BY <1>2 DEF TypeOK, AddChannel, RemoveChannel
<1>3. ASSUME NEW h \in Handlers, HandlerStep(h) PROVE TypeOK'
  BY <1>3, HandlerTypes
<1>4. CASE WorkerStep
  BY <1>4, WorkerTypes
<1>5. CASE StartDaemon
  BY <1>5 DEF TypeOK, StartDaemon
<1>6. CASE Signal \/ Exit \/ Crash
  BY <1>6 DEF TypeOK, Signal, Exit, Crash
<1>7. CASE Restart
  BY <1>7, RestartTypes
<1>8. CASE UNCHANGED vars
  BY <1>8 DEF TypeOK, vars
<1> QED
  BY <1>1, <1>2, <1>3, <1>4, <1>5, <1>6, <1>7, <1>8 DEF Next

\* The variables of the pipeline always have the values the code gives them;
\* in particular the queue never outgrows QUEUE_CAPACITY and a photo is
\* downloaded at most twice (userbot.go, queue and downloadPhoto).
THEOREM TypeCorrect == Spec => []TypeOK
<1>1. Init => TypeOK
  BY InitTypes
<1>2. TypeOK /\ [Next]_vars => TypeOK'
  BY NextTypes
<1> QED
  BY <1>1, <1>2, PTL DEF Spec


----------------------------------------------------------------------------
(* The ledger and the chat *)

\* What a step leaves alone when it touches neither the pipeline nor the chat.
pipeVars == <<boot, queue, admitted, fates, task, chat, wpc>>

LEMMA IdleStep ==
  ASSUME PipelineInv, TypeOK', UNCHANGED pipeVars
  PROVE  PipelineInv'
BY DEF PipelineInv, pipeVars, Ledger, Busy, Ticket, ChatSoFar, ReplyPending,
       ChatInOrder, FateMatchesChat

\* A step of the worker that neither starts, sends nor ends a task.
LEMMA WorkStep ==
  ASSUME PipelineInv, TypeOK',
         UNCHANGED <<boot, queue, admitted, fates, task, chat>>,
         wpc # "reply", wpc' # "reply"
  PROVE  PipelineInv'
BY DEF PipelineInv, Ledger, Busy, Ticket, ChatSoFar, ReplyPending,
       ChatInOrder, FateMatchesChat

LEMMA ChatEntries ==
  ASSUME TypeOK
  PROVE  \A k \in 1..Len(chat) :
            /\ chat[k] \in [post : Posts, boot : Nat, ticket : Nat \ {0}]
            /\ chat[k].boot \in Nat
            /\ chat[k].ticket \in Nat \ {0}
<1> DEFINE Entry == [post : Posts, boot : Nat, ticket : Nat \ {0}]
<1>1. chat \in Seq(Entry)
  BY DEF TypeOK
<1> HIDE DEF Entry
<1>2. \A k \in 1..Len(chat) : chat[k] \in Entry
  BY <1>1
<1> QED
  BY <1>2 DEF Entry

\* A new process starts with an empty ledger; older messages stay older.
LEMMA RestartStep ==
  ASSUME PipelineInv, TypeOK', Restart
  PROVE  PipelineInv'
<1>1. /\ queue' = <<>> /\ admitted' = <<>> /\ fates' = <<>> /\ task' = NoPost
      /\ wpc' = "unstarted" /\ chat' = chat /\ boot' = boot + 1
  BY DEF Restart
<1>2. boot \in Nat
  BY ForwarderAssumption DEF PipelineInv, TypeOK
<1>3. \A k \in 1..Len(chat) : chat[k].boot \in Nat /\ chat[k].boot < boot'
  BY <1>1, <1>2, ChatEntries DEF PipelineInv, ChatSoFar
<1>4. Ledger'
  BY <1>1 DEF Ledger, Busy
<1>5. ChatSoFar'
  BY <1>1, <1>2, <1>3 DEF ChatSoFar
<1>6. ReplyPending'
  BY <1>1 DEF ReplyPending
<1>7. ChatInOrder'
  BY <1>1 DEF PipelineInv, ChatInOrder
<1>8. FateMatchesChat'
  BY <1>1, <1>2, <1>3 DEF FateMatchesChat
<1> QED
  BY <1>4, <1>5, <1>6, <1>7, <1>8 DEF PipelineInv

LEMMA EnqueueStep ==
  ASSUME PipelineInv, TypeOK', NEW h \in Handlers, Enqueue(h)
  PROVE  PipelineInv'
<1>1. hpost[h] \in Posts
  BY DEF Enqueue, Room, PipelineInv, TypeOK
<1>2. queue \in Seq(Posts) /\ admitted \in Seq(Posts) /\ fates \in Seq(Fates)
  BY DEF PipelineInv, TypeOK
<1>3. /\ Len(queue') = Len(queue) + 1
      /\ Len(admitted') = Len(admitted) + 1
      /\ \A i \in 1..Len(admitted) : admitted'[i] = admitted[i]
      /\ \A i \in 1..Len(queue) : queue'[i] = queue[i]
      /\ queue'[Len(queue) + 1] = hpost[h]
      /\ admitted'[Len(admitted) + 1] = hpost[h]
  BY <1>1, <1>2 DEF Enqueue, Room
<1>4. UNCHANGED <<task, fates, chat, wpc, boot>>
  BY DEF Enqueue, Room
<1>5. /\ Len(fates) \in Nat /\ Len(queue) \in Nat /\ Len(admitted) \in Nat
      /\ Busy \in {0, 1} /\ (task # NoPost => Busy = 1) /\ Busy' = Busy
  BY <1>2, <1>4 DEF Busy
<1>6. Len(admitted) = Len(fates) + Busy + Len(queue)
  BY DEF PipelineInv, Ledger
<1>7. Ledger'
  <2>1. Len(admitted') = Len(fates') + Busy' + Len(queue')
    BY <1>3, <1>4, <1>5, <1>6
  <2>2. task' # NoPost => task' = admitted'[Ticket']
    BY <1>3, <1>4, <1>5, <1>6 DEF PipelineInv, Ledger, Ticket
  <2>3. ASSUME NEW i \in 1..Len(queue')
        PROVE  queue'[i] = admitted'[Len(fates') + Busy' + i]
    <3>1. CASE i \in 1..Len(queue)
      <4>1. Len(fates) + Busy + i \in 1..Len(admitted)
        BY <3>1, <1>5, <1>6
      <4> QED
        BY <3>1, <4>1, <1>3, <1>4, <1>5 DEF PipelineInv, Ledger
    <3>2. CASE i = Len(queue) + 1
      BY <3>2, <1>3, <1>4, <1>5, <1>6
    <3> QED
      BY <3>1, <3>2, <1>3, <1>5
  <2> QED
    BY <2>1, <2>2, <2>3 DEF Ledger
<1>8. ChatSoFar' /\ ReplyPending' /\ ChatInOrder'
  BY <1>4 DEF PipelineInv, ChatSoFar, ReplyPending, ChatInOrder, Ticket
<1>9. FateMatchesChat'
  <2>1. \A i \in 1..Len(fates) : admitted'[i] = admitted[i]
    BY <1>3, <1>5, <1>6
  <2> QED
    BY <1>4, <2>1 DEF PipelineInv, FateMatchesChat
<1> QED
  BY <1>7, <1>8, <1>9 DEF PipelineInv

LEMMA TakeStep ==
  ASSUME PipelineInv, TypeOK', TakeTask
  PROVE  PipelineInv'
<1>1. queue \in Seq(Posts) /\ queue # <<>>
  BY DEF PipelineInv, TypeOK, TakeTask
<1>2. /\ task' = queue[1] /\ Len(queue') = Len(queue) - 1
      /\ \A i \in 1..Len(queue') : queue'[i] = queue[i + 1]
      /\ Len(queue) \in Nat \ {0}
  BY <1>1 DEF TakeTask
<1>3. /\ UNCHANGED <<admitted, fates, chat, boot>>
      /\ wpc = "select" /\ wpc' = "screen"
  BY DEF TakeTask
<1>4. task = NoPost /\ task' # NoPost
  BY <1>1, <1>3, ForwarderAssumption DEF PipelineInv, TypeOK, TakeTask
<1>5. Busy = 0 /\ Busy' = 1 /\ Len(fates) \in Nat
  BY <1>4 DEF Busy, PipelineInv, TypeOK
<1>6. Ledger'
  <2>1. /\ Len(admitted) = Len(fates) + Len(queue)
        /\ \A i \in 1..Len(queue) : queue[i] = admitted[Len(fates) + i]
    BY <1>2, <1>5 DEF PipelineInv, Ledger
  <2>2. \A i \in 1..Len(queue') : queue'[i] = admitted[Len(fates) + 1 + i]
    BY <2>1, <1>2, <1>5
  <2>3. task' = admitted[Len(fates) + 1]
    BY <2>1, <1>2
  <2>4. Len(admitted) = Len(fates) + 1 + Len(queue')
    BY <2>1, <1>2, <1>5
  <2> QED
    BY <2>2, <2>3, <2>4, <1>3, <1>5 DEF Ledger, Ticket
<1>7. ChatSoFar' /\ ReplyPending' /\ ChatInOrder' /\ FateMatchesChat'
  BY <1>3 DEF PipelineInv, ChatSoFar, ReplyPending, ChatInOrder,
              FateMatchesChat, Ticket
<1> QED
  BY <1>6, <1>7 DEF PipelineInv

LEMMA DeliverStep ==
  ASSUME PipelineInv, TypeOK', Deliver
  PROVE  PipelineInv'
<1> DEFINE e == [post |-> task, boot |-> boot, ticket |-> Ticket]
<1>1. /\ chat \in Seq([post : Posts, boot : Nat, ticket : Nat \ {0}])
      /\ Len(fates) \in Nat /\ boot \in Nat
  BY ForwarderAssumption DEF PipelineInv, TypeOK
<1>2. e \in [post : Posts, boot : Nat, ticket : Nat \ {0}]
  BY <1>1 DEF PipelineInv, TypeOK, Deliver, Ticket
<1>3. /\ UNCHANGED <<boot, queue, admitted, task, fates>>
      /\ wpc = "send" /\ wpc' = "reply" /\ chat' = Append(chat, e)
  BY DEF Deliver
<1>4. /\ Len(chat') = Len(chat) + 1 /\ Len(chat) \in Nat
      /\ \A k \in 1..Len(chat) : chat'[k] = chat[k]
      /\ chat'[Len(chat')] = e
  BY <1>1, <1>2, <1>3
<1>5. \A k \in 1..Len(chat) :
         /\ chat[k].boot \in Nat /\ chat[k].ticket \in Nat \ {0}
         /\ chat[k].boot <= boot
         /\ chat[k].boot = boot => chat[k].ticket <= Len(fates)
  BY <1>3, ChatEntries DEF PipelineInv, ChatSoFar
<1>6. e.boot = boot /\ e.ticket = Len(fates) + 1
  BY DEF Ticket
<1> HIDE DEF e
<1>7. \A k \in 1..Len(chat') : k \in 1..Len(chat) \/ k = Len(chat')
  BY <1>4
<1>8. Ledger'
  BY <1>3 DEF PipelineInv, Ledger, Busy, Ticket
<1>9. ChatSoFar'
  <2> SUFFICES ASSUME NEW k \in 1..Len(chat')
               PROVE  /\ chat'[k].boot <= boot'
                      /\ chat'[k].boot = boot' =>
                            \/ chat'[k].ticket <= Len(fates')
                            \/ wpc' = "reply" /\ chat'[k].ticket = Ticket'
    BY DEF ChatSoFar
  <2>1. Ticket' = Len(fates) + 1
    BY <1>3 DEF Ticket
  <2>2. CASE k \in 1..Len(chat)
    BY <2>2, <1>3, <1>4, <1>5
  <2>3. CASE k = Len(chat')
    BY <2>1, <2>3, <1>1, <1>3, <1>4, <1>6
  <2> QED
    BY <2>2, <2>3, <1>7
<1>10. ReplyPending'
  BY <1>3, <1>4 DEF ReplyPending, Ticket, e
<1>11. ChatInOrder'
  <2> SUFFICES ASSUME NEW i \in 1..Len(chat'), NEW j \in 1..Len(chat'), i < j
               PROVE  \/ chat'[i].boot < chat'[j].boot
                      \/ /\ chat'[i].boot = chat'[j].boot
                         /\ chat'[i].ticket < chat'[j].ticket
    BY DEF ChatInOrder
  <2>1. i \in 1..Len(chat)
    BY <1>4
  <2>2. CASE j \in 1..Len(chat)
    BY <2>1, <2>2, <1>4 DEF PipelineInv, ChatInOrder
  <2>3. CASE j = Len(chat')
    <3>1. chat'[j] = e /\ chat'[i] = chat[i]
      BY <2>1, <2>3, <1>4
    <3>2. \/ chat[i].boot < boot
          \/ chat[i].boot = boot /\ chat[i].ticket < Len(fates) + 1
      <4>1. /\ chat[i].boot \in Nat /\ chat[i].ticket \in Nat
            /\ chat[i].boot <= boot
            /\ chat[i].boot = boot => chat[i].ticket <= Len(fates)
        BY <2>1, <1>5
      <4>2. boot \in Nat /\ Len(fates) \in Nat
        BY <1>1
      <4> QED
        BY <4>1, <4>2
    <3> QED
      BY <3>1, <3>2, <1>6
  <2> QED
    BY <2>2, <2>3, <1>7
<1>12. FateMatchesChat'
  <2>1. ASSUME NEW i \in 1..Len(fates'), fates'[i] = "forwarded"
        PROVE  \E k \in 1..Len(chat') :
                  chat'[k] = [post |-> admitted'[i], boot |-> boot', ticket |-> i]
    <3>1. PICK k \in 1..Len(chat) :
             chat[k] = [post |-> admitted[i], boot |-> boot, ticket |-> i]
      BY <2>1, <1>3 DEF PipelineInv, FateMatchesChat
    <3> QED
      BY <3>1, <1>3, <1>4
  <2>2. ASSUME NEW k \in 1..Len(chat'),
               chat'[k].boot = boot', chat'[k].ticket <= Len(fates')
        PROVE  fates'[chat'[k].ticket] \in {"forwarded", "failed"}
    <3>1. k # Len(chat')
      BY <2>2, <1>1, <1>3, <1>4, <1>6
    <3> QED
      BY <2>2, <3>1, <1>3, <1>4, <1>7 DEF PipelineInv, FateMatchesChat
  <2> QED
    BY <2>1, <2>2 DEF FateMatchesChat
<1> QED
  BY <1>8, <1>9, <1>10, <1>11, <1>12 DEF PipelineInv

\* process returning with the given fate, whichever branch it takes.
LEMMA SettleStep ==
  ASSUME PipelineInv, TypeOK', task # NoPost,
         NEW f \in Fates, Settle(f), UNCHANGED chat,
         f = "forwarded" => wpc = "reply",
         wpc = "reply" => f \in {"forwarded", "failed"}
  PROVE  PipelineInv'
<1>1. fates \in Seq(Fates) /\ Len(fates) \in Nat /\ boot \in Nat
  BY ForwarderAssumption DEF PipelineInv, TypeOK
<1>2. /\ UNCHANGED <<boot, queue, admitted, chat>>
      /\ task' = NoPost /\ wpc' = "select" /\ fates' = Append(fates, f)
  BY DEF Settle
<1>3. /\ Len(fates') = Len(fates) + 1
      /\ \A i \in 1..Len(fates) : fates'[i] = fates[i]
      /\ fates'[Len(fates) + 1] = f
  BY <1>1, <1>2
<1>4. Busy = 1 /\ Busy' = 0 /\ Ticket = Len(fates) + 1
  BY <1>2 DEF Busy, Ticket
<1>5. task = admitted[Ticket]
  BY DEF PipelineInv, Ledger
<1>6. Ledger'
  BY <1>1, <1>2, <1>3, <1>4 DEF PipelineInv, Ledger
<1>7. \A k \in 1..Len(chat) : chat[k].boot \in Nat /\ chat[k].ticket \in Nat \ {0}
  BY ChatEntries DEF PipelineInv
<1>8. ChatSoFar'
  BY <1>1, <1>2, <1>3, <1>4, <1>7 DEF PipelineInv, ChatSoFar
<1>9. ReplyPending' /\ ChatInOrder'
  BY <1>2 DEF PipelineInv, ReplyPending, ChatInOrder
<1>10. FateMatchesChat'
  <2>1. ASSUME NEW i \in 1..Len(fates'), fates'[i] = "forwarded"
        PROVE  \E k \in 1..Len(chat') :
                  chat'[k] = [post |-> admitted'[i], boot |-> boot', ticket |-> i]
    <3>1. CASE i \in 1..Len(fates)
      BY <2>1, <3>1, <1>2, <1>3 DEF PipelineInv, FateMatchesChat
    <3>2. CASE i = Len(fates) + 1
      <4>1. wpc = "reply"
        BY <2>1, <3>2, <1>3
      <4> QED
        BY <4>1, <3>2, <1>2, <1>4, <1>5 DEF PipelineInv, ReplyPending
    <3> QED
      BY <3>1, <3>2, <1>1, <1>3
  <2>2. ASSUME NEW k \in 1..Len(chat'),
               chat'[k].boot = boot', chat'[k].ticket <= Len(fates')
        PROVE  fates'[chat'[k].ticket] \in {"forwarded", "failed"}
    <3>1. /\ chat[k].boot = boot /\ chat[k].ticket \in Nat \ {0}
          /\ chat'[k] = chat[k] /\ k \in 1..Len(chat)
      BY <2>2, <1>2, <1>7
    <3>2. CASE chat[k].ticket <= Len(fates)
      <4>1. fates[chat[k].ticket] \in {"forwarded", "failed"}
        BY <3>1, <3>2 DEF PipelineInv, FateMatchesChat
      <4>2. chat[k].ticket \in 1..Len(fates)
        BY <3>1, <3>2, <1>1 DEF PipelineInv
      <4> QED
        BY <4>1, <4>2, <3>1, <1>3
    <3>3. CASE wpc = "reply" /\ chat[k].ticket = Ticket
      BY <3>1, <3>3, <1>3, <1>4
    <3> QED
      BY <3>1, <3>2, <3>3 DEF PipelineInv, ChatSoFar
  <2> QED
    BY <2>1, <2>2 DEF FateMatchesChat
<1> QED
  BY <1>6, <1>8, <1>9, <1>10 DEF PipelineInv

LEMMA WorkerStepKeeps ==
  ASSUME PipelineInv, TypeOK', WorkerStep
  PROVE  PipelineInv'
<1>1. wpc \in {"screen", "download", "refresh", "send", "reply"} => task # NoPost
  BY DEF PipelineInv, TypeOK
<1>2. CASE TakeTask
  BY <1>2, TakeStep
<1>3. CASE StopWorker
  BY <1>3, WorkStep DEF StopWorker
<1>4. CASE SkipEmpty \/ FilterOut \/ SkipQuiet
  BY <1>1, <1>4, SettleStep DEF SkipEmpty, FilterOut, SkipQuiet, Fates
<1>5. CASE PassGate
  BY <1>5, WorkStep DEF PassGate
<1>6. CASE DownloadOk \/ ReferenceExpired \/ RefreshOk
  BY <1>6, WorkStep DEF DownloadOk, ReferenceExpired, RefreshOk
<1>7. CASE DownloadFailed \/ RefreshFailed \/ SendFailed
  BY <1>1, <1>7, SettleStep DEF DownloadFailed, RefreshFailed, SendFailed, Fates
<1>8. CASE FatalRegistryAccess
  BY <1>8, IdleStep DEF FatalRegistryAccess, pipeVars
<1>9. CASE Deliver
  BY <1>9, DeliverStep
<1>10. CASE SendOk \/ AnswerLost
  BY <1>1, <1>10, SettleStep DEF SendOk, AnswerLost, Fates
<1> QED
  BY <1>2, <1>3, <1>4, <1>5, <1>6, <1>7, <1>8, <1>9, <1>10 DEF WorkerStep

LEMMA HandlerStepKeeps ==
  ASSUME PipelineInv, TypeOK', NEW h \in Handlers, HandlerStep(h)
  PROVE  PipelineInv'
<1>1. ASSUME NEW p \in Posts, ReceiveUpdate(h, p) PROVE PipelineInv'
  BY <1>1, IdleStep DEF ReceiveUpdate, pipeVars
<1>2. CASE CheckSeen(h)
  BY <1>2, IdleStep DEF CheckSeen, pipeVars
<1>3. CASE BeginInsert(h) \/ EndInsert(h) \/ FatalMapAccess(h) \/ Drop(h)
  BY <1>3, IdleStep DEF BeginInsert, EndInsert, FatalMapAccess, Drop, pipeVars
<1>4. CASE Enqueue(h)
  BY <1>4, EnqueueStep
<1> QED
  BY <1>1, <1>2, <1>3, <1>4 DEF HandlerStep

LEMMA PipelineStep ==
  ASSUME PipelineInv, [Next]_vars
  PROVE  PipelineInv'
<1> TypeOK'
  BY NextTypes DEF PipelineInv
<1>1. ASSUME NEW v \in BOOLEAN, SetActive(v) PROVE PipelineInv'
  BY <1>1, IdleStep DEF SetActive, pipeVars
<1>2. ASSUME NEW c \in Channels, AddChannel(c) \/ RemoveChannel(c)
      PROVE  PipelineInv'
  BY <1>2, IdleStep DEF AddChannel, RemoveChannel, pipeVars
<1>3. ASSUME NEW h \in Handlers, HandlerStep(h) PROVE PipelineInv'
  BY <1>3, HandlerStepKeeps
<1>4. CASE WorkerStep
  BY <1>4, WorkerStepKeeps
<1>5. CASE StartDaemon
  BY <1>5, WorkStep DEF StartDaemon
<1>6. CASE Signal \/ Exit \/ Crash
  BY <1>6, IdleStep DEF Signal, Exit, Crash, pipeVars
<1>7. CASE Restart
  BY <1>7, RestartStep
<1>8. CASE UNCHANGED vars
  BY <1>8, IdleStep DEF vars, pipeVars
<1> QED
  BY <1>1, <1>2, <1>3, <1>4, <1>5, <1>6, <1>7, <1>8 DEF Next

\* The pipeline's inductive invariant holds in every reachable state.
THEOREM PipelineCorrect == Spec => []PipelineInv
<1>1. Init => PipelineInv
  <2> SUFFICES ASSUME Init PROVE PipelineInv
    OBVIOUS
  <2>1. TypeOK
    BY InitTypes
  <2>2. Ledger
    BY DEF Init, Ledger, Busy
  <2>3. ChatSoFar /\ ReplyPending /\ ChatInOrder /\ FateMatchesChat
    BY DEF Init, ChatSoFar, ReplyPending, ChatInOrder, FateMatchesChat
  <2> QED
    BY <2>1, <2>2, <2>3 DEF PipelineInv
<1>2. PipelineInv /\ [Next]_vars => PipelineInv'
  BY PipelineStep
<1> QED
  BY <1>1, <1>2, PTL DEF Spec

\* Nothing that was admitted to the queue is lost, doubled or overtaken before
\* the worker has dealt with it (userbot.go, handleMessage to process).
THEOREM LedgerCorrect == Spec => []Ledger
<1>1. PipelineInv => Ledger
  BY DEF PipelineInv
<1> QED
  BY <1>1, PipelineCorrect, PTL

\* One admission shows at most one message, in the order of admission
\* (userbot.go process, across restarts of the process).
THEOREM ChatCorrect == Spec => []ChatInOrder
<1>1. PipelineInv => ChatInOrder
  BY DEF PipelineInv
<1> QED
  BY <1>1, PipelineCorrect, PTL

\* The posts that process counts as forwarded are backed by messages in the
\* chat, and a message of this process stands for a post that was sent.
THEOREM FateCorrect == Spec => []FateMatchesChat
<1>1. PipelineInv => FateMatchesChat
  BY DEF PipelineInv
<1> QED
  BY <1>1, PipelineCorrect, PTL

----------------------------------------------------------------------------
(* The gate *)

\* GateWitnessed together with what the worker knows before the gate: if the
\* alert is on while it holds a task, it has been seen on.
GateInv ==
    /\ TypeOK
    /\ GateWitnessed
    /\ task # NoPost /\ alert => sawAlert

LEMMA GateStep ==
  ASSUME GateInv, [Next]_vars
  PROVE  GateInv'
<1> TypeOK'
  BY NextTypes DEF GateInv
<1> USE DEF GateInv, GateWitnessed
<1>1. CASE UNCHANGED <<wpc, task, alert, sawAlert>>
  BY <1>1 DEF Sendable
<1>2. ASSUME NEW v \in BOOLEAN, SetActive(v) PROVE GateInv'
  <2>1. UNCHANGED <<wpc, task>> /\ (sawAlert => sawAlert')
    BY <1>2 DEF SetActive
  <2>2. task' # NoPost /\ alert' => sawAlert'
    BY <1>2 DEF SetActive
  <2> QED
    BY <2>1, <2>2 DEF Sendable
<1>3. ASSUME NEW c \in Channels, AddChannel(c) \/ RemoveChannel(c)
      PROVE  GateInv'
  BY <1>1, <1>3 DEF AddChannel, RemoveChannel
<1>4. ASSUME NEW h \in Handlers, HandlerStep(h) PROVE GateInv'
  <2>1. UNCHANGED <<wpc, task, alert, sawAlert>>
    BY <1>4 DEF HandlerStep, ReceiveUpdate, CheckSeen, BeginInsert, EndInsert,
                FatalMapAccess, Enqueue, Drop
  <2> QED
    BY <2>1, <1>1
<1>5. CASE WorkerStep
  <2>1. CASE TakeTask
    BY <2>1 DEF TakeTask
  <2>2. CASE StopWorker
    BY <2>2 DEF StopWorker
  <2>3. ASSUME NEW f \in Fates, Settle(f) PROVE GateInv'
    BY <2>3 DEF Settle
  <2>4. CASE PassGate
    BY <2>4 DEF PassGate, GateOpen, Sendable, TypeOK
  <2>5. CASE DownloadOk \/ ReferenceExpired \/ RefreshOk \/ Deliver
    <3>1. /\ wpc \in {"download", "refresh", "send"}
          /\ UNCHANGED <<task, alert, sawAlert>>
      BY <2>5 DEF DownloadOk, ReferenceExpired, RefreshOk, Deliver
    <3> QED
      BY <3>1 DEF Sendable
  <2>6. CASE FatalRegistryAccess
    BY <2>6, <1>1 DEF FatalRegistryAccess
  <2>7. CASE \/ SkipEmpty \/ FilterOut \/ SkipQuiet \/ DownloadFailed
             \/ RefreshFailed \/ SendOk \/ AnswerLost \/ SendFailed
    <3>1. \E f \in Fates : Settle(f)
      BY <2>7 DEF SkipEmpty, FilterOut, SkipQuiet, DownloadFailed,
                  RefreshFailed, SendOk, AnswerLost, SendFailed, Fates
    <3> QED
      BY <3>1, <2>3
  <2> QED
    BY <1>5, <2>1, <2>2, <2>4, <2>5, <2>6, <2>7 DEF WorkerStep
<1>6. CASE StartDaemon
  BY <1>6 DEF StartDaemon
<1>7. CASE Signal \/ Exit \/ Crash
  BY <1>1, <1>7 DEF Signal, Exit, Crash
<1>8. CASE Restart
  BY <1>8 DEF Restart
<1>9. CASE UNCHANGED vars
  BY <1>1, <1>9 DEF vars
<1> QED
  BY <1>2, <1>3, <1>4, <1>5, <1>6, <1>7, <1>8, <1>9 DEF Next

\* A post is downloaded and sent only if the alert was on at some moment after
\* the worker took it from the queue, or FORCE_ALERT is set.
THEOREM GateCorrect == Spec => []GateWitnessed
<1>1. Init => GateInv
  BY InitTypes DEF Init, GateInv, GateWitnessed
<1>2. GateInv /\ [Next]_vars => GateInv'
  BY GateStep
<1>3. GateInv => GateWitnessed
  BY DEF GateInv
<1> QED
  BY <1>1, <1>2, <1>3, PTL DEF Spec

----------------------------------------------------------------------------
(* Deduplication *)

\* Why one handler never admits a post twice: what was admitted or dropped is
\* marked, a handler on its way to the mark holds an unmarked post, and one
\* past it holds a post whose fate is still open.
DedupeInv ==
    /\ TypeOK
    /\ \A i \in 1..Len(admitted) : admitted[i] \in seen
    /\ dropped \subseteq seen
    /\ \A h \in Handlers :
          /\ hpc[h] \in {"insert", "writing"} => hpost[h] \notin seen
          /\ hpc[h] = "enqueue" =>
                /\ hpost[h] \in seen \ dropped
                /\ \A i \in 1..Len(admitted) : admitted[i] # hpost[h]
    /\ \A i, j \in 1..Len(admitted) : admitted[i] = admitted[j] => i = j
    /\ \A i \in 1..Len(admitted) : admitted[i] \notin dropped

LEMMA DedupeHandlerStep ==
  ASSUME DedupeInv, TypeOK', NEW h \in Handlers, HandlerStep(h),
         \A g \in Handlers : g = h
  PROVE  DedupeInv'
<1>1. /\ hpc \in [Handlers -> {"idle", "check", "insert", "writing", "enqueue"}]
      /\ hpost \in [Handlers -> Posts \cup {NoPost}]
      /\ admitted \in Seq(Posts)
  BY DEF DedupeInv, TypeOK
<1>2. ~OtherWriter(h)
  BY DEF OtherWriter
<1>3. ASSUME NEW p \in Posts, ReceiveUpdate(h, p) PROVE DedupeInv'
  BY <1>1, <1>3 DEF ReceiveUpdate, DedupeInv
<1>4. CASE CheckSeen(h)
  <2>1. SeenAnswers(h) = {hpost[h] \in seen}
    BY <1>2 DEF SeenAnswers
  <2> QED
    BY <1>1, <1>4, <2>1 DEF CheckSeen, DedupeInv
<1>5. CASE BeginInsert(h)
  BY <1>1, <1>5 DEF BeginInsert, DedupeInv
<1>6. CASE EndInsert(h)
  BY <1>1, <1>6 DEF EndInsert, DedupeInv
<1>7. CASE FatalMapAccess(h)
  BY <1>2, <1>7 DEF FatalMapAccess
<1>8. CASE Enqueue(h)
  <2>1. /\ hpost[h] \in Posts /\ hpost[h] \in seen \ dropped
        /\ \A i \in 1..Len(admitted) : admitted[i] # hpost[h]
    BY <1>8 DEF Enqueue, Room, DedupeInv, TypeOK
  <2>2. /\ Len(admitted') = Len(admitted) + 1
        /\ \A i \in 1..Len(admitted) : admitted'[i] = admitted[i]
        /\ admitted'[Len(admitted) + 1] = hpost[h]
    BY <1>1, <1>8, <2>1 DEF Enqueue, Room
  <2>3. UNCHANGED <<seen, dropped>> /\ \A g \in Handlers : hpc'[g] = "idle"
    BY <1>1, <1>8 DEF Enqueue, Room
  <2>4. \A i \in 1..Len(admitted') :
           i \in 1..Len(admitted) \/ i = Len(admitted) + 1
    BY <1>1, <2>2
  <2>5. \A i, j \in 1..Len(admitted') : admitted'[i] = admitted'[j] => i = j
    BY <2>1, <2>2, <2>4 DEF DedupeInv
  <2> QED
    BY <2>1, <2>2, <2>3, <2>4, <2>5 DEF DedupeInv
<1>9. CASE Drop(h)
  BY <1>1, <1>9 DEF Drop, Room, DedupeInv, TypeOK
<1> QED
  BY <1>3, <1>4, <1>5, <1>6, <1>7, <1>8, <1>9 DEF HandlerStep

LEMMA DedupeStep ==
  ASSUME DedupeInv, [Next]_vars, \A g, h \in Handlers : g = h
  PROVE  DedupeInv'
<1> TypeOK'
  BY NextTypes DEF DedupeInv
<1>1. CASE UNCHANGED <<admitted, seen, dropped, hpc, hpost>>
  BY <1>1 DEF DedupeInv
<1>2. ASSUME NEW v \in BOOLEAN, SetActive(v) PROVE DedupeInv'
  BY <1>1, <1>2 DEF SetActive
<1>3. ASSUME NEW c \in Channels, AddChannel(c) \/ RemoveChannel(c)
      PROVE  DedupeInv'
  BY <1>1, <1>3 DEF AddChannel, RemoveChannel
<1>4. ASSUME NEW h \in Handlers, HandlerStep(h) PROVE DedupeInv'
  BY <1>4, DedupeHandlerStep
<1>5. CASE WorkerStep
  <2>1. ASSUME NEW f \in Fates, Settle(f) PROVE DedupeInv'
    BY <1>1, <2>1 DEF Settle
  <2>2. CASE \/ SkipEmpty \/ FilterOut \/ SkipQuiet \/ DownloadFailed
             \/ RefreshFailed \/ SendOk \/ AnswerLost \/ SendFailed
    <3>1. \E f \in Fates : Settle(f)
      BY <2>2 DEF SkipEmpty, FilterOut, SkipQuiet, DownloadFailed,
                  RefreshFailed, SendOk, AnswerLost, SendFailed, Fates
    <3> QED
      BY <3>1, <2>1
  <2>3. CASE \/ TakeTask \/ StopWorker \/ PassGate \/ DownloadOk
             \/ ReferenceExpired \/ RefreshOk \/ FatalRegistryAccess \/ Deliver
    BY <1>1, <2>3 DEF TakeTask, StopWorker, PassGate, DownloadOk,
       ReferenceExpired, RefreshOk, FatalRegistryAccess, Deliver
  <2> QED
    BY <1>5, <2>2, <2>3 DEF WorkerStep
<1>6. CASE StartDaemon
  BY <1>1, <1>6 DEF StartDaemon
<1>7. CASE Signal \/ Exit \/ Crash
  BY <1>1, <1>7 DEF Signal, Exit, Crash
<1>8. CASE Restart
  BY <1>8 DEF Restart, DedupeInv
<1>9. CASE UNCHANGED vars
  BY <1>1, <1>9 DEF vars
<1> QED
  BY <1>2, <1>3, <1>4, <1>5, <1>6, <1>7, <1>8, <1>9 DEF Next

\* When updates are handled one after the other, no process admits a post
\* twice or admits one it dropped (userbot.go, the seen map).
THEOREM DedupeCorrect == Spec => []SequentialDedupe
<1>1. CASE \A g, h \in Handlers : g = h
  <2>1. Init => DedupeInv
    BY InitTypes DEF Init, DedupeInv
  <2>2. DedupeInv /\ [Next]_vars => DedupeInv'
    BY <1>1, DedupeStep
  <2>3. DedupeInv => SequentialDedupe
    BY DEF DedupeInv, SequentialDedupe
  <2> QED
    BY <2>1, <2>2, <2>3, PTL DEF Spec
<1>2. CASE ~(\A g, h \in Handlers : g = h)
  <2>1. Init => SequentialDedupe
    BY <1>2 DEF SequentialDedupe
  <2>2. SequentialDedupe /\ [Next]_vars => SequentialDedupe'
    BY <1>2 DEF SequentialDedupe
  <2> QED
    BY <2>1, <2>2, PTL DEF Spec
<1> QED
  BY <1>1, <1>2

----------------------------------------------------------------------------
(* What the chat shows *)

OneByOne == \A g, h \in Handlers : g = h

\* While updates are handled one after the other, no post appears in the chat
\* twice from one process: seen, the queue, failed downloads and failed sends
\* together never repeat it (userbot.go handleMessage and process).
ShownOnce ==
    OneByOne =>
        \A i, j \in 1..Len(chat) :
            chat[i].boot = chat[j].boot /\ chat[i].post = chat[j].post => i = j

\* Nothing appears that the filters reject or that has no text left, in this
\* process or an earlier one (userbot.go process).
ChatScreened == \A k \in 1..Len(chat) : Sendable(chat[k].post)

\* A message of this process shows the post that was admitted under its ticket.
ChatAdmitted ==
    \A k \in 1..Len(chat) : chat[k].boot = boot =>
        /\ chat[k].ticket \in 1..Len(admitted)
        /\ chat[k].post = admitted[chat[k].ticket]

ShownInv == ChatAdmitted /\ ShownOnce /\ ChatScreened

\* The steps that these three can notice.
LEMMA ShownSteps ==
  ASSUME [Next]_vars
  PROVE  \/ Deliver \/ Restart \/ \E h \in Handlers : Enqueue(h)
         \/ UNCHANGED <<chat, boot, admitted>>
<1>1. ASSUME NEW h \in Handlers, HandlerStep(h)
      PROVE  Enqueue(h) \/ UNCHANGED <<chat, boot, admitted>>
  BY <1>1 DEF HandlerStep, ReceiveUpdate, CheckSeen, BeginInsert, EndInsert,
              FatalMapAccess, Drop
<1>2. CASE WorkerStep
  BY <1>2 DEF WorkerStep, TakeTask, StopWorker, PassGate, DownloadOk, ReferenceExpired,
              RefreshOk, FatalRegistryAccess, SkipEmpty, FilterOut, SkipQuiet,
              DownloadFailed, RefreshFailed, SendOk, AnswerLost, SendFailed, Settle
<1>3. CASE \/ \E v \in BOOLEAN : SetActive(v)
           \/ \E c \in Channels : AddChannel(c) \/ RemoveChannel(c)
           \/ StartDaemon \/ Signal \/ Exit \/ Crash \/ UNCHANGED vars
  BY <1>3 DEF SetActive, AddChannel, RemoveChannel, StartDaemon, Signal, Exit, Crash, vars
<1> QED
  BY <1>1, <1>2, <1>3 DEF Next

\* The message that Deliver shows is of an admission not yet in the chat.
LEMMA ShownDeliver ==
  ASSUME PipelineInv, SequentialDedupe, GateWitnessed, ShownInv, Deliver
  PROVE  ShownInv'
<1> DEFINE e == [post |-> task, boot |-> boot, ticket |-> Ticket]
<1>1. /\ UNCHANGED <<boot, admitted>> /\ wpc = "send" /\ chat' = Append(chat, e)
  BY DEF Deliver
<1>2. /\ chat \in Seq([post : Posts, boot : Nat, ticket : Nat \ {0}])
      /\ Len(fates) \in Nat /\ Len(queue) \in Nat /\ Len(admitted) \in Nat
      /\ task # NoPost
  BY <1>1 DEF PipelineInv, TypeOK
<1>3. /\ Len(chat') = Len(chat) + 1 /\ Len(chat) \in Nat
      /\ \A k \in 1..Len(chat) : chat'[k] = chat[k]
      /\ chat'[Len(chat')] = e
      /\ \A k \in 1..Len(chat') : k \in 1..Len(chat) \/ k = Len(chat')
  BY <1>1, <1>2
<1>4. Ticket \in 1..Len(admitted) /\ task = admitted[Ticket] /\ Ticket = Len(fates) + 1
  BY <1>2 DEF PipelineInv, Ledger, Busy, Ticket
<1>5. e.post = task /\ e.boot = boot /\ e.ticket = Ticket
  OBVIOUS
<1> HIDE DEF e
<1>6. ChatAdmitted'
  BY <1>1, <1>3, <1>4, <1>5 DEF ShownInv, ChatAdmitted
<1>7. ChatScreened'
  BY <1>1, <1>3, <1>5 DEF ShownInv, ChatScreened, GateWitnessed, Sendable
<1>8. ShownOnce'
  <2> SUFFICES ASSUME OneByOne PROVE ShownOnce'
    BY DEF ShownOnce, OneByOne
  <2>1. \A i, j \in 1..Len(admitted) : admitted[i] = admitted[j] => i = j
    BY DEF SequentialDedupe, OneByOne
  <2>2. ASSUME NEW i \in 1..Len(chat), chat[i].boot = boot PROVE chat[i].post # task
    <3>1. chat[i].ticket <= Len(fates) /\ chat[i].ticket \in Nat
      BY <1>1, <2>2, ChatEntries DEF PipelineInv, ChatSoFar
    <3>2. chat[i].ticket \in 1..Len(admitted) /\ chat[i].post = admitted[chat[i].ticket]
      BY <2>2 DEF ShownInv, ChatAdmitted
    <3>3. chat[i].ticket # Ticket
      BY <1>2, <1>4, <3>1
    <3> QED
      BY <1>4, <2>1, <3>2, <3>3
  <2>3. \A i, j \in 1..Len(chat) :
           chat[i].boot = chat[j].boot /\ chat[i].post = chat[j].post => i = j
    BY DEF ShownInv, ShownOnce
  <2> QED
    BY <1>3, <1>5, <2>2, <2>3 DEF ShownOnce
<1> QED
  BY <1>6, <1>7, <1>8 DEF ShownInv

LEMMA ShownStep ==
  ASSUME PipelineInv, SequentialDedupe, GateWitnessed, ShownInv, [Next]_vars
  PROVE  ShownInv'
<1>1. CASE UNCHANGED <<chat, boot, admitted>>
  BY <1>1 DEF ShownInv, ChatAdmitted, ShownOnce, OneByOne, ChatScreened, Sendable
<1>2. ASSUME NEW h \in Handlers, Enqueue(h) PROVE ShownInv'
  <2>1. /\ UNCHANGED <<chat, boot>> /\ admitted' = Append(admitted, hpost[h])
        /\ admitted \in Seq(Posts)
    BY <1>2 DEF Enqueue, PipelineInv, TypeOK
  <2>2. /\ \A i \in 1..Len(admitted) : i \in 1..Len(admitted') /\ admitted'[i] = admitted[i]
    BY <2>1
  <2> QED
    BY <2>1, <2>2 DEF ShownInv, ChatAdmitted, ShownOnce, OneByOne, ChatScreened, Sendable
<1>3. CASE Restart
  <2>1. UNCHANGED chat /\ boot' = boot + 1
    BY <1>3 DEF Restart
  <2>2. boot \in Nat
    BY ForwarderAssumption DEF PipelineInv, TypeOK
  <2>3. \A k \in 1..Len(chat) : chat[k].boot \in Nat /\ chat[k].boot <= boot
    BY ChatEntries DEF PipelineInv, ChatSoFar
  <2>4. \A k \in 1..Len(chat) : chat[k].boot # boot'
    BY <2>1, <2>2, <2>3
  <2> QED
    BY <2>1, <2>4 DEF ShownInv, ChatAdmitted, ShownOnce, OneByOne, ChatScreened, Sendable
<1>4. CASE Deliver
  BY <1>4, ShownDeliver
<1> QED
  BY <1>1, <1>2, <1>3, <1>4, ShownSteps

LEMMA ShownAlways == Spec => []ShownInv
<1>1. Init => ShownInv
  BY DEF Init, ShownInv, ChatAdmitted, ShownOnce, ChatScreened
<1>2. PipelineInv /\ SequentialDedupe /\ GateWitnessed /\ ShownInv /\ [Next]_vars => ShownInv'
  BY ShownStep
<1> QED
  BY <1>1, <1>2, PipelineCorrect, DedupeCorrect, GateCorrect, PTL DEF Spec

\* From one process no post appears twice in the chat if updates are handled
\* one after the other: what the seen map is for (userbot.go handleMessage).
THEOREM ShownOnceCorrect == Spec => []ShownOnce
<1>1. ShownInv => ShownOnce
  BY DEF ShownInv
<1> QED
  BY <1>1, ShownAlways, PTL

\* What appears in the chat has passed the filters, whatever happened between
\* the filters and the send (userbot.go process).
THEOREM ScreenedCorrect == Spec => []ChatScreened
<1>1. ShownInv => ChatScreened
  BY DEF ShownInv
<1> QED
  BY <1>1, ShownAlways, PTL

----------------------------------------------------------------------------
(* The counters *)

With(fate) == {i \in 1..Len(fates) : fates[i] = fate}

\* The counter is the number of posts that ended as forwarded.
CountInv == stats.forwarded = Cardinality(With("forwarded"))

LEMMA FateSets ==
  ASSUME TypeOK, NEW f
  PROVE  IsFiniteSet(With(f)) /\ Cardinality(With(f)) \in Nat
<1>1. IsFiniteSet(1..Len(fates)) /\ With(f) \in SUBSET (1..Len(fates))
  BY FS_Interval DEF TypeOK, With
<1> QED
  BY <1>1, FS_Subset, FS_CardinalityType

LEMMA SettleCounts ==
  ASSUME TypeOK, CountInv, NEW f \in Fates, Settle(f)
  PROVE  CountInv'
<1>1. fates \in Seq(Fates) /\ Len(fates) \in Nat
  BY DEF TypeOK
<1>2. /\ Len(fates') = Len(fates) + 1
      /\ \A i \in 1..Len(fates) : fates'[i] = fates[i]
      /\ fates'[Len(fates) + 1] = f
  BY <1>1 DEF Settle
<1>3. /\ stats' = IF f = "failed" THEN stats ELSE [stats EXCEPT ![f] = @ + 1]
      /\ stats \in [{"forwarded", "skipped", "filtered"} -> Nat]
  BY DEF Settle, TypeOK
<1>4. \A i \in 1..Len(fates') : i \in 1..Len(fates) \/ i = Len(fates) + 1
  BY <1>1, <1>2
<1>5. \A i \in 1..Len(fates) : i \in 1..Len(fates')
  BY <1>1, <1>2
<1>6. Len(fates) + 1 \notin With("forwarded") /\ Len(fates) + 1 \in 1..Len(fates')
  BY <1>1, <1>2 DEF With
<1>7. CASE f = "forwarded"
  <2>1. With("forwarded")' = With("forwarded") \cup {Len(fates) + 1}
    BY <1>2, <1>4, <1>5, <1>6, <1>7 DEF With
  <2>2. Cardinality(With("forwarded")') = Cardinality(With("forwarded")) + 1
    BY <1>6, <2>1, FateSets, FS_AddElement
  <2>3. stats'.forwarded = stats.forwarded + 1
    BY <1>3, <1>7
  <2> QED
    BY <2>2, <2>3 DEF CountInv
<1>8. CASE f # "forwarded"
  <2>1. With("forwarded")' = With("forwarded")
    BY <1>2, <1>4, <1>5, <1>8 DEF With
  <2>2. stats'.forwarded = stats.forwarded
    BY <1>3, <1>8 DEF Fates
  <2> QED
    BY <2>1, <2>2 DEF CountInv
<1> QED
  BY <1>7, <1>8

\* A step of the worker settles a task or leaves fates and counters alone.
LEMMA WorkerSettles ==
  ASSUME WorkerStep
  PROVE  (\E f \in Fates : Settle(f)) \/ UNCHANGED <<fates, stats>>
BY DEF WorkerStep, TakeTask, StopWorker, SkipEmpty, FilterOut, SkipQuiet, PassGate,
       DownloadOk, ReferenceExpired, DownloadFailed, RefreshOk, RefreshFailed,
       FatalRegistryAccess, Deliver, SendOk, AnswerLost, SendFailed, Fates

LEMMA CountStep ==
  ASSUME TypeOK, CountInv, [Next]_vars
  PROVE  CountInv'
<1>1. CASE UNCHANGED <<fates, stats>>
  BY <1>1 DEF CountInv, With
<1>2. CASE WorkerStep
  BY <1>1, <1>2, WorkerSettles, SettleCounts
<1>3. CASE Restart
  <2>1. stats'.forwarded = 0 /\ Len(fates') = 0
    BY <1>3 DEF Restart
  <2>2. With("forwarded")' = {}
    BY <2>1 DEF With
  <2> QED
    BY <2>1, <2>2, FS_EmptySet DEF CountInv
<1>4. ASSUME NEW h \in Handlers, HandlerStep(h) PROVE CountInv'
  BY <1>1, <1>4 DEF HandlerStep, ReceiveUpdate, CheckSeen, BeginInsert, EndInsert,
                    FatalMapAccess, Enqueue, Drop
<1>5. ASSUME NEW v \in BOOLEAN, SetActive(v) PROVE CountInv'
  BY <1>1, <1>5 DEF SetActive
<1>6. ASSUME NEW c \in Channels, AddChannel(c) \/ RemoveChannel(c) PROVE CountInv'
  BY <1>1, <1>6 DEF AddChannel, RemoveChannel
<1>7. CASE StartDaemon \/ Signal \/ Exit \/ Crash \/ UNCHANGED vars
  BY <1>1, <1>7 DEF StartDaemon, Signal, Exit, Crash, vars
<1> QED
  BY <1>2, <1>3, <1>4, <1>5, <1>6, <1>7 DEF Next

\* The messages of this process.
Shows == {k \in 1..Len(chat) : chat[k].boot = boot}

LEMMA ShowSets ==
  ASSUME TypeOK
  PROVE  IsFiniteSet(Shows) /\ Cardinality(Shows) \in Nat
<1>1. Len(chat) \in Nat
  <2> DEFINE Entry == [post : Posts, boot : Nat, ticket : Nat \ {0}]
  <2>1. chat \in Seq(Entry)
    BY DEF TypeOK
  <2> HIDE DEF Entry
  <2> QED
    BY <2>1
<1>2. IsFiniteSet(1..Len(chat)) /\ Shows \in SUBSET (1..Len(chat))
  BY <1>1, FS_Interval DEF Shows
<1> QED
  BY <1>2, FS_Subset, FS_CardinalityType

\* Every post that counts as forwarded has a message of its own.
LEMMA ForwardedShown ==
  ASSUME PipelineInv
  PROVE  Cardinality(With("forwarded")) <= Cardinality(Shows)
<1> DEFINE Of(i, k) == chat[k] = [post |-> admitted[i], boot |-> boot, ticket |-> i]
           g == [i \in With("forwarded") |-> CHOOSE k \in 1..Len(chat) : Of(i, k)]
<1>1. ASSUME NEW i \in With("forwarded")
      PROVE  g[i] \in Shows /\ chat[g[i]].ticket = i
  <2>1. \E k \in 1..Len(chat) : Of(i, k)
    BY DEF With, PipelineInv, FateMatchesChat
  <2>2. g[i] \in 1..Len(chat) /\ Of(i, g[i])
    BY <2>1
  <2> HIDE DEF g
  <2> QED
    BY <2>2 DEF Shows
<1>2. g \in [With("forwarded") -> Shows]
  BY <1>1
<1> HIDE DEF g
<1>3. g \in Injection(With("forwarded"), Shows)
  BY <1>1, <1>2 DEF Injection, IsInjective
<1>4. IsFiniteSet(Shows)
  BY ShowSets DEF PipelineInv
<1> QED
  BY <1>3, <1>4, FS_Injection

\* Every message stands for a post that counts as forwarded, for one whose send
\* failed, or for the one whose answer the worker awaits.
LEMMA ShownAccounted ==
  ASSUME PipelineInv
  PROVE  Cardinality(Shows) <=
            Cardinality(With("forwarded")) + Cardinality(With("failed")) + Busy
<1> DEFINE F == With("forwarded")
           X == With("failed")
           T == IF wpc = "reply" THEN {Ticket} ELSE {}
           f == [k \in Shows |-> chat[k].ticket]
<1>1. /\ IsFiniteSet(F) /\ Cardinality(F) \in Nat
      /\ IsFiniteSet(X) /\ Cardinality(X) \in Nat
  BY FateSets DEF PipelineInv
<1>2. IsFiniteSet(T) /\ Cardinality(T) = IF wpc = "reply" THEN 1 ELSE 0
  BY FS_EmptySet, FS_Singleton
<1>3. Cardinality(T) <= Busy /\ Cardinality(T) \in Nat /\ Busy \in Nat
  <2>1. (IF wpc = "reply" THEN 1 ELSE 0) <= Busy /\ Busy \in Nat
    BY DEF PipelineInv, TypeOK, Busy
  <2>2. (IF wpc = "reply" THEN 1 ELSE 0) \in Nat
    OBVIOUS
  <2> HIDE DEF T
  <2> QED
    BY <1>2, <2>1, <2>2
<1>4. ASSUME NEW k \in Shows
      PROVE  chat[k].ticket \in (F \cup X) \cup T
  <2>1. k \in 1..Len(chat) /\ chat[k].boot = boot /\ chat[k].ticket \in Nat \ {0}
    BY ChatEntries DEF PipelineInv, Shows
  <2>2. CASE chat[k].ticket <= Len(fates)
    <3>1. chat[k].ticket \in 1..Len(fates)
      <4>1. Len(fates) \in Nat
        BY DEF PipelineInv, TypeOK
      <4> QED
        BY <2>1, <2>2, <4>1
    <3>2. fates[chat[k].ticket] \in {"forwarded", "failed"}
      BY <2>1, <2>2 DEF PipelineInv, FateMatchesChat
    <3> QED
      BY <3>1, <3>2 DEF With
  <2>3. CASE wpc = "reply" /\ chat[k].ticket = Ticket
    BY <2>3
  <2> QED
    BY <2>1, <2>2, <2>3 DEF PipelineInv, ChatSoFar
<1>5. ASSUME NEW j \in Shows, NEW k \in Shows, chat[j].ticket = chat[k].ticket
      PROVE  j = k
  <2>1. /\ j \in 1..Len(chat) /\ k \in 1..Len(chat)
        /\ chat[j].boot = boot /\ chat[k].boot = boot /\ boot \in Nat
        /\ chat[j].ticket \in Nat /\ chat[k].ticket \in Nat
    BY ChatEntries DEF PipelineInv, Shows
  <2>2. ~(j < k) /\ ~(k < j)
    BY <1>5, <2>1 DEF PipelineInv, ChatInOrder
  <2> QED
    BY <2>1, <2>2
<1> HIDE DEF F, X, T
<1>6. f \in [Shows -> (F \cup X) \cup T]
  BY <1>4
<1>7. \A j, k \in Shows : f[j] = f[k] => j = k
  BY <1>5
<1> HIDE DEF f
<1>8. f \in Injection(Shows, (F \cup X) \cup T)
  BY <1>6, <1>7 DEF Injection, IsInjective
<1>9. /\ IsFiniteSet(F \cup X) /\ Cardinality(F \cup X) \in Nat
      /\ Cardinality(F \cup X) <= Cardinality(F) + Cardinality(X)
  <2>1. /\ IsFiniteSet(F \cup X)
        /\ Cardinality(F \cup X) = Cardinality(F) + Cardinality(X) - Cardinality(F \cap X)
    BY <1>1, FS_Union
  <2>2. Cardinality(F \cap X) \in Nat
    BY <1>1, FS_Intersection, FS_CardinalityType
  <2>3. Cardinality(F \cup X) \in Nat
    BY <2>1, FS_CardinalityType
  <2> QED
    BY <1>1, <2>1, <2>2, <2>3
<1>10. /\ IsFiniteSet((F \cup X) \cup T)
       /\ Cardinality((F \cup X) \cup T) \in Nat
       /\ Cardinality((F \cup X) \cup T) <= Cardinality(F \cup X) + Cardinality(T)
  <2>1. /\ IsFiniteSet((F \cup X) \cup T)
        /\ Cardinality((F \cup X) \cup T) =
              Cardinality(F \cup X) + Cardinality(T) - Cardinality((F \cup X) \cap T)
    BY <1>2, <1>9, FS_Union
  <2>2. Cardinality((F \cup X) \cap T) \in Nat
    BY <1>2, <1>9, FS_Intersection, FS_CardinalityType
  <2>3. Cardinality((F \cup X) \cup T) \in Nat /\ Cardinality(T) \in Nat
    BY <1>2, <2>1, FS_CardinalityType
  <2> QED
    BY <1>9, <2>1, <2>2, <2>3
<1>11. Cardinality(Shows) <= Cardinality((F \cup X) \cup T)
  BY <1>8, <1>10, FS_Injection
<1>12. Cardinality(Shows) \in Nat
  BY ShowSets DEF PipelineInv
<1>13. Cardinality(Shows) <= Cardinality(F) + Cardinality(X) + Busy
  BY <1>1, <1>3, <1>9, <1>10, <1>11, <1>12
<1> QED
  BY <1>13 DEF F, X

\* The heartbeat's forwarded counter (userbot.go, process and heartbeat) agrees
\* with the chat up to the sends whose answer was lost: it never counts a post
\* that was not shown, and what it misses failed or is under way.
THEOREM CountersCorrect == Spec => []StatsAddUp
<1>1. Init => CountInv
  <2> SUFFICES ASSUME Init PROVE CountInv
    OBVIOUS
  <2>1. stats.forwarded = 0 /\ Len(fates) = 0
    BY DEF Init
  <2>2. With("forwarded") = {}
    BY <2>1 DEF With
  <2> QED
    BY <2>1, <2>2, FS_EmptySet DEF CountInv
<1>2. PipelineInv /\ CountInv /\ [Next]_vars => CountInv'
  BY CountStep DEF PipelineInv
<1>3. PipelineInv /\ CountInv => StatsAddUp
  BY ForwardedShown, ShownAccounted DEF CountInv, StatsAddUp, Shows, With
<1> QED
  BY <1>1, <1>2, <1>3, PipelineCorrect, PTL DEF Spec

----------------------------------------------------------------------------
(* Channels that are no longer monitored *)

\* The three places where InFlight finds posts of channel c.
Held(c) == {h \in Handlers : hpost[h] # NoPost /\ ChannelOf[hpost[h]] = c}
Queued(c) == {i \in 1..Len(queue) : ChannelOf[queue[i]] = c}
InHand(c) == IF task # NoPost /\ ChannelOf[task] = c THEN 1 ELSE 0

LEMMA FlightSets ==
  ASSUME TypeOK, NEW c
  PROVE  /\ InFlight(c) = Cardinality(Held(c)) + Cardinality(Queued(c)) + InHand(c)
         /\ IsFiniteSet(Held(c)) /\ Cardinality(Held(c)) \in Nat
         /\ IsFiniteSet(Queued(c)) /\ Cardinality(Queued(c)) \in Nat
         /\ InHand(c) \in {0, 1}
<1>1. Held(c) \in SUBSET Handlers /\ IsFiniteSet(Handlers)
  BY ForwarderAssumption DEF Held
<1>2. Queued(c) \in SUBSET (1..Len(queue)) /\ IsFiniteSet(1..Len(queue))
  <2>1. Len(queue) \in Int
    BY DEF TypeOK
  <2>2. IsFiniteSet(1..Len(queue))
    BY <2>1, FS_Interval
  <2> QED
    BY <2>2 DEF Queued
<1> QED
  BY <1>1, <1>2, FS_Subset, FS_CardinalityType DEF InFlight, Held, Queued, InHand

\* A step that brings no post of c into any of the places.
LEMMA Shrinks ==
  ASSUME TypeOK, TypeOK', NEW c, Held(c)' \subseteq Held(c),
         Cardinality(Queued(c)') <= Cardinality(Queued(c)), InHand(c)' <= InHand(c)
  PROVE  InFlight(c)' <= InFlight(c)
<1>1. Cardinality(Held(c)') <= Cardinality(Held(c))
  BY FlightSets, FS_Subset
<1>2. /\ InFlight(c) = Cardinality(Held(c)) + Cardinality(Queued(c)) + InHand(c)
      /\ {Cardinality(Held(c)), Cardinality(Queued(c)), InHand(c)} \subseteq Nat
  BY FlightSets
<1>3. /\ InFlight(c)' = Cardinality(Held(c)') + Cardinality(Queued(c)') + InHand(c)'
      /\ {Cardinality(Held(c)'), Cardinality(Queued(c)'), InHand(c)'} \subseteq Nat
  <2>1. (/\ InFlight(c) = Cardinality(Held(c)) + Cardinality(Queued(c)) + InHand(c)
         /\ IsFiniteSet(Held(c)) /\ Cardinality(Held(c)) \in Nat
         /\ IsFiniteSet(Queued(c)) /\ Cardinality(Queued(c)) \in Nat
         /\ InHand(c) \in {0, 1})'
    BY FlightSets, PTL
  <2> QED
    BY <2>1
<1> QED
  BY <1>1, <1>2, <1>3

LEMMA SameQueue ==
  ASSUME TypeOK, NEW c, UNCHANGED queue
  PROVE  Cardinality(Queued(c)') <= Cardinality(Queued(c))
<1>1. Queued(c)' = Queued(c)
  BY DEF Queued
<1> QED
  BY <1>1, FlightSets

\* The queue without its first task: the others move up by one.
LEMMA TailCounts ==
  ASSUME TypeOK, NEW c, queue # <<>>, queue' = Tail(queue)
  PROVE  IF ChannelOf[Head(queue)] = c
         THEN Cardinality(Queued(c)') = Cardinality(Queued(c)) - 1
         ELSE Cardinality(Queued(c)') = Cardinality(Queued(c))
<1> DEFINE up == [i \in Queued(c)' |-> i + 1]
<1>1. /\ Len(queue) \in Nat \ {0} /\ Head(queue) = queue[1]
      /\ Len(queue') = Len(queue) - 1
      /\ \A i \in 1..Len(queue') : queue'[i] = queue[i + 1]
  BY DEF TypeOK
<1>2. /\ Queued(c) \ {1} \subseteq Queued(c)
      /\ \A j \in Queued(c) : j \in Nat /\ 1 <= j
      /\ \A i \in Queued(c)' : i \in Nat /\ 1 <= i
  BY <1>1 DEF Queued
<1>3. ASSUME NEW i \in Queued(c)' PROVE i + 1 \in Queued(c) \ {1}
  <2>1. i \in 1..Len(queue') /\ ChannelOf[queue'[i]] = c
    BY DEF Queued
  <2>2. i + 1 \in 1..Len(queue) /\ i + 1 # 1
    BY <1>1, <2>1
  <2> QED
    BY <1>1, <2>1, <2>2 DEF Queued
<1>4. ASSUME NEW j \in Queued(c) \ {1} PROVE j - 1 \in Queued(c)' /\ (j - 1) + 1 = j
  <2>1. j \in 1..Len(queue) /\ ChannelOf[queue[j]] = c /\ j # 1
    BY DEF Queued
  <2>2. j - 1 \in 1..Len(queue') /\ (j - 1) + 1 = j
    BY <1>1, <2>1
  <2>3. queue'[j - 1] = queue[j]
    BY <1>1, <2>2
  <2> QED
    BY <2>1, <2>2, <2>3 DEF Queued
<1>5. up \in [Queued(c)' -> Queued(c) \ {1}]
  BY <1>3
<1>6. \A i, j \in Queued(c)' : up[i] = up[j] => i = j
  BY <1>2
<1>7. \A j \in Queued(c) \ {1} : \E i \in Queued(c)' : up[i] = j
  BY <1>4
<1> HIDE DEF up
<1>8. up \in Surjection(Queued(c)', Queued(c) \ {1}) /\ up \in Injection(Queued(c)', Queued(c) \ {1})
  BY <1>5, <1>6, <1>7 DEF Injection, IsInjective, Surjection
<1>9. IsFiniteSet(Queued(c)) /\ IsFiniteSet(Queued(c) \ {1}) /\ Cardinality(Queued(c)) \in Nat
  BY FlightSets, FS_Subset
<1>10. Cardinality(Queued(c)') = Cardinality(Queued(c) \ {1})
  BY <1>8, <1>9, FS_Injection
<1>11. 1 \in Queued(c) <=> ChannelOf[Head(queue)] = c
  BY <1>1 DEF Queued
<1> QED
  BY <1>9, <1>10, <1>11, FS_RemoveElement

\* A handler gives a post to the queue.
LEMMA EnqueueMoves ==
  ASSUME TypeOK, TypeOK', NEW c, NEW h \in Handlers, Enqueue(h)
  PROVE  InFlight(c)' <= InFlight(c)
<1>1. /\ hpost[h] \in Posts /\ hpost[h] # NoPost
      /\ queue' = Append(queue, hpost[h]) /\ hpost' = [hpost EXCEPT ![h] = NoPost]
      /\ UNCHANGED task
  BY ForwarderAssumption DEF Enqueue, Room, TypeOK
<1>2. /\ Len(queue) \in Nat /\ Len(queue') = Len(queue) + 1
      /\ \A i \in 1..Len(queue) : queue'[i] = queue[i]
      /\ queue'[Len(queue) + 1] = hpost[h]
  <2>1. queue \in Seq(Posts)
    BY DEF TypeOK
  <2> QED
    BY <1>1, <2>1
<1>3. \A i \in 1..Len(queue') : i \in 1..Len(queue) \/ i = Len(queue) + 1
  BY <1>2
<1>4. /\ \A i \in 1..Len(queue) : i \in 1..Len(queue')
      /\ Len(queue) + 1 \in 1..Len(queue') /\ Len(queue) + 1 \notin Queued(c)
  BY <1>2 DEF Queued
<1>5. hpost \in [Handlers -> Posts \cup {NoPost}]
  BY DEF TypeOK
<1>6. Held(c)' = Held(c) \ {h}
  BY <1>1, <1>5 DEF Held
<1>7. InHand(c)' = InHand(c)
  BY <1>1 DEF InHand
<1>8. CASE ChannelOf[hpost[h]] = c
  <2>1. Queued(c)' = Queued(c) \cup {Len(queue) + 1} /\ h \in Held(c)
    BY <1>1, <1>2, <1>3, <1>4, <1>8 DEF Queued, Held
  <2>2. Cardinality(Queued(c)') = Cardinality(Queued(c)) + 1
    BY <1>4, <2>1, FlightSets, FS_AddElement
  <2>3. Cardinality(Held(c)') = Cardinality(Held(c)) - 1
    BY <1>6, <2>1, FlightSets, FS_RemoveElement
  <2>4. InFlight(c)' = Cardinality(Held(c)') + Cardinality(Queued(c)') + InHand(c)'
    BY DEF InFlight, Held, Queued, InHand
  <2>5. /\ InFlight(c) = Cardinality(Held(c)) + Cardinality(Queued(c)) + InHand(c)
        /\ {Cardinality(Held(c)), Cardinality(Queued(c)), InHand(c)} \subseteq Nat
    BY FlightSets
  <2> QED
    BY <1>7, <2>2, <2>3, <2>4, <2>5
<1>9. CASE ChannelOf[hpost[h]] # c
  <2>1. Queued(c)' = Queued(c)
    BY <1>2, <1>3, <1>4, <1>9 DEF Queued
  <2>2. Cardinality(Queued(c)') <= Cardinality(Queued(c)) /\ InHand(c)' <= InHand(c)
    BY <1>7, <2>1, FlightSets
  <2> QED
    BY <1>6, <2>2, Shrinks
<1> QED
  BY <1>8, <1>9

\* The worker takes a task from the queue.
LEMMA TakeMoves ==
  ASSUME TypeOK, TypeOK', NEW c, TakeTask
  PROVE  InFlight(c)' <= InFlight(c)
<1>1. /\ queue # <<>> /\ queue' = Tail(queue) /\ task' = Head(queue)
      /\ wpc = "select" /\ UNCHANGED hpost
  BY DEF TakeTask
<1>2. InHand(c) = 0 /\ task' # NoPost
  <2>1. task = NoPost
    BY <1>1 DEF TypeOK
  <2>2. Head(queue) \in Posts
    <3>1. queue \in Seq(Posts)
      BY DEF TypeOK
    <3> QED
      BY <1>1, <3>1
  <2> QED
    BY <1>1, <2>1, <2>2, ForwarderAssumption DEF InHand
<1>3. Held(c)' = Held(c)
  BY <1>1 DEF Held
<1>4. /\ InFlight(c) = Cardinality(Held(c)) + Cardinality(Queued(c)) + InHand(c)
      /\ {Cardinality(Held(c)), Cardinality(Queued(c)), InHand(c)} \subseteq Nat
  BY FlightSets
<1>5. InFlight(c)' = Cardinality(Held(c)') + Cardinality(Queued(c)') + InHand(c)'
  BY DEF InFlight, Held, Queued, InHand
<1>6. CASE ChannelOf[Head(queue)] = c
  <2>1. InHand(c)' = 1
    BY <1>1, <1>2, <1>6 DEF InHand
  <2>2. Cardinality(Queued(c)') = Cardinality(Queued(c)) - 1
    BY <1>1, <1>6, TailCounts
  <2> QED
    BY <1>2, <1>3, <1>4, <1>5, <2>1, <2>2
<1>7. CASE ChannelOf[Head(queue)] # c
  <2>1. InHand(c)' = 0
    BY <1>1, <1>7 DEF InHand
  <2>2. Cardinality(Queued(c)') = Cardinality(Queued(c))
    BY <1>1, <1>7, TailCounts
  <2> QED
    BY <1>2, <1>3, <1>4, <1>5, <2>1, <2>2
<1> QED
  BY <1>6, <1>7

LEMMA DrainStep ==
  ASSUME TypeOK, TypeOK', [Next]_vars, NEW c \in Channels, c \notin sources
  PROVE  InFlight(c)' <= InFlight(c)
<1>0. /\ hpost \in [Handlers -> Posts \cup {NoPost}]
      /\ \A h \in Handlers : hpc[h] = "idle" <=> hpost[h] = NoPost
      /\ InHand(c) \in {0, 1}
  BY FlightSets DEF TypeOK
<1>1. CASE UNCHANGED <<hpost, queue, task>>
  <2>1. Held(c)' \subseteq Held(c) /\ InHand(c)' <= InHand(c)
    BY <1>0, <1>1 DEF Held, InHand
  <2> QED
    BY <1>1, <2>1, SameQueue, Shrinks
<1>2. ASSUME Held(c)' \subseteq Held(c), UNCHANGED <<queue, task>>
      PROVE  InFlight(c)' <= InFlight(c)
  <2>1. InHand(c)' <= InHand(c)
    BY <1>0, <1>2 DEF InHand
  <2> QED
    BY <1>2, <2>1, SameQueue, Shrinks
<1>3. ASSUME UNCHANGED <<hpost, queue>>, task' = NoPost
      PROVE  InFlight(c)' <= InFlight(c)
  <2>1. InHand(c)' <= InHand(c) /\ Held(c)' \subseteq Held(c)
    BY <1>0, <1>3 DEF InHand, Held
  <2> QED
    BY <1>3, <2>1, SameQueue, Shrinks
<1>4. ASSUME NEW h \in Handlers, HandlerStep(h) PROVE InFlight(c)' <= InFlight(c)
  <2>1. ASSUME NEW p \in Posts, ReceiveUpdate(h, p) PROVE InFlight(c)' <= InFlight(c)
    <3>1. /\ ChannelOf[p] # c /\ hpost' = [hpost EXCEPT ![h] = p]
          /\ UNCHANGED <<queue, task>>
      BY <2>1 DEF ReceiveUpdate, Monitored
    <3> QED
      BY <1>0, <1>2, <3>1 DEF Held
  <2>2. CASE CheckSeen(h) \/ Drop(h)
    <3>1. /\ \A g \in Handlers : hpost'[g] = hpost[g] \/ hpost'[g] = NoPost
          /\ UNCHANGED <<queue, task>>
      BY <1>0, <2>2 DEF CheckSeen, Drop
    <3> QED
      BY <1>2, <3>1 DEF Held
  <2>3. CASE BeginInsert(h) \/ EndInsert(h) \/ FatalMapAccess(h)
    BY <1>1, <2>3 DEF BeginInsert, EndInsert, FatalMapAccess
  <2>4. CASE Enqueue(h)
    BY <2>4, EnqueueMoves
  <2> QED
    BY <1>4, <2>1, <2>2, <2>3, <2>4 DEF HandlerStep
<1>5. CASE WorkerStep
  <2>1. CASE TakeTask
    BY <2>1, TakeMoves
  <2>2. CASE \/ StopWorker \/ PassGate \/ DownloadOk \/ ReferenceExpired
             \/ RefreshOk \/ FatalRegistryAccess \/ Deliver
    BY <1>1, <2>2 DEF StopWorker, PassGate, DownloadOk, ReferenceExpired, RefreshOk,
                      FatalRegistryAccess, Deliver
  <2>3. CASE \/ SkipEmpty \/ FilterOut \/ SkipQuiet \/ DownloadFailed
             \/ RefreshFailed \/ SendOk \/ AnswerLost \/ SendFailed
    <3>1. UNCHANGED <<hpost, queue>> /\ task' = NoPost
      BY <2>3 DEF SkipEmpty, FilterOut, SkipQuiet, DownloadFailed,
                  RefreshFailed, SendOk, AnswerLost, SendFailed, Settle
    <3> QED
      BY <1>3, <3>1
  <2> QED
    BY <1>5, <2>1, <2>2, <2>3 DEF WorkerStep
<1>6. CASE Restart
  <2>1. /\ hpost' = [h \in Handlers |-> NoPost] /\ queue' = <<>> /\ task' = NoPost
    BY <1>6 DEF Restart
  <2>2. Held(c)' = {} /\ Queued(c)' = {} /\ InHand(c)' = 0
    BY <2>1 DEF Held, Queued, InHand
  <2>3. Cardinality(Queued(c)') <= Cardinality(Queued(c))
    BY <2>2, FlightSets, FS_EmptySet
  <2> QED
    BY <1>0, <2>2, <2>3, Shrinks
<1>7. CASE \/ \E v \in BOOLEAN : SetActive(v)
           \/ \E d \in Channels : AddChannel(d) \/ RemoveChannel(d)
           \/ StartDaemon \/ Signal \/ Exit \/ Crash \/ UNCHANGED vars
  BY <1>1, <1>7 DEF SetActive, AddChannel, RemoveChannel, StartDaemon, Signal, Exit,
                    Crash, vars
<1> QED
  BY <1>4, <1>5, <1>6, <1>7 DEF Next

\* After RemoveChannel has returned, posts of the channel that were looked up
\* before it are still forwarded, but there is an end to them (userbot.go,
\* RemoveChannel and handleMessage): no handler, queue or restart adds one.
THEOREM DrainCorrect == Spec => RemovedChannelDrains
<1>1. /\ TypeOK /\ TypeOK' /\ [Next]_vars
      => [\A c \in Channels :
             c \notin sources /\ c \notin sources' => InFlight(c)' <= InFlight(c)]_vars
  BY DrainStep
<1> QED
  BY <1>1, TypeCorrect, PTL DEF Spec, RemovedChannelDrains

----------------------------------------------------------------------------
(* The pipeline implements Relay *)

\* The refinement mapping, by name.
Line == IF ~Alive THEN <<>>
        ELSE IF task = NoPost THEN queue ELSE <<task>> \o queue
Shown == Alive /\ wpc = "reply"
Log == [i \in 1..Len(chat) |-> chat[i].post]

LEMMA Cons ==
  ASSUME NEW S, NEW t \in S, NEW q \in Seq(S)
  PROVE  /\ <<t>> \o q \in Seq(S)
         /\ <<t>> \o q # <<>>
         /\ Len(<<t>> \o q) = Len(q) + 1
         /\ Head(<<t>> \o q) = t
         /\ Tail(<<t>> \o q) = q
         /\ \A x \in S : <<t>> \o Append(q, x) = Append(<<t>> \o q, x)
OBVIOUS

LEMMA Uncons ==
  ASSUME NEW S, NEW q \in Seq(S), q # <<>>
  PROVE  Head(q) \in S /\ Tail(q) \in Seq(S) /\ q = <<Head(q)>> \o Tail(q)
OBVIOUS

\* Steps of Relay in terms of the mapping.
AdmitStep(p) ==
    /\ Len(Line) < QueueCapacity + 1
    /\ Line' = Append(Line, p)
    /\ UNCHANGED <<Shown, Log>>
ShowStep ==
    /\ Line # <<>> /\ ~Shown
    /\ Log' = Append(Log, Head(Line))
    /\ Shown' /\ UNCHANGED Line
LeaveStep ==
    /\ Line # <<>>
    /\ Line' = Tail(Line)
    /\ ~Shown' /\ UNCHANGED Log
LoseStep == Line' = <<>> /\ ~Shown' /\ UNCHANGED Log
StillStep == UNCHANGED <<Line, Shown, Log>>

RelayStep ==
    \/ \E p \in Posts : AdmitStep(p)
    \/ ShowStep
    \/ LeaveStep
    \/ LoseStep
    \/ StillStep

\* A step that only moves the worker within a task, or touches none of this.
LEMMA StillSteps ==
  ASSUME UNCHANGED <<queue, task, chat, Alive>>,
         (wpc = "reply") = (wpc' = "reply")
  PROVE  StillStep
BY DEF StillStep, Line, Shown, Log

LEMMA LoseSteps ==
  ASSUME life' = "exited", UNCHANGED chat
  PROVE  LoseStep
BY DEF LoseStep, Line, Shown, Log, Alive

LEMMA SettleSteps ==
  ASSUME TypeOK, Alive, task # NoPost, NEW f \in Fates, Settle(f), UNCHANGED chat
  PROVE  LeaveStep
<1>1. task \in Posts /\ queue \in Seq(Posts)
  BY DEF TypeOK
<1>2. task' = NoPost /\ wpc' = "select" /\ UNCHANGED <<life, queue, chat>>
  BY DEF Settle
<1>3. Line = <<task>> \o queue /\ Line' = queue
  BY <1>2 DEF Line, Alive
<1> QED
  BY <1>1, <1>2, <1>3, Cons DEF LeaveStep, Shown, Log

LEMMA DeliverShows ==
  ASSUME TypeOK, Deliver
  PROVE  ShowStep
<1>1. task \in Posts /\ queue \in Seq(Posts) /\ task # NoPost
  BY ForwarderAssumption DEF TypeOK, Deliver
<1>2. /\ chat' = Append(chat, [post |-> task, boot |-> boot, ticket |-> Ticket])
      /\ wpc = "send" /\ wpc' = "reply" /\ Alive
      /\ UNCHANGED <<life, queue, task>>
  BY DEF Deliver
<1>3. Line = <<task>> \o queue /\ Line' = Line
  BY <1>1, <1>2 DEF Line, Alive
<1>4. Log' = Append(Log, task)
  <2> DEFINE Entry == [post : Posts, boot : Nat, ticket : Nat \ {0}]
             e == [post |-> task, boot |-> boot, ticket |-> Ticket]
  <2>1. chat \in Seq(Entry)
    BY DEF TypeOK
  <2>2. e.post = task
    OBVIOUS
  <2> HIDE DEF Entry, e
  <2>3. /\ Len(chat') = Len(chat) + 1 /\ Len(chat) \in Nat
        /\ \A i \in 1..Len(chat) : chat'[i] = chat[i]
        /\ chat'[Len(chat) + 1] = e
    BY <1>2, <2>1 DEF e
  <2>4. Log' = [i \in 1..(Len(chat) + 1) |-> chat'[i].post]
    BY <2>3 DEF Log
  <2>5. Len(Log) = Len(chat) /\ \A i \in 1..Len(chat) : Log[i] = chat[i].post
    BY <2>3 DEF Log
  <2>6. Append(Log, task) = [i \in 1..(Len(chat) + 1) |->
                                IF i \in 1..Len(chat) THEN Log[i] ELSE task]
    BY <2>3, <2>5 DEF Log
  <2> QED
    BY <2>2, <2>3, <2>4, <2>5, <2>6
<1> QED
  BY <1>1, <1>2, <1>3, <1>4, Cons DEF ShowStep, Shown, Alive

LEMMA EnqueueAdmits ==
  ASSUME TypeOK, NEW h \in Handlers, Enqueue(h)
  PROVE  \E p \in Posts : AdmitStep(p)
<1>1. /\ hpost[h] \in Posts /\ queue \in Seq(Posts) /\ Len(queue) < QueueCapacity
      /\ queue' = Append(queue, hpost[h]) /\ Alive
      /\ UNCHANGED <<life, task, chat, wpc>>
  BY DEF TypeOK, Enqueue, Room
<1>2. task \in Posts \cup {NoPost} /\ QueueCapacity \in Nat /\ Len(queue) \in Nat
  BY <1>1, ForwarderAssumption DEF TypeOK
<1>3. Line' = Append(Line, hpost[h]) /\ Len(Line) < QueueCapacity + 1
  <2>1. CASE task = NoPost
    BY <2>1, <1>1, <1>2 DEF Line, Alive
  <2>2. CASE task # NoPost
    <3>1. Line = <<task>> \o queue /\ Line' = <<task>> \o Append(queue, hpost[h])
      BY <2>2, <1>1 DEF Line, Alive
    <3> QED
      BY <2>2, <3>1, <1>1, <1>2, Cons
  <2> QED
    BY <2>1, <2>2
<1>4. UNCHANGED <<Shown, Log>>
  BY <1>1 DEF Shown, Log, Alive
<1> QED
  BY <1>1, <1>3, <1>4 DEF AdmitStep

LEMMA TakeIsStill ==
  ASSUME TypeOK, TakeTask
  PROVE  StillStep
<1>1. /\ queue \in Seq(Posts) /\ queue # <<>> /\ Alive
      /\ task' = Head(queue) /\ queue' = Tail(queue)
      /\ wpc = "select" /\ wpc' = "screen"
      /\ UNCHANGED <<life, chat>>
  BY DEF TypeOK, TakeTask
<1>2. task = NoPost
  BY <1>1 DEF TypeOK
<1>3. task' # NoPost /\ queue = <<task'>> \o queue'
  BY <1>1, Uncons, ForwarderAssumption
<1> QED
  BY <1>1, <1>2, <1>3 DEF StillStep, Line, Shown, Log, Alive

LEMMA NextRelays ==
  ASSUME TypeOK, TypeOK', [Next]_vars
  PROVE  RelayStep
<1>1. CASE \E v \in BOOLEAN : SetActive(v)
  BY <1>1, StillSteps DEF SetActive, RelayStep, Alive
<1>2. CASE \E c \in Channels : AddChannel(c) \/ RemoveChannel(c)
  BY <1>2, StillSteps DEF AddChannel, RemoveChannel, RelayStep, Alive
<1>3. ASSUME NEW h \in Handlers, HandlerStep(h) PROVE RelayStep
  <2>1. CASE \/ \E p \in Posts : ReceiveUpdate(h, p)
             \/ CheckSeen(h) \/ BeginInsert(h) \/ EndInsert(h) \/ Drop(h)
    BY <2>1, StillSteps DEF ReceiveUpdate, CheckSeen, BeginInsert, EndInsert,
                            Drop, RelayStep, Alive
  <2>2. CASE FatalMapAccess(h)
    BY <2>2, LoseSteps DEF FatalMapAccess, RelayStep
  <2>3. CASE Enqueue(h)
    BY <2>3, EnqueueAdmits DEF RelayStep
  <2> QED
    BY <1>3, <2>1, <2>2, <2>3 DEF HandlerStep
<1>4. CASE WorkerStep
  <2>1. CASE TakeTask
    BY <2>1, TakeIsStill DEF RelayStep
  <2>2. CASE StopWorker \/ PassGate \/ DownloadOk \/ ReferenceExpired \/ RefreshOk
    BY <2>2, StillSteps DEF StopWorker, PassGate, DownloadOk, ReferenceExpired,
                            RefreshOk, RelayStep, Alive
  <2>3. CASE \/ SkipEmpty \/ FilterOut \/ SkipQuiet \/ DownloadFailed
             \/ RefreshFailed \/ SendOk \/ AnswerLost \/ SendFailed
    <3>1. Alive /\ UNCHANGED chat /\ \E f \in Fates : Settle(f)
      BY <2>3 DEF SkipEmpty, FilterOut, SkipQuiet, DownloadFailed,
                  RefreshFailed, SendOk, AnswerLost, SendFailed, Fates
    <3>2. task # NoPost
      BY <2>3 DEF SkipEmpty, FilterOut, SkipQuiet, DownloadFailed, TypeOK,
                  RefreshFailed, SendOk, AnswerLost, SendFailed
    <3> QED
      BY <3>1, <3>2, SettleSteps DEF RelayStep
  <2>4. CASE FatalRegistryAccess
    BY <2>4, LoseSteps DEF FatalRegistryAccess, RelayStep
  <2>5. CASE Deliver
    BY <2>5, DeliverShows DEF RelayStep
  <2> QED
    BY <1>4, <2>1, <2>2, <2>3, <2>4, <2>5 DEF WorkerStep
<1>5. CASE StartDaemon
  BY <1>5, StillSteps DEF StartDaemon, RelayStep, Alive
<1>6. CASE Signal
  BY <1>6, StillSteps DEF Signal, RelayStep, Alive
<1>7. CASE Exit \/ Crash
  BY <1>7, LoseSteps DEF Exit, Crash, RelayStep
<1>8. CASE Restart
  BY <1>8 DEF Restart, RelayStep, StillStep, Line, Shown, Log, Alive
<1>9. CASE UNCHANGED vars
  BY <1>9, StillSteps DEF vars, RelayStep, Alive
<1> QED
  BY <1>1, <1>2, <1>3, <1>4, <1>5, <1>6, <1>7, <1>8, <1>9 DEF Next

\* Whatever the interleaving of handlers, worker, commands and crashes, what
\* happens to the posts is a behaviour of Relay: the chat shows each admitted
\* post at most once, in line, and a post leaves the line only from its front
\* or with the process.
THEOREM ImplementsRelay == Spec => RelaySafe
<1>1. Init => R!RelayInit
  <2> SUFFICES ASSUME Init PROVE Line = <<>> /\ Shown = FALSE /\ Log = <<>>
    BY DEF R!RelayInit, Line, Shown, Log
  <2> QED
    BY DEF Init, Line, Shown, Log, Alive
<1>2. TypeOK /\ TypeOK' /\ [Next]_vars => [R!RelayNext]_(R!rvars)
  <2> SUFFICES ASSUME TypeOK, TypeOK', [Next]_vars
               PROVE  [R!RelayNext]_(R!rvars)
    OBVIOUS
  <2>1. RelayStep
    BY NextRelays
  <2> QED
    BY <2>1 DEF RelayStep, AdmitStep, ShowStep, LeaveStep, LoseStep, StillStep,
       Line, Shown, Log, R!RelayNext, R!Admit, R!Show, R!Leave, R!Lose, R!rvars
<1> QED
  BY <1>1, <1>2, TypeCorrect, PTL DEF Spec, RelaySafe, R!RelaySafe
=========
