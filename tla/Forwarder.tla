----------------------------- MODULE Forwarder -----------------------------
(***************************************************************************)
(* The forwarding pipeline of internal/telegram/userbot.go: update handlers *)
(* that admit channel posts to a bounded queue, the worker goroutine that   *)
(* screens, downloads and sends them, the registry of monitored channels    *)
(* and the Kyiv alert flag they read, and the life of the process.          *)
(*                                                                         *)
(* Abstractions.  A post is a model value with a channel and a class (what  *)
(* the signature remover and the filters make of it).  The registry is      *)
(* reduced to the set of monitored channels; the three maps of the code     *)
(* always have the same keys.  The alert flag is driven by an environment   *)
(* (NeptunClient models the real one) and a send is delivered or not and    *)
(* reported or not (BotPost models the HTTP retries).  The custom signature *)
(* changes a post's text only and is left to the signature store.           *)
(***************************************************************************)
EXTENDS Integers, Sequences, FiniteSets

CONSTANTS
    Posts,          \* <channel, message id> keys of the posts
    Channels,       \* channels that can be monitored
    ChannelOf,      \* the channel of a post
    Class,          \* what RemoveSignature and the filters make of a post
    Forwards,       \* posts forwarded from another channel (fwdChannelID # 0)
    Handlers,       \* goroutines in which the MTProto client runs handleMessage
    QueueCapacity,  \* QUEUE_CAPACITY
    ForceAlert,     \* FORCE_ALERT
    NoPost,         \* "no post in hand"
    MaxBoots,       \* bound: restarts of the process
    MaxAdmitted     \* bound: a handler takes no update once this many were queued

Classes == {"empty", "rejected", "text", "photo"}

ASSUME ForwarderAssumption ==
    /\ ChannelOf \in [Posts -> Channels]
    /\ Class \in [Posts -> Classes]
    /\ Forwards \subseteq Posts
    /\ IsFiniteSet(Handlers)
    /\ QueueCapacity \in Nat \ {0}
    /\ ForceAlert \in BOOLEAN
    /\ NoPost \notin Posts
    /\ MaxBoots \in Nat
    /\ MaxAdmitted \in Nat

VARIABLES
    life,       \* "running" | "stopping" (ctx canceled) | "exited"
    boot,       \* how often the process was started again
    alert,      \* KyivAlertState.active
    sources,    \* keys of sourceChannelIDs, channelsByID and channelKeys
    seen,       \* posts already handled by this process
    queue,      \* the buffered channel of forwardTasks
    hpc,        \* where each handler is
    hpost,      \* the post each handler holds
    wpc,        \* where the worker is
    task,       \* the post the worker holds
    attempt,    \* downloadPhoto's attempt
    stats,      \* the counters forwarded, skipped and filtered
    \* History of this process:
    admitted,   \* posts put in the queue, in order
    fates,      \* how the i-th admitted post ended
    dropped,    \* posts dropped because the queue was full
    sawAlert,   \* the alert was on at some moment since the worker took its task
    \* History of the destination chat:
    chat        \* what appeared: post, process and place among the admitted

registryVars == <<sources>>
handlerVars == <<hpc, hpost, seen, dropped>>
workerVars == <<wpc, task, attempt, stats, fates, sawAlert, chat>>
lifeVars == <<life, boot>>
vars == <<life, boot, alert, sources, seen, queue, hpc, hpost, wpc, task,
          attempt, stats, admitted, fates, dropped, sawAlert, chat>>

Alive == life # "exited"

\* 1 while the worker holds a task, else 0.
Busy == IF task = NoPost THEN 0 ELSE 1

\* The place of the worker's task among the admitted posts.
Ticket == Len(fates) + 1

----------------------------------------------------------------------------
Init ==
    /\ life = "running"
    /\ boot = 0
    /\ alert = FALSE
    /\ sources = {}
    /\ seen = {}
    /\ queue = <<>>
    /\ hpc = [h \in Handlers |-> "idle"]
    /\ hpost = [h \in Handlers |-> NoPost]
    /\ wpc = "unstarted"
    /\ task = NoPost
    /\ attempt = 0
    /\ stats = [forwarded |-> 0, skipped |-> 0, filtered |-> 0]
    /\ admitted = <<>>
    /\ fates = <<>>
    /\ dropped = {}
    /\ sawAlert = FALSE
    /\ chat = <<>>

----------------------------------------------------------------------------
\* The environment of the pipeline.

\* A NEPTUN frame turns the alert flag on or off.
SetActive(v) ==
    /\ Alive
    /\ alert # v
    /\ alert' = v
    /\ sawAlert' = (sawAlert \/ (v /\ task # NoPost))
    /\ UNCHANGED <<lifeVars, registryVars, handlerVars, queue, admitted,
                   wpc, task, attempt, stats, fates, chat>>

\* AddChannel and RemoveChannel change the registry under its lock.
AddChannel(c) ==
    /\ Alive
    /\ c \notin sources
    /\ sources' = sources \cup {c}
    /\ UNCHANGED <<lifeVars, alert, handlerVars, queue, admitted, workerVars>>

RemoveChannel(c) ==
    /\ Alive
    /\ c \in sources
    /\ sources' = sources \ {c}
    /\ UNCHANGED <<lifeVars, alert, handlerVars, queue, admitted, workerVars>>

----------------------------------------------------------------------------
\* Update handlers: handleMessage.

\* Another handler is inside its write to the map of seen posts.
OtherWriter(h) == \E g \in Handlers \ {h} : hpc[g] = "writing"

\* Is the post's channel in the registry?
AnyChannel(p) == TRUE   \* faulty: the lookup is missing
Monitored(p) == ChannelOf[p] \in sources

\* An update arrives and its channel is found in the registry (updates of
\* other channels change nothing).
ReceiveUpdate(h, p) ==
    /\ Alive
    /\ hpc[h] = "idle"
    /\ Len(admitted) < MaxAdmitted
    /\ Monitored(p)
    /\ hpc' = [hpc EXCEPT ![h] = "check"]
    /\ hpost' = [hpost EXCEPT ![h] = p]
    /\ UNCHANGED <<lifeVars, alert, registryVars, seen, dropped, queue,
                   admitted, workerVars>>

\* Faulty: no lookup at all.
NeverSeen(h) == {FALSE}

\* What the unlocked lookup can answer: the truth, or, while another handler
\* writes the map, also a miss or the key that is being written.
SeenAnswers(h) ==
    IF OtherWriter(h)
    THEN {FALSE} \cup
         {a \in {TRUE} : \/ hpost[h] \in seen
                         \/ \E g \in Handlers \ {h} :
                               hpc[g] = "writing" /\ hpost[g] = hpost[h]}
    ELSE {hpost[h] \in seen}

CheckSeen(h) ==
    /\ Alive
    /\ hpc[h] = "check"
    /\ \E dup \in SeenAnswers(h) :
          /\ hpc' = [hpc EXCEPT ![h] = IF dup THEN "idle" ELSE "insert"]
          /\ hpost' = [hpost EXCEPT ![h] = IF dup THEN NoPost ELSE @]
    /\ UNCHANGED <<lifeVars, alert, registryVars, seen, dropped, queue,
                   admitted, workerVars>>

\* The insert in two steps, so that other handlers can meet it half way.
BeginInsert(h) ==
    /\ Alive
    /\ hpc[h] = "insert"
    /\ ~OtherWriter(h)
    /\ hpc' = [hpc EXCEPT ![h] = "writing"]
    /\ UNCHANGED <<lifeVars, alert, registryVars, seen, dropped, hpost, queue,
                   admitted, workerVars>>

EndInsert(h) ==
    /\ Alive
    /\ hpc[h] = "writing"
    /\ seen' = seen \cup {hpost[h]}
    /\ hpc' = [hpc EXCEPT ![h] = "enqueue"]
    /\ UNCHANGED <<lifeVars, alert, registryVars, dropped, hpost, queue,
                   admitted, workerVars>>

\* Go's runtime ends the process when a map is read or written while another
\* goroutine writes it.
FatalMapAccess(h) ==
    /\ Alive
    /\ hpc[h] \in {"check", "insert"}
    /\ OtherWriter(h)
    /\ life' = "exited"
    /\ UNCHANGED <<boot, alert, registryVars, handlerVars, queue, admitted,
                   workerVars>>

\* The queue takes another task.
OneMoreRoom == Len(queue) <= QueueCapacity  \* faulty: off by one
Room == Len(queue) < QueueCapacity

\* The send to the queue never blocks: a full queue drops the post, which
\* stays marked as seen.
Enqueue(h) ==
    /\ Alive
    /\ hpc[h] = "enqueue"
    /\ Room
    /\ queue' = Append(queue, hpost[h])
    /\ admitted' = Append(admitted, hpost[h])
    /\ hpc' = [hpc EXCEPT ![h] = "idle"]
    /\ hpost' = [hpost EXCEPT ![h] = NoPost]
    /\ UNCHANGED <<lifeVars, alert, registryVars, seen, dropped, workerVars>>

Drop(h) ==
    /\ Alive
    /\ hpc[h] = "enqueue"
    /\ ~Room
    /\ dropped' = dropped \cup {hpost[h]}
    /\ hpc' = [hpc EXCEPT ![h] = "idle"]
    /\ hpost' = [hpost EXCEPT ![h] = NoPost]
    /\ UNCHANGED <<lifeVars, alert, registryVars, seen, queue, admitted,
                   workerVars>>

----------------------------------------------------------------------------
\* The worker: worker and process.

\* Faulty: the latest task first.
TakeLatest ==
    /\ Alive
    /\ wpc = "select"
    /\ queue # <<>>
    /\ task' = queue[Len(queue)]
    /\ queue' = SubSeq(queue, 1, Len(queue) - 1)
    /\ sawAlert' = alert
    /\ wpc' = "screen"
    /\ UNCHANGED <<lifeVars, alert, registryVars, handlerVars, admitted,
                   attempt, stats, fates, chat>>

TakeTask ==
    /\ Alive
    /\ wpc = "select"
    /\ queue # <<>>
    /\ task' = Head(queue)
    /\ queue' = Tail(queue)
    /\ sawAlert' = alert
    /\ wpc' = "screen"
    /\ UNCHANGED <<lifeVars, alert, registryVars, handlerVars, admitted,
                   attempt, stats, fates, chat>>

\* ctx.Done is ready too: select may choose it although tasks are queued.
StopWorker ==
    /\ life = "stopping"
    /\ wpc = "select"
    /\ wpc' = "returned"
    /\ UNCHANGED <<lifeVars, alert, registryVars, handlerVars, queue, admitted,
                   task, attempt, stats, fates, sawAlert, chat>>

\* process returns: the task has met its fate.  Failures are not counted.
Settle(fate) ==
    /\ fates' = Append(fates, fate)
    /\ stats' = IF fate = "failed" THEN stats
                ELSE [stats EXCEPT ![fate] = @ + 1]
    /\ task' = NoPost
    /\ attempt' = 0
    /\ wpc' = "select"
    /\ UNCHANGED <<lifeVars, alert, registryVars, handlerVars, queue, admitted,
                   sawAlert>>

\* Nothing is left of the post once the channel's own signature is removed.
SkipEmpty ==
    /\ Alive
    /\ wpc = "screen"
    /\ Class[task] = "empty"
    /\ Settle("skipped")
    /\ UNCHANGED chat

\* The text filter or the geographic filter rejects the post.
FilterOut ==
    /\ Alive
    /\ wpc = "screen"
    /\ Class[task] = "rejected"
    /\ Settle("filtered")
    /\ UNCHANGED chat

Sendable(p) == Class[p] \in {"text", "photo"}

NoGate == TRUE          \* faulty: the gate is missing
GateOpen == alert \/ ForceAlert

\* No alert: the post is skipped for good.
SkipQuiet ==
    /\ Alive
    /\ wpc = "screen"
    /\ Sendable(task)
    /\ ~GateOpen
    /\ Settle("skipped")
    /\ UNCHANGED chat

PassGate ==
    /\ Alive
    /\ wpc = "screen"
    /\ Sendable(task)
    /\ GateOpen
    /\ wpc' = IF Class[task] = "photo" THEN "download" ELSE "send"
    /\ UNCHANGED <<lifeVars, alert, registryVars, handlerVars, queue, admitted,
                   task, attempt, stats, fates, sawAlert, chat>>

\* One attempt of downloadPhoto.
DownloadOk ==
    /\ Alive
    /\ wpc = "download"
    /\ wpc' = "send"
    /\ UNCHANGED <<lifeVars, alert, registryVars, handlerVars, queue, admitted,
                   task, attempt, stats, fates, sawAlert, chat>>

\* FILE_REFERENCE error on the first attempt.
ReferenceExpired ==
    /\ Alive
    /\ wpc = "download"
    /\ attempt = 0
    /\ wpc' = "refresh"
    /\ UNCHANGED <<lifeVars, alert, registryVars, handlerVars, queue, admitted,
                   task, attempt, stats, fates, sawAlert, chat>>

\* Any other error, or any error on the second attempt.
DownloadFailed ==
    /\ Alive
    /\ wpc = "download"
    /\ Settle("failed")
    /\ UNCHANGED chat

\* What downloadPhoto's loop goes on with.
SameAttempt == attempt  \* faulty: every error is the first
NextAttempt == attempt + 1

\* A fresh reference comes from the original channel of a forwarded post or
\* from the source channel, if that is still in the registry.
RefreshOk ==
    /\ Alive
    /\ wpc = "refresh"
    /\ task \in Forwards \/ ChannelOf[task] \in sources
    /\ attempt' = NextAttempt
    /\ wpc' = "download"
    /\ UNCHANGED <<lifeVars, alert, registryVars, handlerVars, queue, admitted,
                   task, stats, fates, sawAlert, chat>>

RefreshFailed ==
    /\ Alive
    /\ wpc = "refresh"
    /\ Settle("failed")
    /\ UNCHANGED chat

\* refreshPhotoLocation reads channelsByID without the lock: a command that
\* writes the map at that moment ends the process.
FatalRegistryAccess ==
    /\ Alive
    /\ wpc = "refresh"
    /\ life' = "exited"
    /\ UNCHANGED <<boot, alert, registryVars, handlerVars, queue, admitted,
                   workerVars>>

\* The Bot API accepts the message ...
Deliver ==
    /\ Alive
    /\ wpc = "send"
    /\ chat' = Append(chat, [post |-> task, boot |-> boot, ticket |-> Ticket])
    /\ wpc' = "reply"
    /\ UNCHANGED <<lifeVars, alert, registryVars, handlerVars, queue, admitted,
                   task, attempt, stats, fates, sawAlert>>

\* ... and its answer arrives, or does not.
SendOk ==
    /\ Alive
    /\ wpc = "reply"
    /\ Settle("forwarded")
    /\ UNCHANGED chat

\* Faulty: a send without an answer is repeated.
SendAgain ==
    /\ Alive
    /\ wpc = "reply"
    /\ wpc' = "send"
    /\ UNCHANGED <<lifeVars, alert, registryVars, handlerVars, queue, admitted,
                   task, attempt, stats, fates, sawAlert, chat>>

AnswerLost ==
    /\ Alive
    /\ wpc = "reply"
    /\ Settle("failed")
    /\ UNCHANGED chat

\* Faulty: a failed send counts as forwarded.
CountFailed ==
    /\ Alive
    /\ wpc = "send"
    /\ Settle("forwarded")
    /\ UNCHANGED chat

\* No attempt got through.
SendFailed ==
    /\ Alive
    /\ wpc = "send"
    /\ Settle("failed")
    /\ UNCHANGED chat

----------------------------------------------------------------------------
\* The life of the process.

\* Run has authenticated: resolveSources fills the registry with the channels
\* it could resolve and runDaemon starts the worker.
StartDaemon ==
    /\ Alive
    /\ wpc = "unstarted"
    /\ \E found \in SUBSET Channels : sources' = sources \cup found
    /\ wpc' = "select"
    /\ UNCHANGED <<lifeVars, alert, handlerVars, queue, admitted, task, attempt,
                   stats, fates, sawAlert, chat>>

\* SIGTERM cancels the context.
Signal ==
    /\ life = "running"
    /\ life' = "stopping"
    /\ UNCHANGED <<boot, alert, registryVars, handlerVars, queue, admitted,
                   workerVars>>

\* Run returns once the worker has (or before there is one); main exits.
Exit ==
    /\ life = "stopping"
    /\ wpc \in {"returned", "unstarted"}
    /\ life' = "exited"
    /\ UNCHANGED <<boot, alert, registryVars, handlerVars, queue, admitted,
                   workerVars>>

\* A crash, a kill, or os.Exit(1) after a fatal client error.
Crash ==
    /\ Alive
    /\ life' = "exited"
    /\ UNCHANGED <<boot, alert, registryVars, handlerVars, queue, admitted,
                   workerVars>>

\* The container is started again; everything but the chat is new.
Restart ==
    /\ life = "exited"
    /\ boot < MaxBoots
    /\ life' = "running"
    /\ boot' = boot + 1
    /\ alert' = FALSE
    /\ sources' = {}
    /\ seen' = {}
    /\ queue' = <<>>
    /\ hpc' = [h \in Handlers |-> "idle"]
    /\ hpost' = [h \in Handlers |-> NoPost]
    /\ wpc' = "unstarted"
    /\ task' = NoPost
    /\ attempt' = 0
    /\ stats' = [forwarded |-> 0, skipped |-> 0, filtered |-> 0]
    /\ admitted' = <<>>
    /\ fates' = <<>>
    /\ dropped' = {}
    /\ sawAlert' = FALSE
    /\ UNCHANGED chat

HandlerStep(h) ==
    \/ \E p \in Posts : ReceiveUpdate(h, p)
    \/ CheckSeen(h)
    \/ BeginInsert(h)
    \/ EndInsert(h)
    \/ FatalMapAccess(h)
    \/ Enqueue(h)
    \/ Drop(h)

WorkerStep ==
    \/ TakeTask
    \/ StopWorker
    \/ SkipEmpty
    \/ FilterOut
    \/ SkipQuiet
    \/ PassGate
    \/ DownloadOk
    \/ ReferenceExpired
    \/ DownloadFailed
    \/ RefreshOk
    \/ RefreshFailed
    \/ FatalRegistryAccess
    \/ Deliver
    \/ SendOk
    \/ AnswerLost
    \/ SendFailed

Next ==
    \/ \E v \in BOOLEAN : SetActive(v)
    \/ \E c \in Channels : AddChannel(c) \/ RemoveChannel(c)
    \/ \E h \in Handlers : HandlerStep(h)
    \/ WorkerStep
    \/ StartDaemon
    \/ Signal
    \/ Exit
    \/ Crash
    \/ Restart

Spec == Init /\ [][Next]_vars

\* The scheduler runs the worker, whose downloads and posts end (HTTP_TIMEOUT
\* bounds a post); a stopped daemon exits.  No update, command, alert, signal
\* or crash ever has to happen, and neither has a restart.
\* A select picks among its ready cases at random, so a worker that keeps
\* finding ctx.Done ready takes it in the end.
Fairness ==
    /\ WF_vars(WorkerStep)
    /\ SF_vars(StopWorker)
    /\ WF_vars(StartDaemon)
    /\ WF_vars(Exit)

LiveSpec == Spec /\ Fairness

----------------------------------------------------------------------------
(* Properties *)

Fates == {"forwarded", "skipped", "filtered", "failed"}

\* Every variable has the values the code can give it; a photo is downloaded
\* at most twice and the queue never exceeds its capacity.
TypeOK ==
    /\ life \in {"running", "stopping", "exited"}
    /\ boot \in 0..MaxBoots
    /\ alert \in BOOLEAN
    /\ sources \subseteq Channels
    /\ seen \subseteq Posts
    /\ queue \in Seq(Posts) /\ Len(queue) <= QueueCapacity
    /\ hpc \in [Handlers -> {"idle", "check", "insert", "writing", "enqueue"}]
    /\ hpost \in [Handlers -> Posts \cup {NoPost}]
    /\ \A h \in Handlers : hpc[h] = "idle" <=> hpost[h] = NoPost
    /\ wpc \in {"unstarted", "select", "returned", "screen", "download",
                "refresh", "send", "reply"}
    /\ task \in Posts \cup {NoPost}
    /\ wpc \in {"unstarted", "select", "returned"} <=> task = NoPost
    /\ attempt \in 0..1 /\ (wpc = "refresh" => attempt = 0)
    /\ stats \in [{"forwarded", "skipped", "filtered"} -> Nat]
    /\ admitted \in Seq(Posts)
    /\ fates \in Seq(Fates)
    /\ dropped \subseteq Posts
    /\ sawAlert \in BOOLEAN
    /\ chat \in Seq([post : Posts, boot : Nat, ticket : Nat \ {0}])

\* No admitted post is lost, doubled or overtaken inside the process: the
\* admitted posts are those that met their fate, then the worker's task, then
\* the queue in order (userbot.go's queue, worker and process).
Ledger ==
    /\ Len(admitted) = Len(fates) + Busy + Len(queue)
    /\ task # NoPost => task = admitted[Ticket]
    /\ \A i \in 1..Len(queue) : queue[i] = admitted[Len(fates) + Busy + i]

\* One admission shows at most one message and messages appear in the order of
\* admission, across failed sends, lost answers and restarts.
ChatInOrder ==
    \A i, j \in 1..Len(chat) : i < j =>
        \/ chat[i].boot < chat[j].boot
        \/ /\ chat[i].boot = chat[j].boot
           /\ chat[i].ticket < chat[j].ticket

\* The chat never runs ahead of the worker: messages belong to this process or
\* an earlier one, those of this process to tasks that are over or to the one
\* whose answer the worker awaits.
ChatSoFar ==
    \A k \in 1..Len(chat) :
        /\ chat[k].boot <= boot
        /\ chat[k].boot = boot =>
              \/ chat[k].ticket <= Len(fates)
              \/ wpc = "reply" /\ chat[k].ticket = Ticket

\* While the worker awaits the answer to a send, its task has appeared.
ReplyPending ==
    wpc = "reply" =>
        \E k \in 1..Len(chat) :
            chat[k] = [post |-> task, boot |-> boot, ticket |-> Ticket]

\* What the worker concluded agrees with the chat: a post it counts as
\* forwarded did appear, under the admission it belongs to, and a post that
\* appeared and is over ended as forwarded or as a failed send.
FateMatchesChat ==
    /\ \A i \in 1..Len(fates) : fates[i] = "forwarded" =>
          \E k \in 1..Len(chat) :
             chat[k] = [post |-> admitted[i], boot |-> boot, ticket |-> i]
    /\ \A k \in 1..Len(chat) :
          chat[k].boot = boot /\ chat[k].ticket <= Len(fates) =>
             fates[chat[k].ticket] \in {"forwarded", "failed"}

\* The inductive invariant behind the four properties of the ledger and the
\* chat.
PipelineInv ==
    /\ TypeOK
    /\ Ledger
    /\ ChatSoFar
    /\ ReplyPending
    /\ ChatInOrder
    /\ FateMatchesChat

\* The forwarded counter of the heartbeat never exceeds what this process
\* showed, and misses at most the failed sends and the one under way.
StatsAddUp ==
    LET shown == Cardinality({k \in 1..Len(chat) : chat[k].boot = boot})
        failed == Cardinality({i \in 1..Len(fates) : fates[i] = "failed"})
    IN  /\ stats.forwarded <= shown
        /\ shown <= stats.forwarded + failed + Busy

\* A post is downloaded or sent only if the alert was on at some moment while
\* the worker held it (or FORCE_ALERT is set): the gate of process looks at
\* the flag after the post left the queue, however long it waited there.
GateWitnessed ==
    wpc \in {"download", "refresh", "send", "reply"} =>
        Sendable(task) /\ (sawAlert \/ ForceAlert)

\* While updates are handled one after the other, a post has at most one fate
\* in a process: it is admitted once or dropped for good, never both.
SequentialDedupe ==
    (\A g, h \in Handlers : g = h) =>
        /\ \A i, j \in 1..Len(admitted) : admitted[i] = admitted[j] => i = j
        /\ \A i \in 1..Len(admitted) : admitted[i] \notin dropped

\* Posts of a channel between its lookup in the registry and their fate.
InFlight(c) ==
    Cardinality({h \in Handlers : hpost[h] # NoPost /\ ChannelOf[hpost[h]] = c})
    + Cardinality({i \in 1..Len(queue) : ChannelOf[queue[i]] = c})
    + (IF task # NoPost /\ ChannelOf[task] = c THEN 1 ELSE 0)

\* Once a channel has been removed, what is left of it in the pipeline only
\* drains: no step brings in another post of a channel that is not monitored.
RemovedChannelDrains ==
    [][\A c \in Channels :
          c \notin sources /\ c \notin sources' => InFlight(c)' <= InFlight(c)]_vars

\* A daemon told to stop ends, whatever is still queued.
StopEnds == (life = "stopping") ~> (life = "exited")

\* The pipeline implements the promise of Relay: the line is the worker's task
\* and the queue behind it, for as long as the process lives.
R == INSTANCE Relay WITH
        Room  <- QueueCapacity + 1,
        line  <- IF ~Alive THEN <<>>
                 ELSE IF task = NoPost THEN queue ELSE <<task>> \o queue,
        shown <- Alive /\ wpc = "reply",
        log   <- [i \in 1..Len(chat) |-> chat[i].post]

RelaySafe == R!RelaySafe
RelaySpec == R!RelaySpec
=============================================================================
