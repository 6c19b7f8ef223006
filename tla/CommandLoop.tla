----------------------------- MODULE CommandLoop -----------------------------
(***************************************************************************)
(* internal/command/handler.go: the goroutine that polls Telegram for       *)
(* updates and handles commands, what the commands do to the registry and   *)
(* the signatures, and how far the userbot they need has come, across       *)
(* crashes and restarts.                                                    *)
(*                                                                         *)
(* Updates are numbered 1, 2, ... in the order of sending.  Telegram keeps  *)
(* an update until a poll carries a larger offset.  What a command writes   *)
(* is on disk when its store returns, on a disk that works; a process that  *)
(* dies within a save leaves a file that cannot be read, and the next one   *)
(* goes back to what was configured, as it does if the list is empty.  (See *)
(* ChannelRegistry and SignatureStore for the files, for a disk that fails  *)
(* and for /clearsig all.)  Channels are named by identifiers; a command's  *)
(* spelling and the text of replies are left out, and so are /map           *)
(* (Geocoder), /channels and /listsig, which change nothing.                *)
(***************************************************************************)
EXTENDS Integers, Sequences, FiniteSets

CONSTANTS
    Channels,       \* channels that commands name
    Configured,     \* SOURCE_CHANNELS
    Texts,          \* signatures
    NoText,         \* no signature
    Default,        \* the key of the general signature
    Users,          \* who may send commands
    Admins,         \* ADMIN_USER_IDS; if empty, everyone is one
    Commands,       \* commands that may be sent
    MaxBatch,       \* most updates in one answer of getUpdates
    MaxUpdates,     \* bound: updates sent
    MaxBoots        \* bound: restarts of the process

Ops == {"add", "remove", "sign", "signAll", "other"}

ASSUME LoopAssumption ==
    /\ Configured \subseteq Channels
    /\ Commands \subseteq [from : Users, op : Ops, ch : Channels, text : Texts \cup {NoText}]
    /\ MaxBatch \in Nat \ {0}
    /\ MaxUpdates \in Nat
    /\ MaxBoots \in Nat

VARIABLES
    \* Telegram:
    log,        \* every update ever sent
    kept,       \* the oldest update that getUpdates can still return
    \* Start:
    pc,         \* "poll" | "asked" | "pause" | "batch" | "execute" | "reply" |
                \* "returned" | "down" (no process)
    offset,
    next,       \* the first update not handled by this process
    last,       \* the last update of the batch
    \* The process:
    ctxDone,    \* the context was canceled
    boot,       \* restarts so far
    bot,        \* the userbot: "starting" | "resolving" (locked) | "ready"
    known,      \* keys of channelsByID
    \* On disk:
    stores,     \* the list of channels and the signature under every key
    \* History:
    done,       \* the last update ever handled
    refused,    \* some /addchannel or /removechannel of an admin changed nothing
    listFrom,   \* the first update after the list was last set back to Configured
    sigsFrom    \* ... and after the signatures were lost

telegram == <<log, kept>>
process == <<ctxDone, boot>>
data == <<known, stores>>
bases == <<listFrom, sigsFrom>>
history == <<done, refused, bases>>
vars == <<log, kept, pc, offset, next, last, ctxDone, boot, bot, known, stores,
          done, refused, bases>>

Up == pc \notin {"down", "returned"}

Larger(m, n) == IF m < n THEN n ELSE m
Smaller(m, n) == IF m < n THEN m ELSE n

AtFirst ==
    [channels |-> Configured, sigs |-> [k \in Channels \cup {Default} |-> NoText]]

Init ==
    /\ log = <<>>
    /\ kept = 1
    /\ pc = "poll"
    /\ offset = 0
    /\ next = 1
    /\ last = 0
    /\ ctxDone = FALSE
    /\ boot = 0
    /\ bot = "starting"
    /\ known = {}
    /\ stores = AtFirst
    /\ done = 0
    /\ refused = FALSE
    /\ listFrom = 1
    /\ sigsFrom = 1

----------------------------------------------------------------------------
(* Polling *)

\* A user sends a command.
Send(c) ==
    /\ Len(log) < MaxUpdates
    /\ log' = Append(log, c)
    /\ UNCHANGED <<kept, pc, offset, next, last, process, bot, data, history>>

\* The top of the loop; the request reaches Telegram, which drops all updates
\* before the offset.
Ask ==
    /\ pc = "poll"
    /\ ~ctxDone
    /\ pc' = "asked"
    /\ kept' = Larger(kept, offset)
    /\ UNCHANGED <<log, offset, next, last, process, bot, data, history>>

\* Faulty: the batch is acknowledged as soon as it is there.
AckFirst ==
    /\ pc = "asked"
    /\ last' = Smaller(Len(log), kept + MaxBatch - 1)
    /\ next' = kept
    /\ kept' = last' + 1
    /\ pc' = IF next' <= last' THEN "batch" ELSE "poll"
    /\ UNCHANGED <<log, offset, process, bot, data, history>>

\* The answer: what there is, or nothing when the long poll ends.
Answer ==
    /\ pc = "asked"
    /\ last' = Smaller(Len(log), kept + MaxBatch - 1)
    /\ next' = kept
    /\ pc' = IF next' <= last' THEN "batch" ELSE "poll"
    /\ UNCHANGED <<log, kept, offset, process, bot, data, history>>

\* Faulty: any error ends the loop.
GivesUp ==
    /\ pc \in {"poll", "asked"}
    /\ pc' = "returned"
    /\ UNCHANGED <<telegram, offset, next, last, process, bot, data, history>>

\* The request or its answer is lost, refused or unreadable, or the context is
\* canceled.
PollFails ==
    /\ pc \in {"poll", "asked"}
    /\ pc' = IF ctxDone THEN "returned" ELSE "pause"
    /\ UNCHANGED <<telegram, offset, next, last, process, bot, data, history>>

\* The two seconds after an error, which a cancellation does not cut short.
Resume ==
    /\ pc = "pause"
    /\ pc' = "poll"
    /\ UNCHANGED <<telegram, offset, next, last, process, bot, data, history>>

----------------------------------------------------------------------------
(* Handling *)

\* Faulty: the offset is moved by an update that is already below it.
Backwards == offset' = IF next >= offset THEN offset ELSE next + 1

Advance == offset' = IF next >= offset THEN next + 1 ELSE offset

\* The next update of the batch; the context is not looked at in between.
TakeUpdate ==
    /\ pc = "batch"
    /\ Advance
    /\ pc' = "execute"
    /\ UNCHANGED <<telegram, next, last, process, bot, data, history>>

Everyone(u) == TRUE     \* faulty: no check
IsAdmin(u) == Admins = {} \/ u \in Admins

WithChannel(s, c) == [s EXCEPT !.channels = @ \cup {c}]
WithoutChannel(s, c) == [s EXCEPT !.channels = @ \ {c}]
Signed(s, keys, t) ==
    [s EXCEPT !.sigs = [k \in DOMAIN @ |-> IF k \in keys THEN t ELSE @[k]]]

\* A command that names no channel means the general signature, and that of the
\* only channel if there is just one: of those that were resolved, or of the
\* list while none is.
Unnamed(s) ==
    LET monitored == IF known = {} THEN s.channels ELSE known
    IN  {Default} \cup (IF Cardinality(monitored) = 1 THEN monitored ELSE {})

\* What a command of an administrator does to the stores.
Effect(s, c) ==
    CASE c.op = "add"     -> WithChannel(s, c.ch)
      [] c.op = "remove"  -> WithoutChannel(s, c.ch)
      [] c.op = "sign"    -> Signed(s, {c.ch}, c.text)
      [] c.op = "signAll" -> Signed(s, Unnamed(s), c.text)
      [] OTHER            -> s

\* The command goroutine has an administrator's command op in hand.
Executing(op) ==
    /\ pc = "execute"
    /\ log[next].op = op
    /\ IsAdmin(log[next].from)
    /\ pc' = "reply"
    /\ UNCHANGED <<telegram, offset, next, last, process, bot, done, bases>>

\* It waits for the registry's lock while resolveSources holds it.
Unlocked == bot # "resolving"

\* The client is there from the start, and may be connected by now.
AddChannel ==
    /\ Executing("add")
    /\ Unlocked
    /\ stores' = Effect(stores, log[next])
    /\ known' = known \cup {log[next].ch}
    /\ UNCHANGED refused

\* Faulty: the channel stays among the resolved ones.
RemoveFromList ==
    /\ Executing("remove")
    /\ Unlocked
    /\ log[next].ch \in known
    /\ stores' = Effect(stores, log[next])
    /\ UNCHANGED <<known, refused>>

RemoveChannel ==
    /\ Executing("remove")
    /\ Unlocked
    /\ log[next].ch \in known
    /\ stores' = Effect(stores, log[next])
    /\ known' = known \ {log[next].ch}
    /\ UNCHANGED refused

\* The channel to add cannot be resolved, which needs no lock and may fail at any
\* time; or the channel to remove is not among those that were.
Refuse ==
    /\ \/ Executing("add")
       \/ Executing("remove") /\ Unlocked /\ log[next].ch \notin known
    /\ refused' = TRUE
    /\ UNCHANGED data

\* /setsig and /clearsig.
Sign ==
    /\ Executing("sign") \/ Executing("signAll")
    /\ Unlocked
    /\ stores' = Effect(stores, log[next])
    /\ UNCHANGED <<known, refused>>

\* Another command, or a user who is not an administrator.
Other ==
    /\ pc = "execute"
    /\ log[next].op = "other" \/ ~IsAdmin(log[next].from)
    /\ pc' = "reply"
    /\ UNCHANGED <<telegram, offset, next, last, process, bot, data, history>>

\* The reply was sent, or could not be sent.
Reply ==
    /\ pc = "reply"
    /\ next' = next + 1
    /\ done' = Larger(done, next)
    /\ pc' = IF next < last THEN "batch" ELSE "poll"
    /\ UNCHANGED <<telegram, offset, last, process, bot, data, refused, bases>>

----------------------------------------------------------------------------
(* The process *)

\* The userbot is connected and takes the lock to resolve its channels.
Connected ==
    /\ Up
    /\ bot = "starting"
    /\ bot' = "resolving"
    /\ UNCHANGED <<telegram, pc, offset, next, last, process, data, history>>

\* Some channels may fail to resolve.  If all do the userbot gives up, and the
\* process with it (ProcessEnds).
Resolved ==
    /\ Up
    /\ bot = "resolving"
    /\ bot' = "ready"
    /\ \E found \in SUBSET stores.channels :
          /\ stores.channels # {} => found # {}
          /\ known' = known \cup found
    /\ UNCHANGED <<telegram, pc, offset, next, last, process, stores, history>>

\* SIGTERM, or the end of the userbot.
Cancel ==
    /\ Up
    /\ ~ctxDone
    /\ ctxDone' = TRUE
    /\ UNCHANGED <<telegram, pc, offset, next, last, boot, bot, data, history>>

\* A command of an administrator, one of ops, is at its save.
Saves(ops) ==
    /\ pc = "execute"
    /\ log[next].op \in ops
    /\ IsAdmin(log[next].from)
    /\ Unlocked
    /\ log[next].op = "remove" => log[next].ch \in known

\* A crash at any time, or the end of main three seconds after the userbot,
\* wherever the loop is.  A file that is being saved was truncated first and may
\* stay so; it then reads as one with nothing in it.
ProcessEnds ==
    /\ pc # "down"
    /\ pc' = "down"
    /\ known' = {}
    /\ \/ UNCHANGED <<stores, sigsFrom>>
       \/ /\ Saves({"add", "remove"})
          /\ stores' = [stores EXCEPT !.channels = {}]
          /\ UNCHANGED sigsFrom
       \/ /\ Saves({"sign", "signAll"})
          /\ stores' = [stores EXCEPT !.sigs = AtFirst.sigs]
          /\ sigsFrom' = kept
    /\ UNCHANGED <<telegram, offset, next, last, process, bot, done, refused, listFrom>>

\* Faulty: the saved list is never read.
SeedAlways ==
    /\ stores' = [stores EXCEPT !.channels = Configured]
    /\ UNCHANGED listFrom

\* initChannels: a list with nothing in it gives way to the configured one.
ReadList ==
    IF stores.channels # {}
    THEN UNCHANGED <<stores, listFrom>>
    ELSE /\ stores' = [stores EXCEPT !.channels = Configured]
         /\ listFrom' = kept

\* A new process reads the files and knows no offset.
Restart ==
    /\ pc = "down"
    /\ boot < MaxBoots
    /\ boot' = boot + 1
    /\ pc' = "poll"
    /\ offset' = 0
    /\ next' = kept
    /\ last' = 0
    /\ ctxDone' = FALSE
    /\ bot' = "starting"
    /\ known' = {}
    /\ ReadList
    /\ UNCHANGED <<telegram, done, refused, sigsFrom>>

LoopStep ==
    \/ PollFails \/ Resume \/ TakeUpdate \/ Reply
    \/ AddChannel \/ RemoveChannel \/ Refuse \/ Sign \/ Other

Next ==
    \/ \E c \in Commands : Send(c)
    \/ Ask
    \/ Answer
    \/ LoopStep
    \/ Connected
    \/ Resolved
    \/ Cancel
    \/ ProcessEnds
    \/ Restart

Spec == Init /\ [][Next]_vars

\* The goroutines run, the calls of resolveSources end, and a network that works
\* again and again is used in the end.
LiveSpec ==
    Spec /\ WF_vars(LoopStep) /\ WF_vars(Resolved) /\ SF_vars(Ask) /\ SF_vars(Answer)

----------------------------------------------------------------------------
(* Properties *)

\* The values the code gives to its variables.
TypeOK ==
    /\ log \in Seq(Commands)
    /\ {kept, offset, next, last, done, listFrom, sigsFrom} \subseteq Nat
    /\ pc \in {"poll", "asked", "pause", "batch", "execute", "reply", "returned", "down"}
    /\ ctxDone \in BOOLEAN
    /\ boot \in 0..MaxBoots
    /\ bot \in {"starting", "resolving", "ready"}
    /\ known \subseteq stores.channels
    /\ stores \in [channels : SUBSET Channels,
                   sigs : [Channels \cup {Default} -> Texts \cup {NoText}]]
    /\ refused \in BOOLEAN

\* Telegram forgets an update only after it was handled, whatever is lost, cut
\* off or started again, and a restart repeats one batch at most.
NothingForgotten == kept <= done + 1 /\ done < kept + MaxBatch

Inbox == INSTANCE Inbox WITH
    lives <- boot, sent <- Len(log), cursor <- next - 1, done <- done, forgotten <- kept - 1

\* The loop implements Inbox: in the life of a process no update is handled twice
\* or out of turn, and a new process goes back to the first one still kept.
InboxSafe == Inbox!InboxSafe

\* Update i is a command of an administrator, one of ops, about k.
Orders(i, ops, k) ==
    /\ log[i].op \in ops
    /\ log[i].ch = k
    /\ log[i].from \in Admins \/ Admins = {}

\* ... and none up to n is after it; and none from b to n is.
LastOrder(i, n, ops, k) == Orders(i, ops, k) /\ \A j \in i + 1 .. n : ~Orders(j, ops, k)
NoOrder(b, n, ops, k) == \A i \in b..n : ~Orders(i, ops, k)

\* What the updates from b to n, each handled once, make of the configured list
\* and of a table without signatures.
Listed(b, n, c) ==
    LET ops == {"add", "remove"}
    IN  \/ \E i \in b..n : LastOrder(i, n, ops, c) /\ log[i].op = "add"
        \/ NoOrder(b, n, ops, c) /\ c \in Configured
Holds(b, n, k) ==
    \/ \E i \in b..n : LastOrder(i, n, {"sign"}, k) /\ stores.sigs[k] = log[i].text
    \/ NoOrder(b, n, {"sign"}, k) /\ stores.sigs[k] = NoText

\* A process that has handled all there is has the stores as if each command had
\* been handled once, however often crashes repeated it, provided that each names
\* its target and none was refused.  The commands that count are all but those
\* that Telegram had forgotten when a restart found the list empty or torn, or
\* when a crash tore the signatures.
ReplayConverges ==
    /\ pc # "down"
    /\ next = Len(log) + 1
    /\ next = done + 1
    /\ ~refused
    /\ \A i \in 1..Len(log) : log[i].op # "signAll"
    => /\ stores.channels = {c \in Channels : Listed(listFrom, Len(log), c)}
       /\ \A k \in Channels \cup {Default} : Holds(sigsFrom, Len(log), k)

\* If the process stays up in the end, every command is answered, including
\* those that came while the userbot held the lock.  (Their number is bounded, so
\* the last one is, too.)
EveryCommandHandled ==
    <>[](pc # "down" /\ ~ctxDone) => <>[](done = Len(log))
==============================================================================
