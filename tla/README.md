# Verification of the air-alert forwarder

TLA+ models, TLC runs and TLAPS proofs for the Go program in `src/`: a service
that reads Telegram channels with a user account, follows the NEPTUN stream of
air alerts, and forwards new posts to a chat while an alert for Kyiv is on.

Line numbers refer to the files under `src/`. `U:` is
`internal/telegram/userbot.go`, `N:` `internal/client/neptun.go`, `T:`
`internal/notifier/telegram.go`, `S:` `internal/filter/signature_store.go`, `H:`
`internal/command/handler.go`, `G:` `internal/geomap/geocoder.go`, `K:`
`internal/alert/kyiv.go`.

## 1. Inventory

| Component | State | Operations | What makes it correct |
|---|---|---|---|
| Forwarding pipeline (`U:`) | queue, seen map, counters, the post in the worker's hands | `handleMessage`, `worker`, `process`, `downloadPhoto`, `runDaemon` | no admitted post is lost, doubled or overtaken inside the process; nothing is sent without an alert; every post settles; shutdown ends |
| Notifier (`T:`) | per call: attempt, reader, last error | `SendText`, `SendPhoto(Reply)`, `SendTextReply`, `post` | a message appears at most once, success means it appeared, the call returns |
| NEPTUN client (`N:`) | backoff, one connection with a reader, a pinger and an error channel | `Start`, `handleConnection`, `handleFrame`, `nextBackoff`, `sleepContext` | one open connection, bounded delay, lost peers noticed, nothing left running after cancellation |
| Alert state (`internal/alert/state.go`) | one flag | `SetActive`, `IsActive` | the flag is the last verdict; only alert snapshots change it |
| Alert detection (`internal/alert/kyiv.go`) | none | `KyivAlertActive` | Kyiv city and not Kyiv oblast |
| Channel registry (`U:`) | configured list, three maps, `channels.json` | `initChannels`, `resolveSources`, `AddChannel`, `RemoveChannel`, `MonitoredChannels` | list, maps and file agree; what was removed stays removed |
| Signature store (`S:`, `H:`) | table, `signatures.json` | `Set`, `Clear`, `ClearForChannel`, `GetForChannel`, `List`; `/setsig`, `/clearsig` | what was set is used, what was cleared is gone, restarts keep the table |
| Command loop (`H:56-119`) | `getUpdates` offset; a batch and the command in hand | `Start`, `GetUpdates`, `handleMessage`, `isAdmin` | no command is forgotten, skipped or taken out of turn; repeating one after a crash does no harm; all are handled |
| Text processing (`internal/filter`, `U:746-812`) | none | `RemoveSignature`, `ShouldSkip`, appending a signature | footers decide nothing; the signature is there once, also when a post comes back |
| Geocoder (`G:`) and the `/map` command | cache, mutex and time of the last request | `Resolve`, `Geocode`, `waitRateLimit`, `handleMap` | requests keep the gap; the cache holds what Nominatim said; every call ends |
| Location parser (`internal/geoparse/parser.go`) | none | `ExtractLocation` | every place that is named is found, once |
| Map renderer (`internal/geomap/renderer.go`) | none | `RenderKyivMap` | — |
| Authentication, test modes, configuration, wiring | session file | once at start | — |

How they interact. `main` starts three goroutines that share a context: the
userbot (`Run`, which ends in `runDaemon`), the NEPTUN client and the command
loop. The NEPTUN readers write the alert flag and the worker reads it. Update
handlers, called by the MTProto library, read the registry and put posts in a
buffered channel; the worker takes them out, one at a time, and calls the
notifier. The command loop changes the registry and the signature store, each
behind a mutex with its file written under it, and replies through the notifier.
SIGTERM cancels the context; a fatal error of the userbot ends the process; the
container is started again.

What is hard: the unlocked `seen` map and the unlocked read of `channelsByID`;
a queue that drops posts already marked as seen; a gate that is tested long
before the send; lost answers of the Bot API; readers of closed connections that
still drive the flag; goroutines blocked on a channel nobody reads; files that
are truncated before they are written; state kept in a list, three maps and a
file at once; keys of a channel that change when it is resolved; commands that are delivered
again after a restart, with others in between, and a crash within a save in
the middle of them; answers, failures and deadlines of the geocoder that take
different ways out; footers that name the very regions the filters look for.
`PROJECT.json` lists each at its line, with the properties that would notice it
going wrong.

## 2. Modules

| Module | Models |
|---|---|
| `Relay` | what the pipeline promises to readers of the chat (abstract) |
| `Forwarder` | the pipeline; implements `Relay` |
| `SendOnce` | what the notifier promises to its callers (abstract) |
| `BotPost` | one caller of the notifier; implements `SendOnce` |
| `AlertFrame` | which frames say that the alert is on in Kyiv (operators) |
| `NeptunClient` | the NEPTUN client and the alert flag; uses `AlertFrame` |
| `ChannelRegistry` | the registry, its file and commands |
| `SignatureStore` | the signatures, their file and commands |
| `Inbox` | what an administrator may rely on (abstract) |
| `CommandLoop` | the command loop, its effect on the stores, the userbot's start; implements `Inbox` |
| `LocationParser` | the places in a text (operators) |
| `Geocoder` | the geocoder and its callers; uses `LocationParser` |
| `PostText` | the text of a post from the queue to the send, and back |
| `MC…` | the instances that TLC checks |
| `…Proofs` | theorems and proofs about the module they extend |

Each component module begins with its abstractions. The faulty variants of an
operator that stand just before it (their comments begin with "Faulty" or
"faulty") are not part of any specification: they are the bugs that each checked
property is shown to notice.

**Forwarder.** A post is a model value with a channel and a class, the outcome
of `RemoveSignature` and the filters. A handler goes through `ReceiveUpdate`
(registry lookup), `CheckSeen`, `BeginInsert`/`EndInsert` and `Enqueue` or
`Drop`; the insert takes two steps so that another handler can meet it half way,
where it may read anything the map can answer or be ended by the runtime
(`FatalMapAccess`). How many handlers overlap is decided by the MTProto library,
not by the code, so both cases are checked. The worker is `TakeTask`, then one of
`SkipEmpty`, `FilterOut`, `SkipQuiet`, `PassGate`, then the download loop, then
`Deliver` (the message appears) and `SendOk` or `AnswerLost`, or `SendFailed`.
`AddChannel`, `RemoveChannel` and `SetActive` are the environment's view of the
registry and the flag. `Crash` may happen anywhere, `Restart` empties all but the
chat. `admitted`, `fates`, `dropped`, `sawAlert` and `chat` are history.

**BotPost.** The reader that all attempts share is `body`: full, partly read or
empty. `Accept`, `AnswerOk` and `AnswerLost` separate the message's appearance
from its answer. Telegram cannot accept a request without its whole payload,
because `chat_id` is the first field.

**NeptunClient.** `main` is the loop of `Start`; every connection has a reader
(`ReadFrame`, `HandleFrame`, `StoreActive`, `ReadFails`) and a pinger. `SetActive`
is a load and a store with other readers in between. A frame has its type, the
bytes of the marker in it or not, a set of oblast entries and a set of raion
entries (`AlertFrame`), and `KyivAlertActive` is computed from them: the marker
decides whether the code looks, the type what it sees. `newest`, `late` and
`misled` are history: what the last snapshot of the newest connection said
(`IsSnapshot` is the frame's type and nothing else), whether the flag was last
stored by an older connection, and whether by a frame that is no snapshot.
`NeptunAssumption` is about the feed: a snapshot contains the marker, as the
server spells it, and a raion without one of the city's ten names is never said
to be in the city.

**ChannelRegistry.** A reference is a record of the form it is written in and
the channel meant. The resolution runs before the lock is taken (`AddResolve`),
the change and the beginning of the save are one step under it (`AddApply`,
`RemoveApply`), `EndSave` is the end of the write, `Reply` the message to the
admin. Between the two steps of a save the file is torn. A crash while
`initChannels` seeds the file leaves it torn too; the next start treats that
exactly like a missing file, so the model leaves it missing.

**SignatureStore.** A key is a record of its form and its channel. A command is a
sequence of calls of the store (`todo`) started by one of the `Set…` and `Clear…`
actions; `Apply` and `EndSave` are one call, so a crash can fall between the two
calls of `/setsig <text>` and inside each write. Which keys `MonitoredChannels`
gives for a channel depends on whether it has been resolved.

**CommandLoop.** Updates are numbered in the order of sending; `kept` is the
oldest that Telegram still has. `Ask` is the request (Telegram drops what the
offset confirms), `Answer` the batch, `PollFails` any loss; then `TakeUpdate`
moves the offset, one of `AddChannel`, `RemoveChannel`, `Refuse`, `Sign`, `Other`
is the command and `Reply` the answer. While `bot` is "resolving" the userbot
holds the registry's lock and commands that need it wait. What the stores do
inside, and disks that fail, are `ChannelRegistry` and `SignatureStore`; here a
command changes a store and its file in one step, and this module is about the
order and the repetition of commands and about what a new process finds. A
process that ends within a save (`ProcessEnds`, `Saves`) leaves a file that was
truncated (`U:171`, `S:223`), which reads as one with nothing in it: no
signatures (the environment's are left out here), or a list for which
`initChannels` puts the configured one (`ReadList`), as it does for a list that
is empty because the last channel was removed (`U:145`). `done`, `refused`,
`listFrom` and `sigsFrom` are history; the last two are the first command that
a store set back in this way has still to reflect.

**Geocoder.** A query is its normalized key. `Local` and `Hit` return at once,
`Miss` begins with the wait for the mutex (`Acquire`), which has no deadline, then
the sleep that holds it (`Grant` or `Expire`), then the request (`Answer`, `Fail`
or `Expire`). Time is counted in ticks; `clock` and `apart` measure the
distance of grants independently of `lastReq` (`elapsed`). The program has one
caller at a time, the command loop, for which the mutex is never contended and
no key is asked twice; the geocoder is written for several, so several are
checked.

**LocationParser.** A text is the set of the parser's phrases it contains, so one
phrase within another is two of them. `Turns` is the loop over the rules, turn by
turn, with the points it has appended, the names it has seen and the raions it has
collected; `Visit` is one turn, with the break at the first alias in the text and
the look at `seenPointNames`. `Firsts` and `Lists` say without a loop what should
come out: the rules of which the text has a name, the first of those that share a
`nameUA`, in the order of the table.

**PostText.** A text is a sequence of lines, and of a line only what the code tells
apart is kept: whether it is blank or a footer, the words of the filters in it,
the signatures it ends with. `Clean`, `Skip`, `Filter` and `Sign` are the steps of
`process`; `Repost` is a source channel that posts what was sent. `before` is
history.

## 3. Runs

| Run | Instance | Shows |
|---|---|---|
| `forwarder_sequential` | 1 handler, 3 posts (text, photo, rejected), 2 channels, queue of 1, one restart | `SequentialDedupe`, `StatsAddUp`, `GateWitnessed`, `ChatInOrder`, `FateMatchesChat`, `RemovedChannelDrains`, `RelaySafe` |
| `forwarder_fair` | 2 handlers, 2 posts (photo, empty), queue of 2, fairness | `PipelineInv` (with `Ledger`), `StopEnds`, `RelaySpec` |
| `bot_post` | the code's 3 attempts, all methods, fairness | `OnceInv`, `SendSpec` |
| `neptun` | 2 connections, 4 kinds of frames, a frame left in each closed one, delays 2 and 3, fairness | `OneOpenConnection`, `FlagIsNewest`, `CancelStopsAll`, `ReadersEnd`, `DeadPeerNoticed` |
| `registry` | a private and a public channel, all forms of reference, two restarts | `MonitoredIsListed`, `FileFollowsList`, `AddedRemovalIsFinal` |
| `command_loop` | a configured channel and another, an administrator and a stranger, 6 commands, 3 updates in batches of up to 2, one restart, fairness | `NothingForgotten`, `InboxSafe`, `ReplayConverges`, `EveryCommandHandled` |
| `geocoder` | 2 callers, keys for Nominatim, for the dictionary and for texts with several places and a bank, 3 rules of which two share a name, a gap of 1 and a limit of 2 ticks, fairness | `OneASecond`, `CacheTruthful`, `FewRepeats`, `NamedPlacesShown`, `EveryCallEnds` |
| `post_text` | all posts of up to 4 lines of 10 kinds, 2 signatures of which one is a footer | `FooterDecidesNothing`, `SentAsSigned`, `RepostUnchanged` |
| `signatures` | a public channel whose key changes when it is resolved, two texts, a seeded default, a disk that may fail, one restart | `ClearIsFinal`, `RestartKeeps`, `SetTakesEffect`, `DefaultTakesEffect` |
| `bot_post_retry`, `neptun_marker`, `registry_last` | as above with one connection or channel, safety only | disagreements between the code and what it says of itself (section 5) |

Why the bounds are enough. A queue of one is full, empty and handed over within
three posts; with two handlers a queue of two has an order to get wrong.
`MaxAdmitted` stops handlers from taking updates, never the worker, so every
admitted post still has all its futures; a handler that has passed the bound may
still enqueue, so each handler after the first can exceed the bound by one. One restart
suffices for the pipeline, where nothing survives but the chat; the registry gets
two, so that a list can be saved, found and saved again. Two connections are all
that overlap in one reconnect, and an older reader meets every state of the
newer one. Delays of 2 and 3 make the cap cut a doubling short. Three commands
in batches of two make a batch that is full, one that is not, and a batch that is
repeated with a later command after it, or a command that is confirmed and two
that are not when a save is torn; removing the only configured channel empties the
list, and the other channel is on no list but by a command; the stranger's command and the one without
a channel are among them. One channel is enough for the signatures of the run,
which are about the keys of one channel; that commands for other channels and
private ones change nothing is part of the theorems, which hold for any set of
channels. Two callers of the geocoder are what it takes to queue
up at the mutex, and a limit of two ticks ends before, in and after the gap of
one. Four lines hold a body with a blank line in it, and a footer after a blank
line. `MaxBoots`, `MaxAdmitted`, `MaxConns`, `Buffered` and `MaxUpdates` are the
only bounds on the behaviours; all other guards come from the code, except that
`PostText` lets a post come back once, since a text is compared with that of the
round before. No symmetry is used. `CHECK_DEADLOCK FALSE` is set where the
process may have ended for the last time.

Fairness. The Go scheduler runs a goroutine that can run, so the worker, the
loops and the readers are weakly fair. A `select` with several ready cases picks
one at random, so a ready `ctx.Done` is taken in the end: `StopWorker`,
`ConnCanceled` and `SleepCanceled` are strongly fair. `HTTP_TIMEOUT` ends an
attempt of `post`, the handshake timeout a dial, and the read deadline of 60
seconds a silent connection. Updates, frames, commands, alerts, signals, crashes
and restarts are never assumed to happen. In `CommandLoop`, `Ask` and `Answer` are
strongly fair: a network that works again and again is used in the end; the calls
of `resolveSources` and the ones of a command are assumed to end, by the MTProto
library's own limits. In `Geocoder` time passes, timers and deadlines fire, and
`Acquire` is strongly fair because `sync.Mutex` starves nobody. `RelaySpec` also assumes that a
photo download ends, which is up to the MTProto library.

## 4. Proofs

Proved for every value of the constants that satisfies the named assumptions of
the modules (`ForwarderAssumption`, `BotPostAssumption`, `NeptunAssumption`,
`RegistryAssumption`, `StoreAssumption`, `LoopAssumption`, `GeocoderAssumption`,
`ParserAssumption`, `PostAssumption`), which say what kind of value each constant
is, that capacities, attempts, batches and gaps are positive, that the sets
whose members are counted are finite (handlers, channels; so are goroutines and
lists in the program), and what the feed and the parser's table are like
(`Genuine` frames; the rules are a finite list).

- `ForwarderProofs`. `TypeCorrect` comes first and is used by all others.
  `PipelineCorrect` proves `PipelineInv`. `ChatInOrder` is not inductive: a
  message could be appended behind one with a later ticket. It becomes so with
  `ChatSoFar` (the chat never runs ahead of the worker), and `FateMatchesChat`
  with `ReplyPending` (while an answer is awaited the message is there) and
  `Ledger` (the worker's task is the admitted post of its ticket). `LedgerCorrect`,
  `ChatCorrect` and `FateCorrect` are its parts. All four hold with handlers that overlap.
  `GateCorrect` carries the witness of the alert through the download loop.
  `DedupeCorrect` assumes, inside the property, that there is one handler, and
  strengthens it by what that handler may hold. `ImplementsRelay` shows that
  every step of the pipeline is one of Relay's or invisible to it: `TakeTask`
  moves a post from the queue to the worker's hand and changes nothing in the
  line; an exit of the process loses it.
  `CountersCorrect` says that the counter is the number of fates "forwarded"
  (`CountInv`); then `FateMatchesChat` maps those fates into the messages of this
  process and `ChatInOrder` the messages into tickets, both without two having
  one image, and the library's facts about injections give the two inequalities.
  `DrainCorrect` compares the three places of `InFlight` before and after a step:
  `EnqueueMoves` and `TakeMoves` show that a post that moves on is counted once
  (`TailCounts`: the queue without its head, by the shift of its indices), and all
  other steps only empty places, because `ReceiveUpdate` has looked the channel up.
  Two results have no run of their own: `ShownOnceCorrect` joins deduplication,
  order and ledger (a message shows the post of its ticket, `ChatAdmitted`): with
  one handler no post appears twice from one process; `ScreenedCorrect` says that
  only what passed the filters ever appears.
- `BotPostProofs`. `OnceCorrect` proves `OnceInv`, whose reason is the shared
  reader: once a message was shown the reader is empty, and no later attempt can
  show it again. What makes retries useless makes them harmless.
  `ImplementsSendOnce` follows from it.
- `NeptunClientProofs`. `OneConnection`, `TypeCorrect`, and
  `FlagCorrect`, which needs that no connection beyond the latest has a reader,
  and that for a genuine frame `KyivAlertActive` says what `InKyiv` means; a frame
  that is no snapshot can only switch the flag off (`OthersSwitchOff`).
  `SpoilCorrect` says who can make `late` true: a reader of a closed connection and
  no other, by `ConnInv`. `RoomCorrect` says that a goroutine with an error to send
  always finds room: errors sent and still to be sent are at most the capacity
  (`RoomInv`). It is the reason why `ReadersEnd` and `CancelStopsAll` hold.
- `ChannelRegistryProofs`. `RegistryCorrect` needs that removing a channel
  removes only entries of that channel (`MatchMeans`). `RemovalCorrect` assumes
  that no channel has a further username and that the disk works; the code breaks
  the statement without the first assumption (section 5) and the file without the
  second. `FileCorrect` and `TypeCorrect` have invariants of their own.
- `SignatureStoreProofs`. `StoreCorrect`: after the last good write, loading the
  file gives the table, except for keys of the environment. `TypeCorrect` needs
  that every command and everything in a file has normalized keys; `ClearCorrect`
  carries what is still to do of a command (`todo`) in its invariant, so that a
  crash between two calls is covered; `DefaultCorrect` needs the order of
  `Fallbacks`, in which `Default` comes first. `SetCorrect` is about the channels
  that have one key before and after they are resolved (`Watched`, with the
  default): `SetInv` says that the table agrees with the last command under that
  key, or that the calls still to come (`Comes`) will make it so, whatever commands
  for other channels do in between; that no other key comes before it in the lookup
  is `OwnFound`.
- `CommandLoopProofs`. `CursorInv` ties offset, batch and `kept` together:
  everything below the cursor was handled and nothing above `kept + MaxBatch` was
  delivered. `NothingForgottenCorrect` and `InboxCorrect` follow; `TypeCorrect`
  adds that what is resolved is on the list. `ReplayCorrect` is about crashes: what
  the stores should hold is said without recursion, by the last command about each
  channel (`LastOrder`), and `ReplayInv` says that each channel is as the commands
  up to `Reach` left it, or is named by a command that will be repeated (`Pending`).
  A crash only moves the cursor back, which makes more commands pending
  (`RetreatStep`); executing one settles its channel, either because it is the
  last about it or because a later one is pending (`ExecuteStep`); a store that
  starts again from the configuration does so when every command that counts for
  it is pending again (`EndStep`, `RestartStep`, by `NothingSince`); in the end
  nothing is pending.
- `GeocoderProofs`. `OneASecondCorrect` needs that `elapsed` never exceeds the
  time since the last grant; `FewRepeatsCorrect` counts: every caller that asks
  late was waiting when the first answer came, so the late ones and those who wait
  are, with the answered one, no more than all callers. `NamedPlacesCorrect`
  is about the loop of the parser for any table of rules. `FoundStep` is its
  invariant: after n turns the points list the rules of `Firsts` among the first n,
  and the seen names are theirs. Since induction over the turns is out of the
  prover's reach, `Listed` argues by the least turn after which it would fail
  (`Least`, from the well-foundedness of the order of the naturals), which is
  neither the 0th nor a successor.
- `PostTextProofs`. `TextInv` says what the text is at each stage; the four
  theorems follow from what `Cutoff` and `Signed` return, for texts of any length.

Only model-checked: the liveness properties (`StopEnds`, the
liveness of `RelaySpec` and `SendSpec`, `CancelStopsAll`, `ReadersEnd`,
`DeadPeerNoticed`, `EveryCommandHandled`, `EveryCallEnds`), which are out of the
prover's reach. Every safety property of a passing run is proved,
`AddedRemovalIsFinal` under the two assumptions above, and those of `SendSpec` and
`RelaySpec` as their safety parts. No module uses a RECURSIVE operator. The types of
`ChannelRegistry`, `SignatureStore` and `PostText` are proved and no longer part of a
run.

## 5. Where code and documentation disagree

Shown by runs that end in a violation:

- `post` is documented as a retry loop (`T:169`), but attempts share one reader:
  from the second on, the payload is missing (`RetryCarriesPayload`).
- Only "alerts" frames drive the state, says `handleFrame` (`N:199`), but a frame of
  another type that contains the marker switches the flag off (`OnlyAlertsDrive`;
  `FlagIsNewest` names it as one of the two ways in which the flag is wrong).
- The last channel that is removed comes back after a restart if SOURCE_CHANNELS
  names it (`RemovalIsFinal`; `H:245` and the test at `userbot_test.go:87`).

Met while modelling, without a run of their own.

Notifier and channels:

- `SendTextReply` is documented to fall back to plain text (`T:74`), but sees the
  error of the last attempt only, which is no longer the one about the markup
  (`T:90`).
- "Ensure membership" (`U:544`) joins the channels the account has not left and
  no others (`U:545`).
- A crash during a save leaves a file that cannot be read: of the signatures it
  loses all (`S:223`; `S:12` says restarts do not wipe them), of the channels
  those that commands added (`U:171`), and those that commands removed are back.
  `ReplayConverges` says that this and the empty list are the only ways to lose a
  command that Telegram has forgotten.
- An entry that names a channel by a further username stays listed when the
  channel is removed (`U:308`); a failed save is reported as saved (`U:250`).
- A cleared signature that CHANNEL_SIGNATURES sets is back after a restart
  (`S:38`), which is why `ClearIsFinal` speaks of keys the environment does not set.
- A signature kept under the configured ID of a public channel hides the one
  `/setsig` puts under its username (`H:650`), which is why `SetTakesEffect`
  leaves out channels with a username that are configured by their ID.

Commands:

- Telegram delivers the last batch again after every stop, a graceful one
  included, since only the next poll confirms it (`H:69`). That does no harm
  (`ReplayConverges`) except to a `/setsig` or `/clearsig` that names no channel
  and means the only one (`H:425`): with "remove c1, sign, add c1" repeated from
  the second command on, c1 gets a signature it did not have. The property leaves
  such commands, and refused ones, out.
- A command sent while the userbot starts may be refused and is not repeated.

Alert:

- The alert may end between the gate and the send (`U:769`).
- A snapshot with a space after the colon would not be noticed (`N:205`).
- "м.київ" without a space is a name of the city for an oblast entry (`K:70`) but
  not for the oblast of a raion (`K:85`).

Geocoder and parser:

- "strictly complies with Nominatim 1 req/sec policy" (`G:190`): the gap is
  kept between permissions; a request that is slow to leave can follow the one
  before more closely. A caller whose deadline passed while it waited for the mutex
  may still use up a slot.
- Queries with the same normalized key share one answer, "not found" included,
  until the process ends (`G:376`); `handleMap` reports any error as not found.
- "if no explicit raion" (`parser.go:268`): the bank's raions are added in any
  case.
- Phrases within other names mark places the text does not name ("центр" in
  "епіцентр").

Text:

- A custom signature of several lines (possible by CHANNEL_SIGNATURES only) whose
  last line is a footer would be signed again on a post that comes back.
- Default skip patterns that are handles cannot match as the last line, because
  footers are removed first.
- The Kyiv-only filter's stems "дніпро" and "харків" also match places in Kyiv
  ("Харківський масив"), against `geo_filter.go:5-9`.

## 6. Not modelled, and what is left

Left out: configuration (it becomes constants), authentication and the test
modes (straight lines of I/O that run once and exit), the renderer (draws an
image, without state or protocol), the dictionaries of place names, stems and
footer patterns (data; the modules hold for any), the wording of replies,
logging, statistics and the heartbeat.

Left to do:

1. Composition of `NeptunClient`'s flag with `Forwarder`'s gate: a post is sent
   only if the newest verdict was "alert" while the worker held it. Each side is
   checked against the flag (`FlagIsNewest`, `GateWitnessed`).
2. Refinement of `CommandLoop`'s stores by `ChannelRegistry` and
   `SignatureStore`, so that a failing disk and the several keys of a channel meet
   the redelivery of commands.
