--------------------------- MODULE SignatureStore ---------------------------
(***************************************************************************)
(* The custom signatures: internal/filter/signature_store.go, the /setsig   *)
(* and /clearsig commands of internal/command/handler.go that change it and *)
(* the lookup that process makes for every post, across restarts.           *)
(*                                                                         *)
(* Abstractions.  A normalized key is a record: its form and the channel it *)
(* belongs to.  A signature is a model value.  The channels are given; what *)
(* changes is whether resolveSources has resolved them, which decides how   *)
(* MonitoredChannels describes them.                                        *)
(***************************************************************************)
EXTENDS Naturals, Sequences, FiniteSets

CONSTANTS
    Channels,
    Private,    \* channels without a username
    ById,       \* channels configured by ID, the others by username
    Texts,      \* signatures
    NoText,     \* "no signature"
    Everything, \* the channel of the global keys
    Seed,       \* CHANNEL_SIGNATURES, keys normalized
    DiskFails,  \* whether a write of the file may fail
    MaxBoots    \* bound: starts of the process

Key(form, c) == [form |-> form, ch |-> c]

Global == {"default", "all", "star"}
Keys == {Key(form, c) : form \in {"id", "number", "title"}, c \in Channels}
        \cup {Key("name", c) : c \in Channels \ Private}
        \cup {Key(form, Everything) : form \in Global}

Default == Key("default", Everything)

Tables == UNION {[ks -> Texts] : ks \in SUBSET Keys}

ASSUME StoreAssumption ==
    /\ IsFiniteSet(Channels)
    /\ Private \subseteq ById
    /\ ById \subseteq Channels
    /\ {NoText, "nothing", "cleared"} \cap Texts = {}
    /\ Everything \notin Channels
    /\ DOMAIN Seed \subseteq Keys
    /\ Seed \in [DOMAIN Seed -> Texts]
    /\ DiskFails \in BOOLEAN
    /\ MaxBoots \in Nat

VARIABLES
    life,       \* "starting" | "up" (sources resolved) | "down"
    boot,
    monitored,  \* what MonitoredChannels lists
    sigs,       \* the table
    file,       \* signatures.json: [state : "absent" | "torn" | "whole", table]
    todo,       \* calls of the store that the command still makes
    saving,     \* the file is being written
    busy,       \* a command is being handled
    promise,    \* what its reply will tell
    \* History:
    wants,      \* what the admin was told last, per channel and for the default
    lost        \* the last write of the file failed or was cut off

vars == <<life, boot, monitored, sigs, file, todo, saving, busy, promise,
          wants, lost>>
process == <<life, boot, monitored>>

Empty == [k \in {} |-> NoText]
Whole(t) == [state |-> "whole", table |-> t]
NoFile == [state |-> "absent", table |-> Empty]
Torn == [state |-> "torn", table |-> Empty]

Has(t, k) == k \in DOMAIN t
Without(t, ks) == [k \in DOMAIN t \ ks |-> t[k]]
With(t, k, text) == [j \in DOMAIN t \cup {k} |-> IF j = k THEN text ELSE t[j]]

\* Faulty: the file is never read, or the seed overrides it.
SeedOnly(f) == Seed
SeedWins(f) == [k \in DOMAIN Seed \cup DOMAIN f.table |->
                   IF Has(Seed, k) THEN Seed[k] ELSE f.table[k]]

\* NewSignatureStore: the seed, overridden by what the file says.
Load(f) == [k \in DOMAIN Seed \cup DOMAIN f.table |->
               IF Has(f.table, k) THEN f.table[k] ELSE Seed[k]]

\* ... which it saves if there is no file yet.
FilesAfterLoad(f) ==
    IF f.state = "absent" /\ Load(f) # Empty
    THEN {Whole(Load(f))} \cup (IF DiskFails THEN {f, Torn} ELSE {})
    ELSE {f}

Targets == Channels \cup {Everything}

Init ==
    /\ life = "starting"
    /\ boot = 0
    /\ monitored = Channels
    /\ sigs = Load(NoFile)
    /\ file \in FilesAfterLoad(NoFile)
    /\ todo = <<>>
    /\ saving = FALSE
    /\ busy = FALSE
    /\ promise = [x \in {} |-> "nothing"]
    /\ wants = [x \in Targets |-> "nothing"]
    /\ lost = FALSE

----------------------------------------------------------------------------
(* Channels and keys *)

Resolved == life = "up"

\* channelKeys[c], which is also the configured name before c is resolved.
ConfigKey(c) == Key(IF c \in ById THEN "id" ELSE "name", c)

\* The username is known once the channel is resolved.
UsernameKeys(c) == IF Resolved /\ c \notin Private THEN {Key("name", c)} ELSE {}

\* The forms of the ID and the title, known once the channel is resolved.
NoIdKeys(c) == {}       \* faulty: forgotten
IdKeys(c) == IF Resolved THEN {Key("id", c), Key("number", c)} ELSE {}
TitleKeys(c) == IF Resolved THEN {Key("title", c)} ELSE {}

\* channelMatches.
ChannelMatches(k, c) ==
    k \in {ConfigKey(c)} \cup UsernameKeys(c) \cup IdKeys(c) \cup TitleKeys(c)

\* Faulty: a resolved channel goes by its bare ID.
NumberKey(c) == IF Resolved THEN Key("number", c) ELSE ConfigKey(c)

\* channelKey: where /setsig puts the signature of a channel.
ChannelKey(c) ==
    IF ~Resolved THEN ConfigKey(c)
    ELSE IF c \in Private THEN Key("id", c) ELSE Key("name", c)

\* A key of the form "-100<id>" goes with "<id>" and back.
Twins(k) ==
    {k} \cup (IF k.form = "id" THEN {Key("number", k.ch)}
              ELSE IF k.form = "number" THEN {Key("id", k.ch)} ELSE {})
WithTwins(ks) == UNION {Twins(k) : k \in ks}

\* GetForChannel, as process and /listsig call it for a resolved channel: the
\* first candidate that has a signature, else the first global key that has.
Candidates(c) ==
    <<ConfigKey(c), Key("id", c), Key("number", c), Key("name", c), Key("title", c)>>
Fallbacks == <<Default, Key("all", Everything), Key("star", Everything)>>

GetForChannel(c) ==
    LET order == Candidates(c) \o Fallbacks
        hits == {i \in 1..Len(order) : Has(sigs, order[i])}
    IN  IF hits = {} THEN NoText
        ELSE sigs[order[CHOOSE i \in hits : \A j \in hits : i <= j]]

----------------------------------------------------------------------------
(* The commands *)

\* Calls of the store: Set, Clear or ClearForChannel, or Clear for each key.
Set(k, text) == [keys |-> {k}, text |-> text, each |-> FALSE]
Clear(ks) == [keys |-> WithTwins(ks), text |-> NoText, each |-> FALSE]
ClearEach(ks) == [keys |-> ks, text |-> NoText, each |-> TRUE]

Start(calls, told) ==
    /\ life # "down"
    /\ ~busy
    /\ busy' = TRUE
    /\ todo' = calls
    /\ promise' = told
    /\ UNCHANGED <<process, sigs, file, saving, wants, lost>>

Tell(xs, what) == [x \in xs |-> what]

\* /setsig default <text>
SetDefault(t) == Start(<<Set(Default, t)>>, Tell({Everything}, t))

\* /setsig <channel> <text>
SetChannel(k, c, t) ==
    /\ c \in monitored
    /\ ChannelMatches(k, c)
    /\ Start(<<Set(ChannelKey(c), t)>>, Tell({c}, t))

\* /setsig <identifier> <text>, for a channel that is not listed: the reply is
\* about the key alone.
SetIdentifier(k, t) ==
    /\ k.form \in {"name", "id", "number"}
    /\ \A c \in monitored : ~ChannelMatches(k, c)
    /\ Start(<<Set(k, t)>>, Tell({k.ch}, "nothing"))

\* /setsig <text>: the default, and the only channel's if there is only one.
SetText(t) ==
    LET only == IF Cardinality(monitored) = 1 THEN monitored ELSE {}
        own == IF only = {} THEN <<>>
               ELSE <<Set(ChannelKey(CHOOSE c \in only : TRUE), t)>>
    IN  Start(<<Set(Default, t)>> \o own,
              [x \in {Everything} \cup only |-> t])

\* /clearsig and /clearsig default
ClearDefault ==
    LET only == IF Cardinality(monitored) = 1 THEN monitored ELSE {}
        own == IF only = {} THEN <<>>
               ELSE LET c == CHOOSE c \in only : TRUE
                    IN  <<Clear({ChannelKey(c)} \cup UsernameKeys(c)
                                \cup (IdKeys(c) \ {Key("number", c)}))>>
    IN  Start(<<Clear({Default})>> \o own,
              [x \in {Everything} \cup only |->
                  IF x = Everything THEN "cleared" ELSE "nothing"])

\* /clearsig all: List, then Clear for every key of the snapshot.
ClearAll ==
    Start(IF sigs = Empty THEN <<>> ELSE <<ClearEach(DOMAIN sigs)>>,
          Tell(Targets, "cleared"))

\* /clearsig <channel>: before the channel is resolved its other keys are not
\* known, and nothing is promised about it.
ClearChannel(k, c) ==
    /\ c \in monitored
    /\ ChannelMatches(k, c)
    /\ Start(<<Clear({ConfigKey(c), k} \cup UsernameKeys(c) \cup IdKeys(c)
                     \cup TitleKeys(c))>>,
             Tell({c}, IF Resolved THEN "cleared" ELSE "nothing"))

\* /clearsig <key>, for a channel that is not listed.
ClearIdentifier(k) ==
    /\ k.ch # Everything
    /\ \A c \in monitored : ~ChannelMatches(k, c)
    /\ Start(<<Clear({k})>>, Tell({k.ch}, "nothing"))

\* A call changes the table under the lock and begins to write the file:
\* os.WriteFile truncates it first, or cannot even do that.
Apply ==
    /\ life # "down"
    /\ ~saving
    /\ todo # <<>>
    /\ LET call == Head(todo)
       IN  \E ks \in (IF call.each THEN {{k} : k \in call.keys} ELSE {call.keys}) :
              LET gone == IF call.each THEN WithTwins(ks) ELSE ks
              IN  /\ sigs' = IF call.text = NoText THEN Without(sigs, gone)
                             ELSE With(sigs, CHOOSE k \in ks : TRUE, call.text)
                  /\ todo' = IF call.each /\ call.keys # ks
                             THEN <<[call EXCEPT !.keys = @ \ ks]>>
                             ELSE Tail(todo)
    /\ saving' = TRUE
    /\ file' \in {Torn} \cup (IF DiskFails THEN {file} ELSE {})
    /\ UNCHANGED <<process, busy, promise, wants, lost>>

\* The write ends; the commands ignore an error.
EndSave ==
    /\ life # "down"
    /\ saving
    /\ saving' = FALSE
    /\ \/ file' = Whole(sigs) /\ lost' = FALSE
       \/ DiskFails /\ file' = file /\ lost' = TRUE
    /\ UNCHANGED <<process, sigs, todo, busy, promise, wants>>

Reply ==
    /\ life # "down"
    /\ busy
    /\ ~saving
    /\ todo = <<>>
    /\ busy' = FALSE
    /\ promise' = [x \in {} |-> "nothing"]
    /\ wants' = [x \in Targets |-> IF x \in DOMAIN promise THEN promise[x] ELSE wants[x]]
    /\ UNCHANGED <<process, sigs, file, todo, saving, lost>>

----------------------------------------------------------------------------
(* The life of the process *)

\* resolveSources: some of the channels resolve.
Resolve ==
    /\ life = "starting"
    /\ life' = "up"
    /\ monitored' \in SUBSET Channels \ {{}}
    /\ UNCHANGED <<boot, sigs, file, todo, saving, busy, promise, wants, lost>>

\* The process ends, in the middle of a command or not; what a command under
\* way was to change may be changed or not.
Crash ==
    /\ life # "down"
    /\ life' = "down"
    /\ todo' = <<>>
    /\ saving' = FALSE
    /\ busy' = FALSE
    /\ promise' = [x \in {} |-> "nothing"]
    /\ wants' = [x \in Targets |-> IF x \in DOMAIN promise THEN "nothing" ELSE wants[x]]
    /\ lost' = (lost \/ saving)
    /\ UNCHANGED <<boot, monitored, sigs, file>>

Restart ==
    /\ life = "down"
    /\ boot < MaxBoots
    /\ boot' = boot + 1
    /\ life' = "starting"
    /\ monitored' = Channels
    /\ sigs' = Load(file)
    /\ file' \in FilesAfterLoad(file)
    /\ wants' = IF lost THEN [x \in Targets |-> "nothing"] ELSE wants
    /\ lost' = FALSE
    /\ UNCHANGED <<todo, saving, busy, promise>>

\* handleMessage, which the command loop calls for one message after the other.
Command ==
    /\ ~busy
    /\ \/ \E t \in Texts : SetDefault(t) \/ SetText(t)
       \/ \E k \in Keys, t \in Texts :
             \/ \E c \in Channels : SetChannel(k, c, t)
             \/ SetIdentifier(k, t)
       \/ ClearDefault
       \/ ClearAll
       \/ \E k \in Keys :
             \/ \E c \in Channels : ClearChannel(k, c)
             \/ ClearIdentifier(k)

Next ==
    \/ Command
    \/ Apply
    \/ EndSave
    \/ Reply
    \/ Resolve
    \/ Crash
    \/ Restart

Spec == Init /\ [][Next]_vars

----------------------------------------------------------------------------
(* Properties *)

IsTable(t) == DOMAIN t \subseteq Keys /\ t \in [DOMAIN t -> Texts]

\* The values the code gives to its variables.
TypeOK ==
    /\ life \in {"starting", "up", "down"}
    /\ boot \in 0..MaxBoots
    /\ monitored \subseteq Channels
    /\ IsTable(sigs)
    /\ file.state \in {"absent", "torn", "whole"}
    /\ IsTable(file.table)
    /\ Len(todo) <= 2
    /\ \A i \in 1..Len(todo) :
          todo[i].keys \subseteq Keys /\ todo[i].text \in Texts \cup {NoText}
    /\ {saving, busy, lost} \subseteq BOOLEAN
    /\ wants \in [Targets -> Texts \cup {"nothing", "cleared"}]

Quiet == life # "down" /\ ~busy /\ ~lost

\* A restart wipes no signature and brings back none but those of the
\* environment: the file says what the table says.
RestartKeeps ==
    life # "down" /\ ~saving /\ ~lost =>
        /\ \A k \in DOMAIN sigs : Has(Load(file), k) /\ Load(file)[k] = sigs[k]
        /\ DOMAIN Load(file) \subseteq DOMAIN sigs \cup DOMAIN Seed

\* The keys of a channel, in every form.
OwnKeys(c) == {k \in Keys : k.ch = c}

\* A channel whose signature was cleared has none under any of its keys until
\* one is set again, across restarts, unless the environment seeds one.
ClearIsFinal ==
    Quiet => \A c \in Channels :
        wants[c] = "cleared" /\ OwnKeys(c) \cap DOMAIN Seed = {}
            => OwnKeys(c) \cap DOMAIN sigs = {}

\* Once set, the default signature is what a channel without a signature of its
\* own gets, across restarts and whatever the environment says.
DefaultTakesEffect ==
    Quiet => \A c \in Channels :
        wants[Everything] \in Texts /\ OwnKeys(c) \cap DOMAIN sigs = {}
            => GetForChannel(c) = wants[Everything]

\* A signature set for a channel is the one its posts get, unless the channel
\* has a username and is configured by its ID: there a signature under the ID
\* hides the one that /setsig puts under the username.
SetTakesEffect ==
    Quiet => \A c \in Channels \ (ById \ Private) :
        wants[c] \in Texts => GetForChannel(c) = wants[c]
=============================================================================
