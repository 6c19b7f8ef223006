-------------------------- MODULE ChannelRegistry --------------------------
(***************************************************************************)
(* The registry of monitored channels of internal/telegram/userbot.go: the  *)
(* configured list and its file, the maps of resolved channels, and the     *)
(* /addchannel and /removechannel commands that change both, across         *)
(* restarts.  Commands run one at a time on the command goroutine;          *)
(* resolveSources runs on Run's.                                            *)
(*                                                                         *)
(* Abstractions.  A reference to a channel is a record: the form in which   *)
(* it is written and the channel meant.  The list is the set of its entries *)
(* (its order picks the channel of the test modes only).  channelsByID,     *)
(* sourceChannelIDs and channelKeys have the same keys, so channelKeys      *)
(* stands for all three.                                                    *)
(***************************************************************************)
EXTENDS Naturals

CONSTANTS
    Channels,
    Private,        \* channels without a username
    Aliased,        \* channels with a further username besides the main one
    SourceChannels, \* references in SOURCE_CHANNELS
    Members,        \* channels the account belongs to at first
    DiskFails,      \* whether a write of the file may fail
    MaxBoots        \* bound: starts of the process

\* A username, the same with "@", a further username, "-100<id>", "<id>" and
\* a title.
Forms == {"name", "at", "alias", "id", "number", "title"}

Refs == {r \in [form : Forms, ch : Channels] :
            /\ r.form \in {"name", "at"} => r.ch \notin Private
            /\ r.form = "alias" => r.ch \in Aliased}

ASSUME RegistryAssumption ==
    /\ Private \subseteq Channels
    /\ Aliased \subseteq Channels
    /\ SourceChannels \subseteq Refs
    /\ Members \subseteq Channels
    /\ DiskFails \in BOOLEAN
    /\ MaxBoots \in Nat

VARIABLES
    life,           \* "starting" | "up" (sources resolved) | "down"
    boot,
    sourceChannels, \* the configured list
    channelKeys,    \* the monitored channels and their signature keys
    file,           \* channels.json: [state : "absent" | "torn" | "whole", list]
    member,         \* channels whose updates the account receives
    cmd,            \* the command: "idle" | "resolved" | "saving" | "replying"
    ref,            \* the reference it was given
    verb,           \* what its reply will say: "added" | "removed"
    \* History:
    said            \* what the reply to the last change of a channel said

vars == <<life, boot, sourceChannels, channelKeys, file, member, cmd, ref,
          verb, said>>
memory == <<sourceChannels, channelKeys>>
command == <<cmd, ref, verb>>

Whole(s) == [state |-> "whole", list |-> s]
NoFile == [state |-> "absent", list |-> {}]
Torn == [state |-> "torn", list |-> {}]

Monitored == DOMAIN channelKeys

\* filter.NormalizeChannelKey.
NormalizeChannelKey(r) ==
    [r EXCEPT !.form = IF r.form = "at" THEN "name" ELSE r.form]

\* channelMatches, for a channel with its main username, ID and title.
ChannelMatches(q, c, configName) ==
    \/ q.ch = c /\ q.form \in {"name", "at", "id", "number", "title"}
    \/ NormalizeChannelKey(q) = NormalizeChannelKey(configName)

\* initChannels: what a process starts with, given what it finds on disk.
BootList(f) ==
    IF f.state = "whole" /\ f.list # {} THEN f.list ELSE SourceChannels

\* ... and what it may leave there: the list it fell back to seeds the file.
BootFiles(f) ==
    IF BootList(f) = {} \/ f = Whole(BootList(f)) THEN {f}
    ELSE {Whole(BootList(f))} \cup (IF DiskFails THEN {f} ELSE {})

Init ==
    /\ life = "starting"
    /\ boot = 0
    /\ sourceChannels = BootList(NoFile)
    /\ channelKeys = [c \in {} |-> {}]
    /\ file \in BootFiles(NoFile)
    /\ member = Members
    /\ cmd = "idle"
    /\ ref \in Refs
    /\ verb = "added"
    /\ said = [c \in Channels |-> "nothing"]

----------------------------------------------------------------------------
(* Resolving *)

\* resolveSourceSingle: usernames are looked up, "-100" IDs are searched in
\* the dialogs of the account; anything else is looked up in vain.
Resolvable(r) ==
    \/ r.form \in {"name", "at", "alias"}
    \/ r.form = "id" /\ r.ch \in member

\* ... which for a username joins a channel that the account has not left.
AfterResolving(rs) ==
    member \cup {r.ch : r \in {s \in rs : s.form # "id" /\ s.ch \in member}}

\* resolveSources, under the lock: some entries resolve; of two entries for
\* one channel either may come last.
ResolveSources ==
    /\ life = "starting"
    /\ cmd # "saving"
    /\ \E found \in SUBSET {r \in sourceChannels : Resolvable(r)} :
          LET hit == {r.ch : r \in found}
          IN  /\ found # {} \/ sourceChannels = {}
              /\ \E key \in [hit -> {NormalizeChannelKey(r) : r \in found}] :
                    /\ \A c \in hit : key[c].ch = c
                    /\ channelKeys' = [c \in Monitored \cup hit |->
                                          IF c \in hit THEN key[c] ELSE channelKeys[c]]
              /\ member' = AfterResolving(found)
    /\ life' = "up"
    /\ UNCHANGED <<boot, sourceChannels, file, command, said>>

\* No entry resolves: Run returns an error and main exits.
NothingResolves ==
    /\ life = "starting"
    /\ cmd # "saving"
    /\ sourceChannels # {}
    /\ life' = "down"
    /\ cmd' = "idle"
    /\ UNCHANGED <<boot, memory, file, member, ref, verb, said>>

----------------------------------------------------------------------------
(* The commands *)

\* AddChannel up to the lock.
AddResolve(r) ==
    /\ life # "down"
    /\ cmd = "idle"
    /\ Resolvable(r)
    /\ member' = AfterResolving({r})
    /\ cmd' = "resolved"
    /\ ref' = r
    /\ verb' = "added"
    /\ UNCHANGED <<life, boot, memory, file, said>>

\* Faulty: the list is not saved.
SkipSave == cmd' = "replying" /\ UNCHANGED file

\* saveChannelsLocked begins: os.WriteFile has truncated the file, or could
\* not even do that.
BeginSave ==
    /\ cmd' = "saving"
    /\ file' \in {Torn} \cup (IF DiskFails THEN {file} ELSE {})

\* AddChannel under the lock.  The same reference is not listed twice; one
\* that is written differently is.
AddApply ==
    /\ life # "down"
    /\ cmd = "resolved"
    /\ channelKeys' = [c \in Monitored \cup {ref.ch} |->
                          IF c = ref.ch THEN NormalizeChannelKey(ref)
                          ELSE channelKeys[c]]
    /\ sourceChannels' = sourceChannels \cup {ref}
    /\ BeginSave
    /\ said' = [said EXCEPT ![ref.ch] = "nothing"]
    /\ UNCHANGED <<life, boot, member, ref, verb>>

\* The entries that RemoveChannel leaves in the list.
KeepMatching(q, c) == {r \in sourceChannels : ChannelMatches(r, c, q)} \* faulty: inverted
KeepAll(q, c) == sourceChannels     \* faulty: nothing leaves
Remaining(q, c) == {r \in sourceChannels : ~ChannelMatches(r, c, q)}

\* RemoveChannel: a monitored channel that matches leaves the maps, and the
\* entries that match it by username, ID, title or the reference leave the
\* list.
RemoveApply(q, c) ==
    /\ life # "down"
    /\ cmd = "idle"
    /\ c \in Monitored
    /\ ChannelMatches(q, c, channelKeys[c])
    /\ channelKeys' = [d \in Monitored \ {c} |-> channelKeys[d]]
    /\ sourceChannels' = Remaining(q, c)
    /\ BeginSave
    /\ ref' = [q EXCEPT !.ch = c]
    /\ verb' = "removed"
    /\ said' = [said EXCEPT ![c] = "nothing"]
    /\ UNCHANGED <<life, boot, member>>

\* The save ends, or fails, which is ignored, and the lock is released.
EndSave ==
    /\ life # "down"
    /\ cmd = "saving"
    /\ file' \in {Whole(sourceChannels)} \cup (IF DiskFails THEN {file} ELSE {})
    /\ cmd' = "replying"
    /\ UNCHANGED <<life, boot, memory, member, ref, verb, said>>

\* handleAddChannel and handleRemoveChannel report success.
Reply ==
    /\ life # "down"
    /\ cmd = "replying"
    /\ said' = [said EXCEPT ![ref.ch] = verb]
    /\ cmd' = "idle"
    /\ UNCHANGED <<life, boot, memory, file, member, ref, verb>>

----------------------------------------------------------------------------
(* The life of the process *)

\* The process ends, in the middle of a command or not.
Crash ==
    /\ life # "down"
    /\ life' = "down"
    /\ cmd' = "idle"
    /\ UNCHANGED <<boot, memory, file, member, ref, verb, said>>

\* NewUserBot and initChannels.
Restart ==
    /\ life = "down"
    /\ boot < MaxBoots
    /\ boot' = boot + 1
    /\ life' = "starting"
    /\ sourceChannels' = BootList(file)
    /\ channelKeys' = [c \in {} |-> {}]
    /\ file' \in BootFiles(file)
    /\ UNCHANGED <<member, command, said>>

Next ==
    \/ ResolveSources
    \/ NothingResolves
    \/ \E r \in Refs : AddResolve(r)
    \/ AddApply
    \/ \E q \in Refs, c \in Channels : RemoveApply(q, c)
    \/ EndSave
    \/ Reply
    \/ Crash
    \/ Restart

Spec == Init /\ [][Next]_vars

----------------------------------------------------------------------------
(* Properties *)

\* The values the code gives to its variables; a monitored channel's key is a
\* reference to that channel.
TypeOK ==
    /\ life \in {"starting", "up", "down"}
    /\ boot \in 0..MaxBoots
    /\ sourceChannels \subseteq Refs
    /\ Monitored \subseteq Channels
    /\ channelKeys \in [Monitored -> Refs]
    /\ \A c \in Monitored : channelKeys[c].ch = c
    /\ file \in [state : {"absent", "torn", "whole"}, list : SUBSET Refs]
    /\ file.state # "whole" => file.list = {}
    /\ member \subseteq Channels
    /\ cmd \in {"idle", "resolved", "saving", "replying"}
    /\ ref \in [form : Forms, ch : Channels]
    /\ verb \in {"added", "removed"}
    /\ said \in [Channels -> {"nothing", "added", "removed"}]

\* Every monitored channel stands in the configured list under the reference
\* its signatures are kept by, so that saving the list saves the registry.
MonitoredIsListed ==
    \A c \in Monitored :
        \E r \in sourceChannels : NormalizeChannelKey(r) = channelKeys[c]

\* On a disk that works the file holds the list whenever no save is under way:
\* a restart finds exactly the channels of the process before it.
FileFollowsList ==
    ~DiskFails /\ life # "down" /\ cmd # "saving" /\ sourceChannels # {}
        => file = Whole(sourceChannels)

Configured(c) == \E r \in SourceChannels : r.ch = c
Listed(c) == \E r \in sourceChannels : r.ch = c

\* A channel that was added by command and removed by command is gone for good,
\* whatever crashes and restarts come after.
AddedRemovalIsFinal ==
    ~DiskFails /\ life # "down" =>
        \A c \in Channels :
            said[c] = "removed" /\ ~Configured(c) => ~Listed(c) /\ c \notin Monitored

\* A channel that was removed is no longer monitored.
RemovalIsFinal ==
    \A c \in Channels : said[c] = "removed" => c \notin Monitored
=============================================================================
