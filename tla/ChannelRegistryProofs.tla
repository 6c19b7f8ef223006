----------------------- MODULE ChannelRegistryProofs -----------------------
(***************************************************************************)
(* Proofs about ChannelRegistry, for any channels, any configuration and a  *)
(* disk that works or fails.                                                *)
(***************************************************************************)
EXTENDS ChannelRegistry, TLAPS

USE DEF memory, command, Monitored

\* Normalizing a reference keeps the channel meant and settles in one step.
LEMMA NormalizeKeeps ==
  ASSUME NEW r \in [form : Forms, ch : Channels]
  PROVE  /\ NormalizeChannelKey(r) \in [form : Forms, ch : Channels]
         /\ NormalizeChannelKey(r).ch = r.ch
         /\ NormalizeChannelKey(NormalizeChannelKey(r)) = NormalizeChannelKey(r)
BY DEF NormalizeChannelKey, Forms

\* What matches a channel under its own key, or is taken off the list with it,
\* means that channel.
LEMMA MatchMeans ==
  ASSUME NEW q \in Refs, NEW k \in [form : Forms, ch : Channels], NEW c,
         k.ch = c, ChannelMatches(q, c, k)
  PROVE  q.ch = c
<1>1. q \in [form : Forms, ch : Channels]
  BY DEF Refs
<1>2. CASE NormalizeChannelKey(q) = NormalizeChannelKey(k)
  BY <1>1, <1>2, NormalizeKeeps
<1>3. CASE q.ch = c
  BY <1>3
<1> QED
  BY <1>2, <1>3 DEF ChannelMatches

----------------------------------------------------------------------------
(* The registry is a part of the list *)

\* MonitoredIsListed with the types it needs; the lists on disk and in the
\* configuration are lists of references.
ListInv ==
    /\ sourceChannels \subseteq Refs
    /\ file.list \subseteq Refs
    /\ ref \in Refs
    /\ \A c \in Monitored :
          /\ c \in Channels
          /\ channelKeys[c] \in [form : Forms, ch : Channels]
          /\ channelKeys[c].ch = c
    /\ MonitoredIsListed

LEMMA BootLists ==
  ASSUME NEW f, f.list \subseteq Refs
  PROVE  /\ BootList(f) \subseteq Refs
         /\ \A g \in BootFiles(f) : g.list \subseteq Refs
<1>1. BootList(f) \subseteq Refs
  BY RegistryAssumption DEF BootList
<1>2. Whole(BootList(f)).list = BootList(f)
  BY DEF Whole
<1> QED
  BY <1>1, <1>2 DEF BootFiles

LEMMA ListStep ==
  ASSUME ListInv, [Next]_vars
  PROVE  ListInv'
<1> USE DEF ListInv, MonitoredIsListed
<1>1. CASE UNCHANGED <<sourceChannels, channelKeys, file, ref>>
  BY <1>1
<1>2. CASE ResolveSources
  <2>1. /\ UNCHANGED <<sourceChannels, file, ref>>
        /\ \E found \in SUBSET sourceChannels :
              LET hit == {r.ch : r \in found}
              IN  \E key \in [hit -> {NormalizeChannelKey(r) : r \in found}] :
                    /\ \A c \in hit : key[c].ch = c
                    /\ channelKeys' = [c \in Monitored \cup hit |->
                                          IF c \in hit THEN key[c] ELSE channelKeys[c]]
    BY <1>2 DEF ResolveSources
  <2>2. PICK found \in SUBSET sourceChannels :
              LET hit == {r.ch : r \in found}
              IN  \E key \in [hit -> {NormalizeChannelKey(r) : r \in found}] :
                    /\ \A c \in hit : key[c].ch = c
                    /\ channelKeys' = [c \in Monitored \cup hit |->
                                          IF c \in hit THEN key[c] ELSE channelKeys[c]]
    BY <2>1
  <2> DEFINE hit == {r.ch : r \in found}
  <2>3. PICK key \in [hit -> {NormalizeChannelKey(r) : r \in found}] :
              /\ \A c \in hit : key[c].ch = c
              /\ channelKeys' = [c \in Monitored \cup hit |->
                                    IF c \in hit THEN key[c] ELSE channelKeys[c]]
    BY <2>2
  <2>4. ASSUME NEW c \in hit
        PROVE  /\ c \in Channels
               /\ key[c] \in [form : Forms, ch : Channels] /\ key[c].ch = c
               /\ \E r \in sourceChannels : NormalizeChannelKey(r) = key[c]
    <3>1. PICK r \in found : NormalizeChannelKey(r) = key[c]
      BY <2>3, <2>4
    <3>2. r \in [form : Forms, ch : Channels]
      BY <3>1 DEF Refs
    <3> QED
      BY <2>3, <3>1, <3>2, NormalizeKeeps
  <2>5. ASSUME NEW c \in Monitored'
        PROVE  /\ c \in Channels
               /\ channelKeys'[c] \in [form : Forms, ch : Channels]
               /\ channelKeys'[c].ch = c
               /\ \E r \in sourceChannels' : NormalizeChannelKey(r) = channelKeys'[c]
    BY <2>1, <2>3, <2>4, <2>5
  <2> QED
    BY <2>1, <2>5
<1>3. CASE NothingResolves \/ EndSave \/ Reply \/ Crash
  <2>1. CASE NothingResolves \/ Reply \/ Crash
    BY <1>1, <2>1 DEF NothingResolves, Reply, Crash
  <2>2. CASE EndSave
    BY <2>2 DEF EndSave, Whole
  <2> QED
    BY <1>3, <2>1, <2>2
<1>4. ASSUME NEW r \in Refs, AddResolve(r) PROVE ListInv'
  BY <1>4 DEF AddResolve
<1>5. CASE AddApply
  <2>1. /\ ref' = ref
        /\ file'.list \subseteq Refs
        /\ sourceChannels' = sourceChannels \cup {ref}
        /\ channelKeys' = [c \in Monitored \cup {ref.ch} |->
                              IF c = ref.ch THEN NormalizeChannelKey(ref)
                              ELSE channelKeys[c]]
    BY <1>5 DEF AddApply, BeginSave, Torn
  <2>2. ref \in [form : Forms, ch : Channels]
    BY DEF Refs
  <2>3. ASSUME NEW c \in Monitored'
        PROVE  /\ c \in Channels
               /\ channelKeys'[c] \in [form : Forms, ch : Channels]
               /\ channelKeys'[c].ch = c
               /\ \E r \in sourceChannels' : NormalizeChannelKey(r) = channelKeys'[c]
    BY <2>1, <2>2, <2>3, NormalizeKeeps
  <2> QED
    BY <2>1, <2>3
<1>6. ASSUME NEW q \in Refs, NEW c \in Channels, RemoveApply(q, c) PROVE ListInv'
  <2>1. /\ c \in Monitored
        /\ ChannelMatches(q, c, channelKeys[c])
        /\ channelKeys' = [d \in Monitored \ {c} |-> channelKeys[d]]
        /\ sourceChannels' = {r \in sourceChannels : ~ChannelMatches(r, c, q)}
        /\ ref' = [q EXCEPT !.ch = c]
        /\ file'.list \subseteq Refs
    BY <1>6 DEF RemoveApply, Remaining, BeginSave, Torn
  <2>2. q \in [form : Forms, ch : Channels] /\ q.ch = c
    BY <2>1, MatchMeans DEF Refs
  <2>3. ref' = q
    BY <2>1, <2>2
  <2>4. ASSUME NEW d \in Monitored'
        PROVE  \E r \in sourceChannels' : NormalizeChannelKey(r) = channelKeys'[d]
    <3>1. d \in Monitored /\ d # c /\ channelKeys'[d] = channelKeys[d]
      BY <2>1, <2>4
    <3>2. PICK r \in sourceChannels : NormalizeChannelKey(r) = channelKeys[d]
      BY <3>1
    <3>3. r \in Refs /\ r.ch = d
      BY <3>1, <3>2, NormalizeKeeps DEF Refs
    <3>4. ~ChannelMatches(r, c, q)
      BY <2>2, <3>1, <3>3, MatchMeans
    <3> QED
      BY <2>1, <3>1, <3>2, <3>4
  <2> QED
    BY <2>1, <2>3, <2>4
<1>7. CASE Restart
  <2>1. /\ sourceChannels' = BootList(file) /\ file' \in BootFiles(file)
        /\ channelKeys' = [c \in {} |-> {}] /\ ref' = ref
    BY <1>7 DEF Restart
  <2>2. Monitored' = {}
    BY <2>1
  <2> QED
    BY <2>1, <2>2, BootLists
<1>8. CASE UNCHANGED vars
  BY <1>1, <1>8 DEF vars
<1> QED
  BY <1>2, <1>3, <1>4, <1>5, <1>6, <1>7, <1>8 DEF Next

LEMMA ListInit == Init => ListInv
<1> SUFFICES ASSUME Init PROVE ListInv
  OBVIOUS
<1>1. NoFile.list \subseteq Refs
  BY DEF NoFile
<1>2. Monitored = {}
  BY DEF Init
<1> QED
  BY <1>1, <1>2, BootLists DEF Init, ListInv, MonitoredIsListed

\* Whatever is monitored stands in the list that is saved (userbot.go,
\* resolveSources, AddChannel and RemoveChannel): no removal of one channel
\* takes away another's entry.
THEOREM RegistryCorrect == Spec => []MonitoredIsListed
<1>1. Init => ListInv
  BY ListInit
<1>2. ListInv /\ [Next]_vars => ListInv'
  BY ListStep
<1>3. ListInv => MonitoredIsListed
  BY DEF ListInv
<1> QED
  BY <1>1, <1>2, <1>3, PTL DEF Spec

----------------------------------------------------------------------------
(* Types, and the file *)

\* Normalizing gives a reference of the same channel.
LEMMA NormalizeRefs ==
  ASSUME NEW r \in Refs
  PROVE  NormalizeChannelKey(r) \in Refs /\ NormalizeChannelKey(r).ch = r.ch
BY DEF NormalizeChannelKey, Refs, Forms

\* What Whole and Torn write is a file.
Files == [state : {"absent", "torn", "whole"}, list : SUBSET Refs]

LEMMA FileTypes ==
  ASSUME NEW s \in SUBSET Refs
  PROVE  /\ Whole(s) \in Files /\ Whole(s).state = "whole"
         /\ Torn \in Files /\ Torn.list = {}
         /\ NoFile \in Files /\ NoFile.list = {}
BY DEF Whole, Torn, NoFile, Files

LEMMA BootTypes ==
  ASSUME NEW f \in Files, f.state # "whole" => f.list = {}
  PROVE  /\ BootList(f) \subseteq Refs
         /\ \A g \in BootFiles(f) : g \in Files /\ (g.state # "whole" => g.list = {})
<1>1. BootList(f) \subseteq Refs
  BY RegistryAssumption DEF BootList, Files
<1> QED
  BY <1>1, FileTypes DEF BootFiles

LEMMA TypeStep ==
  ASSUME TypeOK, ListInv, [Next]_vars
  PROVE  TypeOK'
<1> USE DEF TypeOK, Files
<1>1. CASE ResolveSources
  <2>1. /\ UNCHANGED <<boot, sourceChannels, file, command, said>>
        /\ life' = "up"
    BY <1>1 DEF ResolveSources
  <2>2. PICK found \in SUBSET sourceChannels :
              /\ member' = AfterResolving(found)
              /\ \E key \in [{r.ch : r \in found} -> {NormalizeChannelKey(r) : r \in found}] :
                    /\ \A c \in {r.ch : r \in found} : key[c].ch = c
                    /\ channelKeys' = [c \in Monitored \cup {r.ch : r \in found} |->
                                          IF c \in {r.ch : r \in found} THEN key[c]
                                          ELSE channelKeys[c]]
    BY <1>1 DEF ResolveSources
  <2> DEFINE hit == {r.ch : r \in found}
  <2>3. PICK key \in [hit -> {NormalizeChannelKey(r) : r \in found}] :
              /\ \A c \in hit : key[c].ch = c
              /\ channelKeys' = [c \in Monitored \cup hit |->
                                    IF c \in hit THEN key[c] ELSE channelKeys[c]]
    BY <2>2
  <2>4. hit \subseteq Channels
    BY DEF Refs
  <2>5. \A c \in hit : key[c] \in Refs /\ key[c].ch = c
    BY <2>3, NormalizeRefs
  <2>6. /\ Monitored' \subseteq Channels
        /\ channelKeys' \in [Monitored' -> Refs]
        /\ \A c \in Monitored' : channelKeys'[c].ch = c
    <3> HIDE DEF hit
    <3> QED
      BY <2>3, <2>4, <2>5
  <2>7. member' \subseteq Channels
    BY <2>2, <2>4 DEF AfterResolving
  <2> QED
    BY <2>1, <2>6, <2>7
<1>2. CASE NothingResolves \/ Crash
  BY <1>2 DEF NothingResolves, Crash
<1>3. ASSUME NEW r \in Refs, AddResolve(r) PROVE TypeOK'
  <2>1. member' \subseteq Channels
    BY <1>3 DEF AddResolve, AfterResolving
  <2> QED
    BY <1>3, <2>1 DEF AddResolve, Refs
<1>4. CASE AddApply
  <2>1. /\ UNCHANGED <<life, boot, member, ref, verb>>
        /\ channelKeys' = [c \in Monitored \cup {ref.ch} |->
                              IF c = ref.ch THEN NormalizeChannelKey(ref)
                              ELSE channelKeys[c]]
        /\ sourceChannels' = sourceChannels \cup {ref}
        /\ cmd' = "saving" /\ file' \in {Torn, file}
        /\ said' = [said EXCEPT ![ref.ch] = "nothing"]
    BY <1>4 DEF AddApply, BeginSave
  <2>2. ref \in Refs /\ ref.ch \in Channels
    BY DEF ListInv, Refs
  <2>3. NormalizeChannelKey(ref) \in Refs /\ NormalizeChannelKey(ref).ch = ref.ch
    BY <2>2, NormalizeRefs
  <2>4. /\ Monitored' \subseteq Channels
        /\ channelKeys' \in [Monitored' -> Refs]
        /\ \A c \in Monitored' : channelKeys'[c].ch = c
    BY <2>1, <2>2, <2>3
  <2>5. file' \in Files /\ (file'.state # "whole" => file'.list = {})
    BY <2>1, FileTypes
  <2> QED
    BY <2>1, <2>2, <2>4, <2>5
<1>5. ASSUME NEW q \in Refs, NEW c \in Channels, RemoveApply(q, c) PROVE TypeOK'
  <2>1. /\ UNCHANGED <<life, boot, member>>
        /\ channelKeys' = [d \in Monitored \ {c} |-> channelKeys[d]]
        /\ sourceChannels' \subseteq sourceChannels
        /\ cmd' = "saving" /\ file' \in {Torn, file}
        /\ ref' = [q EXCEPT !.ch = c] /\ verb' = "removed"
        /\ said' = [said EXCEPT ![c] = "nothing"]
    BY <1>5 DEF RemoveApply, Remaining, BeginSave
  <2>2. ref' \in [form : Forms, ch : Channels]
    BY <2>1 DEF Refs
  <2>3. /\ Monitored' \subseteq Channels
        /\ channelKeys' \in [Monitored' -> Refs]
        /\ \A d \in Monitored' : channelKeys'[d].ch = d
    BY <2>1
  <2>4. file' \in Files /\ (file'.state # "whole" => file'.list = {})
    BY <2>1, FileTypes
  <2> QED
    BY <2>1, <2>2, <2>3, <2>4
<1>6. CASE EndSave
  <2>1. file' \in Files /\ (file'.state # "whole" => file'.list = {})
    BY <1>6, FileTypes DEF EndSave
  <2> QED
    BY <1>6, <2>1 DEF EndSave
<1>7. CASE Reply
  <2>1. said' \in [Channels -> {"nothing", "added", "removed"}]
    BY <1>7 DEF Reply
  <2> QED
    BY <1>7, <2>1 DEF Reply
<1>8. CASE Restart
  <2>1. /\ sourceChannels' \subseteq Refs
        /\ file' \in Files /\ (file'.state # "whole" => file'.list = {})
    BY <1>8, BootTypes DEF Restart
  <2>2. /\ channelKeys' = [c \in {} |-> {}] /\ Monitored' = {}
        /\ channelKeys' \in [{} -> Refs]
    BY <1>8 DEF Restart
  <2>3. boot' \in 0..MaxBoots
    BY <1>8, RegistryAssumption DEF Restart
  <2> QED
    BY <1>8, <2>1, <2>2, <2>3 DEF Restart
<1>9. CASE UNCHANGED vars
  BY <1>9 DEF vars
<1> QED
  BY <1>1, <1>2, <1>3, <1>4, <1>5, <1>6, <1>7, <1>8, <1>9 DEF Next

\* The registry is type correct: the key of every monitored channel is a
\* reference to that channel (userbot.go, resolveSources and AddChannel).
THEOREM TypeCorrect == Spec => []TypeOK
<1>1. Init => TypeOK
  <2> SUFFICES ASSUME Init PROVE TypeOK
    OBVIOUS
  <2>1. /\ sourceChannels \subseteq Refs
        /\ file \in Files /\ (file.state # "whole" => file.list = {})
    BY FileTypes, BootTypes DEF Init
  <2>2. Monitored = {} /\ channelKeys \in [{} -> Refs]
    BY DEF Init
  <2>3. boot \in 0..MaxBoots
    BY RegistryAssumption DEF Init
  <2> QED
    BY <2>1, <2>2, <2>3, RegistryAssumption DEF Init, TypeOK, Files, Refs
<1>2. Init => ListInv
  BY ListInit
<1>3. TypeOK /\ ListInv /\ [Next]_vars => TypeOK' /\ ListInv'
  BY TypeStep, ListStep
<1> QED
  BY <1>1, <1>2, <1>3, PTL DEF Spec

\* Unless a write fails, the file holds the list whenever no save is under way
\* (userbot.go, initChannels and saveChannelsLocked); an empty list need not be
\* there, since the next start takes it for none.
THEOREM FileCorrect == Spec => []FileFollowsList
<1>1. Init => FileFollowsList
  BY DEF Init, BootFiles, FileFollowsList
<1>2. FileFollowsList /\ [Next]_vars => FileFollowsList'
  <2> SUFFICES ASSUME FileFollowsList, [Next]_vars, ~DiskFails
               PROVE  FileFollowsList'
    BY DEF FileFollowsList
  <2> USE DEF FileFollowsList
  <2>1. CASE ResolveSources
    BY <2>1 DEF ResolveSources
  <2>2. CASE NothingResolves \/ Crash
    BY <2>2 DEF NothingResolves, Crash
  <2>3. ASSUME NEW r \in Refs, AddResolve(r) PROVE FileFollowsList'
    BY <2>3 DEF AddResolve
  <2>4. CASE AddApply
    BY <2>4 DEF AddApply, BeginSave
  <2>5. ASSUME NEW q \in Refs, NEW c \in Channels, RemoveApply(q, c)
        PROVE  FileFollowsList'
    BY <2>5 DEF RemoveApply, BeginSave
  <2>6. CASE EndSave
    BY <2>6 DEF EndSave
  <2>7. CASE Reply
    BY <2>7 DEF Reply
  <2>8. CASE Restart
    BY <2>8 DEF Restart, BootFiles
  <2>9. CASE UNCHANGED vars
    BY <2>9 DEF vars
  <2> QED
    BY <2>1, <2>2, <2>3, <2>4, <2>5, <2>6, <2>7, <2>8, <2>9 DEF Next
<1> QED
  BY <1>1, <1>2, PTL DEF Spec

----------------------------------------------------------------------------
(* Removals are final *)

\* Neither the list nor the file mentions the channel.
Gone(c) == ~Listed(c) /\ \A r \in file.list : r.ch # c

\* A removed channel that is not configured is gone, and so is the one whose
\* removal is being saved or reported.
FinalInv ==
    /\ said \in [Channels -> {"nothing", "added", "removed"}]
    /\ \A c \in Channels : said[c] = "removed" /\ ~Configured(c) => Gone(c)
    /\ life = "down" => cmd = "idle"
    /\ cmd = "saving" => file = Torn
    /\ verb \in {"added", "removed"}
    /\ cmd = "resolved" => verb = "added"
    /\ cmd \in {"saving", "replying"} /\ verb = "removed" => Gone(ref.ch)

LEMMA FinalStep ==
  ASSUME Aliased = {}, ~DiskFails, ListInv, FinalInv, [Next]_vars
  PROVE  FinalInv'
<1> USE DEF FinalInv, Gone, Listed, Configured
<1>1. CASE /\ UNCHANGED <<sourceChannels, file, said>>
           /\ \/ cmd' = "idle" /\ UNCHANGED verb
              \/ cmd' = "resolved" /\ verb' = "added"
              \/ UNCHANGED command
           /\ life' = "down" => cmd' = "idle"
  <2>1. CASE UNCHANGED command
    BY <1>1, <2>1
  <2>2. CASE cmd' = "idle" /\ UNCHANGED verb
    BY <1>1, <2>2
  <2>3. CASE cmd' = "resolved" /\ verb' = "added"
    BY <1>1, <2>3
  <2> QED
    BY <1>1, <2>1, <2>2, <2>3
<1>2. CASE ResolveSources \/ NothingResolves \/ Crash
  BY <1>1, <1>2 DEF ResolveSources, NothingResolves, Crash
<1>3. ASSUME NEW r \in Refs, AddResolve(r) PROVE FinalInv'
  <2>1. /\ life' # "down" /\ cmd' = "resolved" /\ verb' = "added"
        /\ UNCHANGED <<sourceChannels, file, said>>
    BY <1>3 DEF AddResolve
  <2> QED
    BY <1>1, <2>1
<1>4. CASE AddApply
  <2>1. /\ sourceChannels' = sourceChannels \cup {ref} /\ file' = Torn
        /\ said' = [said EXCEPT ![ref.ch] = "nothing"]
        /\ cmd = "resolved" /\ cmd' = "saving" /\ UNCHANGED <<life, ref, verb>>
        /\ life # "down"
    BY <1>4 DEF AddApply, BeginSave
  <2>2. Torn.list = {}
    BY DEF Torn
  <2>3. ref.ch \in Channels
    BY DEF ListInv, Refs
  <2> QED
    BY <2>1, <2>2, <2>3, <1>4 DEF AddApply
<1>5. ASSUME NEW q \in Refs, NEW c \in Channels, RemoveApply(q, c) PROVE FinalInv'
  <2>1. /\ sourceChannels' = {r \in sourceChannels : ~ChannelMatches(r, c, q)}
        /\ file' = Torn /\ cmd' = "saving" /\ life' # "down" /\ verb' = "removed"
        /\ said' = [said EXCEPT ![c] = "nothing"]
        /\ ref' = [q EXCEPT !.ch = c]
    BY <1>5 DEF RemoveApply, Remaining, BeginSave
  <2>2. Torn.list = {}
    BY DEF Torn
  <2>3. ref'.ch = c
    BY <2>1 DEF Refs
  <2>4. \A r \in sourceChannels : r.ch = c => ChannelMatches(r, c, q)
    BY DEF ListInv, Refs, Forms, ChannelMatches
  <2> QED
    BY <2>1, <2>2, <2>3, <2>4
<1>6. CASE EndSave
  <2>1. /\ file' = Whole(sourceChannels) /\ cmd = "saving" /\ cmd' = "replying"
        /\ life # "down" /\ UNCHANGED <<life, sourceChannels, said, ref, verb>>
    BY <1>6 DEF EndSave, memory
  <2>2. Whole(sourceChannels).list = sourceChannels
    BY DEF Whole
  <2> QED
    BY <2>1, <2>2
<1>7. CASE Reply
  <2>1. /\ UNCHANGED <<life, sourceChannels, file, ref, verb>>
        /\ cmd = "replying" /\ cmd' = "idle"
        /\ said' = [said EXCEPT ![ref.ch] = verb]
    BY <1>7 DEF Reply
  <2>2. verb \in {"nothing", "added", "removed"}
    BY DEF FinalInv
  <2> QED
    BY <2>1, <2>2
<1>8. CASE Restart
  <2>1. /\ sourceChannels' = BootList(file) /\ file' \in BootFiles(file)
        /\ cmd = "idle" /\ UNCHANGED <<said, cmd, verb>> /\ life' # "down"
    BY <1>8 DEF Restart
  <2>2. Whole(BootList(file)).list = BootList(file)
    BY DEF Whole
  <2>3. file' = file \/ file' = Whole(BootList(file))
    BY <2>1 DEF BootFiles
  <2>4. \A c \in Channels : Gone(c) /\ ~Configured(c) => \A r \in BootList(file) : r.ch # c
    BY DEF BootList, Configured
  <2> QED
    BY <2>1, <2>2, <2>3, <2>4 DEF Configured
<1>9. CASE UNCHANGED vars
  BY <1>1, <1>9 DEF vars
<1> QED
  BY <1>2, <1>3, <1>4, <1>5, <1>6, <1>7, <1>8, <1>9 DEF Next

\* A channel added and removed by command never comes back: its entries are
\* off the list and off the disk before the reply, and nothing but
\* SOURCE_CHANNELS can bring it back (userbot.go, AddChannel, RemoveChannel,
\* saveChannelsLocked and initChannels).
THEOREM RemovalCorrect ==
  ASSUME Aliased = {}, ~DiskFails
  PROVE  Spec => []AddedRemovalIsFinal
<1>1. Init => ListInv
  BY ListInit
<1>2. Init => FinalInv
  BY DEF Init, FinalInv
<1>3. ListInv /\ FinalInv /\ [Next]_vars => ListInv' /\ FinalInv'
  BY ListStep, FinalStep
<1>4. ListInv /\ FinalInv => AddedRemovalIsFinal
  <2> SUFFICES ASSUME ListInv, FinalInv,
                      NEW c \in Channels, said[c] = "removed", ~Configured(c)
               PROVE  ~Listed(c) /\ c \notin Monitored
    BY DEF AddedRemovalIsFinal
  <2>1. ~Listed(c)
    BY DEF FinalInv, Gone
  <2>2. ASSUME c \in Monitored PROVE Listed(c)
    <3>1. PICK r \in sourceChannels : NormalizeChannelKey(r) = channelKeys[c]
      BY <2>2 DEF ListInv, MonitoredIsListed
    <3>2. r.ch = channelKeys[c].ch
      BY <3>1, NormalizeKeeps DEF ListInv, Refs
    <3> QED
      BY <2>2, <3>1, <3>2 DEF ListInv, Listed
  <2> QED
    BY <2>1, <2>2
<1> QED
  BY <1>1, <1>2, <1>3, <1>4, PTL DEF Spec
=============================================================================
