------------------------ MODULE SignatureStoreProofs ------------------------
(***************************************************************************)
(* Proofs about SignatureStore, for any channels, signatures and seed and a *)
(* disk that works or fails.                                                *)
(***************************************************************************)
EXTENDS SignatureStore, SequenceTheorems, FiniteSetTheorems, TLAPS

\* The file says what the table says, but for keys of the seed.
Agrees(f, t) ==
    /\ \A k \in DOMAIN t : Has(Load(f), k) /\ Load(f)[k] = t[k]
    /\ DOMAIN Load(f) \subseteq DOMAIN t \cup DOMAIN Seed

LEMMA LoadFacts ==
  ASSUME NEW f
  PROVE  /\ DOMAIN Load(f) = DOMAIN Seed \cup DOMAIN f.table
         /\ \A k \in DOMAIN f.table : Load(f)[k] = f.table[k]
         /\ \A k \in DOMAIN Seed \ DOMAIN f.table : Load(f)[k] = Seed[k]
BY DEF Load, Has

\* A written table is read back.
LEMMA WholeAgrees ==
  ASSUME NEW t
  PROVE  Agrees(Whole(t), t)
<1>1. Whole(t).table = t
  BY DEF Whole
<1> QED
  BY <1>1, LoadFacts DEF Agrees, Has

\* Whatever NewSignatureStore leaves on disk agrees with what it loaded.
LEMMA LoadAgrees ==
  ASSUME NEW f, f.state # "whole" => f.table = Empty,
         NEW g \in FilesAfterLoad(f)
  PROVE  /\ Agrees(g, Load(f))
         /\ g.state # "whole" => g.table = Empty
<1>1. CASE g = f
  BY <1>1 DEF Agrees, Has
<1>2. CASE g = Whole(Load(f))
  BY <1>2, WholeAgrees DEF Whole
<1>3. CASE g = Torn /\ f.state = "absent"
  <2>1. Torn.table = Empty /\ f.table = Empty
    BY <1>3 DEF Torn
  <2>2. Load(Torn) = Load(f)
    BY <2>1 DEF Load
  <2> QED
    BY <1>3, <2>1, <2>2 DEF Agrees, Has
<1> QED
  BY <1>1, <1>2, <1>3 DEF FilesAfterLoad

\* RestartKeeps, for a process that has ended as well: sigs is the table it had.
KeepInv ==
    /\ file.state # "whole" => file.table = Empty
    /\ ~saving /\ ~lost => Agrees(file, sigs)

LEMMA KeepStep ==
  ASSUME KeepInv, [Next]_vars
  PROVE  KeepInv'
<1>1. CASE UNCHANGED <<sigs, file, saving, lost>>
  BY <1>1 DEF KeepInv
<1>2. ASSUME NEW calls, NEW told, Start(calls, told) PROVE KeepInv'
  BY <1>1, <1>2 DEF Start, process
<1>3. CASE Apply
  <2>1. saving' /\ (file' = Torn \/ file' = file)
    BY <1>3 DEF Apply
  <2> QED
    BY <2>1 DEF KeepInv, Torn
<1>4. CASE EndSave
  <2>1. CASE file' = Whole(sigs)
    <3>1. sigs' = sigs
      BY <1>4 DEF EndSave
    <3> QED
      BY <2>1, <3>1, WholeAgrees DEF KeepInv, Whole
  <2>2. CASE file' = file /\ lost'
    BY <2>2 DEF KeepInv
  <2> QED
    BY <1>4, <2>1, <2>2 DEF EndSave
<1>5. CASE Reply \/ Resolve
  BY <1>1, <1>5 DEF Reply, Resolve, process
<1>6. CASE Crash
  BY <1>6 DEF Crash, KeepInv
<1>7. CASE Restart
  <2>1. sigs' = Load(file) /\ file' \in FilesAfterLoad(file)
    BY <1>7 DEF Restart
  <2> QED
    BY <2>1, LoadAgrees DEF KeepInv
<1>8. CASE UNCHANGED vars
  BY <1>1, <1>8 DEF vars, process
<1>9. ASSUME NEW k \in Keys, NEW t \in Texts,
             SetIdentifier(k, t) \/ \E c \in Channels : SetChannel(k, c, t)
      PROVE  KeepInv'
  BY <1>2, <1>9 DEF SetIdentifier, SetChannel
<1>10. ASSUME NEW k \in Keys,
              ClearIdentifier(k) \/ \E c \in Channels : ClearChannel(k, c)
       PROVE  KeepInv'
  BY <1>2, <1>10 DEF ClearIdentifier, ClearChannel
<1>11. ASSUME NEW t \in Texts, SetDefault(t) \/ SetText(t) PROVE KeepInv'
  BY <1>2, <1>11 DEF SetDefault, SetText
<1>12. CASE ClearDefault \/ ClearAll
  BY <1>2, <1>12 DEF ClearDefault, ClearAll
<1> QED
  BY <1>3, <1>4, <1>5, <1>6, <1>7, <1>8, <1>9, <1>10, <1>11, <1>12 DEF Next, Command

\* As long as the last save got through, a restart finds every signature as it
\* was and brings back none but the environment's (signature_store.go,
\* NewSignatureStore and saveLocked).
THEOREM StoreCorrect == Spec => []RestartKeeps
<1>1. Init => KeepInv
  <2>1. NoFile.table = Empty
    BY DEF NoFile
  <2> QED
    BY <2>1, LoadAgrees DEF Init, KeepInv
<1>2. KeepInv /\ [Next]_vars => KeepInv'
  BY KeepStep
<1>3. KeepInv => RestartKeeps
  BY DEF KeepInv, RestartKeeps, Agrees
<1> QED
  BY <1>1, <1>2, <1>3, PTL DEF Spec

----------------------------------------------------------------------------
(* Commands and the calls they make *)

Calls == [keys : SUBSET Keys, text : Texts \cup {NoText}, each : BOOLEAN]

\* Still to come: a call that clears key k.
Clearing(calls, k) ==
    \E i \in 1..Len(calls) : calls[i].text = NoText /\ k \in calls[i].keys

\* The calls of a command fit what its reply will tell: a signature goes to one
\* key of a channel that the reply is about, and of a channel it calls cleared
\* every key is cleared by now or will be.
Fits(calls, told) ==
    /\ calls \in Seq(Calls)
    /\ Len(calls) <= 2
    /\ DOMAIN told \subseteq Targets
    /\ told \in [DOMAIN told -> Texts \cup {"nothing", "cleared"}]
    /\ \A i \in 1..Len(calls) : calls[i].each => Len(calls) = 1 /\ calls[i].text = NoText
    /\ \A i \in 1..Len(calls) : calls[i].text # NoText =>
          \E k \in Keys : /\ calls[i].keys = {k}
                          /\ k.ch \in DOMAIN told
                          /\ told[k.ch] # "cleared"
    /\ \A c \in Channels \cap DOMAIN told :
          told[c] = "cleared" => \A k \in OwnKeys(c) \cap DOMAIN sigs : Clearing(calls, k)

\* The keys of a channel are keys, and before and after it was resolved
\* /setsig puts its signature under one of them.
LEMMA OwnForms ==
  ASSUME NEW c \in Channels
  PROVE  /\ c # Everything /\ c \in Targets
         /\ ConfigKey(c) \in Keys /\ ConfigKey(c).ch = c
         /\ ChannelKey(c) \in Keys /\ ChannelKey(c).ch = c
         /\ UsernameKeys(c) \subseteq Keys
         /\ IdKeys(c) \subseteq Keys
         /\ TitleKeys(c) \subseteq Keys
         /\ Resolved => OwnKeys(c) \subseteq UsernameKeys(c) \cup IdKeys(c) \cup TitleKeys(c)
<1>1. c # Everything /\ c \in Targets
  BY StoreAssumption DEF Targets
<1>2. Key("id", c) \in Keys /\ Key("number", c) \in Keys /\ Key("title", c) \in Keys
  BY DEF Keys
<1>3. c \notin Private => Key("name", c) \in Keys
  BY DEF Keys
<1>4. Key("id", c).ch = c /\ Key("name", c).ch = c
  BY DEF Key
<1>5. ConfigKey(c) \in Keys /\ ConfigKey(c).ch = c
  BY <1>2, <1>3, <1>4, StoreAssumption DEF ConfigKey
<1>6. ChannelKey(c) \in Keys /\ ChannelKey(c).ch = c
  BY <1>2, <1>3, <1>4, <1>5 DEF ChannelKey
<1>7. Resolved => OwnKeys(c) \subseteq UsernameKeys(c) \cup IdKeys(c) \cup TitleKeys(c)
  BY <1>1 DEF OwnKeys, Keys, Key, UsernameKeys, IdKeys, TitleKeys
<1> QED
  BY <1>1, <1>2, <1>3, <1>5, <1>6, <1>7 DEF UsernameKeys, IdKeys, TitleKeys

\* Clear clears what it is told to, and keys only.
LEMMA TwinKeys ==
  ASSUME NEW ks \in SUBSET Keys
  PROVE  ks \subseteq WithTwins(ks) /\ WithTwins(ks) \in SUBSET Keys
<1>1. ASSUME NEW k \in ks PROVE k \in Twins(k) /\ Twins(k) \subseteq Keys
  <2>1. k.form = "id" \/ k.form = "number" => k.ch \in Channels
    BY DEF Keys, Key, Global
  <2>2. k.ch \in Channels => Key("id", k.ch) \in Keys /\ Key("number", k.ch) \in Keys
    BY DEF Keys
  <2> QED
    BY <2>1, <2>2 DEF Twins
<1> QED
  BY <1>1 DEF WithTwins

LEMMA Pair ==
  ASSUME NEW a, NEW b
  PROVE  <<a>> \o <<b>> = <<a, b>>
<1> DEFINE s == <<a>> \o <<b>>
           t == <<a, b>>
<1>1. <<a>> \in Seq({a, b}) /\ <<b>> \in Seq({a, b}) /\ t \in Seq({a, b})
  OBVIOUS
<1>2. s \in Seq({a, b}) /\ Len(s) = 2 /\ s[1] = a /\ s[2] = b
  BY <1>1
<1>3. Len(t) = 2 /\ t[1] = a /\ t[2] = b
  OBVIOUS
<1> HIDE DEF s, t
<1>4. s = t
  BY <1>1, <1>2, <1>3, SeqEqual
<1> QED
  BY <1>4 DEF s, t

LEMMA DefaultIsKey == Default \in Keys /\ Default.ch = Everything
BY DEF Default, Keys, Key, Global

\* A command that sets one signature, and one that clears keys for a reply that
\* promises nothing.
LEMMA SetFits ==
  ASSUME NEW k \in Keys, NEW t \in Texts, NEW told \in [{k.ch} -> {t, "nothing"}]
  PROVE  Fits(<<Set(k, t)>>, told)
<1>1. Set(k, t) \in Calls /\ Set(k, t).keys = {k} /\ Set(k, t).each = FALSE
  BY DEF Set, Calls
<1>2. k.ch \in Targets
  BY DEF Keys, Key, Targets
<1>3. told[k.ch] # "cleared" /\ told[k.ch] \in Texts \cup {"nothing"}
  BY StoreAssumption
<1> DEFINE calls == <<Set(k, t)>>
<1>4. calls \in Seq(Calls) /\ Len(calls) = 1 /\ calls[1] = Set(k, t)
  BY <1>1
<1> HIDE DEF calls
<1>5. Fits(calls, told)
  BY <1>1, <1>2, <1>3, <1>4 DEF Fits
<1> QED
  BY <1>5 DEF calls

LEMMA CommandFits ==
  ASSUME IsTable(sigs), monitored \subseteq Channels,
         \/ \E t \in Texts : SetDefault(t) \/ SetText(t)
         \/ \E k \in Keys, t \in Texts :
               \/ \E c \in Channels : SetChannel(k, c, t)
               \/ SetIdentifier(k, t)
         \/ ClearDefault
         \/ ClearAll
         \/ \E k \in Keys :
               \/ \E c \in Channels : ClearChannel(k, c)
               \/ ClearIdentifier(k)
  PROVE  \E calls, told : Fits(calls, told) /\ Start(calls, told)
<1>1. ASSUME NEW t \in Texts, SetDefault(t) PROVE \E calls, told : Fits(calls, told) /\ Start(calls, told)
  <2>1. Tell({Everything}, t) \in [{Everything} -> {t, "nothing"}]
    BY DEF Tell
  <2> QED
    BY <1>1, <2>1, SetFits, DefaultIsKey DEF SetDefault
<1>2. ASSUME NEW t \in Texts, SetText(t) PROVE \E calls, told : Fits(calls, told) /\ Start(calls, told)
  <2> DEFINE only == IF Cardinality(monitored) = 1 THEN monitored ELSE {}
             c == CHOOSE x \in only : TRUE
             told == [x \in {Everything} \cup only |-> t]
             own == IF only = {} THEN <<>> ELSE <<Set(ChannelKey(c), t)>>
             calls == <<Set(Default, t)>> \o own
  <2>1. Start(calls, told)
    BY <1>2 DEF SetText
  <2>2. only \subseteq Channels
    OBVIOUS
  <2>3. only # {} => c \in Channels /\ c \in only
    BY <2>2
  <2>4. t # "cleared" /\ t # NoText
    BY StoreAssumption
  <2>5. Set(Default, t) \in Calls /\ Set(Default, t).keys = {Default} /\ ~Set(Default, t).each
    BY DefaultIsKey DEF Set, Calls
  <2>6. only # {} => /\ Set(ChannelKey(c), t) \in Calls
                     /\ Set(ChannelKey(c), t).keys = {ChannelKey(c)}
                     /\ ~Set(ChannelKey(c), t).each
                     /\ ChannelKey(c) \in Keys /\ ChannelKey(c).ch = c
    BY <2>3, OwnForms DEF Set, Calls
  <2>7. /\ DOMAIN told = {Everything} \cup only
        /\ \A x \in DOMAIN told : told[x] = t
        /\ told \in [DOMAIN told -> Texts \cup {"nothing", "cleared"}]
        /\ DOMAIN told \subseteq Targets
    BY <2>2 DEF Targets
  <2>8. CASE only = {}
    <3>1. calls = <<Set(Default, t)>>
      BY <2>8
    <3>2. calls \in Seq(Calls) /\ Len(calls) = 1 /\ calls[1] = Set(Default, t)
      BY <3>1, <2>5
    <3> HIDE DEF calls, told, only
    <3>3. Fits(calls, told)
      BY <2>4, <2>5, <2>7, <3>2, DefaultIsKey DEF Fits
    <3> QED
      BY <2>1, <3>3
  <2>9. CASE only # {}
    <3>1. calls = <<Set(Default, t), Set(ChannelKey(c), t)>>
      BY <2>9, Pair
    <3>2. /\ calls \in Seq(Calls) /\ Len(calls) = 2
          /\ calls[1] = Set(Default, t) /\ calls[2] = Set(ChannelKey(c), t)
      BY <3>1, <2>5, <2>6, <2>9
    <3> HIDE DEF calls, told, only, c
    <3>3. Fits(calls, told)
      BY <2>3, <2>4, <2>5, <2>6, <2>7, <2>9, <3>2, DefaultIsKey DEF Fits
    <3> QED
      BY <2>1, <3>3
  <2> QED
    BY <2>8, <2>9
<1>3. ASSUME NEW k \in Keys, NEW t \in Texts, NEW c \in Channels, SetChannel(k, c, t)
      PROVE  \E calls, told : Fits(calls, told) /\ Start(calls, told)
  <2>1. Tell({c}, t) \in [{c} -> {t, "nothing"}]
    BY DEF Tell
  <2> QED
    BY <1>3, <2>1, SetFits, OwnForms DEF SetChannel
<1>4. ASSUME NEW k \in Keys, NEW t \in Texts, SetIdentifier(k, t)
      PROVE  \E calls, told : Fits(calls, told) /\ Start(calls, told)
  <2>1. Tell({k.ch}, "nothing") \in [{k.ch} -> {t, "nothing"}]
    BY DEF Tell
  <2> QED
    BY <1>4, <2>1, SetFits DEF SetIdentifier
<1>5. CASE ClearDefault
  <2> DEFINE only == IF Cardinality(monitored) = 1 THEN monitored ELSE {}
             c == CHOOSE x \in only : TRUE
             mine == {ChannelKey(c)} \cup UsernameKeys(c) \cup (IdKeys(c) \ {Key("number", c)})
             own == IF only = {} THEN <<>> ELSE <<Clear(mine)>>
             told == [x \in {Everything} \cup only |->
                         IF x = Everything THEN "cleared" ELSE "nothing"]
             calls == <<Clear({Default})>> \o own
  <2>1. Start(calls, told)
    BY <1>5 DEF ClearDefault
  <2>2. only \subseteq Channels
    OBVIOUS
  <2>3. only # {} => c \in Channels
    BY <2>2
  <2>4. Clear({Default}) \in Calls /\ Clear({Default}).text = NoText /\ ~Clear({Default}).each
    BY DefaultIsKey, TwinKeys DEF Clear, Calls
  <2>5. only # {} => mine \subseteq Keys
    BY <2>3, OwnForms
  <2>6. only # {} => Clear(mine) \in Calls /\ Clear(mine).text = NoText /\ ~Clear(mine).each
    <3> HIDE DEF mine, only
    <3> QED
      BY <2>5, TwinKeys DEF Clear, Calls
  <2>7. /\ DOMAIN told \subseteq Targets
        /\ told \in [DOMAIN told -> Texts \cup {"nothing", "cleared"}]
        /\ \A x \in Channels \cap DOMAIN told : told[x] # "cleared"
    BY <2>2, StoreAssumption DEF Targets
  <2>8. CASE only = {}
    <3>1. calls = <<Clear({Default})>>
      BY <2>8
    <3>2. calls \in Seq(Calls) /\ Len(calls) = 1 /\ calls[1] = Clear({Default})
      BY <3>1, <2>4
    <3> HIDE DEF calls, told
    <3>3. Fits(calls, told)
      BY <2>4, <2>7, <3>2 DEF Fits
    <3> QED
      BY <2>1, <3>3
  <2>9. CASE only # {}
    <3>1. calls = <<Clear({Default}), Clear(mine)>>
      BY <2>9, Pair
    <3> HIDE DEF mine, only
    <3>2. /\ calls \in Seq(Calls) /\ Len(calls) = 2
          /\ calls[1] = Clear({Default}) /\ calls[2] = Clear(mine)
      BY <3>1, <2>4, <2>6, <2>9
    <3> HIDE DEF calls, told
    <3>3. Fits(calls, told)
      BY <2>4, <2>6, <2>7, <2>9, <3>2 DEF Fits
    <3> QED
      BY <2>1, <3>3
  <2> QED
    BY <2>8, <2>9
<1>6. CASE ClearAll
  <2> DEFINE told == Tell(Targets, "cleared")
  <2>1. /\ DOMAIN told = Targets
        /\ told \in [DOMAIN told -> Texts \cup {"nothing", "cleared"}]
    BY DEF Tell
  <2>2. CASE sigs = Empty
    <3>1. Start(<<>>, told)
      BY <1>6, <2>2 DEF ClearAll
    <3>2. DOMAIN sigs = {}
      BY <2>2 DEF Empty
    <3> DEFINE calls == <<>>
    <3>3. calls \in Seq(Calls) /\ Len(calls) = 0
      OBVIOUS
    <3> HIDE DEF calls, told
    <3>4. Fits(calls, told)
      BY <2>1, <3>2, <3>3 DEF Fits
    <3> QED
      BY <3>1, <3>4 DEF calls
  <2>3. CASE sigs # Empty
    <3> DEFINE call == ClearEach(DOMAIN sigs)
               calls == <<call>>
    <3>1. Start(calls, told)
      BY <1>6, <2>3 DEF ClearAll
    <3>2. call \in Calls /\ call.text = NoText /\ call.keys = DOMAIN sigs
      BY DEF ClearEach, Calls, IsTable
    <3>3. calls \in Seq(Calls) /\ Len(calls) = 1 /\ calls[1] = call
      BY <3>2
    <3> HIDE DEF call, calls, told
    <3>4. Fits(calls, told)
      BY <2>1, <3>2, <3>3 DEF Fits, Clearing
    <3> QED
      BY <3>1, <3>4
  <2> QED
    BY <2>2, <2>3
<1>7. ASSUME NEW k \in Keys, NEW c \in Channels, ClearChannel(k, c)
      PROVE  \E calls, told : Fits(calls, told) /\ Start(calls, told)
  <2> DEFINE mine == {ConfigKey(c), k} \cup UsernameKeys(c) \cup IdKeys(c) \cup TitleKeys(c)
             told == Tell({c}, IF Resolved THEN "cleared" ELSE "nothing")
             call == Clear(mine)
             calls == <<call>>
  <2>1. Start(calls, told)
    BY <1>7 DEF ClearChannel
  <2>2. mine \subseteq Keys
    BY OwnForms
  <2>3. Resolved => OwnKeys(c) \subseteq mine
    BY OwnForms
  <2>4. /\ call \in Calls /\ call.text = NoText /\ ~call.each
        /\ Resolved => OwnKeys(c) \subseteq call.keys
    <3> HIDE DEF mine
    <3> QED
      BY <2>2, <2>3, TwinKeys DEF Clear, Calls
  <2>5. /\ DOMAIN told = {c} /\ c \in Targets
        /\ told \in [DOMAIN told -> Texts \cup {"nothing", "cleared"}]
        /\ told[c] = "cleared" => Resolved
    BY OwnForms DEF Tell
  <2> HIDE DEF mine, call
  <2>6. calls \in Seq(Calls) /\ Len(calls) = 1 /\ calls[1] = call
    BY <2>4
  <2> HIDE DEF calls, told
  <2>7. Fits(calls, told)
    BY <2>4, <2>5, <2>6 DEF Fits, Clearing
  <2> QED
    BY <2>1, <2>7
<1>8. ASSUME NEW k \in Keys, ClearIdentifier(k)
      PROVE  \E calls, told : Fits(calls, told) /\ Start(calls, told)
  <2> DEFINE told == Tell({k.ch}, "nothing")
             call == Clear({k})
             calls == <<call>>
  <2>1. Start(calls, told)
    BY <1>8 DEF ClearIdentifier
  <2>2. call \in Calls /\ call.text = NoText /\ ~call.each
    BY TwinKeys DEF Clear, Calls
  <2>3. /\ DOMAIN told = {k.ch} /\ k.ch \in Targets
        /\ told \in [DOMAIN told -> Texts \cup {"nothing", "cleared"}]
        /\ told[k.ch] # "cleared"
    BY DEF Tell, Keys, Key, Targets
  <2> HIDE DEF call
  <2>4. calls \in Seq(Calls) /\ Len(calls) = 1 /\ calls[1] = call
    BY <2>2
  <2> HIDE DEF calls, told
  <2>5. Fits(calls, told)
    BY <2>2, <2>3, <2>4 DEF Fits
  <2> QED
    BY <2>1, <2>5
<1> QED
  BY <1>1, <1>2, <1>3, <1>4, <1>5, <1>6, <1>7, <1>8

----------------------------------------------------------------------------
(* Types, and cleared signatures *)

Unseeded(c) == OwnKeys(c) \cap DOMAIN Seed = {}

\* ClearIsFinal without its restriction to quiet moments: between commands, and
\* for the channels that the present one is not about.
ClearedGone ==
    \A c \in Channels :
        Unseeded(c) /\ wants[c] = "cleared" /\ c \notin DOMAIN promise
            => OwnKeys(c) \cap DOMAIN sigs = {}

StoreInv ==
    /\ TypeOK
    /\ Fits(todo, promise)
    /\ ~busy => DOMAIN promise = {}
    /\ life = "down" => ~busy /\ ~saving
    /\ ClearedGone

\* What is left of the calls when the first is done.
LEMMA TailCalls ==
  ASSUME NEW calls \in Seq(Calls), Len(calls) <= 2, calls # <<>>
  PROVE  /\ Head(calls) = calls[1] /\ calls[1] \in Calls /\ 1 \in 1..Len(calls)
         /\ Tail(calls) \in Seq(Calls) /\ Len(Tail(calls)) <= 1
         /\ Len(calls) = 1 => Len(Tail(calls)) = 0
         /\ \A i \in 1..Len(Tail(calls)) :
               i + 1 \in 1..Len(calls) /\ Tail(calls)[i] = calls[i + 1]
         /\ \A i \in 1..Len(calls) :
               i = 1 \/ (i - 1 \in 1..Len(Tail(calls)) /\ Tail(calls)[i - 1] = calls[i])
OBVIOUS

\* The calls left fit what will be told, if the first one did its part.
LEMMA TailFits ==
  ASSUME StoreInv, todo # <<>>, todo' = Tail(todo), UNCHANGED promise,
         \A c \in Channels \cap DOMAIN promise :
            promise[c] = "cleared" =>
               \A k \in OwnKeys(c) \cap DOMAIN sigs' :
                  /\ k \in DOMAIN sigs
                  /\ todo[1].text = NoText => k \notin todo[1].keys
  PROVE  Fits(todo, promise)'
<1>1. todo \in Seq(Calls) /\ Len(todo) <= 2
  BY DEF StoreInv, Fits
<1>2. /\ todo' \in Seq(Calls) /\ Len(todo') <= 1
      /\ \A i \in 1..Len(todo') : i + 1 \in 1..Len(todo) /\ todo'[i] = todo[i + 1]
      /\ \A i \in 1..Len(todo) :
            i = 1 \/ (i - 1 \in 1..Len(todo') /\ todo'[i - 1] = todo[i])
  BY <1>1, TailCalls
<1>3. ASSUME NEW c \in Channels \cap DOMAIN promise, promise[c] = "cleared",
             NEW k \in OwnKeys(c) \cap DOMAIN sigs'
      PROVE  Clearing(todo', k)
  <2>1. PICK i \in 1..Len(todo) : todo[i].text = NoText /\ k \in todo[i].keys
    BY <1>3 DEF StoreInv, Fits, Clearing
  <2>2. i # 1
    BY <1>3, <2>1
  <2> QED
    BY <1>2, <2>1, <2>2 DEF Clearing
<1>4. \A i \in 1..Len(todo') : todo'[i].each => Len(todo') = 1 /\ todo'[i].text = NoText
  BY <1>1, <1>2 DEF StoreInv, Fits
<1>5. \A i \in 1..Len(todo') : todo'[i].text # NoText =>
          \E k \in Keys : /\ todo'[i].keys = {k}
                          /\ k.ch \in DOMAIN promise
                          /\ promise[k.ch] # "cleared"
  <2> SUFFICES ASSUME NEW i \in 1..Len(todo'), todo'[i].text # NoText
               PROVE  \E k \in Keys : /\ todo'[i].keys = {k}
                                      /\ k.ch \in DOMAIN promise
                                      /\ promise[k.ch] # "cleared"
    OBVIOUS
  <2>1. i + 1 \in 1..Len(todo) /\ todo'[i] = todo[i + 1]
    BY <1>2
  <2> QED
    BY <2>1 DEF StoreInv, Fits
<1>6. /\ DOMAIN promise \subseteq Targets
      /\ promise \in [DOMAIN promise -> Texts \cup {"nothing", "cleared"}]
  BY DEF StoreInv, Fits
<1>7. Len(todo') <= 2
  BY <1>2
<1> QED
  BY <1>2, <1>3, <1>4, <1>5, <1>6, <1>7 DEF Fits

LEMMA ApplyStep ==
  ASSUME StoreInv, Apply
  PROVE  Fits(todo, promise)' /\ ClearedGone' /\ IsTable(sigs)'
<1>1. /\ todo # <<>> /\ todo \in Seq(Calls) /\ Len(todo) <= 2
      /\ UNCHANGED <<promise, wants>> /\ IsTable(sigs)
  BY DEF StoreInv, Fits, TypeOK, Apply
<1> DEFINE call == todo[1]
<1>2. /\ Head(todo) = call /\ call \in Calls /\ 1 \in 1..Len(todo)
      /\ Len(todo) = 1 => Len(Tail(todo)) = 0
  BY <1>1, TailCalls
<1>3. CASE call.text # NoText
  <2>1. ~call.each
    BY <1>2, <1>3 DEF StoreInv, Fits
  <2>2. PICK k \in Keys : /\ call.keys = {k}
                          /\ k.ch \in DOMAIN promise /\ promise[k.ch] # "cleared"
    BY <1>2, <1>3 DEF StoreInv, Fits
  <2>3. sigs' = With(sigs, k, call.text) /\ todo' = Tail(todo)
    BY <1>2, <1>3, <2>1, <2>2 DEF Apply
  <2>4. DOMAIN sigs' = DOMAIN sigs \cup {k} /\ IsTable(sigs')
    BY <1>1, <1>2, <1>3, <2>2, <2>3 DEF With, IsTable, Calls
  <2>5. Fits(todo, promise)'
    BY <1>1, <1>3, <2>2, <2>3, <2>4, TailFits DEF OwnKeys
  <2>6. ClearedGone'
    BY <1>1, <2>2, <2>4 DEF StoreInv, ClearedGone, OwnKeys, Unseeded
  <2> QED
    BY <2>4, <2>5, <2>6 DEF IsTable
<1>4. CASE call.text = NoText
  <2>1. PICK ks \in (IF call.each THEN {{k} : k \in call.keys} ELSE {call.keys}) :
          LET gone == IF call.each THEN WithTwins(ks) ELSE ks
          IN  /\ sigs' = Without(sigs, gone)
              /\ todo' = IF call.each /\ call.keys # ks
                         THEN <<[call EXCEPT !.keys = @ \ ks]>>
                         ELSE Tail(todo)
    BY <1>2, <1>4 DEF Apply
  <2> DEFINE gone == IF call.each THEN WithTwins(ks) ELSE ks
  <2>2. ks \subseteq call.keys /\ ks \subseteq Keys
    BY <1>2, <2>1 DEF Calls
  <2>3. ks \subseteq gone
    BY <2>2, TwinKeys
  <2>4. DOMAIN sigs' = DOMAIN sigs \ gone /\ IsTable(sigs')
    BY <1>1, <2>1 DEF Without, IsTable
  <2>5. ClearedGone'
    BY <1>1, <2>4 DEF StoreInv, ClearedGone, OwnKeys, Unseeded
  <2>6. CASE ~(call.each /\ call.keys # ks)
    <3>1. todo' = Tail(todo) /\ ks = call.keys
      BY <2>1, <2>6
    <3>2. Fits(todo, promise)'
      BY <1>1, <2>3, <2>4, <3>1, TailFits
    <3> QED
      BY <2>4, <2>5, <3>2 DEF IsTable
  <2>7. CASE call.each /\ call.keys # ks
    <3> DEFINE rest == [call EXCEPT !.keys = @ \ ks]
    <3>1. /\ rest \in Calls /\ rest.text = NoText /\ rest.keys = call.keys \ ks
          /\ todo' = <<rest>> /\ Len(todo) = 1
      BY <1>2, <1>4, <2>1, <2>7 DEF Calls, StoreInv, Fits
    <3> HIDE DEF rest
    <3>2. todo' \in Seq(Calls) /\ Len(todo') = 1 /\ todo'[1] = rest
      BY <3>1
    <3>3. ASSUME NEW c \in Channels \cap DOMAIN promise, promise[c] = "cleared",
                 NEW k \in OwnKeys(c) \cap DOMAIN sigs'
          PROVE  Clearing(todo', k)
      <4>1. k \in DOMAIN sigs /\ k \notin ks
        BY <2>3, <2>4, <3>3
      <4>2. k \in call.keys
        BY <3>1, <3>3, <4>1 DEF StoreInv, Fits, Clearing
      <4> QED
        BY <3>1, <3>2, <4>1, <4>2 DEF Clearing
    <3>4. Fits(todo, promise)'
      BY <1>1, <3>1, <3>2, <3>3 DEF StoreInv, Fits, OwnKeys, Clearing
    <3> QED
      BY <2>4, <2>5, <3>4 DEF IsTable
  <2> QED
    BY <2>6, <2>7
<1> QED
  BY <1>3, <1>4

\* What Fits says of the calls is what TypeOK says of them.
LEMMA CallTypes ==
  ASSUME NEW calls \in Seq(Calls)
  PROVE  \A i \in 1..Len(calls) :
            calls[i].keys \subseteq Keys /\ calls[i].text \in Texts \cup {NoText}
<1> TAKE i \in 1..Len(calls)
<1>1. calls[i] \in Calls
  OBVIOUS
<1> QED
  BY <1>1 DEF Calls

LEMMA StoreStep ==
  ASSUME StoreInv, KeepInv, [Next]_vars
  PROVE  StoreInv'
<1> USE DEF StoreInv
<1>1. ASSUME NEW calls, NEW told, Fits(calls, told), Start(calls, told) PROVE StoreInv'
  <2>1. /\ todo' = calls /\ promise' = told /\ busy' /\ life # "down" /\ ~busy
        /\ UNCHANGED <<life, boot, monitored, sigs, file, saving, wants, lost>>
    BY <1>1 DEF Start, process
  <2>2. Fits(todo, promise)'
    BY <1>1, <2>1 DEF Fits, OwnKeys, Clearing
  <2>3. TypeOK'
    <3>1. {saving, busy, lost}' \subseteq BOOLEAN
      BY <2>1 DEF TypeOK
    <3>2. Len(todo') <= 2 /\ \A i \in 1..Len(todo') :
             todo'[i].keys \subseteq Keys /\ todo'[i].text \in Texts \cup {NoText}
      BY <2>2, CallTypes DEF Fits
    <3> QED
      BY <2>1, <3>1, <3>2 DEF TypeOK, IsTable
  <2>4. ClearedGone'
    BY <2>1 DEF ClearedGone, OwnKeys, Unseeded
  <2> QED
    BY <2>1, <2>2, <2>3, <2>4
<1>2. CASE Apply
  <2>1. Fits(todo, promise)' /\ ClearedGone' /\ IsTable(sigs)'
    BY <1>2, ApplyStep
  <2>2. /\ UNCHANGED <<life, boot, monitored, busy, promise, wants, lost>>
        /\ saving' = TRUE /\ file' \in {Torn, file} /\ life # "down"
    BY <1>2 DEF Apply, process
  <2>3. Torn.state = "torn" /\ IsTable(Torn.table)
    BY DEF Torn, Empty, IsTable
  <2>4. TypeOK'
    <3>1. {saving, busy, lost}' \subseteq BOOLEAN
      BY <2>2 DEF TypeOK
    <3>2. Len(todo') <= 2 /\ \A i \in 1..Len(todo') :
             todo'[i].keys \subseteq Keys /\ todo'[i].text \in Texts \cup {NoText}
      BY <2>1, CallTypes DEF Fits
    <3>3. file'.state \in {"absent", "torn", "whole"} /\ IsTable(file'.table)
      BY <2>2, <2>3 DEF TypeOK
    <3> QED
      BY <2>1, <2>2, <3>1, <3>2, <3>3 DEF TypeOK, IsTable
  <2> QED
    BY <2>1, <2>2, <2>4
<1>3. CASE EndSave
  <2>1. /\ UNCHANGED <<life, boot, monitored, sigs, todo, busy, promise, wants>>
        /\ saving' = FALSE /\ lost' \in BOOLEAN /\ file' \in {Whole(sigs), file}
        /\ life # "down"
    BY <1>3 DEF EndSave, process
  <2>2. Whole(sigs).state = "whole" /\ Whole(sigs).table = sigs
    BY DEF Whole
  <2>3. TypeOK'
    BY <2>1, <2>2 DEF TypeOK, IsTable
  <2> QED
    BY <2>1, <2>3 DEF Fits, OwnKeys, Clearing, ClearedGone, Unseeded
<1>4. CASE Reply
  <2>1. /\ UNCHANGED <<life, boot, monitored, sigs, file, todo, saving, lost>>
        /\ busy' = FALSE /\ DOMAIN promise' = {} /\ todo = <<>>
        /\ wants' = [x \in Targets |-> IF x \in DOMAIN promise THEN promise[x] ELSE wants[x]]
        /\ life # "down"
    BY <1>4 DEF Reply, process
  <2>2. Fits(todo, promise)'
    BY <2>1, <1>4 DEF Fits, Reply
  <2>3. TypeOK'
    BY <2>1 DEF TypeOK, IsTable, Fits
  <2>4. ClearedGone'
    BY <2>1 DEF ClearedGone, OwnKeys, Unseeded, Fits, Clearing, Targets
  <2> QED
    BY <2>1, <2>2, <2>3, <2>4
<1>5. CASE Resolve
  <2>1. /\ UNCHANGED <<boot, sigs, file, todo, saving, busy, promise, wants, lost>>
        /\ life' = "up" /\ monitored' \subseteq Channels
    BY <1>5 DEF Resolve
  <2> QED
    BY <2>1 DEF TypeOK, IsTable, Fits, OwnKeys, Clearing, ClearedGone, Unseeded
<1>6. CASE Crash
  <2>1. /\ UNCHANGED <<boot, monitored, sigs, file>>
        /\ life' = "down" /\ saving' = FALSE /\ busy' = FALSE /\ todo' = <<>>
        /\ DOMAIN promise' = {} /\ lost' \in BOOLEAN
        /\ wants' = [x \in Targets |-> IF x \in DOMAIN promise THEN "nothing" ELSE wants[x]]
    BY <1>6 DEF Crash, TypeOK
  <2>2. Fits(todo, promise)'
    BY <2>1, <1>6 DEF Fits, Crash
  <2>3. TypeOK'
    <3>1. {saving, busy, lost}' \subseteq BOOLEAN
      BY <2>1
    <3>2. wants' \in [Targets -> Texts \cup {"nothing", "cleared"}]
      BY <2>1 DEF TypeOK
    <3>3. Len(todo') = 0
      BY <2>1
    <3> QED
      BY <2>1, <3>1, <3>2, <3>3 DEF TypeOK, IsTable
  <2>4. ClearedGone'
    BY <2>1 DEF ClearedGone, OwnKeys, Unseeded, Targets
  <2> QED
    BY <2>1, <2>2, <2>3, <2>4
<1>7. CASE Restart
  <2>1. /\ UNCHANGED <<todo, saving, busy, promise>>
        /\ boot' = boot + 1 /\ boot < MaxBoots /\ life = "down" /\ life' = "starting"
        /\ monitored' = Channels /\ sigs' = Load(file) /\ file' \in FilesAfterLoad(file)
        /\ wants' = IF lost THEN [x \in Targets |-> "nothing"] ELSE wants
        /\ lost' = FALSE /\ DOMAIN promise = {} /\ ~busy
    BY <1>7 DEF Restart
  <2>2. Fits(todo, promise)'
    BY <2>1 DEF Fits
  <2>3. IsTable(Load(file))
    BY StoreAssumption DEF TypeOK, IsTable, Load, Has
  <2>4. /\ Whole(Load(file)).state = "whole" /\ Whole(Load(file)).table = Load(file)
        /\ Torn.state = "torn" /\ IsTable(Torn.table)
    BY DEF Whole, Torn, Empty, IsTable
  <2>5. file'.state \in {"absent", "torn", "whole"} /\ IsTable(file'.table)
    BY <2>1, <2>3, <2>4 DEF FilesAfterLoad, TypeOK
  <2>6. TypeOK'
    <3>1. {saving, busy, lost}' \subseteq BOOLEAN
      BY <2>1 DEF TypeOK
    <3>2. wants' \in [Targets -> Texts \cup {"nothing", "cleared"}]
      BY <2>1 DEF TypeOK
    <3>3. boot' \in 0..MaxBoots
      BY <2>1, StoreAssumption DEF TypeOK
    <3> QED
      BY <2>1, <2>3, <2>5, <3>1, <3>2, <3>3 DEF TypeOK, IsTable
  <2>7. ASSUME NEW c \in Channels, Unseeded(c), wants'[c] = "cleared"
        PROVE  OwnKeys(c) \cap DOMAIN sigs' = {}
    <3>1. ~lost /\ wants[c] = "cleared"
      BY <2>1, <2>7 DEF Targets
    <3>2. OwnKeys(c) \cap DOMAIN sigs = {}
      BY <2>1, <2>7, <3>1 DEF ClearedGone
    <3>3. DOMAIN Load(file) \subseteq DOMAIN sigs \cup DOMAIN Seed
      BY <2>1, <3>1 DEF KeepInv, Agrees
    <3> QED
      BY <2>1, <2>7, <3>2, <3>3 DEF Unseeded
  <2> QED
    BY <2>1, <2>2, <2>6, <2>7 DEF ClearedGone
<1>8. CASE UNCHANGED vars
  BY <1>8 DEF vars, process, TypeOK, IsTable, Fits, OwnKeys, Clearing, ClearedGone, Unseeded
<1> QED
  BY <1>1, <1>2, <1>3, <1>4, <1>5, <1>6, <1>7, <1>8, CommandFits DEF Next, Command, TypeOK

LEMMA StoreInit == Init => StoreInv /\ KeepInv
<1> SUFFICES ASSUME Init PROVE StoreInv /\ KeepInv
  OBVIOUS
<1>1. /\ NoFile.state = "absent" /\ NoFile.table = Empty /\ Torn.state = "torn"
      /\ Torn.table = Empty /\ IsTable(Empty)
  BY DEF NoFile, Torn, Empty, IsTable
<1>2. KeepInv
  BY <1>1, LoadAgrees DEF Init, KeepInv
<1>3. IsTable(Load(NoFile))
  BY <1>1, StoreAssumption DEF IsTable, Load, Has, Empty
<1>4. Whole(Load(NoFile)).state = "whole" /\ Whole(Load(NoFile)).table = Load(NoFile)
  BY DEF Whole
<1>5. file.state \in {"absent", "torn", "whole"} /\ IsTable(file.table) /\ IsTable(sigs)
  BY <1>1, <1>3, <1>4 DEF Init, FilesAfterLoad
<1>6. TypeOK
  <2>1. {saving, busy, lost} \subseteq BOOLEAN
    BY DEF Init
  <2>2. /\ boot \in 0..MaxBoots /\ Len(todo) = 0
        /\ wants \in [Targets -> Texts \cup {"nothing", "cleared"}]
    BY StoreAssumption DEF Init
  <2> QED
    BY <1>5, <2>1, <2>2 DEF Init, TypeOK
<1>7. DOMAIN promise = {} /\ promise \in [{} -> Texts \cup {"nothing", "cleared"}]
  BY DEF Init
<1>8. todo \in Seq(Calls) /\ Len(todo) = 0
  BY DEF Init
<1>9. Fits(todo, promise)
  BY <1>7, <1>8 DEF Fits
<1>10. ClearedGone
  BY DEF Init, ClearedGone, Targets
<1> QED
  BY <1>2, <1>6, <1>7, <1>9, <1>10 DEF StoreInv, Init

LEMMA StoreHolds == Spec => [](StoreInv /\ KeepInv)
<1>1. StoreInv /\ KeepInv /\ [Next]_vars => StoreInv' /\ KeepInv'
  BY StoreStep, KeepStep
<1> QED
  BY <1>1, StoreInit, PTL DEF Spec

\* The store is type correct: whatever the commands and the environment make of
\* it, the table and the file hold signatures under normalized keys
\* (signature_store.go, Set, Clear, ClearForChannel and NewSignatureStore).
THEOREM TypeCorrect == Spec => []TypeOK
<1>1. StoreInv => TypeOK
  BY DEF StoreInv
<1> QED
  BY <1>1, StoreHolds, PTL

\* A cleared signature is gone under every key of its channel, on disk too, and
\* stays so (handler.go, handleClearSig; signature_store.go, ClearForChannel).
THEOREM ClearCorrect == Spec => []ClearIsFinal
<1>1. StoreInv => ClearIsFinal
  BY DEF StoreInv, ClearedGone, ClearIsFinal, Quiet, Unseeded
<1> QED
  BY <1>1, StoreHolds, PTL

----------------------------------------------------------------------------
(* A signature that was set *)

\* What the admin can set a signature of and be told so, and the key that both
\* /setsig and the lookup use for it, before and after the channel is resolved.
Watched == {Everything} \cup (Channels \ (ById \ Private))
Home(x) == IF x = Everything THEN Default ELSE ConfigKey(x)

HasSignature(x, text) == Has(sigs, Home(x)) /\ sigs[Home(x)] = text
Signed(x) == x \in DOMAIN promise /\ promise[x] \in Texts

\* The calls to come leave the signature of x alone unless the reply is about
\* it, and make it what the reply will say if that is a signature.
Comes(x) ==
    /\ \A i \in 1..Len(todo) : Home(x) \in todo[i].keys \/ todo[i].each =>
          /\ x \in DOMAIN promise
          /\ Signed(x) => todo[i] = Set(Home(x), promise[x])
    /\ Signed(x) =>
          \/ HasSignature(x, promise[x])
          \/ \E i \in 1..Len(todo) : todo[i] = Set(Home(x), promise[x])

SetInv(x) ==
    /\ Comes(x)
    /\ x \notin DOMAIN promise /\ wants[x] \in Texts => HasSignature(x, wants[x])

LEMMA HomeKey ==
  ASSUME NEW x \in Watched
  PROVE  /\ x \in Targets
         /\ Home(x) \in Keys /\ Home(x).ch = x
         /\ x # Everything => ChannelKey(x) = Home(x)
<1>1. CASE x = Everything
  BY <1>1, DefaultIsKey DEF Home, Targets
<1>2. CASE x # Everything
  <2>1. x \in Channels /\ (x \in ById => x \in Private) /\ (x \in Private => x \in ById)
    BY <1>2, StoreAssumption DEF Watched
  <2>2. ChannelKey(x) = ConfigKey(x)
    BY <2>1 DEF ChannelKey, ConfigKey
  <2> QED
    BY <1>2, <2>1, <2>2, OwnForms DEF Home
<1> QED
  BY <1>1, <1>2

\* A key and its twin are keys of one channel.
LEMMA TwinChannel ==
  ASSUME NEW ks \in SUBSET Keys, NEW x, \A k \in ks : k.ch = x
  PROVE  \A k \in WithTwins(ks) : k.ch = x
BY DEF WithTwins, Twins, Key

\* A group of one channel is that channel.
LEMMA OneElement ==
  ASSUME monitored \subseteq Channels, Cardinality(monitored) = 1
  PROVE  \E y : monitored = {y}
<1>1. IsFiniteSet(monitored)
  BY StoreAssumption, FS_Subset
<1> QED
  BY <1>1, FS_Singleton

\* The text that Set is given is in its call, and it is not one for each key.
LEMMA SetCall ==
  ASSUME NEW k, NEW t
  PROVE  Set(k, t).keys = {k} /\ ~Set(k, t).each /\ Set(k, t).text = t
BY DEF Set

\* A command whose reply is about the channels of its keys and names none of
\* them a signature.
LEMMA OtherStarts ==
  ASSUME NEW x \in Watched, NEW calls, NEW told, Start(calls, told),
         \A i \in 1..Len(calls) : \A k \in calls[i].keys : k.ch \in DOMAIN told,
         \A i \in 1..Len(calls) : calls[i].each => x \in DOMAIN told,
         x \in DOMAIN told => told[x] \notin Texts
  PROVE  Comes(x)'
<1>1. todo' = calls /\ promise' = told
  BY DEF Start
<1>2. Home(x).ch = x
  BY HomeKey
<1> QED
  BY <1>1, <1>2 DEF Comes, Signed, Home, ConfigKey

\* A command that sets one signature.
LEMMA OneSetStarts ==
  ASSUME NEW x \in Watched, NEW k \in Keys, NEW t \in Texts,
         Start(<<Set(k, t)>>, Tell({k.ch}, t)), k.ch = x => k = Home(x)
  PROVE  Comes(x)'
<1>1. todo' = <<Set(k, t)>> /\ promise' = Tell({k.ch}, t)
  BY DEF Start
<1>2. Len(todo') = 1 /\ todo'[1] = Set(k, t) /\ 1 \in 1..Len(todo')
  BY <1>1
<1>3. DOMAIN promise' = {k.ch} /\ promise'[k.ch] = t
  BY <1>1 DEF Tell
<1>4. Home(x)' = Home(x) /\ Home(x).ch = x
  BY HomeKey DEF Home, ConfigKey
<1>5. CASE k.ch = x
  BY <1>2, <1>3, <1>4, <1>5 DEF Comes, Signed
<1>6. CASE k.ch # x
  <2>1. k # Home(x)
    BY <1>4, <1>6
  <2> QED
    BY <1>2, <1>3, <1>4, <1>6, <2>1, SetCall DEF Comes, Signed
<1> QED
  BY <1>5, <1>6

\* /setsig <text>: the default, and the only channel's.
LEMMA SetTextStarts ==
  ASSUME NEW x \in Watched, monitored \subseteq Channels, NEW t \in Texts, SetText(t)
  PROVE  Comes(x)'
<1> DEFINE only == IF Cardinality(monitored) = 1 THEN monitored ELSE {}
           c == CHOOSE y \in only : TRUE
<1>1. /\ todo' = <<Set(Default, t)>> \o (IF only = {} THEN <<>> ELSE <<Set(ChannelKey(c), t)>>)
      /\ promise' = [y \in {Everything} \cup only |-> t]
  BY DEF SetText, Start
<1>2. Home(x)' = Home(x) /\ Home(x).ch = x
  BY HomeKey DEF Home, ConfigKey
<1>3. DOMAIN promise' = {Everything} \cup only /\ \A y \in DOMAIN promise' : promise'[y] = t
  BY <1>1
<1>4. Home(x) = Default => x = Everything
  BY <1>2, DefaultIsKey
<1>5. CASE only = {}
  <2>1. todo' = <<Set(Default, t)>>
    BY <1>1, <1>5
  <2>2. Len(todo') = 1 /\ todo'[1] = Set(Default, t) /\ 1 \in 1..Len(todo')
    BY <2>1
  <2>3. x \in DOMAIN promise' => x = Everything
    BY <1>3, <1>5
  <2>4. x = Everything => Home(x) = Default
    BY DEF Home
  <2> HIDE DEF only
  <2> QED
    BY <1>2, <1>3, <1>4, <2>2, <2>3, <2>4, SetCall DEF Comes, Signed
<1>6. CASE only # {}
  <2>1. c \in Channels /\ only = {c}
    <3>1. Cardinality(monitored) = 1 /\ only = monitored
      BY <1>6
    <3>2. \E y : monitored = {y}
      BY <3>1, OneElement
    <3> QED
      BY <3>1, <3>2
  <2>2. todo' = <<Set(Default, t), Set(ChannelKey(c), t)>>
    BY <1>1, <1>6, Pair
  <2> HIDE DEF c, only
  <2>3. /\ Len(todo') = 2 /\ {1, 2} \subseteq 1..Len(todo')
        /\ todo'[1] = Set(Default, t) /\ todo'[2] = Set(ChannelKey(c), t)
    BY <2>2
  <2>4. ChannelKey(c).ch = c /\ c # Everything
    BY <2>1, OwnForms
  <2>5. x = c => Home(x) = ChannelKey(c)
    BY <2>4, HomeKey
  <2>6. Home(x) = ChannelKey(c) => x = c
    BY <1>2, <2>4
  <2>7. x = Everything => Home(x) = Default
    BY DEF Home
  <2>8. ASSUME NEW i \in 1..Len(todo'), Home(x) \in todo'[i].keys \/ todo'[i].each
        PROVE  x \in DOMAIN promise' /\ todo'[i] = Set(Home(x), t)
    <3>1. i = 1 \/ i = 2
      BY <2>3
    <3> QED
      BY <1>3, <1>4, <2>1, <2>3, <2>6, <2>8, <3>1, SetCall
  <2>9. x \in DOMAIN promise' => \E i \in 1..Len(todo') : todo'[i] = Set(Home(x), t)
    BY <1>3, <2>1, <2>3, <2>5, <2>7
  <2> QED
    BY <1>2, <1>3, <2>8, <2>9 DEF Comes, Signed
<1> QED
  BY <1>5, <1>6

\* /clearsig: the default, and keys of the only channel.
LEMMA ClearDefaultStarts ==
  ASSUME NEW x \in Watched, monitored \subseteq Channels, ClearDefault
  PROVE  Comes(x)'
<1> DEFINE only == IF Cardinality(monitored) = 1 THEN monitored ELSE {}
           c == CHOOSE y \in only : TRUE
           mine == {ChannelKey(c)} \cup UsernameKeys(c) \cup (IdKeys(c) \ {Key("number", c)})
           own == IF only = {} THEN <<>> ELSE <<Clear(mine)>>
           calls == <<Clear({Default})>> \o own
           told == [y \in {Everything} \cup only |->
                       IF y = Everything THEN "cleared" ELSE "nothing"]
<1>1. Start(calls, told)
  BY DEF ClearDefault
<1>2. x \in DOMAIN told => told[x] \notin Texts
  BY StoreAssumption
<1>3. ~Clear({Default}).each /\ \A k \in Clear({Default}).keys : k.ch = Everything
  <2>1. \A k \in WithTwins({Default}) : k.ch = Everything
    BY TwinChannel, DefaultIsKey
  <2> QED
    BY <2>1 DEF Clear
<1>4. only # {} => c \in only /\ ~Clear(mine).each /\ \A k \in Clear(mine).keys : k.ch = c
  <2> HAVE only # {}
  <2>1. c \in Channels /\ c \in only
    OBVIOUS
  <2>2. \A k \in mine : k.ch = c
    BY <2>1, OwnForms DEF UsernameKeys, IdKeys, Key
  <2>3. mine \subseteq Keys
    BY <2>1, OwnForms
  <2> HIDE DEF mine
  <2>4. \A k \in WithTwins(mine) : k.ch = c
    BY <2>2, <2>3, TwinChannel
  <2> QED
    BY <2>1, <2>4 DEF Clear
<1>5. CASE only = {}
  <2>1. calls = <<Clear({Default})>>
    BY <1>5
  <2>2. Len(calls) = 1 /\ calls[1] = Clear({Default})
    BY <2>1
  <2>3. Everything \in DOMAIN told
    OBVIOUS
  <2> HIDE DEF calls, told, only
  <2>4. \A i \in 1..Len(calls) : ~calls[i].each /\ \A k \in calls[i].keys : k.ch \in DOMAIN told
    <3>1. \A i \in 1..Len(calls) : i = 1
      BY <2>2
    <3> QED
      BY <1>3, <2>2, <2>3, <3>1
  <2> QED
    BY <1>1, <1>2, <2>4, OtherStarts
<1>6. CASE only # {}
  <2>1. calls = <<Clear({Default}), Clear(mine)>>
    BY <1>6, Pair
  <2> HIDE DEF mine
  <2>2. Len(calls) = 2 /\ calls[1] = Clear({Default}) /\ calls[2] = Clear(mine)
    BY <2>1
  <2>3. Everything \in DOMAIN told /\ c \in DOMAIN told
    BY <1>4, <1>6
  <2> HIDE DEF calls, told, only, c
  <2>4. \A i \in 1..Len(calls) : i = 1 \/ i = 2
    BY <2>2
  <2>5. \A i \in 1..Len(calls) : ~calls[i].each /\ \A k \in calls[i].keys : k.ch \in DOMAIN told
    BY <1>3, <1>4, <1>6, <2>2, <2>3, <2>4
  <2> QED
    BY <1>1, <1>2, <2>5, OtherStarts
<1> QED
  BY <1>5, <1>6

\* Every command starts with calls that do what Comes says.
LEMMA SetStarts ==
  ASSUME NEW x \in Watched, IsTable(sigs), monitored \subseteq Channels,
         \/ \E t \in Texts : SetDefault(t) \/ SetText(t)
         \/ \E k \in Keys, t \in Texts :
               \/ \E c \in Channels : SetChannel(k, c, t)
               \/ SetIdentifier(k, t)
         \/ ClearDefault
         \/ ClearAll
         \/ \E k \in Keys :
               \/ \E c \in Channels : ClearChannel(k, c)
               \/ ClearIdentifier(k)
  PROVE  Comes(x)'
<1>1. ASSUME NEW call, NEW told, Start(<<call>>, told),
             \A k \in call.keys : k.ch \in DOMAIN told,
             call.each => x \in DOMAIN told,
             x \in DOMAIN told => told[x] \notin Texts
      PROVE  Comes(x)'
  <2> DEFINE calls == <<call>>
  <2>1. Len(calls) = 1 /\ calls[1] = call
    OBVIOUS
  <2>2. Start(calls, told)
    BY <1>1
  <2> HIDE DEF calls
  <2>3. \A i \in 1..Len(calls) : calls[i] = call
    BY <2>1
  <2> QED
    BY <1>1, <2>2, <2>3, OtherStarts
<1>2. ASSUME NEW t \in Texts, SetDefault(t) PROVE Comes(x)'
  <2>1. Start(<<Set(Default, t)>>, Tell({Default.ch}, t))
    BY <1>2, DefaultIsKey DEF SetDefault
  <2>2. Default.ch = x => Default = Home(x)
    BY DefaultIsKey DEF Home
  <2> QED
    BY <2>1, <2>2, DefaultIsKey, OneSetStarts
<1>3. ASSUME NEW k \in Keys, NEW t \in Texts, NEW c \in Channels, SetChannel(k, c, t)
      PROVE  Comes(x)'
  <2>1. Start(<<Set(ChannelKey(c), t)>>, Tell({ChannelKey(c).ch}, t))
    BY <1>3, OwnForms DEF SetChannel
  <2>2. ChannelKey(c) \in Keys /\ (ChannelKey(c).ch = x => ChannelKey(c) = Home(x))
    BY OwnForms, HomeKey
  <2> QED
    BY <2>1, <2>2, OneSetStarts
<1>4. ASSUME NEW k \in Keys, NEW t \in Texts, SetIdentifier(k, t) PROVE Comes(x)'
  <2>1. Start(<<Set(k, t)>>, Tell({k.ch}, "nothing"))
    BY <1>4 DEF SetIdentifier
  <2>2. \A j \in Set(k, t).keys : j.ch \in DOMAIN Tell({k.ch}, "nothing")
    BY SetCall DEF Tell
  <2>3. x \in DOMAIN Tell({k.ch}, "nothing") => Tell({k.ch}, "nothing")[x] \notin Texts
    BY StoreAssumption DEF Tell
  <2> QED
    BY <1>1, <2>1, <2>2, <2>3, SetCall
<1>5. CASE ClearAll
  <2>1. Tell(Targets, "cleared")[x] \notin Texts /\ DOMAIN Tell(Targets, "cleared") = Targets
    BY HomeKey, StoreAssumption DEF Tell
  <2>2. \A k \in DOMAIN sigs : k.ch \in Targets
    BY DEF IsTable, Keys, Key, Targets
  <2>3. CASE sigs = Empty
    <3>1. Start(<<>>, Tell(Targets, "cleared"))
      BY <1>5, <2>3 DEF ClearAll
    <3> QED
      BY <2>1, <3>1, OtherStarts
  <2>4. CASE sigs # Empty
    <3>1. Start(<<ClearEach(DOMAIN sigs)>>, Tell(Targets, "cleared"))
      BY <1>5, <2>4 DEF ClearAll
    <3>2. ClearEach(DOMAIN sigs).keys = DOMAIN sigs
      BY DEF ClearEach
    <3> QED
      BY <1>1, <2>1, <2>2, <3>1, <3>2, HomeKey
  <2> QED
    BY <2>3, <2>4
<1>6. ASSUME NEW k \in Keys, NEW c \in Channels, ClearChannel(k, c) PROVE Comes(x)'
  <2> DEFINE mine == {ConfigKey(c), k} \cup UsernameKeys(c) \cup IdKeys(c) \cup TitleKeys(c)
             told == Tell({c}, IF Resolved THEN "cleared" ELSE "nothing")
  <2>1. Start(<<Clear(mine)>>, told)
    BY <1>6 DEF ClearChannel
  <2>2. \A j \in mine : j.ch = c
    <3>1. k.ch = c
      BY <1>6 DEF ClearChannel, ChannelMatches, ConfigKey, UsernameKeys, IdKeys, TitleKeys, Key
    <3> QED
      BY <3>1 DEF ConfigKey, UsernameKeys, IdKeys, TitleKeys, Key
  <2>3. mine \subseteq Keys
    BY OwnForms
  <2>4. DOMAIN told = {c} /\ (x \in DOMAIN told => told[x] \notin Texts)
    BY StoreAssumption DEF Tell
  <2> HIDE DEF mine, told
  <2>5. ~Clear(mine).each /\ \A j \in Clear(mine).keys : j.ch = c
    BY <2>2, <2>3, TwinChannel DEF Clear
  <2> QED
    BY <1>1, <2>1, <2>4, <2>5
<1>7. ASSUME NEW k \in Keys, ClearIdentifier(k) PROVE Comes(x)'
  <2>1. Start(<<Clear({k})>>, Tell({k.ch}, "nothing"))
    BY <1>7 DEF ClearIdentifier
  <2>2. ~Clear({k}).each /\ \A j \in Clear({k}).keys : j.ch = k.ch
    BY TwinChannel DEF Clear
  <2>3. /\ DOMAIN Tell({k.ch}, "nothing") = {k.ch}
        /\ x \in {k.ch} => Tell({k.ch}, "nothing")[x] \notin Texts
    BY StoreAssumption DEF Tell
  <2> QED
    BY <1>1, <2>1, <2>2, <2>3
<1> QED
  BY <1>2, <1>3, <1>4, <1>5, <1>6, <1>7, SetTextStarts, ClearDefaultStarts

LEMMA SetApply ==
  ASSUME NEW x \in Watched, StoreInv, SetInv(x), Apply
  PROVE  SetInv(x)'
<1>1. /\ todo # <<>> /\ todo \in Seq(Calls) /\ Len(todo) <= 2
      /\ UNCHANGED <<promise, wants>>
  BY DEF StoreInv, Fits, Apply
<1> DEFINE call == todo[1]
           about == x \in DOMAIN promise
           signed == about /\ promise[x] \in Texts
           h == Home(x)
<1>2. /\ Head(todo) = call /\ call \in Calls /\ 1 \in 1..Len(todo)
      /\ Tail(todo) \in Seq(Calls)
      /\ \A i \in 1..Len(Tail(todo)) :
            i + 1 \in 1..Len(todo) /\ Tail(todo)[i] = todo[i + 1]
      /\ \A i \in 1..Len(todo) : i # 1 =>
            i - 1 \in 1..Len(Tail(todo)) /\ Tail(todo)[i - 1] = todo[i]
  BY <1>1, TailCalls
<1>3. NoText \notin Texts
  BY StoreAssumption
<1>4. Home(x)' = h /\ (Signed(x) <=> signed) /\ (Signed(x)' <=> signed)
  BY <1>1 DEF Home, ConfigKey, Signed
<1> HIDE DEF h
<1>5. CASE signed /\ call = Set(h, promise[x])
  <2>1. /\ sigs' = With(sigs, h, promise[x]) /\ todo' = Tail(todo)
    <3>1. /\ call.keys = {h} /\ ~call.each
          /\ call.text = promise[x] /\ call.text # NoText
      BY <1>3, <1>5, SetCall
    <3> HIDE DEF call
    <3> QED
      BY <1>2, <3>1 DEF Apply
  <2>2. HasSignature(x, promise[x])'
    BY <1>1, <1>4, <2>1 DEF With, HasSignature, Has
  <2>3. \A i \in 1..Len(todo') : h \in todo'[i].keys \/ todo'[i].each =>
             todo'[i] = Set(h, promise[x])
    BY <1>2, <1>4, <1>5, <2>1 DEF SetInv, Comes, h
  <2> QED
    BY <1>1, <1>4, <1>5, <2>2, <2>3 DEF SetInv, Comes
<1>6. CASE ~(signed /\ call = Set(h, promise[x])) /\ ~call.each
  <2>1. todo' = Tail(todo)
    BY <1>2, <1>6 DEF Apply
  <2>2. ~about \/ signed => h \notin call.keys
    BY <1>2, <1>4, <1>6 DEF SetInv, Comes, h
  <2>3. ~about \/ signed => (Has(sigs, h) => Has(sigs', h) /\ sigs'[h] = sigs[h])
    <3>1. CASE call.text = NoText
      <4>1. sigs' = Without(sigs, call.keys)
        BY <1>2, <1>6, <3>1 DEF Apply
      <4> QED
        BY <2>2, <4>1 DEF Without, Has
    <3>2. CASE call.text # NoText
      <4>1. PICK k \in Keys : call.keys = {k}
        BY <1>2, <3>2 DEF StoreInv, Fits
      <4>2. (CHOOSE j \in call.keys : TRUE) = k
        BY <4>1
      <4>3. Head(todo) = call /\ ~call.each
        BY <1>2, <1>6
      <4> HIDE DEF call
      <4>4. sigs' = With(sigs, CHOOSE j \in call.keys : TRUE, call.text)
        BY <3>2, <4>3 DEF Apply
      <4>5. sigs' = With(sigs, k, call.text)
        BY <4>2, <4>4
      <4> QED
        BY <2>2, <4>1, <4>5 DEF With, Has
    <3> QED
      BY <3>1, <3>2
  <2>4. \A i \in 1..Len(todo') : h \in todo'[i].keys \/ todo'[i].each =>
           about /\ (signed => todo'[i] = Set(h, promise[x]))
    BY <1>2, <1>4, <2>1 DEF SetInv, Comes, h
  <2>5. signed => \/ HasSignature(x, promise[x])'
                  \/ \E i \in 1..Len(todo') : todo'[i] = Set(h, promise[x])
    <3> HAVE signed
    <3>1. CASE HasSignature(x, promise[x])
      BY <1>1, <1>4, <2>3, <3>1 DEF HasSignature, h
    <3>2. CASE ~HasSignature(x, promise[x])
      <4>1. PICK i \in 1..Len(todo) : todo[i] = Set(h, promise[x])
        BY <1>4, <3>2 DEF SetInv, Comes, h
      <4>2. i # 1
        BY <1>6, <4>1
      <4>3. Len(todo) \in Nat /\ Len(todo') = Len(todo) - 1
        BY <1>2, <2>1
      <4>4. i - 1 \in 1..Len(todo')
        BY <4>1, <4>2, <4>3
      <4>5. todo'[i - 1] = todo[i]
        BY <1>2, <2>1, <4>1, <4>4
      <4> QED
        BY <4>1, <4>4, <4>5
    <3> QED
      BY <3>1, <3>2
  <2>6. ~about /\ wants[x] \in Texts => HasSignature(x, wants[x])'
    BY <1>1, <1>4, <2>3 DEF SetInv, HasSignature, h
  <2> QED
    BY <1>1, <1>4, <2>4, <2>5, <2>6 DEF SetInv, Comes
<1>7. CASE call.each
  <2>1. about /\ ~signed
    BY <1>2, <1>3, <1>4, <1>7, SetCall DEF SetInv, Comes
  <2> QED
    BY <1>1, <1>4, <2>1 DEF SetInv, Comes
<1> QED
  BY <1>5, <1>6, <1>7

LEMMA SetStep ==
  ASSUME NEW x \in Watched, StoreInv, KeepInv, SetInv(x), [Next]_vars
  PROVE  SetInv(x)'
<1>1. Home(x)' = Home(x) /\ x \in Targets
  BY HomeKey DEF Home, ConfigKey
<1>2. CASE UNCHANGED <<sigs, todo, promise, wants>>
  BY <1>1, <1>2 DEF SetInv, Comes, HasSignature, Signed
<1>3. ASSUME Comes(x)', ~busy, UNCHANGED <<sigs, wants>> PROVE SetInv(x)'
  <2>1. DOMAIN promise = {}
    BY <1>3 DEF StoreInv
  <2> QED
    BY <1>1, <1>3, <2>1 DEF SetInv, HasSignature
<1>4. ASSUME NEW calls, NEW told, Start(calls, told) PROVE ~busy /\ UNCHANGED <<sigs, wants>>
  BY <1>4 DEF Start
<1>5. CASE Apply
  BY <1>5, SetApply
<1>6. CASE EndSave \/ Resolve
  BY <1>2, <1>6 DEF EndSave, Resolve
<1>7. CASE Reply
  <2>1. /\ UNCHANGED sigs /\ todo = <<>> /\ todo' = <<>> /\ DOMAIN promise' = {}
        /\ wants' = [y \in Targets |-> IF y \in DOMAIN promise THEN promise[y] ELSE wants[y]]
    BY <1>7 DEF Reply
  <2>2. Len(todo) = 0 /\ Len(todo') = 0
    BY <2>1
  <2>3. wants'[x] \in Texts => HasSignature(x, wants'[x])
    BY <1>1, <2>1, <2>2 DEF SetInv, Comes, Signed
  <2> QED
    BY <1>1, <2>1, <2>2, <2>3 DEF SetInv, Comes, HasSignature, Signed
<1>8. CASE Crash
  <2>1. /\ UNCHANGED sigs /\ todo' = <<>> /\ DOMAIN promise' = {}
        /\ wants' = [y \in Targets |-> IF y \in DOMAIN promise THEN "nothing" ELSE wants[y]]
    BY <1>8 DEF Crash
  <2>2. wants'[x] \in Texts => HasSignature(x, wants'[x])
    BY <1>1, <2>1, StoreAssumption DEF SetInv
  <2>3. Len(todo') = 0
    BY <2>1
  <2> QED
    BY <1>1, <2>1, <2>2, <2>3 DEF SetInv, Comes, HasSignature, Signed
<1>9. CASE Restart
  <2>1. /\ UNCHANGED <<todo, promise>> /\ sigs' = Load(file)
        /\ wants' = IF lost THEN [y \in Targets |-> "nothing"] ELSE wants
        /\ DOMAIN promise = {} /\ ~saving
    BY <1>9 DEF Restart, StoreInv
  <2>2. ASSUME wants'[x] \in Texts PROVE HasSignature(x, wants[x])' /\ wants' = wants
    <3>1. ~lost /\ wants' = wants
      BY <1>1, <2>1, <2>2, StoreAssumption
    <3>2. HasSignature(x, wants[x])
      BY <2>1, <2>2, <3>1 DEF SetInv
    <3>3. \A k \in DOMAIN sigs : Has(Load(file), k) /\ Load(file)[k] = sigs[k]
      BY <2>1, <3>1 DEF KeepInv, Agrees
    <3> QED
      BY <1>1, <2>1, <3>1, <3>2, <3>3 DEF HasSignature, Has
  <2> QED
    BY <1>1, <2>1, <2>2 DEF SetInv, Comes, Signed
<1>10. CASE UNCHANGED vars
  BY <1>2, <1>10 DEF vars
<1>11. ASSUME \/ \E t \in Texts : SetDefault(t) \/ SetText(t)
              \/ \E k \in Keys, t \in Texts :
                    \/ \E c \in Channels : SetChannel(k, c, t)
                    \/ SetIdentifier(k, t)
              \/ ClearDefault
              \/ ClearAll
              \/ \E k \in Keys :
                    \/ \E c \in Channels : ClearChannel(k, c)
                    \/ ClearIdentifier(k)
       PROVE  SetInv(x)'
  <2>1. IsTable(sigs) /\ monitored \subseteq Channels
    BY DEF StoreInv, TypeOK
  <2>2. Comes(x)'
    BY <1>11, <2>1, SetStarts
  <2>3. \E calls, told : Start(calls, told)
    BY <1>11, <2>1, CommandFits
  <2> QED
    BY <1>3, <1>4, <2>2, <2>3
<1> QED
  BY <1>5, <1>6, <1>7, <1>8, <1>9, <1>10, <1>11 DEF Next, Command

LEMMA SetHolds == Spec => [](StoreInv /\ \A x \in Watched : SetInv(x))
<1>1. Init => \A x \in Watched : SetInv(x)
  BY StoreAssumption, HomeKey DEF Init, SetInv, Comes, Signed
<1>2. /\ StoreInv /\ KeepInv /\ (\A x \in Watched : SetInv(x)) /\ [Next]_vars
      => StoreInv' /\ KeepInv' /\ (\A x \in Watched : SetInv(x))'
  BY StoreStep, KeepStep, SetStep DEF Watched
<1> QED
  BY <1>1, <1>2, StoreInit, PTL DEF Spec

\* Five keys before three others.
LEMMA Eight ==
  ASSUME NEW a, NEW b, NEW d, NEW e, NEW f, NEW x, NEW y, NEW z
  PROVE  LET order == <<a, b, d, e, f>> \o <<x, y, z>>
         IN  /\ Len(order) = 8 /\ order[1] = a /\ order[6] = x
             /\ \A i \in 1..5 : order[i] \in {a, b, d, e, f}
<1> DEFINE S == {a, b, d, e, f, x, y, z}
           s == <<a, b, d, e, f>>
           t == <<x, y, z>>
<1>1. s \in Seq(S) /\ t \in Seq(S) /\ Len(s) = 5 /\ Len(t) = 3
  OBVIOUS
<1>2. s[1] = a /\ s[2] = b /\ s[3] = d /\ s[4] = e /\ s[5] = f /\ t[1] = x
  OBVIOUS
<1> HIDE DEF S, s, t
<1>3. /\ Len(s \o t) = 5 + 3
      /\ \A i \in 1..8 : (s \o t)[i] = IF i <= 5 THEN s[i] ELSE t[i - 5]
  <2>1. /\ Len(s \o t) = Len(s) + Len(t)
        /\ \A i \in 1 .. Len(s) + Len(t) :
              (s \o t)[i] = IF i <= Len(s) THEN s[i] ELSE t[i - Len(s)]
    BY <1>1, ConcatProperties, Zenon
  <2>2. Len(s) + Len(t) = 8
    BY <1>1
  <2>3. \A i \in 1..8 : (s \o t)[i] = IF i <= Len(s) THEN s[i] ELSE t[i - Len(s)]
    BY <2>1, <2>2, Zenon
  <2>4. \A i \in 1..8 : (s \o t)[i] = IF i <= 5 THEN s[i] ELSE t[i - 5]
    BY <2>3, <1>1, Zenon
  <2> QED
    BY <2>1, <2>4, <1>1
<1>4. \A i \in 1..5 : s[i] \in {a, b, d, e, f}
  BY <1>2
<1>5. Len(s \o t) = 8 /\ (s \o t)[1] = a /\ (s \o t)[6] = x /\ \A i \in 1..5 : (s \o t)[i] \in {a, b, d, e, f}
  <2>1. Len(s \o t) = 8
    BY <1>3
  <2>2. (s \o t)[6] = t[6 - 5]
    BY <1>3
  <2>3. 6 - 5 = 1
    OBVIOUS
  <2>4. (s \o t)[6] = x
    BY <2>2, <2>3, <1>2, Zenon
  <2>5. \A i \in 1..5 : i \in 1..8 /\ i <= 5
    OBVIOUS
  <2>6. \A i \in 1..5 : (s \o t)[i] = s[i]
    BY <1>3, <2>5, Zenon
  <2>7. \A i \in 1..5 : (s \o t)[i] \in {a, b, d, e, f}
    BY <2>6, <1>4, Zenon
  <2>8. (s \o t)[1] = a
    <3>1. 1 \in 1..5
      OBVIOUS
    <3> QED
      BY <2>6, <3>1, <1>2, Zenon
  <2> QED
    BY <2>1, <2>4, <2>7, <2>8, Zenon
<1> QED
  BY <1>5 DEF s, t

\* A channel without a signature of its own gets the default one.
LEMMA DefaultFound ==
  ASSUME IsTable(sigs), NEW c \in Channels, NEW t,
         Has(sigs, Default), sigs[Default] = t,
         OwnKeys(c) \cap DOMAIN sigs = {}
  PROVE  GetForChannel(c) = t
<1> DEFINE order == Candidates(c) \o Fallbacks
           hits == {i \in 1..Len(order) : Has(sigs, order[i])}
<1>1. /\ Len(order) = 8 /\ order[6] = Default
      /\ \A i \in 1..5 : order[i] \in
            {ConfigKey(c), Key("id", c), Key("number", c), Key("name", c), Key("title", c)}
  BY Eight DEF Candidates, Fallbacks
<1>2. \A k \in {ConfigKey(c), Key("id", c), Key("number", c), Key("name", c), Key("title", c)} :
         k.ch = c
  BY DEF ConfigKey, Key
<1> HIDE DEF order
<1>3. /\ Len(order) = 8 /\ order[6] = Default
      /\ \A i \in 1..5 : order[i].ch = c
  BY <1>1, <1>2
<1>4. 6 \in hits
  BY <1>3
<1>5. \A i \in 1..5 : i \notin hits
  BY <1>3 DEF Has, OwnKeys, IsTable
<1>6. \A i \in hits : 6 <= i
  BY <1>3, <1>5
<1>7. (CHOOSE i \in hits : \A j \in hits : i <= j) = 6
  <2>1. hits \subseteq Int
    BY <1>3
  <2> HIDE DEF hits
  <2>2. \A i \in hits : (\A j \in hits : i <= j) => i = 6
    BY <1>4, <1>6, <2>1
  <2> QED
    BY <1>4, <1>6, <2>2
<1> QED
  BY <1>3, <1>4, <1>7 DEF GetForChannel, order

\* A channel's own signature under the name it is configured with comes first.
LEMMA OwnFound ==
  ASSUME NEW c \in Channels, Has(sigs, ConfigKey(c))
  PROVE  GetForChannel(c) = sigs[ConfigKey(c)]
<1> DEFINE order == Candidates(c) \o Fallbacks
           hits == {i \in 1..Len(order) : Has(sigs, order[i])}
<1>1. Len(order) = 8 /\ order[1] = ConfigKey(c)
  BY Eight DEF Candidates, Fallbacks
<1> HIDE DEF order
<1>2. 1 \in hits /\ \A i \in hits : i \in Int /\ 1 <= i
  BY <1>1
<1>3. (CHOOSE i \in hits : \A j \in hits : i <= j) = 1
  <2> HIDE DEF hits
  <2>1. \A i \in hits : (\A j \in hits : i <= j) => i = 1
    BY <1>2
  <2> QED
    BY <1>2, <2>1
<1> QED
  BY <1>1, <1>2, <1>3 DEF GetForChannel, order

\* The default signature set last is what every channel without one of its own
\* gets (handler.go, handleSetSig; signature_store.go, GetForChannel): nothing
\* that another command, a restart or the environment does takes it away.
THEOREM DefaultCorrect == Spec => []DefaultTakesEffect
<1>1. StoreInv /\ (\A x \in Watched : SetInv(x)) => DefaultTakesEffect
  <2> SUFFICES ASSUME StoreInv, SetInv(Everything), ~busy, NEW c \in Channels,
                      wants[Everything] \in Texts, OwnKeys(c) \cap DOMAIN sigs = {}
               PROVE  GetForChannel(c) = wants[Everything]
    BY DEF DefaultTakesEffect, Quiet, Watched
  <2>1. Has(sigs, Default) /\ sigs[Default] = wants[Everything]
    BY DEF StoreInv, SetInv, HasSignature, Home
  <2> QED
    BY <2>1, DefaultFound DEF StoreInv, TypeOK
<1> QED
  BY <1>1, SetHolds, PTL

\* The signature of a channel set last is the one its posts get (handler.go,
\* handleSetSig; signature_store.go, GetForChannel), whatever other command,
\* restart or failed save comes between, as long as the admin was told and the
\* channel is configured under the name that /setsig uses for it.
THEOREM SetCorrect == Spec => []SetTakesEffect
<1>1. StoreInv /\ (\A x \in Watched : SetInv(x)) => SetTakesEffect
  <2> SUFFICES ASSUME StoreInv, ~busy, NEW c \in Channels \ (ById \ Private),
                      SetInv(c), wants[c] \in Texts
               PROVE  GetForChannel(c) = wants[c]
    BY DEF SetTakesEffect, Quiet, Watched
  <2>1. HasSignature(c, wants[c]) /\ c # Everything
    BY StoreAssumption DEF StoreInv, SetInv
  <2> QED
    BY <2>1, OwnFound DEF HasSignature, Home
<1> QED
  BY <1>1, SetHolds, PTL
=============================================================================
