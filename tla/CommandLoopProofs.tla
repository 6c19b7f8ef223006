-------------------------- MODULE CommandLoopProofs --------------------------
(***************************************************************************)
(* Proofs about CommandLoop, for any users, commands and batches, however   *)
(* often the process is started again.                                      *)
(***************************************************************************)
EXTENDS CommandLoop, TLAPS

USE DEF telegram, process, data, bases, history

----------------------------------------------------------------------------
(* Types *)

LEMMA EffectType ==
  ASSUME NEW s \in [channels : SUBSET Channels,
                    sigs : [Channels \cup {Default} -> Texts \cup {NoText}]],
         NEW c \in Commands
  PROVE  /\ Effect(s, c) \in [channels : SUBSET Channels,
                              sigs : [Channels \cup {Default} -> Texts \cup {NoText}]]
         /\ c.op = "add" => Effect(s, c).channels = s.channels \cup {c.ch}
         /\ c.op = "remove" => Effect(s, c).channels = s.channels \ {c.ch}
         /\ c.op \in {"sign", "signAll"} => Effect(s, c).channels = s.channels
<1>1. c.op \in Ops /\ c.ch \in Channels /\ c.text \in Texts \cup {NoText}
  BY LoopAssumption
<1>2. ASSUME NEW k
      PROVE  /\ Signed(s, k, c.text) \in
                   [channels : SUBSET Channels,
                    sigs : [Channels \cup {Default} -> Texts \cup {NoText}]]
             /\ Signed(s, k, c.text).channels = s.channels
  BY <1>1 DEF Signed
<1>3. CASE c.op = "add"
  BY <1>1, <1>3 DEF Effect, WithChannel
<1>4. CASE c.op = "remove"
  BY <1>1, <1>4 DEF Effect, WithoutChannel
<1>5. CASE c.op = "sign"
  BY <1>2, <1>5 DEF Effect
<1>6. CASE c.op = "signAll"
  BY <1>2, <1>6 DEF Effect
<1>7. CASE c.op = "other"
  BY <1>7 DEF Effect
<1> QED
  BY <1>1, <1>3, <1>4, <1>5, <1>6, <1>7 DEF Ops

----------------------------------------------------------------------------
(* The cursor *)

\* Where the loop is: it holds updates that were sent, and it asks for the one
\* after those it handled, or, at first, for the oldest that is kept.
CursorInv ==
    /\ log \in Seq(Commands)
    /\ {kept, offset, next, last, done, boot, listFrom, sigsFrom} \subseteq Nat
    /\ pc \in {"poll", "asked", "pause", "batch", "execute", "reply", "returned", "down"}
    /\ kept <= next
    /\ next <= done + 1
    /\ done <= Len(log)
    /\ done < kept + MaxBatch
    /\ 1 <= listFrom /\ listFrom <= kept
    /\ 1 <= sigsFrom /\ sigsFrom <= kept
    /\ pc \in {"poll", "asked", "pause"} =>
          \/ offset = next
          \/ offset = 0 /\ kept = next
    /\ pc = "asked" => kept = next
    /\ pc = "batch" => offset <= next
    /\ pc \in {"execute", "reply"} => offset = next + 1
    /\ pc \in {"batch", "execute", "reply"} =>
          next <= last /\ last <= Len(log) /\ last < kept + MaxBatch

LEMMA CursorInit ==
  ASSUME Init
  PROVE  CursorInv
BY LoopAssumption DEF Init, CursorInv

LEMMA SendStep ==
  ASSUME CursorInv, NEW c \in Commands, Send(c)
  PROVE  /\ log' \in Seq(Commands)
         /\ Len(log') = Len(log) + 1
         /\ Len(log) \in Nat
BY DEF CursorInv, Send

\* What the steps of the command goroutine have in common.
LEMMA CommandStep ==
  ASSUME AddChannel \/ RemoveChannel \/ Refuse \/ Sign \/ Other
  PROVE  /\ pc = "execute"
         /\ pc' = "reply"
         /\ UNCHANGED <<telegram, offset, next, last, boot, done, bases>>
BY DEF AddChannel, RemoveChannel, Refuse, Sign, Other, Executing

LEMMA CursorStep ==
  ASSUME CursorInv, [Next]_vars
  PROVE  CursorInv'
<1> USE DEF CursorInv
<1>0. Len(log) \in Nat /\ MaxBatch \in Nat /\ MaxBatch > 0
  BY LoopAssumption
<1>1. ASSUME NEW c \in Commands, Send(c)
      PROVE  CursorInv'
  BY <1>0, <1>1, SendStep DEF Send
<1>2. CASE Ask
  BY <1>0, <1>2 DEF Ask, Larger
<1>3. CASE Answer
  <2>1. /\ pc = "asked" /\ kept = next /\ kept <= next' /\ next' = next
        /\ last' \in Nat /\ last' <= Len(log) /\ last' < kept + MaxBatch
    BY <1>0, <1>3 DEF Answer, Smaller
  <2>2. /\ pc' = IF next' <= last' THEN "batch" ELSE "poll"
        /\ UNCHANGED <<log, kept, offset, boot, bases, done>>
    BY <1>3 DEF Answer
  <2> QED
    BY <1>0, <2>1, <2>2
<1>4. CASE PollFails
  BY <1>0, <1>4 DEF PollFails
<1>5. CASE Resume
  BY <1>0, <1>5 DEF Resume
<1>6. CASE TakeUpdate
  BY <1>0, <1>6 DEF TakeUpdate, Advance
<1>7. CASE AddChannel \/ RemoveChannel \/ Refuse \/ Sign \/ Other
  BY <1>0, <1>7, CommandStep
<1>8. CASE Reply
  <2>1. /\ pc = "reply" /\ next' = next + 1 /\ next <= last /\ offset = next'
        /\ done \in Nat /\ next \in Nat /\ done' = IF done < next THEN next ELSE done
    BY <1>0, <1>8 DEF Reply, Larger
  <2>2. /\ pc' = IF next < last THEN "batch" ELSE "poll"
        /\ UNCHANGED <<log, kept, offset, last, boot, bases>>
    BY <1>8 DEF Reply
  <2> QED
    BY <1>0, <2>1, <2>2
<1>9. CASE Connected \/ Resolved
  BY <1>9 DEF Connected, Resolved
<1>10. CASE Cancel \/ ProcessEnds
  BY <1>0, <1>10 DEF Cancel, ProcessEnds
<1>11. CASE Restart
  BY <1>0, <1>11 DEF Restart, ReadList
<1>12. CASE UNCHANGED vars
  BY <1>12 DEF vars
<1> QED
  BY <1>1, <1>2, <1>3, <1>4, <1>5, <1>6, <1>7, <1>8, <1>9, <1>10, <1>11, <1>12
  DEF Next, LoopStep

\* The cursor invariant holds.
THEOREM CursorCorrect == Spec => []CursorInv
<1>1. Init => CursorInv
  BY CursorInit
<1>2. CursorInv /\ [Next]_vars => CursorInv'
  BY CursorStep
<1> QED
  BY <1>1, <1>2, PTL DEF Spec

\* Telegram forgets an update only after the handler had it, and a crash makes
\* the bot handle again no more than one batch.
THEOREM NothingForgottenCorrect == Spec => []NothingForgotten
<1>1. CursorInv => NothingForgotten
  <2> SUFFICES ASSUME CursorInv
               PROVE  NothingForgotten
    OBVIOUS
  <2> QED
    BY LoopAssumption DEF CursorInv, NothingForgotten
<1> QED
  BY <1>1, CursorCorrect, PTL

\* In the life of a process every update is handled in its turn and once; only
\* a restart goes back, to the oldest update that Telegram keeps.
THEOREM InboxCorrect == Spec => InboxSafe
<1>1. Init => Inbox!InboxInit
  BY DEF Init, Inbox!InboxInit
<1>2. CursorInv /\ CursorInv' /\ [Next]_vars => [Inbox!InboxNext]_Inbox!ivars
  <2> SUFFICES ASSUME CursorInv, [Next]_vars
               PROVE  [Inbox!InboxNext]_Inbox!ivars
    OBVIOUS
  <2> USE DEF CursorInv, Inbox!ivars
  <2>0. Len(log) \in Nat /\ MaxBatch \in Nat /\ MaxBatch > 0
    BY LoopAssumption
  <2>1. ASSUME NEW c \in Commands, Send(c)
        PROVE  Inbox!Send
    BY <2>0, <2>1, SendStep DEF Send, Inbox!Send
  <2>2. CASE Ask
    <3>1. kept' = kept \/ kept' = next
      BY <2>2 DEF Ask, Larger
    <3>2. UNCHANGED <<boot, log, next, done>>
      BY <2>2 DEF Ask
    <3> QED
      BY <3>1, <3>2 DEF Inbox!InboxNext, Inbox!Forget
  <2>3. CASE Answer
    BY <2>3 DEF Answer
  <2>4. CASE PollFails \/ Resume \/ TakeUpdate
    BY <2>4 DEF PollFails, Resume, TakeUpdate
  <2>5. CASE AddChannel \/ RemoveChannel \/ Refuse \/ Sign \/ Other
    BY <2>5, CommandStep
  <2>6. CASE Reply
    <3>1. /\ next' = next + 1 /\ done' = Larger(done, next) /\ next \in Nat
          /\ UNCHANGED <<boot, log, kept>> /\ next <= Len(log)
      BY <2>0, <2>6 DEF Reply
    <3>2. Inbox!Handle
      BY <2>0, <3>1 DEF Larger, Inbox!Handle
    <3> QED
      BY <3>2 DEF Inbox!InboxNext
  <2>7. CASE Connected \/ Resolved \/ Cancel \/ ProcessEnds
    BY <2>7 DEF Connected, Resolved, Cancel, ProcessEnds
  <2>8. CASE Restart
    <3>1. Inbox!Interrupt
      BY <2>8 DEF Restart, Inbox!Interrupt
    <3> QED
      BY <3>1 DEF Inbox!InboxNext
  <2>9. CASE UNCHANGED vars
    BY <2>9 DEF vars
  <2> QED
    BY <2>1, <2>2, <2>3, <2>4, <2>5, <2>6, <2>7, <2>8, <2>9
    DEF Next, LoopStep, Inbox!InboxNext
<1> QED
  BY <1>1, <1>2, CursorCorrect, PTL DEF Spec, InboxSafe, Inbox!InboxSafe

----------------------------------------------------------------------------
(* The userbot monitors listed channels only *)

LEMMA InHand ==
  ASSUME CursorInv, pc = "execute"
  PROVE  log[next] \in Commands
<1>1. /\ log \in Seq(Commands)
      /\ 1 <= kept /\ kept <= next /\ next <= last /\ last <= Len(log)
      /\ {kept, next, last} \subseteq Nat
  BY DEF CursorInv
<1>2. next \in 1..Len(log)
  BY <1>1
<1> QED
  BY <1>1, <1>2

LEMMA TypeStep ==
  ASSUME TypeOK, CursorInv', CursorInv, [Next]_vars
  PROVE  TypeOK'
<1> DEFINE Rest ==
      /\ ctxDone \in BOOLEAN
      /\ boot \in 0..MaxBoots
      /\ bot \in {"starting", "resolving", "ready"}
      /\ known \subseteq stores.channels
      /\ stores \in [channels : SUBSET Channels,
                     sigs : [Channels \cup {Default} -> Texts \cup {NoText}]]
      /\ refused \in BOOLEAN
<1>1. Rest
  BY DEF TypeOK
<1>2. Rest'
  <2>1. ASSUME NEW c \in Commands, Send(c)
        PROVE  Rest'
    BY <1>1, <2>1 DEF Send
  <2>2. CASE Ask \/ Answer \/ PollFails \/ Resume \/ TakeUpdate \/ Other \/ Reply
    BY <1>1, <2>2 DEF Ask, Answer, PollFails, Resume, TakeUpdate, Other, Reply
  <2>3. CASE AddChannel \/ RemoveChannel \/ Refuse \/ Sign
    <3>1. log[next] \in Commands
      <4>1. pc = "execute"
        BY <2>3 DEF AddChannel, RemoveChannel, Refuse, Sign, Executing
      <4> QED
        BY <4>1, InHand
    <3>2. UNCHANGED <<ctxDone, boot, bot>>
      BY <2>3 DEF AddChannel, RemoveChannel, Refuse, Sign, Executing
    <3>3. CASE AddChannel
      <4>1. /\ stores' = Effect(stores, log[next])
            /\ known' = known \cup {log[next].ch}
            /\ log[next].op = "add"
            /\ refused' = refused
        BY <3>3 DEF AddChannel, Executing
      <4>2. /\ stores' \in [channels : SUBSET Channels,
                            sigs : [Channels \cup {Default} -> Texts \cup {NoText}]]
            /\ stores'.channels = stores.channels \cup {log[next].ch}
        BY <1>1, <3>1, <4>1, EffectType
      <4>3. known' \subseteq stores'.channels
        BY <1>1, <4>1, <4>2
      <4> QED
        BY <1>1, <3>2, <4>1, <4>2, <4>3
    <3>4. CASE RemoveChannel
      <4>1. /\ stores' = Effect(stores, log[next])
            /\ known' = known \ {log[next].ch}
            /\ log[next].op = "remove"
            /\ refused' = refused
        BY <3>4 DEF RemoveChannel, Executing
      <4> QED
        BY <1>1, <3>1, <3>2, <4>1, EffectType
    <3>5. CASE Sign
      <4>1. /\ stores' = Effect(stores, log[next])
            /\ log[next].op \in {"sign", "signAll"}
            /\ UNCHANGED <<known, refused>>
        BY <3>5 DEF Sign, Executing
      <4> QED
        BY <1>1, <3>1, <3>2, <4>1, EffectType
    <3>6. CASE Refuse
      BY <1>1, <3>2, <3>6 DEF Refuse
    <3> QED
      BY <2>3, <3>3, <3>4, <3>5, <3>6
  <2>4. CASE Connected \/ Resolved
    BY <1>1, <2>4 DEF Connected, Resolved
  <2>5. CASE Cancel
    BY <1>1, <2>5 DEF Cancel
  <2>6. CASE ProcessEnds
    <3>1. UNCHANGED <<ctxDone, boot, bot, refused>> /\ known' = {}
      BY <2>6 DEF ProcessEnds
    <3>2. \/ stores' = stores
          \/ stores' = [stores EXCEPT !.channels = {}]
          \/ stores' = [stores EXCEPT !.sigs = AtFirst.sigs]
      BY <2>6 DEF ProcessEnds
    <3>3. AtFirst.sigs \in [Channels \cup {Default} -> Texts \cup {NoText}]
      BY DEF AtFirst
    <3> QED
      BY <1>1, <3>1, <3>2, <3>3
  <2>7. CASE Restart
    <3>1. boot' \in 0..MaxBoots
      BY <1>1, <2>7, LoopAssumption DEF Restart
    <3>2. /\ stores' = stores \/ stores' = [stores EXCEPT !.channels = Configured]
          /\ refused' = refused /\ known' = {} /\ bot' = "starting" /\ ctxDone' = FALSE
      BY <2>7 DEF Restart, ReadList
    <3> QED
      BY <1>1, <3>1, <3>2, LoopAssumption
  <2>8. CASE UNCHANGED vars
    BY <1>1, <2>8 DEF vars
  <2> QED
    BY <2>1, <2>2, <2>3, <2>4, <2>5, <2>6, <2>7, <2>8 DEF Next, LoopStep
<1> QED
  BY <1>2 DEF TypeOK, CursorInv

\* The variables keep their types; above all, the channels that the userbot has
\* resolved are always on the list that a restart would read.
THEOREM TypeCorrect == Spec => []TypeOK
<1>1. Init => TypeOK
  <2> SUFFICES ASSUME Init
               PROVE  TypeOK
    OBVIOUS
  <2>1. stores \in [channels : SUBSET Channels,
                    sigs : [Channels \cup {Default} -> Texts \cup {NoText}]]
    BY LoopAssumption DEF Init, AtFirst
  <2>2. CursorInv
    BY CursorInit
  <2>3. boot \in 0..MaxBoots
    BY LoopAssumption DEF Init
  <2> QED
    BY <2>1, <2>2, <2>3 DEF Init, TypeOK, CursorInv
<1>2. TypeOK /\ CursorInv /\ CursorInv' /\ [Next]_vars => TypeOK'
  BY TypeStep
<1> QED
  BY <1>1, <1>2, CursorCorrect, PTL DEF Spec

----------------------------------------------------------------------------
(* Repeating commands after a crash *)

\* The first update whose command this process has still to carry out, or the next
\* one if there is none; and how many of the updates the stores have seen.
Pos ==
    CASE pc = "down"  -> kept
      [] pc = "reply" -> next + 1
      [] OTHER        -> next
Reach == Larger(done, Pos - 1)

\* A command about k is to be carried out again, or was by a process that ended
\* before it replied, and will be again.
Pending(ops, k) == \E i \in Pos .. done + 1 : i <= Len(log) /\ Orders(i, ops, k)

\* What no command to come will set is as the commands so far left it, even if
\* some of them are being repeated; but a list with nothing in it is void when
\* there is no process.
ReplayInv ==
    ~refused /\ (\A i \in 1..Len(log) : log[i].op # "signAll") =>
        /\ \/ pc = "down" /\ stores.channels = {}
           \/ \A c \in Channels : \/ Pending({"add", "remove"}, c)
                                  \/ c \in stores.channels <=> Listed(listFrom, Reach, c)
        /\ \A k \in Channels \cup {Default} :
              Pending({"sign"}, k) \/ Holds(sigsFrom, Reach, k)

\* Updates that are no orders do not change what the last order is.
LEMMA SkipOrders ==
  ASSUME NEW b \in Nat, NEW m \in Nat, NEW n \in Nat, m <= n, NEW ops, NEW k,
         \A i \in m + 1 .. n : ~Orders(i, ops, k)
  PROVE  /\ \A i \in b..m : LastOrder(i, m, ops, k) <=> LastOrder(i, n, ops, k)
         /\ \A i \in b..n : LastOrder(i, n, ops, k) => i \in b..m
         /\ NoOrder(b, m, ops, k) <=> NoOrder(b, n, ops, k)
<1>1. \A i \in b..n : i \in b..m \/ i \in m + 1 .. n
  OBVIOUS
<1>2. b..m \subseteq b..n
  OBVIOUS
<1>3. ASSUME NEW i \in b..m
      PROVE  LastOrder(i, m, ops, k) <=> LastOrder(i, n, ops, k)
  <2>1. \A j \in i + 1 .. n : j \in i + 1 .. m \/ j \in m + 1 .. n
    OBVIOUS
  <2>2. i + 1 .. m \subseteq i + 1 .. n
    OBVIOUS
  <2> QED
    BY <2>1, <2>2 DEF LastOrder
<1> QED
  BY <1>1, <1>2, <1>3 DEF LastOrder, NoOrder

LEMMA SkipListed ==
  ASSUME NEW b \in Nat, NEW m \in Nat, NEW n \in Nat, m <= n, NEW c,
         \A i \in m + 1 .. n : ~Orders(i, {"add", "remove"}, c)
  PROVE  Listed(b, m, c) <=> Listed(b, n, c)
<1>1. b..m \subseteq b..n
  OBVIOUS
<1> QED
  BY <1>1, SkipOrders DEF Listed

LEMMA SkipHolds ==
  ASSUME NEW b \in Nat, NEW m \in Nat, NEW n \in Nat, m <= n, NEW k,
         \A i \in m + 1 .. n : ~Orders(i, {"sign"}, k)
  PROVE  Holds(b, m, k) <=> Holds(b, n, k)
<1>1. b..m \subseteq b..n
  OBVIOUS
<1> QED
  BY <1>1, SkipOrders DEF Holds

\* An order that none follows is the last one.
LEMMA LatestOrder ==
  ASSUME NEW b \in Nat, NEW n \in Nat, NEW m \in b..n, NEW ops, NEW k,
         Orders(m, ops, k), \A i \in m + 1 .. n : ~Orders(i, ops, k)
  PROVE  /\ LastOrder(m, n, ops, k)
         /\ \A i \in b..n : LastOrder(i, n, ops, k) => i = m
         /\ ~NoOrder(b, n, ops, k)
<1>1. \A i \in b..n : i = m \/ i \in m + 1 .. n \/ m \in i + 1 .. n
  OBVIOUS
<1> QED
  BY <1>1 DEF LastOrder, NoOrder

LEMMA LatestListed ==
  ASSUME NEW b \in Nat, NEW n \in Nat, NEW m \in b..n, NEW c,
         Orders(m, {"add", "remove"}, c),
         \A i \in m + 1 .. n : ~Orders(i, {"add", "remove"}, c)
  PROVE  Listed(b, n, c) <=> log[m].op = "add"
BY LatestOrder DEF Listed

\* What has been sent stays as it is.
LEMMA SendKeeps ==
  ASSUME CursorInv, NEW u \in Commands, Send(u)
  PROVE  \A i \in 1..Len(log) : log'[i] = log[i]
BY DEF CursorInv, Send

LEMMA PosFacts ==
  ASSUME CursorInv
  PROVE  /\ {Pos, Reach, next, done, last, Len(log)} \subseteq Nat
         /\ 1 <= Pos /\ Pos <= done + 2
         /\ Reach <= Len(log)
         /\ Reach = IF Pos = done + 2 THEN done + 1 ELSE done
         /\ {listFrom, sigsFrom} \subseteq 1..kept /\ kept \in Nat /\ kept <= next
         /\ next <= done + 1 /\ done <= Len(log)
         /\ pc = "execute" => Pos = next /\ next \in 1..Len(log)
         /\ pc = "reply" => Pos = next + 1
<1>1. /\ log \in Seq(Commands) /\ Len(log) \in Nat
      /\ {kept, next, last, done} \subseteq Nat /\ 1 <= kept /\ kept <= next
      /\ next <= done + 1 /\ done <= Len(log)
      /\ {listFrom, sigsFrom} \subseteq 1..kept
      /\ pc \in {"execute", "reply"} => next <= last /\ last <= Len(log)
  BY DEF CursorInv
<1>2. Pos \in Nat /\ 1 <= Pos /\ Pos <= done + 2 /\ (Pos = done + 2 => done + 1 <= Len(log))
  BY <1>1 DEF Pos
<1>3. Reach = IF Pos = done + 2 THEN done + 1 ELSE done
  BY <1>1, <1>2 DEF Reach, Larger
<1> QED
  BY <1>1, <1>2, <1>3 DEF Pos

\* As long as nothing is sent, orders stay what they are.
LEMMA SameLog ==
  ASSUME log' = log
  PROVE  /\ \A ops, k : Pending(ops, k)' <=>
               \E i \in Pos' .. done' + 1 : i <= Len(log) /\ Orders(i, ops, k)
         /\ \A c : Listed(listFrom, Reach, c)' <=> Listed(listFrom', Reach', c)
         /\ \A k : stores'.sigs[k] = stores.sigs[k] =>
               (Holds(sigsFrom, Reach, k)' <=> Holds(sigsFrom', Reach', k))
<1>1. \A ops, k : Pending(ops, k)' <=>
         \E i \in Pos' .. done' + 1 : i <= Len(log) /\ Orders(i, ops, k)
  BY DEF Pending, Orders
<1>2. \A c : Listed(listFrom, Reach, c)' <=> Listed(listFrom', Reach', c)
  BY DEF Listed, LastOrder, NoOrder, Orders
<1>3. \A k : stores'.sigs[k] = stores.sigs[k] =>
         (Holds(sigsFrom, Reach, k)' <=> Holds(sigsFrom', Reach', k))
  BY DEF Holds, LastOrder, NoOrder, Orders
<1> QED
  BY <1>1, <1>2, <1>3

\* A step that carries out no order about k changes nothing about which orders
\* are to come and which was the last, also if it goes back.
LEMMA KeyKept ==
  ASSUME CursorInv, CursorInv', log' = log, done <= done', NEW ops, NEW k,
         \A i \in Pos .. Pos' - 1 : ~Orders(i, ops, k), ~Pending(ops, k)'
  PROVE  /\ ~Pending(ops, k)
         /\ {Reach, Reach'} \subseteq Nat
         /\ \A i \in Reach + 1 .. Reach' : ~Orders(i, ops, k)
         /\ \A i \in Reach' + 1 .. Reach : ~Orders(i, ops, k)
<1>1. /\ {Pos, Reach, done, Len(log)} \subseteq Nat
      /\ 1 <= Pos /\ Pos <= done + 2 /\ Reach <= Len(log)
      /\ Reach = IF Pos = done + 2 THEN done + 1 ELSE done
  BY PosFacts
<1>2. /\ {Pos', Reach', done'} \subseteq Nat
      /\ 1 <= Pos' /\ Pos' <= done' + 2 /\ Reach' <= Len(log)
      /\ Reach' = IF Pos' = done' + 2 THEN done' + 1 ELSE done'
  <2>1. (/\ {Pos, Reach, next, done, last, Len(log)} \subseteq Nat
         /\ 1 <= Pos /\ Pos <= done + 2
         /\ Reach <= Len(log)
         /\ Reach = IF Pos = done + 2 THEN done + 1 ELSE done)'
    BY PosFacts, PTL
  <2> QED
    BY <2>1
<1>3. \A i \in Pos' .. done' + 1 : i <= Len(log) => ~Orders(i, ops, k)
  BY SameLog
<1> DEFINE p == Pos
           q == Pos'
           r == Reach
           t == Reach'
           d == done
           e == done'
           l == Len(log)
<1>4. /\ p \in Nat /\ q \in Nat /\ d \in Nat /\ e \in Nat
      /\ r \in Nat /\ t \in Nat /\ l \in Nat
      /\ d <= e /\ r <= l /\ t <= l /\ p <= d + 2 /\ q <= e + 2
      /\ r = IF p = d + 2 THEN d + 1 ELSE d
      /\ t = IF q = e + 2 THEN e + 1 ELSE e
  BY <1>1, <1>2
<1> HIDE DEF p, q, r, t, d, e, l
<1>5. /\ \A i \in p .. d + 1 : i \in p .. q - 1 \/ i \in q .. e + 1
      /\ \A i \in r + 1 .. t : i <= l /\ (i \in p .. q - 1 \/ i \in q .. e + 1)
      /\ \A i \in t + 1 .. r : i <= l /\ i \in q .. e + 1
  BY <1>4
<1>6. ~Pending(ops, k)
  BY <1>3, <1>5 DEF Pending, p, q, d, e, l
<1>7. /\ \A i \in Reach + 1 .. Reach' : ~Orders(i, ops, k)
      /\ \A i \in Reach' + 1 .. Reach : ~Orders(i, ops, k)
  BY <1>3, <1>5 DEF p, q, r, t, e, l
<1> QED
  BY <1>1, <1>2, <1>6, <1>7

LEMMA ListedKept ==
  ASSUME CursorInv, CursorInv', UNCHANGED <<log, listFrom>>, done <= done', NEW c,
         \A i \in Pos .. Pos' - 1 : ~Orders(i, {"add", "remove"}, c),
         c \in stores'.channels <=> c \in stores.channels,
         \/ Pending({"add", "remove"}, c)
         \/ c \in stores.channels <=> Listed(listFrom, Reach, c)
  PROVE  (\/ Pending({"add", "remove"}, c)
          \/ c \in stores.channels <=> Listed(listFrom, Reach, c))'
<1> DEFINE L == {"add", "remove"}
<1> SUFFICES ASSUME ~Pending(L, c)'
             PROVE  c \in stores'.channels <=> Listed(listFrom, Reach, c)'
  OBVIOUS
<1>1. /\ ~Pending(L, c)
      /\ {Reach, Reach'} \subseteq Nat
      /\ \A i \in Reach + 1 .. Reach' : ~Orders(i, L, c)
      /\ \A i \in Reach' + 1 .. Reach : ~Orders(i, L, c)
  BY KeyKept
<1>2. Listed(listFrom, Reach, c) <=> Listed(listFrom, Reach', c)
  <2>1. Reach <= Reach' \/ Reach' <= Reach
    BY <1>1
  <2>2. listFrom \in Nat
    BY DEF CursorInv
  <2> QED
    BY <1>1, <2>1, <2>2, SkipListed
<1> QED
  BY <1>1, <1>2, SameLog

LEMMA HoldsKept ==
  ASSUME CursorInv, CursorInv', UNCHANGED <<log, sigsFrom>>, done <= done', NEW k,
         \A i \in Pos .. Pos' - 1 : ~Orders(i, {"sign"}, k),
         stores'.sigs[k] = stores.sigs[k],
         Pending({"sign"}, k) \/ Holds(sigsFrom, Reach, k)
  PROVE  (Pending({"sign"}, k) \/ Holds(sigsFrom, Reach, k))'
<1> SUFFICES ASSUME ~Pending({"sign"}, k)'
             PROVE  Holds(sigsFrom, Reach, k)'
  OBVIOUS
<1>1. /\ ~Pending({"sign"}, k)
      /\ {Reach, Reach'} \subseteq Nat
      /\ \A i \in Reach + 1 .. Reach' : ~Orders(i, {"sign"}, k)
      /\ \A i \in Reach' + 1 .. Reach : ~Orders(i, {"sign"}, k)
  BY KeyKept
<1>2. Holds(sigsFrom, Reach, k) <=> Holds(sigsFrom, Reach', k)
  <2>1. Reach <= Reach' \/ Reach' <= Reach
    BY <1>1
  <2>2. sigsFrom \in Nat
    BY DEF CursorInv
  <2> QED
    BY <1>1, <2>1, <2>2, SkipHolds
<1> QED
  BY <1>1, <1>2, SameLog

\* A store that is set back when Telegram has forgotten all before kept, and that
\* is to have the orders since again.
LEMMA NothingSince ==
  ASSUME CursorInv, CursorInv', UNCHANGED <<log, kept, done>>, Pos' = kept,
         NEW ops, NEW k, ~Pending(ops, k)'
  PROVE  NoOrder(kept, Reach, ops, k)'
<1>1. /\ {kept, next, done, Len(log)} \subseteq Nat /\ kept <= next
      /\ next <= done + 1 /\ done <= Len(log)
  BY PosFacts
<1>2. Reach' = done
  BY <1>1 DEF Reach, Larger
<1>3. \A i \in kept .. done + 1 : i <= Len(log) => ~Orders(i, ops, k)
  BY SameLog
<1>4. \A i \in kept .. done : i \in kept .. done + 1 /\ i <= Len(log)
  BY <1>1
<1>5. \A i \in kept .. done : ~Orders(i, ops, k)'
  BY <1>3, <1>4 DEF Orders
<1> QED
  BY <1>2, <1>5 DEF NoOrder

\* Once an order about k is carried out and no other is to come, it is the last.
LEMMA KeyOrdered ==
  ASSUME CursorInv, CursorInv', UNCHANGED <<log, next, done>>, pc = "execute",
         pc' = "reply", NEW ops, NEW k, Orders(next, ops, k), ~Pending(ops, k)',
         NEW b \in 1..kept
  PROVE  /\ b \in Nat /\ Reach' \in Nat /\ next \in b..Reach'
         /\ \A i \in next + 1 .. Reach' : ~Orders(i, ops, k)
<1>1. /\ next \in 1..Len(log) /\ {done, next, Len(log)} \subseteq Nat /\ next <= done + 1
      /\ b \in Nat /\ b <= next
  BY PosFacts
<1>2. Pos' = next + 1 /\ Reach' = Larger(done, next)
  BY <1>1 DEF Pos, Reach
<1>3. \A i \in next + 1 .. done + 1 : i <= Len(log) => ~Orders(i, ops, k)
  BY <1>2, SameLog
<1>4. done <= Len(log)
  BY DEF CursorInv
<1> QED
  BY <1>1, <1>2, <1>3, <1>4 DEF Larger


\* A step that carries nothing out and goes on at the same update or goes back.
LEMMA RetreatStep ==
  ASSUME CursorInv, CursorInv', ReplayInv, log' = log, done <= done',
         UNCHANGED <<stores, refused, bases>>, Pos' <= Pos,
         stores.channels = {} => (pc = "down" => pc' = "down")
  PROVE  ReplayInv'
<1>1. {Pos, Pos', done, done'} \subseteq Nat
  BY DEF Pos, CursorInv
<1>2. \A i \in Pos .. Pos' - 1 : FALSE
  BY <1>1
<1> QED
  BY <1>2, ListedKept, HoldsKept DEF ReplayInv

\* A command is carried out.
LEMMA ExecuteStep ==
  ASSUME TypeOK, CursorInv, CursorInv', ReplayInv,
         AddChannel \/ RemoveChannel \/ Refuse \/ Sign \/ Other
  PROVE  ReplayInv'
<1> DEFINE u == log[next]
           L == {"add", "remove"}
<1>1. /\ pc = "execute" /\ pc' = "reply" /\ UNCHANGED <<log, next, done, listFrom, sigsFrom>>
  BY CommandStep
<1> SUFFICES ASSUME ~refused', \A i \in 1..Len(log) : log[i].op # "signAll"
             PROVE  /\ \A c \in Channels :
                          (\/ Pending(L, c)
                           \/ c \in stores.channels <=> Listed(listFrom, Reach, c))'
                    /\ \A k \in Channels \cup {Default} :
                          (Pending({"sign"}, k) \/ Holds(sigsFrom, Reach, k))'
  BY <1>1 DEF ReplayInv
<1>2. /\ next \in 1..Len(log) /\ u \in Commands /\ done \in Nat /\ next \in Nat
      /\ u.op \in Ops /\ u.op # "signAll" /\ u.ch \in Channels
  <2>1. next \in Nat /\ done \in Nat /\ next \in 1..Len(log)
    BY <1>1, PosFacts
  <2>2. u \in Commands
    BY <1>1, InHand
  <2>3. u.op \in Ops /\ u.ch \in Channels
    BY <2>2, LoopAssumption
  <2> QED
    BY <2>1, <2>2, <2>3
<1>3. ~Refuse /\ refused' = refused
  BY DEF AddChannel, RemoveChannel, Refuse, Sign, Other, TypeOK
<1>4. /\ \A c \in Channels : \/ Pending(L, c)
                             \/ c \in stores.channels <=> Listed(listFrom, Reach, c)
      /\ \A k \in Channels \cup {Default} : Pending({"sign"}, k) \/ Holds(sigsFrom, Reach, k)
  BY <1>1, <1>3 DEF ReplayInv
<1>5. \A i \in Pos .. Pos' - 1 : i = next
  BY <1>1, <1>2 DEF Pos
<1>6. /\ \A c \in Channels :
            \/ Orders(next, L, c) /\ (c \in stores'.channels <=> u.op = "add")
            \/ ~Orders(next, L, c) /\ (c \in stores'.channels <=> c \in stores.channels)
      /\ \A k \in Channels \cup {Default} :
            \/ Orders(next, {"sign"}, k) /\ stores'.sigs[k] = u.text
            \/ ~Orders(next, {"sign"}, k) /\ stores'.sigs[k] = stores.sigs[k]
  <2>1. CASE Other
    <3>1. stores' = stores /\ (u.op = "other" \/ ~IsAdmin(u.from))
      BY <2>1 DEF Other
    <3> QED
      BY <3>1 DEF Orders, IsAdmin
  <2>2. CASE AddChannel \/ RemoveChannel \/ Sign
    <3>1. stores' = Effect(stores, u) /\ IsAdmin(u.from) /\ u.op \in {"add", "remove", "sign"}
      BY <1>2, <2>2 DEF AddChannel, RemoveChannel, Sign, Executing
    <3> HIDE DEF u
    <3>2. CASE u.op = "add"
      <4>1. stores' = WithChannel(stores, u.ch)
        BY <3>1, <3>2 DEF Effect
      <4>2. stores'.channels = stores.channels \cup {u.ch} /\ stores'.sigs = stores.sigs
        BY <4>1 DEF WithChannel, TypeOK
      <4> QED
        BY <3>1, <3>2, <4>2 DEF Orders, IsAdmin, u
    <3>3. CASE u.op = "remove"
      <4>1. stores' = WithoutChannel(stores, u.ch)
        BY <3>1, <3>3 DEF Effect
      <4>2. stores'.channels = stores.channels \ {u.ch} /\ stores'.sigs = stores.sigs
        BY <4>1 DEF WithoutChannel, TypeOK
      <4> QED
        BY <3>1, <3>3, <4>2 DEF Orders, IsAdmin, u
    <3>4. CASE u.op = "sign"
      <4>1. stores' = Signed(stores, {u.ch}, u.text)
        BY <3>1, <3>4 DEF Effect
      <4>2. /\ stores'.channels = stores.channels
            /\ \A k \in Channels \cup {Default} :
                  stores'.sigs[k] = IF k = u.ch THEN u.text ELSE stores.sigs[k]
        BY <4>1 DEF Signed, TypeOK
      <4> QED
        BY <3>1, <3>4, <4>2 DEF Orders, IsAdmin, u
    <3> QED
      BY <3>1, <3>2, <3>3, <3>4
  <2> QED
    BY <1>3, <2>1, <2>2
<1> HIDE DEF u
<1>7. ASSUME NEW c \in Channels
      PROVE  (\/ Pending(L, c)
              \/ c \in stores.channels <=> Listed(listFrom, Reach, c))'
  <2>1. CASE Orders(next, L, c)
    <3> SUFFICES ASSUME ~Pending(L, c)'
                 PROVE  c \in stores'.channels <=> Listed(listFrom, Reach, c)'
      OBVIOUS
    <3>1. /\ listFrom \in Nat /\ Reach' \in Nat /\ next \in listFrom .. Reach'
          /\ \A i \in next + 1 .. Reach' : ~Orders(i, L, c)
      BY <1>1, <2>1, KeyOrdered, PosFacts
    <3>2. Listed(listFrom, Reach', c) <=> u.op = "add"
      BY <2>1, <3>1, LatestListed DEF u
    <3> QED
      BY <1>1, <1>6, <2>1, <3>2, SameLog
  <2>2. CASE ~Orders(next, L, c)
    <3>1. \A i \in Pos .. Pos' - 1 : ~Orders(i, L, c)
      BY <1>5, <2>2
    <3>2. c \in stores'.channels <=> c \in stores.channels
      BY <1>6, <2>2
    <3>3. done <= done'
      BY <1>1, <1>2
    <3> QED
      BY <1>1, <1>4, <3>1, <3>2, <3>3, ListedKept
  <2> QED
    BY <2>1, <2>2
<1>8. ASSUME NEW k \in Channels \cup {Default}
      PROVE  (Pending({"sign"}, k) \/ Holds(sigsFrom, Reach, k))'
  <2>1. CASE Orders(next, {"sign"}, k)
    <3> SUFFICES ASSUME ~Pending({"sign"}, k)'
                 PROVE  Holds(sigsFrom, Reach, k)'
      OBVIOUS
    <3>1. /\ sigsFrom \in Nat /\ Reach' \in Nat /\ next \in sigsFrom .. Reach'
          /\ \A i \in next + 1 .. Reach' : ~Orders(i, {"sign"}, k)
      BY <1>1, <2>1, KeyOrdered, PosFacts
    <3>2. LastOrder(next, Reach', {"sign"}, k)
      BY <2>1, <3>1, LatestOrder
    <3>3. stores'.sigs[k] = log[next].text
      BY <1>6, <2>1 DEF u
    <3> QED
      BY <1>1, <3>1, <3>2, <3>3 DEF Holds, LastOrder, Orders
  <2>2. CASE ~Orders(next, {"sign"}, k)
    <3>1. \A i \in Pos .. Pos' - 1 : ~Orders(i, {"sign"}, k)
      BY <1>5, <2>2
    <3>2. stores'.sigs[k] = stores.sigs[k]
      BY <1>6, <2>2
    <3>3. done <= done'
      BY <1>1, <1>2
    <3> QED
      BY <1>1, <1>4, <3>1, <3>2, <3>3, HoldsKept
  <2> QED
    BY <2>1, <2>2
<1> QED
  BY <1>7, <1>8

\* A new command may be an order to come, and changes nothing else.
LEMMA SendReplay ==
  ASSUME CursorInv, ReplayInv, NEW u \in Commands, Send(u)
  PROVE  ReplayInv'
<1>1. /\ UNCHANGED <<pc, kept, next, done, stores, refused, listFrom, sigsFrom>>
      /\ Len(log') = Len(log) + 1 /\ Len(log) \in Nat
      /\ \A i \in 1..Len(log) : log'[i] = log[i]
  BY SendStep, SendKeeps DEF Send
<1>2. Pos' = Pos /\ Reach' = Reach
  BY <1>1 DEF Pos, Reach
<1>3. /\ Reach \in Nat /\ Reach <= Len(log) /\ Pos \in Nat /\ 1 <= Pos
      /\ {listFrom, sigsFrom} \subseteq Nat /\ 1 <= listFrom /\ 1 <= sigsFrom
  BY PosFacts
<1>4. \A ops, k : \A i \in 1..Len(log) : Orders(i, ops, k)' <=> Orders(i, ops, k)
  BY <1>1 DEF Orders
<1>5. \A i \in 1..Reach : i \in 1..Len(log) /\ \A j \in i + 1 .. Reach : j \in 1..Len(log)
  BY <1>3
<1>6. \A ops, k : Pending(ops, k) => Pending(ops, k)'
  <2> TAKE ops, k
  <2> HAVE Pending(ops, k)
  <2>1. PICK i \in Pos .. done + 1 : i <= Len(log) /\ Orders(i, ops, k)
    BY DEF Pending
  <2>2. i \in 1..Len(log) /\ i <= Len(log')
    BY <1>1, <1>3, <2>1
  <2>3. Orders(i, ops, k)'
    BY <1>4, <2>1, <2>2
  <2> QED
    BY <1>1, <1>2, <2>1, <2>2, <2>3 DEF Pending
<1>7. \A ops, k : \A i \in 1..Reach : LastOrder(i, Reach, ops, k)' <=> LastOrder(i, Reach, ops, k)
  BY <1>2, <1>4, <1>5 DEF LastOrder
<1>8. /\ \A ops, k : NoOrder(listFrom, Reach, ops, k)' <=> NoOrder(listFrom, Reach, ops, k)
      /\ \A ops, k : NoOrder(sigsFrom, Reach, ops, k)' <=> NoOrder(sigsFrom, Reach, ops, k)
  <2>1. /\ \A i \in listFrom .. Reach : i \in 1..Len(log)
        /\ \A i \in sigsFrom .. Reach : i \in 1..Len(log)
    BY <1>3
  <2> QED
    BY <1>1, <1>2, <1>4, <2>1 DEF NoOrder
<1>9. \A c : Listed(listFrom, Reach, c)' <=> Listed(listFrom, Reach, c)
  <2>1. \A i \in listFrom .. Reach : i \in 1..Reach /\ i \in 1..Len(log)
    BY <1>3
  <2> QED
    BY <1>1, <1>2, <1>7, <1>8, <2>1 DEF Listed
<1>10. \A k : Holds(sigsFrom, Reach, k)' <=> Holds(sigsFrom, Reach, k)
  <2>1. \A i \in sigsFrom .. Reach : i \in 1..Reach /\ i \in 1..Len(log)
    BY <1>3
  <2> QED
    BY <1>1, <1>2, <1>7, <1>8, <2>1 DEF Holds
<1>11. (\A i \in 1..Len(log') : log'[i].op # "signAll")
         => \A i \in 1..Len(log) : log[i].op # "signAll"
  <2>1. \A i \in 1..Len(log) : i \in 1..Len(log')
    BY <1>1
  <2> QED
    BY <1>1, <2>1
<1> QED
  BY <1>1, <1>6, <1>9, <1>10, <1>11 DEF ReplayInv

\* The process dies: a file that it was saving reads as empty, and what is not
\* forgotten is to come again.
LEMMA EndStep ==
  ASSUME TypeOK, CursorInv, CursorInv', ReplayInv, ProcessEnds
  PROVE  ReplayInv'
<1>1. /\ pc # "down" /\ pc' = "down"
      /\ UNCHANGED <<log, kept, next, done, refused, listFrom>>
  BY DEF ProcessEnds
<1>2. Pos' <= Pos /\ done <= done' /\ Pos' = kept /\ kept \in Nat /\ Pos \in Nat /\ done \in Nat
  BY <1>1 DEF Pos, CursorInv
<1>3. \A i \in Pos .. Pos' - 1 : FALSE
  BY <1>2
<1>4. CASE UNCHANGED <<stores, sigsFrom>>
  BY <1>1, <1>2, <1>4, RetreatStep
<1>5. CASE stores' = [stores EXCEPT !.channels = {}] /\ UNCHANGED sigsFrom
  <2>1. stores'.channels = {} /\ stores'.sigs = stores.sigs
    BY <1>5 DEF TypeOK
  <2> QED
    BY <1>1, <1>2, <1>3, <1>5, <2>1, HoldsKept DEF ReplayInv
<1>6. CASE stores' = [stores EXCEPT !.sigs = AtFirst.sigs] /\ sigsFrom' = kept
  <2>1. /\ stores'.channels = stores.channels
        /\ \A k \in Channels \cup {Default} : stores'.sigs[k] = NoText
    BY <1>6 DEF TypeOK, AtFirst
  <2>2. ASSUME NEW k \in Channels \cup {Default}
        PROVE  (Pending({"sign"}, k) \/ Holds(sigsFrom, Reach, k))'
    <3> SUFFICES ASSUME ~Pending({"sign"}, k)'
                 PROVE  Holds(sigsFrom, Reach, k)'
      OBVIOUS
    <3>1. NoOrder(kept, Reach, {"sign"}, k)'
      BY <1>1, <1>2, NothingSince
    <3> QED
      BY <1>1, <1>6, <2>1, <3>1 DEF Holds
  <2> QED
    BY <1>1, <1>2, <1>3, <2>1, <2>2, ListedKept DEF ReplayInv
<1> QED
  BY <1>4, <1>5, <1>6 DEF ProcessEnds

LEMMA RestartStep ==
  ASSUME TypeOK, CursorInv, CursorInv', ReplayInv, Restart
  PROVE  ReplayInv'
<1>1. /\ pc = "down" /\ pc' = "poll" /\ next' = kept
      /\ UNCHANGED <<log, kept, done, refused, sigsFrom>>
  BY DEF Restart
<1>2. Pos' = kept /\ Pos = kept /\ kept \in Nat /\ done \in Nat
  BY <1>1 DEF Pos, CursorInv
<1>3. CASE stores.channels # {}
  BY <1>1, <1>2, <1>3, RetreatStep DEF Restart, ReadList
<1>4. CASE stores.channels = {}
  <2>1. stores' = [stores EXCEPT !.channels = Configured] /\ listFrom' = kept
    BY <1>4 DEF Restart, ReadList
  <2>2. stores'.channels = Configured /\ stores'.sigs = stores.sigs
    BY <2>1 DEF TypeOK
  <2>3. \A i \in Pos .. Pos' - 1 : FALSE
    BY <1>2
  <2>4. ASSUME NEW c \in Channels
        PROVE  (\/ Pending({"add", "remove"}, c)
                \/ c \in stores.channels <=> Listed(listFrom, Reach, c))'
    <3> SUFFICES ASSUME ~Pending({"add", "remove"}, c)'
                 PROVE  (c \in stores.channels <=> Listed(listFrom, Reach, c))'
      OBVIOUS
    <3>1. NoOrder(kept, Reach, {"add", "remove"}, c)'
      BY <1>1, <1>2, NothingSince
    <3>2. ~\E i \in kept .. Reach' : LastOrder(i, Reach, {"add", "remove"}, c)'
      BY <1>1, <3>1 DEF LastOrder, NoOrder
    <3> QED
      BY <1>1, <2>1, <2>2, <3>1, <3>2 DEF Listed
  <2> QED
    BY <1>1, <1>2, <2>1, <2>2, <2>3, <2>4, HoldsKept DEF ReplayInv
<1> QED
  BY <1>3, <1>4

LEMMA ReplayStep ==
  ASSUME TypeOK, CursorInv, CursorInv', ReplayInv, [Next]_vars
  PROVE  ReplayInv'
<1>0. {kept, next, done} \subseteq Nat /\ kept <= next
  BY DEF CursorInv
<1>1. ASSUME NEW u \in Commands, Send(u)
      PROVE  ReplayInv'
  BY <1>1, SendReplay
<1>2. CASE AddChannel \/ RemoveChannel \/ Refuse \/ Sign \/ Other
  BY <1>2, ExecuteStep
<1>3. CASE Ask \/ PollFails \/ Resume \/ TakeUpdate
  <2>1. /\ UNCHANGED <<log, stores, done, refused, bases, next>>
        /\ pc \notin {"down", "reply"} /\ pc' \notin {"down", "reply"}
    BY <1>3 DEF Ask, PollFails, Resume, TakeUpdate
  <2>2. Pos' <= Pos /\ done <= done'
    BY <1>0, <2>1 DEF Pos
  <2> QED
    BY <2>1, <2>2, RetreatStep
<1>4. CASE Answer
  <2>1. /\ UNCHANGED <<log, stores, done, refused, bases>> /\ next' = kept
        /\ pc = "asked" /\ pc' \notin {"down", "reply"}
    BY <1>4 DEF Answer
  <2>2. Pos' <= Pos /\ done <= done'
    BY <1>0, <2>1 DEF Pos
  <2> QED
    BY <2>1, <2>2, RetreatStep
<1>5. CASE Reply
  <2>1. /\ UNCHANGED <<log, stores, refused, bases>> /\ next' = next + 1
        /\ pc = "reply" /\ pc' \notin {"down", "reply"} /\ done' = Larger(done, next)
    BY <1>5 DEF Reply
  <2>2. Pos' <= Pos /\ done <= done'
    BY <1>0, <2>1 DEF Pos, Larger
  <2> QED
    BY <2>1, <2>2, RetreatStep
<1>6. CASE Connected \/ Resolved \/ Cancel \/ UNCHANGED vars
  <2>1. UNCHANGED <<log, kept, stores, done, refused, bases, next, pc>>
    BY <1>6 DEF Connected, Resolved, Cancel, vars
  <2>2. Pos' <= Pos /\ done <= done'
    BY <1>0, <2>1 DEF Pos
  <2> QED
    BY <2>1, <2>2, RetreatStep
<1>7. CASE ProcessEnds
  BY <1>7, EndStep
<1>8. CASE Restart
  BY <1>8, RestartStep
<1> QED
  BY <1>1, <1>2, <1>3, <1>4, <1>5, <1>6, <1>7, <1>8 DEF Next, LoopStep

\* Commands that a restart hands out again leave the list and the signatures as
\* if each command had been handled once (handler.go, Start and
\* handleMessage): the last order about a channel or a key decides, however often
\* it and those before it are repeated.  Of what was confirmed before a crash the
\* stores lose nothing, but for an empty or torn list (initChannels) and torn
\* signatures, which start again from the configuration and lose no later order.
THEOREM ReplayCorrect == Spec => []ReplayConverges
<1>1. Init => ReplayInv
  <2> SUFFICES ASSUME Init
               PROVE  ReplayInv
    OBVIOUS
  <2>1. Pos = 1 /\ Reach = 0 /\ listFrom = 1 /\ sigsFrom = 1
    BY DEF Init, Pos, Reach, Larger
  <2>2. stores = AtFirst /\ \A i \in 1..0 : FALSE
    BY DEF Init
  <2>3. \A c \in Channels : c \in stores.channels <=> Listed(1, 0, c)
    BY <2>2 DEF Listed, NoOrder, AtFirst
  <2>4. \A k \in Channels \cup {Default} : Holds(1, 0, k)
    BY <2>2 DEF Holds, NoOrder, AtFirst
  <2> QED
    BY <2>1, <2>3, <2>4 DEF ReplayInv
<1>2. TypeOK /\ CursorInv /\ CursorInv' /\ ReplayInv /\ [Next]_vars => ReplayInv'
  BY ReplayStep
<1>3. TypeOK /\ CursorInv /\ ReplayInv => ReplayConverges
  <2> SUFFICES ASSUME TypeOK, CursorInv, ReplayInv, pc # "down", next = Len(log) + 1,
                      next = done + 1, ~refused, \A i \in 1..Len(log) : log[i].op # "signAll"
               PROVE  /\ stores.channels = {c \in Channels : Listed(listFrom, Len(log), c)}
                      /\ \A k \in Channels \cup {Default} : Holds(sigsFrom, Len(log), k)
    BY DEF ReplayConverges
  <2>1. Len(log) \in Nat /\ done \in Nat /\ pc # "reply"
    BY DEF CursorInv
  <2>2. Pos = done + 1 /\ Reach = Len(log)
    BY <2>1 DEF Pos, Reach, Larger
  <2>3. \A ops, k : ~Pending(ops, k)
    BY <2>1, <2>2 DEF Pending
  <2> QED
    BY <2>2, <2>3 DEF ReplayInv, TypeOK
<1> QED
  BY <1>1, <1>2, <1>3, TypeCorrect, CursorCorrect, PTL DEF Spec
==============================================================================
