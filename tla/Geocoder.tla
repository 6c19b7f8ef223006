------------------------------- MODULE Geocoder -------------------------------
(***************************************************************************)
(* internal/geomap/geocoder.go with internal/command/handler.go's handleMap *)
(* as its caller: places are looked up by the parser (LocationParser), then *)
(* in the built-in dictionary, then in a cache, and then at Nominatim, not  *)
(* more often than its policy allows.                                       *)
(*                                                                         *)
(* The geocoder is made for concurrent calls (a mutex, a sync.Map); the     *)
(* program itself calls it from the command goroutine only, which is one    *)
(* caller here.  Texts with the same normalized form share a key, and the   *)
(* same phrases of the parser are in all of them: normalizing only cuts off *)
(* what no phrase begins or ends with.  Time passes in ticks, and nothing   *)
(* happens at its earliest moment.  Drawing the map and sending it are left *)
(* out.                                                                     *)
(***************************************************************************)
EXTENDS Integers, FiniteSets, LocationParser

CONSTANTS
    Callers,
    Nobody,         \* no caller
    Keys,           \* normalized queries; the empty one is Blank
    Blank,
    Holds,          \* the phrases in each key
    Dictionary,     \* keys of StaticKyivLocations, with or without a prefix
    Places,         \* places in or near Ukraine
    Abroad,         \* a place outside the bounds
    NotFound,
    Unknown,        \* nothing in the cache
    Error,
    Gap,            \* minReqGap, in ticks
    Limit           \* the deadline of a call, in ticks

ASSUME GeocoderAssumption ==
    /\ IsFiniteSet(Callers) /\ Callers # {} /\ Nobody \notin Callers
    /\ Dictionary \subseteq Keys /\ Blank \notin Keys
    /\ Holds \in [Keys \cup {Blank} -> SUBSET Phrases] /\ Holds[Blank] = {}
    /\ {NotFound, Unknown, Error, Abroad} \cap Places = {}
    /\ NotFound # Unknown /\ Error \notin {NotFound, Unknown}
    /\ Gap \in Nat \ {0}
    /\ Limit \in Nat \ {0}

VARIABLES
    pc,         \* per caller: "idle" | "lock" | "wait" (holding rateMu) | "sent"
    key,        \* per caller: the key of its latest query
    left,       \* per caller: ticks to its deadline
    result,     \* per caller: what its latest call returned
    rateMu,     \* who holds the mutex
    elapsed,    \* ticks since lastReq, up to Gap
    cache,
    \* History:
    apart,      \* ticks between the latest two grants, up to Gap
    clock,      \* ticks since the latest grant, up to Gap
    told,       \* what Nominatim has answered to each key
    late        \* requests for a key that had been answered before

call == <<pc, key, left, result>>
history == <<apart, clock, told, late>>
vars == <<call, rateMu, elapsed, cache, history>>

\* Keys with a place in them; and those that are left to the cache.  (LookupStatic
\* parses the key again, but what the parser did not find in the text is not in it.)
Located == {k \in Keys : ExtractLocation(Holds[k]) # Nowhere}
Asked == Keys \ (Located \cup Dictionary)
Answers == Places \cup {Abroad, NotFound}

Init ==
    /\ pc = [c \in Callers |-> "idle"]
    /\ key = [c \in Callers |-> Blank]
    /\ left = [c \in Callers |-> 0]
    /\ result = [c \in Callers |-> NotFound]
    /\ rateMu = Nobody
    /\ elapsed = Gap            \* lastReq is the zero time
    /\ cache = [k \in Asked |-> Unknown]
    /\ apart = Gap
    /\ clock = Gap
    /\ told = [k \in Asked |-> {}]
    /\ late = [k \in Asked |-> 0]

\* The caller gives up its context as soon as it has the result.
Return(c, r) ==
    /\ pc' = [pc EXCEPT ![c] = "idle"]
    /\ left' = [left EXCEPT ![c] = 0]
    /\ result' = [result EXCEPT ![c] = r]

----------------------------------------------------------------------------
(* Resolve and Geocode, up to the cache *)

\* A text with nothing in it, and one that the parser or the dictionary knows.
Local(c, k) ==
    /\ pc[c] = "idle"
    /\ k \notin Asked
    /\ key' = [key EXCEPT ![c] = k]
    /\ \/ k = Blank /\ Return(c, NotFound)
       \/ k \in Located /\ Return(c, ExtractLocation(Holds[k]))
       \/ k \in Dictionary \ Located /\ \E p \in Places : Return(c, p)
    /\ UNCHANGED <<rateMu, elapsed, cache, history>>

Hit(c, k) ==
    /\ pc[c] = "idle"
    /\ k \in Asked
    /\ cache[k] # Unknown
    /\ key' = [key EXCEPT ![c] = k]
    /\ Return(c, cache[k])
    /\ UNCHANGED <<rateMu, elapsed, cache, history>>

\* Faulty: the cache serves places only.
MissNotFound(c, k) ==
    /\ pc[c] = "idle"
    /\ k \in Asked
    /\ cache[k] \notin Places
    /\ key' = [key EXCEPT ![c] = k]
    /\ pc' = [pc EXCEPT ![c] = "lock"]
    /\ left' = [left EXCEPT ![c] = Limit]
    /\ UNCHANGED <<result, rateMu, elapsed, cache, history>>

Miss(c, k) ==
    /\ pc[c] = "idle"
    /\ k \in Asked
    /\ cache[k] = Unknown
    /\ key' = [key EXCEPT ![c] = k]
    /\ pc' = [pc EXCEPT ![c] = "lock"]
    /\ left' = [left EXCEPT ![c] = Limit]
    /\ UNCHANGED <<result, rateMu, elapsed, cache, history>>

----------------------------------------------------------------------------
(* waitRateLimit *)

\* The deadline does not end the wait for the mutex.
Acquire(c) ==
    /\ pc[c] = "lock"
    /\ rateMu = Nobody
    /\ rateMu' = c
    /\ pc' = [pc EXCEPT ![c] = "wait"]
    /\ UNCHANGED <<key, left, result, elapsed, cache, history>>

\* Faulty: lastReq keeps its first value.
GrantUntimed(c) ==
    /\ pc[c] = "wait"
    /\ elapsed >= Gap
    /\ rateMu' = Nobody
    /\ pc' = [pc EXCEPT ![c] = "sent"]
    /\ apart' = clock
    /\ clock' = 0
    /\ late' = [late EXCEPT ![key[c]] = IF cache[key[c]] = Unknown THEN @ ELSE @ + 1]
    /\ UNCHANGED <<key, left, result, elapsed, cache, told>>

\* The gap is over, at once or after a sleep.
Grant(c) ==
    /\ pc[c] = "wait"
    /\ elapsed >= Gap
    /\ elapsed' = 0
    /\ rateMu' = Nobody
    /\ pc' = [pc EXCEPT ![c] = "sent"]
    /\ apart' = clock
    /\ clock' = 0
    /\ late' = [late EXCEPT ![key[c]] = IF cache[key[c]] = Unknown THEN @ ELSE @ + 1]
    /\ UNCHANGED <<key, left, result, cache, told>>

\* Faulty: the mutex stays locked.
ExpireLocked(c) ==
    /\ left[c] = 0
    /\ \/ pc[c] = "wait" /\ elapsed < Gap
       \/ pc[c] = "sent"
    /\ Return(c, Error)
    /\ UNCHANGED <<key, rateMu, elapsed, cache, history>>

\* Faulty: the request is made without the context.
ExpireAsleep(c) ==
    /\ left[c] = 0
    /\ pc[c] = "wait"
    /\ elapsed < Gap
    /\ rateMu' = Nobody
    /\ Return(c, Error)
    /\ UNCHANGED <<key, elapsed, cache, history>>

\* The deadline ends the sleep, or the request.
Expire(c) ==
    /\ left[c] = 0
    /\ \/ /\ pc[c] = "wait"
          /\ elapsed < Gap
          /\ rateMu' = Nobody
       \/ /\ pc[c] = "sent"
          /\ UNCHANGED rateMu
    /\ Return(c, Error)
    /\ UNCHANGED <<key, elapsed, cache, history>>

----------------------------------------------------------------------------
(* Nominatim *)

\* An empty answer and a place out of bounds count as not found.
Answer(c, a) ==
    /\ pc[c] = "sent"
    /\ LET k == key[c]
           r == IF a \in Places THEN a ELSE NotFound
       IN  /\ told' = [told EXCEPT ![k] = @ \cup {a}]
           /\ cache' = [cache EXCEPT ![k] = r]
           /\ Return(c, r)
    /\ UNCHANGED <<key, rateMu, elapsed, apart, clock, late>>

\* Faulty: a failure counts as not found.
FailForever(c) ==
    /\ pc[c] = "sent"
    /\ cache' = [cache EXCEPT ![key[c]] = NotFound]
    /\ Return(c, NotFound)
    /\ UNCHANGED <<key, rateMu, elapsed, history>>

\* The network, a status other than 200, an unreadable answer or coordinate.
Fail(c) ==
    /\ pc[c] = "sent"
    /\ Return(c, Error)
    /\ UNCHANGED <<key, rateMu, elapsed, cache, history>>

Tick ==
    /\ clock < Gap \/ \E c \in Callers : left[c] > 0
    /\ LET later(n) == IF n < Gap THEN n + 1 ELSE n
       IN  elapsed' = later(elapsed) /\ clock' = later(clock)
    /\ left' = [c \in Callers |-> IF left[c] > 0 THEN left[c] - 1 ELSE 0]
    /\ UNCHANGED <<pc, key, result, rateMu, cache, apart, told, late>>

----------------------------------------------------------------------------

Step(c) ==
    \/ \E k \in Keys \cup {Blank} : Local(c, k) \/ Hit(c, k) \/ Miss(c, k)
    \/ Acquire(c)
    \/ Grant(c)
    \/ Expire(c)
    \/ \E a \in Answers : Answer(c, a)
    \/ Fail(c)

Next == Tick \/ \E c \in Callers : Step(c)

Spec == Init /\ [][Next]_vars

\* Time passes, timers and deadlines fire, and sync.Mutex starves nobody.
LiveSpec ==
    /\ Spec
    /\ WF_vars(Tick)
    /\ \A c \in Callers : SF_vars(Acquire(c)) /\ WF_vars(Grant(c)) /\ WF_vars(Expire(c))

----------------------------------------------------------------------------
(* Properties *)

Results == Places \cup {NotFound, Error} \cup {ExtractLocation(Holds[k]) : k \in Located}

\* Types; and the mutex is held by the caller that sleeps, and only by it.
TypeOK ==
    /\ pc \in [Callers -> {"idle", "lock", "wait", "sent"}]
    /\ key \in [Callers -> Keys \cup {Blank}]
    /\ left \in [Callers -> 0..Limit]
    /\ result \in [Callers -> Results]
    /\ rateMu \in Callers \cup {Nobody}
    /\ \A c \in Callers : pc[c] = "wait" <=> rateMu = c
    /\ {elapsed, apart, clock} \subseteq 0..Gap
    /\ cache \in [Asked -> Places \cup {NotFound, Unknown}]
    /\ told \in [Asked -> SUBSET Answers]
    /\ late \in [Asked -> Nat]

\* Whoever calls, and whichever sleeps the deadlines cut short, permissions to
\* ask Nominatim are at least the gap apart.
OneASecond == apart = Gap

\* A failure or a deadline leaves no trace in the cache, an answer always does,
\* and what a call returns is what Nominatim once said of that key.
CacheTruthful ==
    LET Says(k, r) ==
            \/ r \in Places \cap told[k]
            \/ r = NotFound /\ told[k] \ Places # {}
    IN  /\ \A k \in Asked :
              IF cache[k] = Unknown THEN told[k] = {} ELSE Says(k, cache[k])
        /\ \A c \in Callers :
              pc[c] = "idle" /\ key[c] \in Asked => result[c] = Error \/ Says(key[c], result[c])

\* Nobody looks into the cache again after the wait, so a key may be asked again
\* after it was answered, but only by the callers that waited meanwhile: never,
\* if there is one caller.
FewRepeats == \A k \in Asked : late[k] < Cardinality(Callers)

\* Whoever names places of the city gets all of them, in the order of the table
\* and each once, whether one's name is within another's, two rules share a name
\* or the text has several names of one; none that the text does not name; and
\* the raion of each.  And waits for nobody: Nominatim, its gap, a failure or an
\* old answer in the cache are no matter.
NamedPlacesShown ==
    \A c \in Callers :
        LET t == Holds[key[c]]
        IN  Named(t) # {} =>
              /\ pc[c] = "idle"
              /\ Lists(result[c].points, Firsts(t))
              /\ {KyivPoints[i].raion : i \in Firsts(t)} \subseteq result[c].raions

\* No call outlives its deadline for ever, although the wait for the mutex has
\* none.
EveryCallEnds == \A c \in Callers : pc[c] # "idle" ~> pc[c] = "idle"
==============================================================================
