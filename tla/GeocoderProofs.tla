---------------------------- MODULE GeocoderProofs ----------------------------
(***************************************************************************)
(* Proofs about Geocoder, for any number of callers, any gap and deadline,  *)
(* and any answers.                                                        *)
(***************************************************************************)
EXTENDS Geocoder, FiniteSetTheorems, WellFoundedInduction, TLAPS

USE DEF call, history, Asked, Answers

----------------------------------------------------------------------------
(* Types and the mutex *)

LEMMA ReturnType ==
  ASSUME TypeOK, NEW c \in Callers,
         NEW r \in Results, Return(c, r)
  PROVE  /\ pc' \in [Callers -> {"idle", "lock", "wait", "sent"}]
         /\ pc' = [pc EXCEPT ![c] = "idle"]
         /\ left' \in [Callers -> 0..Limit]
         /\ result' \in [Callers -> Results]
BY GeocoderAssumption DEF TypeOK, Return

LEMMA TypeInit ==
  ASSUME Init
  PROVE  TypeOK
<1>1. NotFound \in Results
  BY DEF Results
<1> QED
  BY <1>1, GeocoderAssumption DEF Init, TypeOK

\* A caller that leaves the cache has a key that only Nominatim knows.
KeyInv == \A c \in Callers : pc[c] # "idle" => key[c] \in Asked

LEMMA KeyStep ==
  ASSUME TypeOK, KeyInv, [Next]_vars
  PROVE  KeyInv'
<1> USE DEF TypeOK, KeyInv
<1>1. CASE Tick
  BY <1>1 DEF Tick
<1>2. ASSUME NEW c \in Callers, Step(c)
      PROVE  KeyInv'
  <2>1. ASSUME NEW k \in Keys \cup {Blank}, Local(c, k) \/ Hit(c, k) \/ Miss(c, k)
        PROVE  KeyInv'
    BY <2>1 DEF Local, Hit, Miss, Return
  <2>2. CASE Acquire(c) \/ Grant(c)
    BY <2>2 DEF Acquire, Grant
  <2>3. CASE Expire(c) \/ Fail(c)
    BY <2>3 DEF Expire, Fail, Return
  <2>4. ASSUME NEW a \in Answers, Answer(c, a)
        PROVE  KeyInv'
    BY <2>4 DEF Answer, Return
  <2> QED
    BY <1>2, <2>1, <2>2, <2>3, <2>4 DEF Step
<1>3. CASE UNCHANGED vars
  BY <1>3 DEF vars
<1> QED
  BY <1>1, <1>2, <1>3 DEF Next

LEMMA TypeStep ==
  ASSUME TypeOK, KeyInv, [Next]_vars
  PROVE  TypeOK'
<1>0. Gap \in Nat /\ Gap > 0 /\ Limit \in Nat
  BY GeocoderAssumption
<1>1. CASE Tick
  <2>1. left' \in [Callers -> 0..Limit]
    BY <1>0, <1>1 DEF Tick, TypeOK
  <2>2. {elapsed', clock'} \subseteq 0..Gap
    BY <1>0, <1>1 DEF Tick, TypeOK
  <2> QED
    BY <1>1, <2>1, <2>2 DEF Tick, TypeOK
<1>2. ASSUME NEW c \in Callers, Step(c)
      PROVE  TypeOK'
  <2>1. ASSUME NEW k \in Keys \cup {Blank}, Local(c, k) \/ Hit(c, k)
        PROVE  TypeOK'
    <3>1. PICK r \in Results : Return(c, r)
      <4>1. CASE Local(c, k)
        BY <4>1 DEF Local, Results
      <4>2. CASE Hit(c, k)
        BY <4>2 DEF Hit, TypeOK, Results
      <4> QED
        BY <2>1, <4>1, <4>2
    <3>2. /\ pc[c] = "idle"
          /\ key' = [key EXCEPT ![c] = k]
          /\ UNCHANGED <<rateMu, elapsed, cache, apart, clock, told, late>>
      BY <2>1 DEF Local, Hit
    <3>3. \A d \in Callers : pc'[d] = pc[d]
      BY <3>1, <3>2, ReturnType, TypeOK DEF TypeOK
    <3> HIDE DEF Asked, Answers
    <3> QED
      BY <3>1, <3>2, <3>3, ReturnType DEF TypeOK
  <2>2. ASSUME NEW k \in Keys \cup {Blank}, Miss(c, k)
        PROVE  TypeOK'
    BY <1>0, <2>2, GeocoderAssumption DEF Miss, TypeOK
  <2>3. CASE Acquire(c)
    BY <2>3, GeocoderAssumption DEF Acquire, TypeOK
  <2>4. CASE Grant(c)
    <3>1. key[c] \in Asked
      BY <2>4 DEF Grant, KeyInv
    <3>2. late' \in [Asked -> Nat]
      BY <2>4, <3>1 DEF Grant, TypeOK
    <3>3. /\ pc' \in [Callers -> {"idle", "lock", "wait", "sent"}]
          /\ rateMu' = Nobody
          /\ \A d \in Callers : pc'[d] = "wait" <=> rateMu' = d
      BY <2>4, GeocoderAssumption DEF Grant, TypeOK
    <3>4. {elapsed', apart', clock'} \subseteq 0..Gap
      BY <1>0, <2>4 DEF Grant, TypeOK
    <3>5. UNCHANGED <<key, left, result, cache, told>>
      BY <2>4 DEF Grant
    <3> QED
      BY <3>2, <3>3, <3>4, <3>5 DEF TypeOK
  <2>5. CASE Expire(c) \/ Fail(c)
    <3>1. Return(c, Error) /\ Error \in Results
      BY <2>5 DEF Expire, Fail, Results
    <3>2. UNCHANGED <<key, elapsed, cache, apart, clock, told, late>>
      BY <2>5 DEF Expire, Fail
    <3>3. /\ rateMu' \in Callers \cup {Nobody}
          /\ \A d \in Callers : pc'[d] = "wait" <=> rateMu' = d
      BY <2>5, <3>1, ReturnType, GeocoderAssumption DEF Expire, Fail, TypeOK
    <3> HIDE DEF Asked, Answers
    <3> QED
      BY <3>1, <3>2, <3>3, ReturnType DEF TypeOK
  <2>6. ASSUME NEW a \in Answers, Answer(c, a)
        PROVE  TypeOK'
    <3> DEFINE r == IF a \in Places THEN a ELSE NotFound
    <3>1. Return(c, r) /\ r \in Places \cup {NotFound} /\ r \in Results
      BY <2>6 DEF Answer, Results
    <3>2. /\ told' = [told EXCEPT ![key[c]] = @ \cup {a}]
          /\ cache' = [cache EXCEPT ![key[c]] = r]
          /\ UNCHANGED <<key, rateMu, elapsed, apart, clock, late>>
          /\ pc[c] = "sent"
      BY <2>6 DEF Answer
    <3> HIDE DEF r
    <3>3. \A d \in Callers : pc'[d] = "wait" <=> pc[d] = "wait"
      BY <3>1, <3>2, ReturnType DEF TypeOK
    <3>4. told' \in [Asked -> SUBSET Answers]
      BY <3>2 DEF TypeOK
    <3>5. cache' \in [Asked -> Places \cup {NotFound, Unknown}]
      BY <3>1, <3>2 DEF TypeOK
    <3> HIDE DEF Asked, Answers
    <3> QED
      BY <3>1, <3>2, <3>3, <3>4, <3>5, ReturnType DEF TypeOK
  <2> QED
    BY <1>2, <2>1, <2>2, <2>3, <2>4, <2>5, <2>6 DEF Step
<1>3. CASE UNCHANGED vars
  BY <1>3 DEF vars, TypeOK
<1> QED
  BY <1>1, <1>2, <1>3 DEF Next

\* The variables keep their types, and the mutex is held by the caller that
\* sleeps and only by it: every way out of the sleep unlocks it.
THEOREM TypeCorrect == Spec => []TypeOK
<1>1. Init => TypeOK /\ KeyInv
  BY TypeInit DEF Init, KeyInv
<1>2. TypeOK /\ KeyInv /\ [Next]_vars => TypeOK' /\ KeyInv'
  BY TypeStep, KeyStep
<1> QED
  BY <1>1, <1>2, PTL DEF Spec

\* Nobody waits or asks for a key that is built in.
LEMMA KeyCorrect == Spec => []KeyInv
<1>1. Init => TypeOK /\ KeyInv
  BY TypeInit DEF Init, KeyInv
<1>2. TypeOK /\ KeyInv /\ [Next]_vars => TypeOK' /\ KeyInv'
  BY TypeStep, KeyStep
<1> QED
  BY <1>1, <1>2, PTL DEF Spec

----------------------------------------------------------------------------
(* The gap *)

\* lastReq is the time of the latest permission.
GapInv == elapsed = clock /\ OneASecond

LEMMA GapStep ==
  ASSUME TypeOK, GapInv, [Next]_vars
  PROVE  GapInv'
<1> USE DEF GapInv, OneASecond
<1>1. CASE Tick
  BY <1>1 DEF Tick
<1>2. ASSUME NEW c \in Callers, Step(c)
      PROVE  GapInv'
  <2>1. CASE Grant(c)
    <3>1. elapsed \in 0..Gap /\ elapsed >= Gap
      BY <2>1 DEF Grant, TypeOK
    <3>2. elapsed = Gap
      BY <3>1, GeocoderAssumption
    <3> QED
      BY <2>1, <3>2 DEF Grant
  <2>2. CASE ~Grant(c)
    BY <1>2, <2>2 DEF Step, Local, Hit, Miss, Acquire, Expire, Answer, Fail
  <2> QED
    BY <2>1, <2>2
<1>3. CASE UNCHANGED vars
  BY <1>3 DEF vars
<1> QED
  BY <1>1, <1>2, <1>3 DEF Next

\* However many callers queue up at the mutex, and whichever of them give up,
\* permissions to ask Nominatim are at least the gap apart.
THEOREM OneASecondCorrect == Spec => []OneASecond
<1>1. Init => GapInv
  BY DEF Init, GapInv, OneASecond
<1>2. TypeOK /\ GapInv /\ [Next]_vars => GapInv'
  BY GapStep
<1>3. GapInv => OneASecond
  BY DEF GapInv
<1> QED
  BY <1>1, <1>2, <1>3, TypeCorrect, PTL DEF Spec

----------------------------------------------------------------------------
(* The cache *)

LEMMA TruthStep ==
  ASSUME TypeOK, KeyInv, CacheTruthful, [Next]_vars
  PROVE  CacheTruthful'
<1> DEFINE Says(k, r) == \/ r \in Places \cap told[k]
                         \/ r = NotFound /\ told[k] \ Places # {}
           CacheTrue == \A k \in Asked :
              IF cache[k] = Unknown THEN told[k] = {} ELSE Says(k, cache[k])
           ResultTrue == \A c \in Callers :
              pc[c] = "idle" /\ key[c] \in Asked => result[c] = Error \/ Says(key[c], result[c])
<1>0. CacheTrue /\ ResultTrue
  BY DEF CacheTruthful
<1>1. ASSUME CacheTrue', ResultTrue'
      PROVE  CacheTruthful'
  BY <1>1 DEF CacheTruthful
<1>2. ASSUME UNCHANGED <<cache, told>>,
             \A c \in Callers : \/ UNCHANGED <<pc[c], key[c], result[c]>>
                                \/ pc'[c] # "idle"
                                \/ result'[c] = Error
                                \/ key'[c] \notin Asked
                                \/ cache[key'[c]] # Unknown /\ result'[c] = cache[key'[c]]
      PROVE  CacheTruthful'
  <2>1. CacheTrue'
    BY <1>0, <1>2
  <2>2. ASSUME NEW c \in Callers, pc'[c] = "idle", key'[c] \in Asked
        PROVE  result'[c] = Error \/ Says(key'[c], result'[c])
    BY <1>0, <1>2, <2>2
  <2>3. ResultTrue'
    BY <1>2, <2>2
  <2> QED
    BY <1>1, <2>1, <2>3
<1>3. CASE Tick
  BY <1>2, <1>3 DEF Tick
<1>4. ASSUME NEW c \in Callers, Step(c)
      PROVE  CacheTruthful'
  <2> USE DEF TypeOK
  <2>1. ASSUME NEW k \in Keys \cup {Blank}, Local(c, k)
        PROVE  CacheTruthful'
    <3>1. \A d \in Callers \ {c} : UNCHANGED <<pc[d], key[d], result[d]>>
      BY <2>1 DEF Local, Return
    <3>2. key'[c] \notin Asked
      BY <2>1 DEF Local
    <3>3. UNCHANGED <<cache, told>>
      BY <2>1 DEF Local
    <3> QED
      BY <1>2, <3>1, <3>2, <3>3
  <2>2. ASSUME NEW k \in Keys \cup {Blank}, Hit(c, k)
        PROVE  CacheTruthful'
    BY <1>2, <2>2 DEF Hit, Return
  <2>3. ASSUME NEW k \in Keys \cup {Blank}, Miss(c, k)
        PROVE  CacheTruthful'
    BY <1>2, <2>3 DEF Miss
  <2>4. CASE Acquire(c) \/ Grant(c)
    BY <1>2, <2>4 DEF Acquire, Grant
  <2>5. CASE Expire(c) \/ Fail(c)
    BY <1>2, <2>5 DEF Expire, Fail, Return
  <2>6. ASSUME NEW a \in Answers, Answer(c, a)
        PROVE  CacheTruthful'
    <3> DEFINE kc == key[c]
               r == IF a \in Places THEN a ELSE NotFound
    <3>1. kc \in Asked
      BY <2>6 DEF Answer, KeyInv
    <3>2. /\ told' = [told EXCEPT ![kc] = @ \cup {a}]
          /\ cache' = [cache EXCEPT ![kc] = r]
          /\ key' = key
          /\ pc' = [pc EXCEPT ![c] = "idle"]
          /\ result' = [result EXCEPT ![c] = r]
      BY <2>6 DEF Answer, Return
    <3>3. \A k \in Asked : told[k] \subseteq told'[k]
      BY <3>1, <3>2
    <3>4. /\ r # Unknown
          /\ \/ r \in Places \cap told'[kc]
             \/ r = NotFound /\ told'[kc] \ Places # {}
      BY <3>1, <3>2, GeocoderAssumption
    <3>5. cache'[kc] = r /\ \A k \in Asked \ {kc} : UNCHANGED <<cache[k], told[k]>>
      BY <3>1, <3>2
    <3>6. result'[c] = r /\ \A d \in Callers \ {c} : UNCHANGED <<pc[d], result[d]>>
      BY <3>2
    <3> HIDE DEF kc, r
    <3>7. CacheTrue'
      BY <1>0, <3>4, <3>5
    <3>8. ResultTrue'
      <4>1. ASSUME NEW d \in Callers, pc'[d] = "idle", key'[d] \in Asked
            PROVE  (result[d] = Error \/ Says(key[d], result[d]))'
        <5>1. CASE d = c
          BY <3>2, <3>4, <3>6, <5>1 DEF kc
        <5>2. CASE d # c
          <6>1. pc[d] = "idle" /\ key[d] \in Asked /\ result'[d] = result[d] /\ key' = key
            BY <3>2, <3>6, <4>1, <5>2
          <6>2. told[key[d]] \subseteq told'[key[d]]
            BY <3>3, <6>1
          <6> QED
            BY <1>0, <6>1, <6>2
        <5> QED
          BY <5>1, <5>2
      <4> QED
        BY <3>2, <4>1
    <3> QED
      BY <1>1, <3>7, <3>8
  <2> QED
    BY <1>4, <2>1, <2>2, <2>3, <2>4, <2>5, <2>6 DEF Step
<1>5. CASE UNCHANGED vars
  BY <1>2, <1>5 DEF vars
<1> QED
  BY <1>3, <1>4, <1>5 DEF Next

\* A failure or a deadline never becomes an answer, an answer is never lost,
\* and what a call returns was once said of its key by Nominatim.
THEOREM CacheTruthfulCorrect == Spec => []CacheTruthful
<1>1. Init => CacheTruthful
  BY GeocoderAssumption DEF Init, CacheTruthful
<1>2. TypeOK /\ KeyInv /\ CacheTruthful /\ [Next]_vars => CacheTruthful'
  BY TruthStep
<1> QED
  BY <1>1, <1>2, TypeCorrect, KeyCorrect, PTL DEF Spec

----------------------------------------------------------------------------
(* Repeated requests *)

\* The callers that did not find a key in the cache and have not asked yet.
Missed(k) == {c \in Callers : pc[c] \in {"lock", "wait"} /\ key[c] = k}

\* Once a key was answered, only they can still ask.
RepeatInv ==
    \A k \in Asked :
        IF cache[k] = Unknown
        THEN late[k] = 0
        ELSE late[k] + Cardinality(Missed(k)) < Cardinality(Callers)

LEMMA MissedSize ==
  ASSUME NEW k
  PROVE  /\ IsFiniteSet(Missed(k))
         /\ Cardinality(Missed(k)) \in Nat
         /\ \A c \in Missed(k) :
               Cardinality(Missed(k) \ {c}) = Cardinality(Missed(k)) - 1
         /\ \A S \in SUBSET Missed(k) :
               Cardinality(S) \in Nat /\ Cardinality(S) <= Cardinality(Missed(k))
         /\ \A c \in Callers \ Missed(k) : Cardinality(Missed(k)) < Cardinality(Callers)
<1>1. Missed(k) \subseteq Callers /\ IsFiniteSet(Callers)
  BY GeocoderAssumption DEF Missed
<1>2. IsFiniteSet(Missed(k)) /\ Cardinality(Missed(k)) \in Nat
  BY <1>1, FS_Subset, FS_CardinalityType
<1>3. ASSUME NEW c \in Callers \ Missed(k)
      PROVE  Cardinality(Missed(k)) < Cardinality(Callers)
  <2>1. Missed(k) # Callers
    BY <1>3
  <2> QED
    BY <1>1, <2>1, FS_Subset, FS_CardinalityType, <1>2
<1>4. \A c \in Missed(k) : Cardinality(Missed(k) \ {c}) = Cardinality(Missed(k)) - 1
  BY <1>2, FS_RemoveElement
<1>5. \A S \in SUBSET Missed(k) :
         Cardinality(S) \in Nat /\ Cardinality(S) <= Cardinality(Missed(k))
  BY <1>2, FS_Subset, FS_CardinalityType
<1> QED
  BY <1>2, <1>3, <1>4, <1>5

LEMMA RepeatStep ==
  ASSUME TypeOK, KeyInv, RepeatInv, [Next]_vars
  PROVE  RepeatInv'
<1> USE DEF TypeOK, RepeatInv
\* As long as nobody asks and nothing is answered, it is enough that nobody
\* joins the callers of an answered key.
<1>1. ASSUME UNCHANGED <<cache, late>>,
             \A k \in Asked : cache[k] # Unknown => Missed(k)' \subseteq Missed(k)
      PROVE  RepeatInv'
  <2> SUFFICES ASSUME NEW k \in Asked, cache[k] # Unknown
               PROVE  late[k] + Cardinality(Missed(k)') < Cardinality(Callers)
    BY <1>1
  <2>1. /\ Cardinality(Missed(k)') \in Nat
        /\ Cardinality(Missed(k)) \in Nat
        /\ Cardinality(Missed(k)') <= Cardinality(Missed(k))
    BY <1>1, MissedSize
  <2>2. late[k] \in Nat /\ Cardinality(Callers) \in Nat
    BY GeocoderAssumption, FS_CardinalityType
  <2>3. late[k] + Cardinality(Missed(k)) < Cardinality(Callers)
    OBVIOUS
  <2> QED
    BY <2>1, <2>2, <2>3
<1>2. CASE Tick
  BY <1>1, <1>2 DEF Tick, Missed
<1>3. ASSUME NEW c \in Callers, Step(c)
      PROVE  RepeatInv'
  <2>1. ASSUME NEW k \in Keys \cup {Blank}, Local(c, k) \/ Hit(c, k) \/ Miss(c, k)
        PROVE  RepeatInv'
    <3>1. ASSUME NEW d \in Callers, d # c
          PROVE  UNCHANGED <<pc[d], key[d]>>
      BY <2>1, <3>1 DEF Local, Hit, Miss, Return
    <3>2. \/ pc'[c] = "idle"
          \/ pc'[c] = "lock" /\ key'[c] = k /\ cache[k] = Unknown
      BY <2>1 DEF Local, Hit, Miss, Return
    <3>3. UNCHANGED <<cache, late>>
      BY <2>1 DEF Local, Hit, Miss
    <3>4. \A j \in Asked : cache[j] # Unknown => Missed(j)' \subseteq Missed(j)
      BY <3>1, <3>2, <3>3 DEF Missed
    <3> QED
      BY <1>1, <3>3, <3>4
  <2>2. CASE Acquire(c)
    BY <1>1, <2>2 DEF Acquire, Missed
  <2>3. CASE Grant(c)
    <3> DEFINE kc == key[c]
    <3>1. /\ kc \in Asked
          /\ c \in Missed(kc)
          /\ UNCHANGED <<cache, key>>
          /\ pc' = [pc EXCEPT ![c] = "sent"]
          /\ late' = [late EXCEPT ![kc] = IF cache[kc] = Unknown THEN @ ELSE @ + 1]
      BY <2>3 DEF Grant, KeyInv, Missed
    <3> HIDE DEF kc
    <3>2. ASSUME NEW k \in Asked
          PROVE  IF cache'[k] = Unknown
                 THEN late'[k] = 0
                 ELSE late'[k] + Cardinality(Missed(k)') < Cardinality(Callers)
      <4>1. CASE k = kc
        <5>1. Missed(k)' = Missed(k) \ {c}
          BY <3>1, <4>1 DEF Missed, kc
        <5>2. /\ Cardinality(Missed(k)') = Cardinality(Missed(k)) - 1
              /\ Cardinality(Missed(k)) \in Nat
          BY <3>1, <4>1, <5>1, MissedSize
        <5>3. late'[k] = IF cache[k] = Unknown THEN late[k] ELSE late[k] + 1
          BY <3>1, <4>1
        <5>4. late[k] \in Nat /\ Cardinality(Callers) \in Nat
          BY GeocoderAssumption, FS_CardinalityType
        <5>5. IF cache[k] = Unknown
              THEN late[k] = 0
              ELSE late[k] + Cardinality(Missed(k)) < Cardinality(Callers)
          OBVIOUS
        <5> QED
          BY <3>1, <5>2, <5>3, <5>4, <5>5
      <4>2. CASE k # kc
        <5>1. Missed(k)' = Missed(k)
          BY <3>1, <4>2 DEF Missed, kc
        <5> QED
          BY <3>1, <4>2, <5>1
      <4> QED
        BY <4>1, <4>2
    <3> QED
      BY <3>2
  <2>4. CASE Expire(c) \/ Fail(c)
    <3>1. /\ UNCHANGED <<cache, late, key>>
          /\ pc' = [pc EXCEPT ![c] = "idle"]
      BY <2>4 DEF Expire, Fail, Return
    <3>2. \A k \in Asked : Missed(k)' \subseteq Missed(k)
      BY <3>1 DEF Missed
    <3> QED
      BY <1>1, <3>1, <3>2
  <2>5. ASSUME NEW a \in Answers, Answer(c, a)
        PROVE  RepeatInv'
    <3> DEFINE kc == key[c]
               r == IF a \in Places THEN a ELSE NotFound
    <3>1. /\ kc \in Asked
          /\ pc[c] = "sent"
          /\ cache' = [cache EXCEPT ![kc] = r]
          /\ pc' = [pc EXCEPT ![c] = "idle"]
          /\ UNCHANGED <<key, late>>
      BY <2>5 DEF Answer, Return, KeyInv
    <3>2. r # Unknown
      BY GeocoderAssumption
    <3> HIDE DEF kc, r
    <3>3. ASSUME NEW k \in Asked
          PROVE  IF cache'[k] = Unknown
                 THEN late'[k] = 0
                 ELSE late'[k] + Cardinality(Missed(k)') < Cardinality(Callers)
      <4>1. Missed(k)' = Missed(k)
        BY <3>1 DEF Missed
      <4>2. Cardinality(Missed(k)) < Cardinality(Callers)
        <5>1. c \in Callers \ Missed(k)
          BY <3>1 DEF Missed
        <5> QED
          BY <5>1, MissedSize
      <4>3. late[k] \in Nat /\ Cardinality(Callers) \in Nat /\ Cardinality(Missed(k)) \in Nat
        BY GeocoderAssumption, FS_CardinalityType, MissedSize
      <4>4. IF cache[k] = Unknown
            THEN late[k] = 0
            ELSE late[k] + Cardinality(Missed(k)) < Cardinality(Callers)
        OBVIOUS
      <4>5. CASE k = kc
        BY <3>1, <3>2, <4>1, <4>2, <4>3, <4>4, <4>5
      <4>6. CASE k # kc
        BY <3>1, <4>1, <4>4, <4>6
      <4> QED
        BY <4>5, <4>6
    <3> QED
      BY <3>3
  <2> QED
    BY <1>3, <2>1, <2>2, <2>3, <2>4, <2>5 DEF Step
<1>4. CASE UNCHANGED vars
  BY <1>1, <1>4 DEF vars, Missed
<1> QED
  BY <1>2, <1>3, <1>4 DEF Next

\* After an answer, a key is asked again by other callers than the one that was
\* answered and at most once by each: never, if there is one caller.
THEOREM FewRepeatsCorrect == Spec => []FewRepeats
<1>1. Init => RepeatInv
  BY DEF Init, RepeatInv
<1>2. TypeOK /\ KeyInv /\ RepeatInv /\ [Next]_vars => RepeatInv'
  BY RepeatStep
<1>3. TypeOK /\ RepeatInv => FewRepeats
  <2> SUFFICES ASSUME TypeOK, RepeatInv, NEW k \in Asked
               PROVE  late[k] < Cardinality(Callers)
    BY DEF FewRepeats
  <2>1. Cardinality(Callers) \in Nat /\ Cardinality(Callers) # 0
    BY GeocoderAssumption, FS_CardinalityType, FS_EmptySet
  <2>2. late[k] \in Nat /\ Cardinality(Missed(k)) \in Nat
    BY MissedSize DEF TypeOK
  <2> QED
    BY <2>1, <2>2 DEF RepeatInv
<1> QED
  BY <1>1, <1>2, <1>3, TypeCorrect, KeyCorrect, PTL DEF Spec

----------------------------------------------------------------------------
(* Places of the city *)

\* A set of numbers has a least one.
LEMMA Least ==
  ASSUME NEW S \in SUBSET Nat, S # {}
  PROVE  \E n \in S : \A m \in S : n <= m
<1>1. PICK n \in S : \A m \in S : ~(<<m, n>> \in OpToRel(<, Nat))
  BY NatLessThanWellFounded, WFMin
<1>2. \A m \in S : ~(m < n)
  BY <1>1 DEF OpToRel
<1> QED
  BY <1>2

\* The loop over the rules is well-defined: it has as many turns as one likes,
\* each from the result of the one before.
LEMMA LoopDefined ==
  ASSUME NEW t, NEW n \in Nat
  PROVE  \E f : f = [k \in 0..n |-> IF k = 0 THEN NothingFound
                                    ELSE Visit(f[k - 1], KyivPoints[k], t)]
<1> DEFINE Next0(f, k) == IF k = 0 THEN NothingFound ELSE Visit(f[k - 1], KyivPoints[k], t)
           Stuck == {m \in Nat : ~\E f : f = [k \in 0..m |-> Next0(f, k)]}
<1>1. SUFFICES ASSUME Stuck # {} PROVE FALSE
  OBVIOUS
<1>2. PICK m \in Stuck : \A i \in Stuck : m <= i
  BY <1>1, Least
<1>3. m # 0
  <2> SUFFICES ASSUME m = 0 PROVE FALSE
    OBVIOUS
  <2> DEFINE f == [k \in 0..0 |-> NothingFound]
  <2>1. f = [k \in 0..m |-> Next0(f, k)]
    OBVIOUS
  <2> HIDE DEF f
  <2>2. m \notin Stuck
    BY <2>1
  <2> QED
    BY <1>2, <2>2
<1>4. m - 1 \in Nat /\ m - 1 \notin Stuck
  <2>1. m \in Nat
    OBVIOUS
  <2> HIDE DEF Stuck
  <2> QED
    BY <1>2, <1>3, <2>1
<1>5. PICK f : f = [k \in 0..m - 1 |-> Next0(f, k)]
  BY <1>4
<1> DEFINE v == Visit(f[m - 1], KyivPoints[m], t)
           g == [k \in 0..m |-> IF k = m THEN v ELSE f[k]]
<1>6. \A k \in 0..m : g[k] = Next0(g, k)
  <2>1. \A k \in 0..m - 1 : g[k] = f[k] /\ f[k] = Next0(f, k)
    BY <1>3, <1>5
  <2>2. \A k \in 1..m : g[k - 1] = f[k - 1]
    BY <2>1
  <2>3. g[m] = v
    OBVIOUS
  <2> HIDE DEF g
  <2> QED
    BY <1>3, <2>1, <2>2, <2>3
<1>7. g = [k \in 0..m |-> Next0(g, k)]
  BY <1>6
<1> QED
  BY <1>7

LEMMA TurnsDefined ==
  ASSUME NEW t
  PROVE  /\ Turns(t)[0] = NothingFound
         /\ \A n \in 1..Len(KyivPoints) :
               Turns(t)[n] = Visit(Turns(t)[n - 1], KyivPoints[n], t)
<1> DEFINE T == Turns(t)
<1>1. T = [n \in 0..Len(KyivPoints) |->
             IF n = 0 THEN NothingFound ELSE Visit(T[n - 1], KyivPoints[n], t)]
  BY LoopDefined, ParserAssumption DEF Turns
<1> HIDE DEF T
<1>2. /\ T[0] = NothingFound
      /\ \A n \in 1..Len(KyivPoints) : T[n] = Visit(T[n - 1], KyivPoints[n], t)
  BY <1>1, ParserAssumption
<1> QED
  BY <1>2 DEF T

\* After n turns the loop has found the first rule with each nameUA, among the
\* first n rules, and has seen the names of all of them that are in the text.
FoundInv(found, n, t) ==
    /\ found.points \in Seq([nameUA : {KyivPoints[i].nameUA : i \in DOMAIN KyivPoints},
                             raion : Raions])
    /\ Lists(found.points, Firsts(t) \cap 1..n)
    /\ found.seen = {KyivPoints[i].nameUA : i \in Named(t) \cap 1..n}
    /\ found.raions = {KyivPoints[i].raion : i \in Firsts(t) \cap 1..n}

LEMMA FoundStep ==
  ASSUME NEW t, NEW n \in 1..Len(KyivPoints), NEW found, FoundInv(found, n - 1, t)
  PROVE  FoundInv(Visit(found, KyivPoints[n], t), n, t)
<1> DEFINE p == KyivPoints[n]
           F == Firsts(t) \cap 1..n - 1
           G == Firsts(t) \cap 1..n
<1>0. n \in Nat /\ n > 0 /\ n \in DOMAIN KyivPoints /\ 1..n = (1..n - 1) \cup {n}
  BY ParserAssumption
<1>1. CASE p.names \cap t = {}
  <2>1. n \notin Named(t) /\ n \notin Firsts(t)
    BY <1>1 DEF Named, Firsts
  <2>2. G = F /\ Named(t) \cap 1..n = Named(t) \cap 1..n - 1
    BY <1>0, <2>1
  <2> QED
    BY <1>1, <2>2 DEF Visit, FoundInv
<1>2. CASE p.names \cap t # {} /\ p.nameUA \in found.seen
  <2>1. PICK i \in Named(t) \cap 1..n - 1 : KyivPoints[i].nameUA = p.nameUA
    BY <1>2 DEF FoundInv
  <2>2. n \notin Firsts(t)
    BY <1>0, <2>1 DEF Firsts
  <2>3. G = F
    BY <1>0, <2>2
  <2>4. {KyivPoints[j].nameUA : j \in Named(t) \cap 1..n} =
           {KyivPoints[j].nameUA : j \in Named(t) \cap 1..n - 1}
    BY <1>0, <2>1
  <2> QED
    BY <1>2, <2>3, <2>4 DEF Visit, FoundInv
<1>3. CASE p.names \cap t # {} /\ p.nameUA \notin found.seen
  <2> DEFINE new == Visit(found, p, t)
  <2>1. /\ new.points = Append(found.points, PointOf(p))
        /\ new.seen = found.seen \cup {p.nameUA}
        /\ new.raions = found.raions \cup {p.raion}
    BY <1>3 DEF Visit
  <2>2. n \in Named(t) /\ n \in Firsts(t)
    <3>1. n \in Named(t)
      BY <1>0, <1>3 DEF Named
    <3>2. ASSUME NEW j \in Named(t), KyivPoints[j].nameUA = p.nameUA
          PROVE  n <= j
      <4>1. j \in 1..Len(KyivPoints) /\ j \notin 1..n - 1
        BY <1>3, <3>2, ParserAssumption DEF FoundInv, Named
      <4> QED
        BY <1>0, <4>1
    <3> QED
      BY <3>1, <3>2 DEF Firsts
  <2>3. G = F \cup {n} /\ n \notin F /\ Named(t) \cap 1..n = (Named(t) \cap 1..n - 1) \cup {n}
    BY <1>0, <2>2
  <2>4. new.seen = {KyivPoints[i].nameUA : i \in Named(t) \cap 1..n}
    BY <2>1, <2>3 DEF FoundInv
  <2>5. new.raions = {KyivPoints[i].raion : i \in Firsts(t) \cap 1..n}
    BY <2>1, <2>3 DEF FoundInv
  <2>6. PointOf(p) \in [nameUA : {KyivPoints[i].nameUA : i \in DOMAIN KyivPoints}, raion : Raions]
    BY <1>0, ParserAssumption DEF PointOf
  <2>7. Lists(new.points, G)
    <3> DEFINE q == found.points
               m == Len(q)
    <3>1. m \in Nat /\ DOMAIN q = 1..m
      BY DEF FoundInv
    <3>2. /\ DOMAIN new.points = 1..m + 1
          /\ new.points[m + 1] = PointOf(p)
          /\ \A j \in 1..m : new.points[j] = q[j]
      BY <2>1, <2>6 DEF FoundInv
    <3>3. PICK rule \in [1..m -> F] :
             /\ \A j \in 1..m : q[j] = PointOf(KyivPoints[rule[j]])
             /\ \A j, k \in 1..m : j < k => rule[j] < rule[k]
             /\ \A i \in F : \E j \in 1..m : rule[j] = i
      BY <3>1 DEF FoundInv, Lists
    <3> HIDE DEF q, m, new, F, G
    <3> DEFINE longer == [j \in 1..m + 1 |-> IF j = m + 1 THEN n ELSE rule[j]]
    <3>4. longer[m + 1] = n /\ \A j \in 1..m : longer[j] = rule[j]
      BY <3>1
    <3>5. longer \in [DOMAIN new.points -> G]
      BY <2>3, <3>1, <3>2, <3>3
    <3>6. \A j \in 1..m : rule[j] \in F /\ rule[j] < n
      BY <1>0, <3>3 DEF F
    <3> HIDE DEF longer
    <3>7. 1..m + 1 = (1..m) \cup {m + 1}
      BY <3>1
    <3>8. \A j \in 1..m + 1 : new.points[j] = PointOf(KyivPoints[longer[j]])
      BY <3>2, <3>3, <3>4, <3>7
    <3>9. ASSUME NEW j \in 1..m + 1, NEW k \in 1..m + 1, j < k
          PROVE  longer[j] < longer[k]
      <4>1. j \in 1..m
        BY <3>1, <3>9
      <4>2. CASE k = m + 1
        BY <3>4, <3>6, <4>1, <4>2
      <4>3. CASE k \in 1..m
        BY <3>3, <3>4, <3>9, <4>1, <4>3
      <4> QED
        BY <3>7, <4>2, <4>3
    <3>10. ASSUME NEW i \in G
           PROVE  \E j \in 1..m + 1 : longer[j] = i
      <4>1. CASE i = n
        BY <3>4, <3>7, <4>1
      <4>2. CASE i \in F
        BY <3>3, <3>4, <3>7, <4>2
      <4> QED
        BY <2>3, <4>1, <4>2
    <3>11. /\ longer \in [DOMAIN new.points -> G]
           /\ \A j \in DOMAIN new.points : new.points[j] = PointOf(KyivPoints[longer[j]])
           /\ \A j, k \in DOMAIN new.points : j < k => longer[j] < longer[k]
           /\ \A i \in G : \E j \in DOMAIN new.points : longer[j] = i
      BY <3>2, <3>5, <3>8, <3>9, <3>10
    <3> QED
      BY <3>11 DEF Lists
  <2>8. new.points \in Seq([nameUA : {KyivPoints[i].nameUA : i \in DOMAIN KyivPoints},
                            raion : Raions])
    BY <2>1, <2>6 DEF FoundInv
  <2> QED
    BY <2>4, <2>5, <2>7, <2>8 DEF FoundInv
<1> QED
  BY <1>1, <1>2, <1>3

\* After the last turn that holds of all rules.
LEMMA Listed ==
  ASSUME NEW t
  PROVE  FoundInv(Turns(t)[Len(KyivPoints)], Len(KyivPoints), t)
<1> DEFINE Wrong == {n \in 0..Len(KyivPoints) : ~FoundInv(Turns(t)[n], n, t)}
<1>1. SUFFICES ASSUME Wrong # {} PROVE FALSE
  BY ParserAssumption
<1>2. PICK n \in Wrong : \A m \in Wrong : n <= m
  <2>1. Wrong \in SUBSET Nat
    BY ParserAssumption
  <2> HIDE DEF Wrong
  <2> QED
    BY <1>1, <2>1, Least
<1>3. n # 0
  <2>1. /\ NothingFound.points = <<>>
        /\ NothingFound.seen = {}
        /\ NothingFound.raions = {}
    BY DEF NothingFound
  <2>2. 1..0 = {}
    OBVIOUS
  <2>3. Lists(NothingFound.points, {})
    <3> DEFINE q == NothingFound.points
    <3>1. DOMAIN q = {}
      BY <2>1
    <3> HIDE DEF q
    <3> DEFINE none == [j \in {} |-> 0]
    <3>2. none \in [{} -> {}]
      OBVIOUS
    <3> HIDE DEF none
    <3>3. /\ none \in [DOMAIN q -> {}]
          /\ \A j \in DOMAIN q : q[j] = PointOf(KyivPoints[none[j]])
          /\ \A j, k \in DOMAIN q : j < k => none[j] < none[k]
          /\ \A i \in {} : \E j \in DOMAIN q : none[j] = i
      BY <3>1, <3>2
    <3>4. Lists(q, {})
      BY <3>3 DEF Lists
    <3> QED
      BY <3>4 DEF q
  <2>4. FoundInv(NothingFound, 0, t)
    BY <2>1, <2>2, <2>3 DEF FoundInv
  <2> QED
    BY <1>2, <2>4, TurnsDefined
<1>4. n \in 1..Len(KyivPoints) /\ n - 1 \in 0..Len(KyivPoints) /\ n - 1 \notin Wrong
  <2>1. n \in 1..Len(KyivPoints) /\ n - 1 \in 0..Len(KyivPoints)
    BY <1>3, ParserAssumption
  <2> HIDE DEF Wrong
  <2> QED
    BY <1>2, <2>1, ParserAssumption
<1>5. FoundInv(Turns(t)[n - 1], n - 1, t)
  BY <1>4
<1>6. FoundInv(Visit(Turns(t)[n - 1], KyivPoints[n], t), n, t)
  BY <1>4, <1>5, FoundStep
<1>7. FoundInv(Turns(t)[n], n, t)
  BY <1>4, <1>6, TurnsDefined
<1> QED
  BY <1>2, <1>7

\* What the parser makes of a text is the list of the places in it.
LEMMA Reported ==
  ASSUME NEW t
  PROVE  /\ Lists(ExtractLocation(t).points, Firsts(t))
         /\ {KyivPoints[i].raion : i \in Firsts(t)} \subseteq ExtractLocation(t).raions
<1>1. Firsts(t) \cap 1..Len(KyivPoints) = Firsts(t)
  BY ParserAssumption DEF Firsts, Named
<1> QED
  BY <1>1, Listed DEF FoundInv, ExtractLocation

\* A text that names a place is not left to the dictionary or to Nominatim.
LEMMA NamedIsSomewhere ==
  ASSUME NEW t, Named(t) # {}
  PROVE  ExtractLocation(t) # Nowhere
<1>0. Named(t) \in SUBSET Nat
  BY ParserAssumption DEF Named
<1>1. PICK i \in Named(t) : \A j \in Named(t) : i <= j
  BY <1>0, Least
<1>2. i \in Firsts(t)
  BY <1>1 DEF Firsts
<1>3. KyivPoints[i].raion \in ExtractLocation(t).raions
  BY <1>2, Reported
<1>4. Nowhere.raions = {}
  BY DEF Nowhere
<1> QED
  BY <1>3, <1>4

\* A caller whose key is one of the parser's has been answered by it.
LocatedInv ==
    \A c \in Callers :
        key[c] \in Located => pc[c] = "idle" /\ result[c] = ExtractLocation(Holds[key[c]])

LEMMA LocatedStep ==
  ASSUME TypeOK, KeyInv, LocatedInv, [Next]_vars
  PROVE  LocatedInv'
<1> USE DEF TypeOK, KeyInv, LocatedInv
<1>0. /\ Located \cap Asked = {} /\ Blank \notin Located
      /\ \A c \in Callers : pc[c] # "idle" => key[c] \notin Located
  BY GeocoderAssumption DEF Located
<1> HIDE DEF Asked
<1>1. CASE Tick
  BY <1>1 DEF Tick
<1>2. ASSUME NEW c \in Callers, Step(c)
      PROVE  LocatedInv'
  <2>1. ASSUME NEW k \in Keys \cup {Blank}, Local(c, k)
        PROVE  LocatedInv'
    <3>1. /\ key' = [key EXCEPT ![c] = k]
          /\ \A d \in Callers \ {c} : pc'[d] = pc[d] /\ result'[d] = result[d]
      BY <2>1 DEF Local, Return
    <3>2. k \in Located => pc'[c] = "idle" /\ result'[c] = ExtractLocation(Holds[k])
      BY <1>0, <2>1 DEF Local, Return
    <3> QED
      BY <3>1, <3>2
  <2>2. ASSUME NEW k \in Keys \cup {Blank}, Hit(c, k) \/ Miss(c, k)
        PROVE  LocatedInv'
    <3>1. /\ key' = [key EXCEPT ![c] = k] /\ k \notin Located
          /\ \A d \in Callers \ {c} : pc'[d] = pc[d] /\ result'[d] = result[d]
      BY <1>0, <2>2 DEF Hit, Miss, Return
    <3> QED
      BY <3>1
  <2>3. CASE Acquire(c) \/ Grant(c)
    BY <1>0, <2>3 DEF Acquire, Grant
  <2>4. CASE Expire(c) \/ Fail(c)
    BY <1>0, <2>4 DEF Expire, Fail, Return
  <2>5. ASSUME NEW a \in Answers, Answer(c, a)
        PROVE  LocatedInv'
    BY <1>0, <2>5 DEF Answer, Return
  <2> QED
    BY <1>2, <2>1, <2>2, <2>3, <2>4, <2>5 DEF Step
<1>3. CASE UNCHANGED vars
  BY <1>3 DEF vars
<1> QED
  BY <1>1, <1>2, <1>3 DEF Next

\* Whatever the table and the text, the caller is shown each place that the text
\* names, once and in the order of the table, with its raion, and nothing that it
\* does not name; and no call for such a text waits or asks Nominatim (the loop,
\* its breaks and seenPointNames in parser.go ExtractLocation; Resolve).
THEOREM NamedPlacesCorrect == Spec => []NamedPlacesShown
<1>1. Init => LocatedInv
  BY GeocoderAssumption DEF Init, LocatedInv, Located
<1>2. TypeOK /\ KeyInv /\ LocatedInv /\ [Next]_vars => LocatedInv'
  BY LocatedStep
<1>3. TypeOK /\ LocatedInv => NamedPlacesShown
  <2> SUFFICES ASSUME TypeOK, LocatedInv, NEW c \in Callers, Named(Holds[key[c]]) # {}
               PROVE  /\ pc[c] = "idle"
                      /\ Lists(result[c].points, Firsts(Holds[key[c]]))
                      /\ {KyivPoints[i].raion : i \in Firsts(Holds[key[c]])}
                            \subseteq result[c].raions
    BY DEF NamedPlacesShown
  <2>1. key[c] # Blank /\ key[c] \in Keys
    BY GeocoderAssumption DEF TypeOK, Named
  <2>2. key[c] \in Located
    BY <2>1, NamedIsSomewhere DEF Located
  <2> QED
    BY <2>2, Reported DEF LocatedInv
<1> QED
  BY <1>1, <1>2, <1>3, TypeCorrect, KeyCorrect, PTL DEF Spec
==============================================================================
