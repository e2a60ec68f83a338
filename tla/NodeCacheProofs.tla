-------------------------- MODULE NodeCacheProofs --------------------------
(***************************************************************************)
(* Proofs about NodeCache, for every width of a Duration, every setting and *)
(* clocks set back and forward without bound.                              *)
(***************************************************************************)
EXTENDS NodeCache, TLAPS

(* A number that does not fit only ever becomes smaller, and what it becomes
   fits. *)
LEMMA ModBounds ==
  ASSUME NEW m \in Nat, NEW d \in Nat \ {0}
  PROVE  m % d \in 0 .. d - 1 /\ m % d <= m
  <1>1. m % d \in 0 .. d - 1
    BY SMT
  <1>2. m = (d * (m \div d)) + (m % d)
    BY SMT
  <1>3. m \div d \in Nat
    BY SMT
  <1>4. d * (m \div d) >= 0
    BY <1>3, SMT
  <1> QED
    BY <1>1, <1>2, <1>3, <1>4, SMT

LEMMA WrapBounds ==
  ASSUME NEW n \in Int, n >= -Half
  PROVE  Wrap(n) \in Durations /\ Wrap(n) <= n
  <1>1. Half \in Nat \ {0}
    BY DurationAssumption
  <1>2. n + Half \in Nat /\ 2 * Half \in Nat \ {0}
    BY <1>1
  <1>3. (n + Half) % (2 * Half) \in 0 .. 2 * Half - 1 /\ (n + Half) % (2 * Half) <= n + Half
    BY <1>2, ModBounds
  <1> QED
    BY <1>1, <1>3 DEF Wrap, Durations

LEMMA SettingBounds ==
  ASSUME NEW raw \in Texts \cup {Unset}, NEW unset \in Durations,
         NEW d \in DurationSetting(raw, unset)
  PROVE  d \in Durations /\ d <= Asked(raw, unset)
  <1> Durations \subseteq Int
    BY DurationAssumption DEF Durations
  <1>1. CASE raw = Unset
    BY <1>1 DEF DurationSetting, Asked
  <1>2. CASE raw # Unset /\ raw \in DOMAIN Bare
    <2> DEFINE n == Bare[raw] * Second
    <2> raw \in Texts \cap DOMAIN Bare
      BY <1>2
    <2>1. n \in Int /\ n >= -Half
      <3>1. Bare[raw] \in Int /\ Second \in Int
        BY DurationAssumption
      <3>2. Bare[raw] * Second >= -Half
        BY TextsAssumption
      <3> QED
        BY <3>1, <3>2
    <2>2. d = Wrap(n) /\ Asked(raw, unset) = n
      BY <1>2 DEF DurationSetting, Asked
    <2> HIDE DEF n
    <2> QED
      BY <2>1, <2>2, WrapBounds
  <1>3. CASE raw # Unset /\ raw \notin DOMAIN Bare
    <2>1. raw \in DOMAIN Spelled /\ d = Spelled[raw]
      BY <1>3 DEF DurationSetting
    <2>2. d \in Durations
      BY <2>1, DurationAssumption DEF Durations
    <2>3. Asked(raw, unset) = d
      BY <1>3, <2>1 DEF Asked
    <2> QED
      BY <2>2, <2>3
  <1> QED
    BY <1>1, <1>2, <1>3

----------------------------------------------------------------------------
(* The inductive invariant: a fetch never has a duration longer than was asked
   for, and an entry has aged, by the wall clock, as long as it really has but
   for what the clock was set back since. *)

WithinAsked ==
  pc # "idle" =>
    /\ Asked(conf.text.ttl, DefaultTTL) \in Int
    /\ conf.ttl <= Asked(conf.text.ttl, DefaultTTL)
    /\ Asked(conf.text.maxStale, DefaultMaxStale) \in Int
    /\ conf.maxStale <= Asked(conf.text.maxStale, DefaultMaxStale)

TrueAge == \A e \in entry : real - e.real <= Age(e) + (back - e.back)

IInv == TypeOK /\ WithinAsked /\ TrueAge /\ HitWithinTTL /\ StaleWithinMaxAge

LEMMA DurationsAreInt == Durations \subseteq Int /\ 0 \in Durations
  BY DurationAssumption DEF Durations

LEMMA AskedIsInt ==
  ASSUME NEW raw \in Texts \cup {Unset}, NEW unset \in Durations,
         DurationSetting(raw, unset) # {}
  PROVE  Asked(raw, unset) \in Int
  <1>1. CASE raw = Unset
    BY <1>1, DurationsAreInt DEF Asked
  <1>2. CASE raw # Unset /\ raw \in DOMAIN Bare
    BY <1>2, DurationAssumption DEF Asked
  <1>3. CASE raw # Unset /\ raw \notin DOMAIN Bare
    <2>1. raw \in DOMAIN Spelled
      BY <1>3 DEF DurationSetting
    <2> QED
      BY <1>3, <2>1, DurationAssumption DEF Asked
  <1> QED
    BY <1>1, <1>2, <1>3

LEMMA LoadKeepsWithin ==
  ASSUME IInv, Load
  PROVE  conf' \in [text : Pairs(Texts \cup {Unset}), ttl : Durations, maxStale : Durations]
         /\ WithinAsked'
  <1>1. PICK ttl \in DurationSetting(text.ttl, DefaultTTL),
             maxStale \in DurationSetting(text.maxStale, DefaultMaxStale) :
          conf' = [text |-> text, ttl |-> ttl, maxStale |-> maxStale]
    BY DEF Load
  <1>2. /\ text \in Pairs(Texts \cup {Unset})
        /\ text.ttl \in Texts \cup {Unset} /\ text.maxStale \in Texts \cup {Unset}
    BY DEF IInv, TypeOK, Pairs
  <1>3. DefaultTTL \in Durations /\ DefaultMaxStale \in Durations
    BY TextsAssumption
  <1>4. /\ ttl \in Durations /\ ttl <= Asked(text.ttl, DefaultTTL)
        /\ maxStale \in Durations /\ maxStale <= Asked(text.maxStale, DefaultMaxStale)
    BY <1>2, <1>3, SettingBounds
  <1>5. /\ Asked(text.ttl, DefaultTTL) \in Int
        /\ Asked(text.maxStale, DefaultMaxStale) \in Int
    BY <1>2, <1>3, AskedIsInt
  <1>6. conf'.text = text /\ conf'.ttl = ttl /\ conf'.maxStale = maxStale
    BY <1>1
  <1>7. WithinAsked'
    BY <1>4, <1>5, <1>6 DEF WithinAsked
  <1> QED
    BY <1>1, <1>2, <1>4, <1>7

(* Served under a limit, an entry is within what was asked for. *)
LEMMA AnswerWithin ==
  ASSUME IInv, NEW src, NEW e \in entry, Answer(src, e),
         NEW limit \in Int, NEW asked \in Int, limit <= asked, Age(e) <= limit
  PROVE  \A a \in last' :
           /\ a.src = src /\ a.text = conf.text
           /\ a.age \in Int /\ a.steps \in Int /\ a.age <= asked + a.steps
  <1>1. e \in Stamp
    BY DEF IInv, TypeOK
  <1>2. real \in Nat /\ back \in Nat /\ wall \in Int
    BY DEF IInv, TypeOK
  <1>3. e.at \in Int /\ e.real \in Nat /\ e.back \in Nat
    BY <1>1 DEF Stamp
  <1>4. real - e.real <= Age(e) + (back - e.back)
    BY DEF IInv, TrueAge
  <1>5. real - e.real <= asked + (back - e.back)
    BY <1>2, <1>3, <1>4 DEF Age
  <1>6. last' = {[src |-> src, age |-> real - e.real, steps |-> back - e.back, text |-> conf.text]}
    BY DEF Answer
  <1> QED
    BY <1>2, <1>3, <1>5, <1>6

LEMMA HitLimit ==
  ASSUME IInv, NEW e \in entry, pc # "idle"
  PROVE  /\ conf.ttl \in Int /\ conf.maxStale \in Int
         /\ Fresh(e) => Age(e) <= conf.ttl
         /\ Usable(e) => Age(e) <= conf.maxStale
  <1>1. conf.ttl \in Int /\ conf.maxStale \in Int
    BY DurationsAreInt DEF IInv, TypeOK
  <1>2. wall - e.at \in Int
    BY DEF IInv, TypeOK, Stamp
  <1>3. Fresh(e) => Age(e) <= conf.ttl
    BY DEF Fresh
  <1>4. Usable(e) => Age(e) <= conf.maxStale
    BY <1>1, <1>2 DEF Usable, Stale, Age
  <1> QED
    BY <1>1, <1>3, <1>4

LEMMA AnswerTypes ==
  ASSUME IInv, NEW src \in {"live", "hit", "stale"}, NEW e \in entry, Answer(src, e)
  PROVE  /\ last' \in SUBSET Given /\ pc' = "idle" /\ conf' = NoConf
         /\ UNCHANGED <<Clock, text>>
  <1>1. e \in Stamp /\ real \in Nat /\ back \in Nat
    BY DEF IInv, TypeOK
  <1>2. real - e.real \in Int /\ back - e.back \in Int
    BY <1>1 DEF Stamp
  <1>3. conf.text \in Pairs(Texts \cup {Unset})
    BY DEF IInv, TypeOK
  <1> QED
    BY <1>2, <1>3 DEF Answer, Given

LEMMA NoConfTyped ==
  NoConf \in [text : Pairs(Texts \cup {Unset}), ttl : Durations, maxStale : Durations]
  BY DurationsAreInt DEF NoConf, NoText, Pairs

LEMMA Invariance == Spec => []IInv
  <1>1. Init => IInv
    BY NoConfTyped DEF Init, IInv, TypeOK, WithinAsked, TrueAge, HitWithinTTL,
                       StaleWithinMaxAge, NoText, Pairs
  <1>2. IInv /\ [Next]_vars => IInv'
    <2> SUFFICES ASSUME IInv, [Next]_vars PROVE IInv'
      OBVIOUS
    <2> USE DEF IInv
    <2>1. CASE Tick
      BY <2>1 DEF Tick, TypeOK, WithinAsked, TrueAge, Age, Stamp, HitWithinTTL, StaleWithinMaxAge
    <2>2. CASE SetBack
      BY <2>2 DEF SetBack, TypeOK, WithinAsked, TrueAge, Age, Stamp, HitWithinTTL, StaleWithinMaxAge
    <2>3. CASE SetForward
      BY <2>3 DEF SetForward, TypeOK, WithinAsked, TrueAge, Age, Stamp, HitWithinTTL, StaleWithinMaxAge
    <2>4. CASE Configure
      BY <2>4 DEF Configure, Clock, Pairs, TypeOK, WithinAsked, TrueAge, Age, HitWithinTTL, StaleWithinMaxAge
    <2>5. CASE Load
      BY <2>5, LoadKeepsWithin DEF Load, Clock, TypeOK, TrueAge, Age, HitWithinTTL, StaleWithinMaxAge
    <2>6. CASE Hit
      <3>1. PICK e \in entry : Fresh(e) /\ Answer("hit", e)
        BY <2>6 DEF Hit
      <3>2. pc = "get" /\ entry' = entry
        BY <2>6 DEF Hit
      <3>3. TypeOK' /\ WithinAsked' /\ TrueAge'
        BY <3>1, <3>2, AnswerTypes, NoConfTyped DEF Clock, TypeOK, WithinAsked, TrueAge, Age
      <3>4. \A a \in last' :
              /\ a.src = "hit" /\ a.text = conf.text
              /\ a.age <= Asked(conf.text.ttl, DefaultTTL) + a.steps
        BY <3>1, <3>2, HitLimit, AnswerWithin DEF WithinAsked
      <3> QED
        BY <3>3, <3>4 DEF HitWithinTTL, StaleWithinMaxAge
    <2>7. CASE Miss
      BY <2>7 DEF Miss, Clock, TypeOK, WithinAsked, TrueAge, Age, HitWithinTTL, StaleWithinMaxAge
    <2>8. CASE Put
      <3>1. last' = {Live} /\ conf' = NoConf /\ pc' = "idle" /\ UNCHANGED <<Clock, text>>
        BY <2>8 DEF Put
      <3>2. entry' = {[at |-> wall, real |-> real, back |-> back]} \/ entry' = entry
        BY <2>8 DEF Put
      <3>3. Live \in Given
        BY DEF Live, Given, NoText, Pairs
      <3>4. TypeOK' /\ WithinAsked'
        BY <3>1, <3>2, <3>3, NoConfTyped DEF TypeOK, Clock, Stamp, WithinAsked
      <3>5. TrueAge'
        BY <3>1, <3>2 DEF TypeOK, Clock, TrueAge, Age
      <3> QED
        BY <3>1, <3>4, <3>5 DEF HitWithinTTL, StaleWithinMaxAge, Live
    <2>9. CASE ServeStale
      <3>1. PICK e \in entry : Usable(e) /\ Answer("stale", e)
        BY <2>9 DEF ServeStale
      <3>2. pc = "resolve" /\ entry' = entry
        BY <2>9 DEF ServeStale
      <3>3. TypeOK' /\ WithinAsked' /\ TrueAge'
        BY <3>1, <3>2, AnswerTypes, NoConfTyped DEF Clock, TypeOK, WithinAsked, TrueAge, Age
      <3>4. \A a \in last' :
              /\ a.src = "stale" /\ a.text = conf.text
              /\ a.age <= Asked(conf.text.maxStale, DefaultMaxStale) + a.steps
        BY <3>1, <3>2, HitLimit, AnswerWithin DEF WithinAsked
      <3> QED
        BY <3>3, <3>4 DEF HitWithinTTL, StaleWithinMaxAge
    <2>10. CASE End
      BY <2>10, NoConfTyped DEF End, Clock, TypeOK, WithinAsked, TrueAge, Age, HitWithinTTL, StaleWithinMaxAge
    <2>11. CASE UNCHANGED vars
      BY <2>11 DEF vars, TypeOK, WithinAsked, TrueAge, Age, HitWithinTTL, StaleWithinMaxAge
    <2> QED
      BY <2>1, <2>2, <2>3, <2>4, <2>5, <2>6, <2>7, <2>8, <2>9, <2>10, <2>11 DEF Next
  <1> QED
    BY <1>1, <1>2, PTL DEF Spec

----------------------------------------------------------------------------
(***************************************************************************)
(* Whatever text an operator writes, and however many seconds it stands for, *)
(* what a fetch works with is a Duration (config.go:214-231).                *)
(***************************************************************************)
THEOREM NodeCacheTypes == Spec => []TypeOK
  BY Invariance, PTL DEF IInv

(***************************************************************************)
(* What Get serves is no older than OP_CACHE_TTL asks for, but for what the  *)
(* clock was set back since the Put: for every Duration width and every      *)
(* number of seconds, in range or not (cache.go:51-61, config.go:214-231).  *)
(***************************************************************************)
THEOREM HitsAreYoung == Spec => []HitWithinTTL
  BY Invariance, PTL DEF IInv

(***************************************************************************)
(* The same of stale answers and OP_CACHE_MAX_STALE (cache.go:66-76,         *)
(* plugin.go:251).                                                         *)
(***************************************************************************)
THEOREM StaleAnswersAreYoung == Spec => []StaleWithinMaxAge
  BY Invariance, PTL DEF IInv

(***************************************************************************)
(* With both settings at zero or less the cache is neither written nor read  *)
(* (config.go:180-193, plugin.go:152-165).                                  *)
(***************************************************************************)
THEOREM OffIsOff == Spec => OffMeansOff
  <1> DEFINE Off == /\ conf.text.ttl # Unset /\ conf.text.maxStale # Unset
                    /\ Asked(conf.text.ttl, DefaultTTL) <= 0
                    /\ Asked(conf.text.maxStale, DefaultMaxStale) <= 0
             Untouched == UNCHANGED entry /\ last' \subseteq {Live}
  <1>1. ASSUME IInv, Next, Off
        PROVE  Untouched
    <2>1. CASE pc = "idle"
      BY <1>1, <2>1 DEF Next, Tick, SetBack, SetForward, Configure, Load, Hit, Miss, Put,
                        ServeStale, End
    <2>2. CASE pc # "idle"
      <3>1. ~Caches
        <4>1. conf.ttl \in Int /\ conf.maxStale \in Int
          BY <1>1, DurationsAreInt DEF IInv, TypeOK
        <4> QED
          BY <1>1, <2>2, <4>1 DEF IInv, WithinAsked, Caches
      <3> QED
        BY <1>1, <3>1 DEF Next, Tick, SetBack, SetForward, Configure, Load, Hit, Miss, Put,
                          ServeStale, End, Fresh, Usable
    <2> QED
      BY <2>1, <2>2
  <1>2. IInv /\ [Next]_vars => [Off => Untouched]_vars
    BY <1>1
  <1> QED
    BY <1>2, Invariance, PTL DEF Spec, OffMeansOff
=============================================================================
