------------------------------ MODULE NodeCache ------------------------------
(***************************************************************************)
(* The age of what the cache serves, on a node whose wall clock is set, and *)
(* under the durations the operator writes (internal/cache/cache.go,        *)
(* durationSetting).  One reference, one fetch at a time: FetchCache has    *)
(* the interleavings, with a clock that only advances.                     *)
(*                                                                         *)
(* An entry is stamped with the wall clock and read back from JSON, without *)
(* a monotonic reading, so its age is a difference of wall clocks.  The     *)
(* time that really passed, and by how much the clock was set back, are     *)
(* known to this module only.                                              *)
(***************************************************************************)
EXTENDS Durations

CONSTANTS
  Texts,            \* what the operator writes as a duration
  DefaultTTL,       \* of OP_CACHE_TTL
  DefaultMaxStale,  \* of OP_CACHE_MAX_STALE
  MaxReal,          \* bound: time ends here
  MaxSet            \* bound: how far the clock is set back, and forward

Durations == -Half .. Half - 1

(* What a text asks for, as a number without a width. *)
Asked(raw, default) ==
  IF raw = Unset THEN default
  ELSE IF raw \in DOMAIN Bare THEN Bare[raw] * Second ELSE Spelled[raw]

(* A number of seconds that is below the smallest Duration is no setting. *)
ASSUME TextsAssumption ==
  /\ Texts \subseteq STRING
  /\ DefaultTTL \in Durations /\ DefaultMaxStale \in Durations
  /\ \A raw \in Texts \cap DOMAIN Bare : Bare[raw] * Second >= -Half
  /\ MaxReal \in Nat /\ MaxSet \in Nat

VARIABLES
  wall,   \* time.Now(), as the processes see it
  real,   \* the time that has passed
  back,   \* by how much the clock has been set back in all
  ahead,  \* by how much it has been set forward
  text,   \* the host file: [ttl, maxStale] as the operator has written them
  pc,     \* the fetch in progress: "idle", "get" or "resolve"
  conf,   \* its configuration: text, and the Durations [ttl, maxStale]
  entry,  \* the entry file: {} or one [at], with real and back at the Put
  last    \* the answer of the step just taken: {} or one [src], with the true
          \* age of the entry served and what the clock was set back in its life

vars == <<wall, real, back, ahead, text, pc, conf, entry, last>>

Clock  == <<wall, real, back, ahead>>
Pairs(S) == [ttl : S, maxStale : S]
NoText == [ttl |-> Unset, maxStale |-> Unset]
NoConf == [text |-> NoText, ttl |-> 0, maxStale |-> 0]
Stamp  == [at : Int, real : Nat, back : Nat]
Live   == [src |-> "live", age |-> 0, steps |-> 0, text |-> NoText]
Given  == [src : {"live", "hit", "stale"}, age : Int, steps : Int, text : Pairs(Texts \cup {Unset})]

TypeOK ==
  /\ wall \in Int /\ real \in Nat /\ back \in Nat /\ ahead \in Nat
  /\ text \in Pairs(Texts \cup {Unset})
  /\ pc \in {"idle", "get", "resolve"}
  /\ conf \in [text : Pairs(Texts \cup {Unset}), ttl : Durations, maxStale : Durations]
  /\ entry \in SUBSET Stamp
  /\ last \in SUBSET Given

Init ==
  /\ wall = 0 /\ real = 0 /\ back = 0 /\ ahead = 0
  /\ text = NoText /\ pc = "idle" /\ conf = NoConf /\ entry = {} /\ last = {}

----------------------------------------------------------------------------
(* The node *)

Tick ==
  /\ real < MaxReal
  /\ real' = real + 1 /\ wall' = wall + 1 /\ last' = {}
  /\ UNCHANGED <<back, ahead, text, pc, conf, entry>>

SetBack ==
  /\ back < MaxSet
  /\ back' = back + 1 /\ wall' = wall - 1 /\ last' = {}
  /\ UNCHANGED <<real, ahead, text, pc, conf, entry>>

SetForward ==
  /\ ahead < MaxSet
  /\ ahead' = ahead + 1 /\ wall' = wall + 1 /\ last' = {}
  /\ UNCHANGED <<real, back, text, pc, conf, entry>>

Configure ==
  /\ pc = "idle"
  /\ text' \in Pairs(Texts)
  /\ last' = {}
  /\ UNCHANGED <<Clock, pc, conf, entry>>

----------------------------------------------------------------------------
(* A fetch *)

(* LoadConfig; a text that is no duration ends the fetch. *)
Load ==
  /\ pc = "idle" /\ pc' = "get" /\ last' = {}
  /\ \E ttl \in DurationSetting(text.ttl, DefaultTTL),
        maxStale \in DurationSetting(text.maxStale, DefaultMaxStale) :
       conf' = [text |-> text, ttl |-> ttl, maxStale |-> maxStale]
  /\ UNCHANGED <<Clock, text, entry>>

(* Without either use of the cache there is no cache directory. *)
Caches == conf.ttl > 0 \/ conf.maxStale > 0

Age(e) == wall - e.at

(* Cache.Get. *)
Fresh(e) == Caches /\ conf.ttl > 0 /\ Age(e) <= conf.ttl

(* Cache.Stale, which has no limit for a maxAge of zero or less, where
   fetchOne calls it. *)
Stale(e, maxAge) == ~(maxAge > 0 /\ Age(e) > maxAge)
StaleUnguarded(e) == Caches /\ Stale(e, conf.maxStale)  \* slip: no test of MaxStale
Usable(e) == Caches /\ conf.maxStale > 0 /\ Stale(e, conf.maxStale)

Answer(src, e) ==
  /\ pc' = "idle" /\ conf' = NoConf
  /\ last' = {[src |-> src, age |-> real - e.real, steps |-> back - e.back, text |-> conf.text]}
  /\ UNCHANGED <<Clock, text>>

HitAndTouch ==  \* slip: a hit is put again
  /\ pc = "get"
  /\ \E e \in entry :
       /\ Fresh(e) /\ Answer("hit", e)
       /\ entry' = {[e EXCEPT !.at = wall]}

Hit ==
  /\ pc = "get"
  /\ \E e \in entry : Fresh(e) /\ Answer("hit", e)
  /\ UNCHANGED entry

Miss ==
  /\ pc = "get" /\ pc' = "resolve" /\ last' = {}
  /\ \A e \in entry : ~Fresh(e)
  /\ UNCHANGED <<Clock, text, conf, entry>>

PutAlways ==  \* slip: the cache is opened whatever the durations
  /\ pc = "resolve" /\ pc' = "idle" /\ conf' = NoConf
  /\ last' = {Live}
  /\ entry' = {[at |-> wall, real |-> real, back |-> back]}
  /\ UNCHANGED <<Clock, text>>

(* The backend answers: the value is put, unless there is no cache. *)
Put ==
  /\ pc = "resolve" /\ pc' = "idle" /\ conf' = NoConf
  /\ last' = {Live}
  /\ entry' = IF Caches THEN {[at |-> wall, real |-> real, back |-> back]} ELSE entry
  /\ UNCHANGED <<Clock, text>>

(* The backend fails. *)
ServeStale ==
  /\ pc = "resolve"
  /\ \E e \in entry : Usable(e) /\ Answer("stale", e)
  /\ UNCHANGED entry

(* A miss with a backend that fails, or a process that is killed. *)
End ==
  /\ pc # "idle" /\ pc' = "idle" /\ conf' = NoConf /\ last' = {}
  /\ UNCHANGED <<Clock, text, entry>>

Next ==
  \/ Tick \/ SetBack \/ SetForward \/ Configure
  \/ Load \/ Hit \/ Miss \/ Put \/ ServeStale \/ End

Spec == Init /\ [][Next]_vars
----------------------------------------------------------------------------
(* Properties *)

(* "Serve cached values this long without re-fetching" (user-guide.md): an entry
   served by Get is no older than the operator asked for, plus what the clock
   was set back since the Put - also when the number of seconds has no Duration
   and wraps around (durationSetting), and after a change of the setting. *)
HitWithinTTL ==
  \A a \in last :
    a.src = "hit" => a.age <= Asked(a.text.ttl, DefaultTTL) + a.steps

(* The same of a stale answer and OP_CACHE_MAX_STALE: Cache.Stale itself has no
   limit when maxAge has wrapped to zero or less, fetchOne does not call it. *)
StaleWithinMaxAge ==
  \A a \in last :
    a.src = "stale" => a.age <= Asked(a.text.maxStale, DefaultMaxStale) + a.steps

(* A fetch whose settings ask for neither freshness nor stale answers leaves the
   directory as it is and does not serve what an earlier fetch put there. *)
OffMeansOff ==
  [][/\ conf.text.ttl # Unset /\ conf.text.maxStale # Unset
     /\ Asked(conf.text.ttl, DefaultTTL) <= 0
     /\ Asked(conf.text.maxStale, DefaultMaxStale) <= 0
     => UNCHANGED entry /\ last' \subseteq {Live}]_vars
=============================================================================
