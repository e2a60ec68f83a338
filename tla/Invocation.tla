----------------------------- MODULE Invocation -----------------------------
(***************************************************************************)
(* What one node does with a path: an operator runs `check` on it, and then *)
(* Nomad runs `fetch` in the same world (internal/plugin).  Reading the     *)
(* configuration, scrubbing the environment, splitting the path, routing    *)
(* its entries, the clients that providers build on first use, and the      *)
(* resolve goroutines that a fetch may leave behind.  What concurrent       *)
(* fetches do to the cache is in FetchCache, what becomes of the values in  *)
(* FetchMerge.                                                             *)
(*                                                                         *)
(* A world is                                                              *)
(*   files, env, path   what there is, by name                             *)
(*   down    what does not work: <<"ping", s>> and <<"client", s>> of the   *)
(*           provider of scheme s, <<"secret", text>>                      *)
(*   cached  text -> "none", "fresh" or "stale"; all "none" also stands for *)
(*           a directory that cannot be used                               *)
(***************************************************************************)
EXTENDS Config, References

CONSTANTS
  HostFiles, Environments, Tokens, Paths,  \* what the names in a world stand for
  Worlds,
  Malformed   \* texts that the provider they are routed to cannot parse

Schemes == {Op, Ssm, Sm}

(* What SplitEntries makes of a path is a sequence, with an entry. *)
ASSUME PathsAssumption ==
  \A p \in DOMAIN Paths : \A split \in SplitEntries(Paths[p]) :
    Len(split) \in Nat \ {0} /\ DOMAIN split = 1..Len(split)

ASSUME WorldsAssumption == \A w \in Worlds : w.path \in DOMAIN Paths

VARIABLES
  world,      \* never changes
  run,        \* "check", and then "fetch"
  pc,         \* where the process is
  env,        \* its environment
  cfg,        \* {}, or the configuration it has loaded
  ctx,        \* its context: "live" or "done"
  entries,    \* what the path was split into
  answers,    \* how each entry so far has ended
  cached,     \* the cache directory
  work,       \* the resolve goroutine of each entry
  abandoned,  \* entries whose goroutine was not waited for
  builder,    \* scheme -> the entry whose goroutine built its client, 0 if none
  builds,     \* history: how often a scheme's client was built
  verdict     \* history: how the check ended

process    == <<env, cfg, ctx, entries>>
goroutines == <<work, abandoned, builder, builds>>
vars == <<world, run, pc, process, answers, cached, goroutines, verdict>>

Ended == {"done", "failed", "crashed"}

----------------------------------------------------------------------------
(* State functions *)

Site         == [files |-> HostFiles[world.files], env |-> Environments[world.env],
                 tokens |-> Tokens]
Path         == Paths[world.path]
Current      == entries[Len(answers) + 1].text
Route1(text) == UNION {Route(Registered(c), text) : c \in cfg}
Works(what)  == what \notin world.down
Routed(text) == text \notin Malformed /\ Route1(text) # {}

(* Connect's client is made when the provider is; the SDKs' on first use. *)
Lazy(s) == s # Op \/ \E c \in cfg : c.sa # Unset

Ready(s)         == Lazy(s) => Works(<<"client", s>>)
Answerable(text) ==
  Routed(text) /\ Works(<<"secret", text>>) /\ \A s \in Route1(text) : Ready(s)

HitPossible(text)   == cached[text] = "fresh" /\ \E c \in cfg : c.cacheDir # Unset /\ c.ttl > 0
StalePossible(text) == cached[text] # "none" /\ \E c \in cfg : c.cacheDir # Unset /\ c.maxStale > 0

----------------------------------------------------------------------------
Init ==
  /\ world \in Worlds /\ cached = world.cached
  /\ run = "check" /\ verdict = "none"
  /\ pc = "start" /\ env = Site.env /\ cfg = {} /\ ctx = "live"
  /\ entries = <<>> /\ answers = <<>> /\ work = <<>> /\ abandoned = {}
  /\ builder = [s \in Schemes |-> 0] /\ builds = [s \in Schemes |-> 0]

(* LoadConfig and then sanitizeAWSEnv; a time-out of zero or less leaves a
   context that is done.  The registry is built from what was loaded. *)
ScrubThenLoad(next) ==  \* slip: the wrong order
  /\ env' = SanitizeAWSEnv(env)
  /\ cfg' = LoadConfig([Site EXCEPT !.env = SanitizeAWSEnv(env)])
  /\ ctx' = IF \E c \in cfg' : c.timeout <= 0 THEN "done" ELSE "live"
  /\ pc'  = IF cfg' = {} THEN "failed" ELSE next
GoOn(next) ==  \* slip: the error is printed only
  /\ cfg' = LoadConfig([Site EXCEPT !.env = env])
  /\ env' = SanitizeAWSEnv(env) /\ ctx' = "live" /\ pc' = next
Load(next) ==
  /\ cfg' = LoadConfig([Site EXCEPT !.env = env])
  /\ env' = IF cfg' = {} THEN env ELSE SanitizeAWSEnv(env)
  /\ ctx' = IF \E c \in cfg' : c.timeout <= 0 THEN "done" ELSE "live"
  /\ pc'  = IF cfg' = {} THEN "failed" ELSE next

Split(next) ==
  /\ entries' \in IF SplitEntries(Path) = {} THEN {<<>>} ELSE SplitEntries(Path)
  /\ pc' = IF SplitEntries(Path) = {} THEN "failed" ELSE next

Expire ==
  /\ ctx = "live" /\ cfg # {} /\ pc \notin Ended
  /\ ctx' = "done"
  /\ UNCHANGED <<world, run, pc, env, cfg, entries, answers, cached, goroutines, verdict>>

----------------------------------------------------------------------------
(* Check *)

CheckLoad ==
  /\ run = "check" /\ pc = "start"
  /\ Load("ping")
  /\ UNCHANGED <<world, run, entries, answers, cached, goroutines, verdict>>

(* One provider after the other is pinged; the first failure is the last. *)
PingedBefore(s) == CASE s = Op -> {} [] s = Ssm -> {Op} [] s = Sm -> {Op, Ssm}

CheckPing ==
  /\ run = "check" /\ pc = "ping"
  /\ LET enabled == UNION {Registered(c) : c \in cfg}
         ok(s)   == ctx = "live" /\ Ready(s) /\ Works(<<"ping", s>>)
         pinged  == {s \in enabled : \A t \in enabled \cap PingedBefore(s) : ok(t)}
         built   == {s \in pinged : Lazy(s) /\ Works(<<"client", s>>)}
     IN  /\ builds' = [s \in Schemes |-> IF s \in built THEN 1 ELSE 0]
         /\ pc' = IF \E s \in enabled : ~ok(s) THEN "failed"
                  ELSE IF Path = <<>> THEN "done" ELSE "split"
  /\ UNCHANGED <<world, run, process, answers, cached, work, abandoned, builder, verdict>>

CheckSplit ==
  /\ run = "check" /\ pc = "split"
  /\ Split("entry")
  /\ UNCHANGED <<world, run, env, cfg, ctx, answers, cached, goroutines, verdict>>

(* Every entry is resolved, live and in this goroutine, whatever became of the
   ones before it.  Its clients are built once more, which is not counted. *)
ExitCode(tried) == IF \E i \in DOMAIN tried : tried[i] = "failed" THEN "failed" ELSE "done"

RoutedOnly(text) == IF Routed(text) THEN "live" ELSE "failed"  \* slip: not resolved
StopAtFirst(text) == IF \E i \in DOMAIN answers : answers[i] = "failed" THEN "skipped"  \* slip
                     ELSE IF Answerable(text) /\ ctx = "live" THEN "live" ELSE "failed"
Diagnosis(text) == IF Answerable(text) /\ ctx = "live" THEN "live" ELSE "failed"

CheckEntry ==
  /\ run = "check" /\ pc = "entry"
  /\ answers' = Append(answers, Diagnosis(Current))
  /\ pc' = IF Len(answers') < Len(entries) THEN "entry" ELSE ExitCode(answers')
  /\ UNCHANGED <<world, run, process, cached, goroutines, verdict>>

(* The check is over; some time later Nomad starts a fetch. *)
CheckOver ==
  /\ run = "check" /\ pc \in Ended
  /\ run' = "fetch" /\ verdict' = pc
  /\ UNCHANGED <<world, cached>>
  /\ pc' = "start" /\ env' = Site.env /\ cfg' = {} /\ ctx' = "live"
  /\ entries' = <<>> /\ answers' = <<>> /\ work' = <<>> /\ abandoned' = {}
  /\ builder' = [s \in Schemes |-> 0] /\ builds' = [s \in Schemes |-> 0]

----------------------------------------------------------------------------
(* Fetch *)

FetchSplit ==
  /\ run = "fetch" /\ pc = "start"
  /\ Split("load")
  /\ UNCHANGED <<world, run, env, cfg, ctx, answers, cached, goroutines, verdict>>

FetchLoad ==
  /\ run = "fetch" /\ pc = "load"
  /\ Load("entry")
  /\ work' = [i \in DOMAIN entries |-> "none"]
  /\ UNCHANGED <<world, run, entries, answers, cached, abandoned, builder, builds, verdict>>

(* fetchOne returned a result. *)
Answer(how) ==
  /\ answers' = Append(answers, how)
  /\ pc' = IF Len(answers') = Len(entries) THEN "done" ELSE "entry"

(* Route or CacheKey returns an error. *)
Reject ==
  /\ run = "fetch" /\ pc = "entry" /\ ~Routed(Current)
  /\ pc' = "failed"
  /\ UNCHANGED <<world, run, process, answers, cached, goroutines, verdict>>

CacheHit ==
  /\ run = "fetch" /\ pc = "entry" /\ Routed(Current)
  /\ HitPossible(Current)
  /\ Answer("hit")
  /\ UNCHANGED <<world, run, process, cached, goroutines, verdict>>

StartResolve ==
  /\ run = "fetch" /\ pc = "entry" /\ Routed(Current)
  /\ ~HitPossible(Current)
  /\ pc' = "await"
  /\ work' = [work EXCEPT ![Len(answers) + 1] = "ensure"]
  /\ UNCHANGED <<world, run, process, answers, cached, abandoned, builder, builds, verdict>>

TakeResult ==
  /\ pc = "await" /\ work[Len(answers) + 1] = "ok"
  /\ Answer("live")
  /\ cached' \in {cached, [cached EXCEPT ![Current] = "fresh"]}  \* Put may fail
  /\ UNCHANGED <<world, run, process, goroutines, verdict>>

(* After an error: a stale entry, or the end of the fetch. *)
Rescue ==
  \/ StalePossible(Current) /\ Answer("stale")
  \/ ~StalePossible(Current) /\ pc' = "failed" /\ UNCHANGED answers

TakeError ==
  /\ pc = "await" /\ work[Len(answers) + 1] = "failed"
  /\ Rescue
  /\ UNCHANGED <<world, run, process, cached, goroutines, verdict>>

(* select takes ctx.Done(), and nobody will read the goroutine's outcome. *)
GiveUp ==
  /\ pc = "await" /\ ctx = "done"
  /\ abandoned' = abandoned \cup {Len(answers) + 1}
  /\ Rescue
  /\ UNCHANGED <<world, run, process, cached, work, builder, builds, verdict>>

----------------------------------------------------------------------------
(* A resolve goroutine, until its process ends *)

In(i, from) == pc \in {"entry", "await"} /\ i \in DOMAIN work /\ work[i] = from
To(i, next) == work' = [work EXCEPT ![i] = next]

SchemeOf(i) == CHOOSE s \in Route1(entries[i].text) : TRUE

(* What a goroutine may see of a client.  If nobody waited for the one that has
   stored it, or for this one before a later one stored it, nothing synchronises
   the two: the pointer may be missing, or be there before the client it points to. *)
Seen(i) ==
  LET b == builder[SchemeOf(i)]
  IN  IF b = 0 THEN {"nothing"}
      ELSE IF b \in abandoned \ {i} \/ (i \in abandoned /\ b > i)
           THEN {"nothing", "client", "half a client"}
      ELSE {"client"}

Ensure(i) ==
  /\ In(i, "ensure")
  /\ \/ /\ ~Lazy(SchemeOf(i)) \/ "client" \in Seen(i)
        /\ To(i, "request") /\ UNCHANGED pc
     \/ /\ Lazy(SchemeOf(i)) /\ "nothing" \in Seen(i)
        /\ To(i, "build") /\ UNCHANGED pc
     \/ /\ Lazy(SchemeOf(i)) /\ "half a client" \in Seen(i)
        /\ pc' = "crashed" /\ UNCHANGED work
  /\ UNCHANGED <<world, run, process, answers, cached, abandoned, builder, builds, verdict>>

(* A build may or may not notice that the context is done. *)
Shadowed(i) == UNCHANGED builder  \* slip: src, err := hides l.src
Keep(i)     == builder' = [builder EXCEPT ![SchemeOf(i)] = i]

Build(i) ==
  /\ In(i, "build")
  /\ Works(<<"client", SchemeOf(i)>>)
  /\ To(i, "request") /\ Keep(i)
  /\ builds' = [builds EXCEPT ![SchemeOf(i)] = @ + 1]
  /\ UNCHANGED <<world, run, pc, process, answers, cached, abandoned, verdict>>

BuildFails(i) ==
  /\ In(i, "build")
  /\ ~Works(<<"client", SchemeOf(i)>>) \/ ctx = "done"
  /\ To(i, "failed")
  /\ UNCHANGED <<world, run, pc, process, answers, cached, abandoned, builder, builds, verdict>>

Request(i) ==
  /\ In(i, "request")
  /\ To(i, IF ctx = "live" /\ Works(<<"secret", entries[i].text>>) THEN "ok" ELSE "failed")
  /\ UNCHANGED <<world, run, pc, process, answers, cached, abandoned, builder, builds, verdict>>

----------------------------------------------------------------------------
Next ==
  \/ Expire
  \/ CheckLoad \/ CheckPing \/ CheckSplit \/ CheckEntry \/ CheckOver
  \/ FetchSplit \/ FetchLoad
  \/ Reject \/ CacheHit \/ StartResolve \/ TakeResult \/ TakeError \/ GiveUp
  \/ \E i \in DOMAIN work : Ensure(i) \/ Build(i) \/ BuildFails(i) \/ Request(i)

Spec == Init /\ [][Next]_vars

----------------------------------------------------------------------------
(* Properties *)

TypeOK ==
  /\ run \in {"check", "fetch"}
  /\ pc \in {"start", "ping", "split", "load", "entry", "await"} \cup Ended
  /\ ctx \in {"live", "done"}
  /\ Len(answers) <= Len(entries) /\ abandoned \subseteq DOMAIN work
  /\ pc \in {"entry", "await"} => cfg # {} /\ Len(answers) < Len(entries)
  /\ builder \in [Schemes -> 0 .. Len(entries)] /\ builds \in [Schemes -> Nat]

(* A path that `check` reports as good is fetched, in an unchanged world, as
   long as the budget lasts: neither the order of the two commands' steps, the
   clients, nor the stale fallback make a difference.  check.go:24-155,
   plugin.go:134-205. *)
CheckPredictsFetch ==
  run = "fetch" /\ verdict = "done" /\ Path # <<>> /\ pc \in {"failed", "crashed"}
    => ctx = "done"

(* `check` reports every entry that cannot be answered, also behind another
   one, and none that can: an operator sees all that is wrong at once.
   check.go:125-154. *)
CheckReportsAll ==
  run = "check" /\ ctx = "live" /\ entries # <<>> /\ pc \in Ended =>
    {i \in DOMAIN answers : answers[i] = "failed"} =
      {i \in DOMAIN entries : ~Answerable(entries[i].text)}

(* Only the settings that the host file leaves unset are taken from the
   environment: with any other environment that agrees on those, the
   configuration is the same.  config.go:116-121. *)
SetByHost == UNION {DOMAIN h.vals : h \in HostFile(Site.files)}

HostFileDecides ==
  pc = "ping" =>
    \A n \in DOMAIN Environments :
      (\A k \in Settings \ SetByHost : Getenv(Environments[n], k) = Getenv(Site.env, k))
        => cfg = LoadConfig([Site EXCEPT !.env = Environments[n]])

(* A configuration that loads has a provider, and describes itself by exactly
   the backends that are registered.  config.go:61-82, 161-175, plugin.go:45-82. *)
DescribesRegistered ==
  \A c \in cfg :
    /\ Registered(c) # {}
    /\ ("1Password" \in Describe(c) <=> Op \in Registered(c))
    /\ ("AWS" \in Describe(c) <=> {Ssm, Sm} \subseteq Registered(c))

(* No SDK client is built in an environment with AWS variables in it, and those
   that the plugin honours were read before they were removed.
   plugin.go:84-105, 140-148. *)
SdkSeesOnlyConfig ==
  (\E s \in Schemes : builds[s] > 0) =>
    /\ DOMAIN env \cap AwsVariables = {}
    /\ cfg = LoadConfig(Site)

(* A fetch builds a client only for an entry that the cache did not answer, and
   once for all of them, unless it has abandoned a goroutine.
   plugin.go:231-236, onepassword.go:113-143. *)
BuildsWhenNeeded ==
  run = "fetch" =>
    \A s \in Schemes :
      /\ builds[s] > 0 => \E i \in DOMAIN work : work[i] # "none" /\ s \in Route1(entries[i].text)
      /\ builds[s] > 1 => abandoned # {}

----------------------------------------------------------------------------
(* What a comment says and the code does not do. *)

(* "Abandoning the goroutine leaks it, which is acceptable precisely once: the
   process is a one-shot fetch that exits as soon as this call returns"
   (plugin.go:290-291). *)
AbandonsAtExit == \A i \in abandoned : work[i] \in {"ok", "failed"} \/ pc \in Ended
=============================================================================
