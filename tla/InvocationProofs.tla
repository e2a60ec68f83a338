-------------------------- MODULE InvocationProofs --------------------------
(***************************************************************************)
(* Proofs about Invocation, for every world: host files, environments,      *)
(* paths, failures and cache contents.                                     *)
(***************************************************************************)
EXTENDS Invocation, TLAPS

Loadable == LoadConfig(Site)

(* Answerable, said of the world and not of the configuration in memory. *)
RouteIn(text) == UNION {Route(Registered(c), text) : c \in Loadable}
LazyIn(s)     == s # Op \/ \E c \in Loadable : c.sa # Unset
Reachable(text) ==
  /\ text \notin Malformed /\ RouteIn(text) # {} /\ Works(<<"secret", text>>)
  /\ \A s \in RouteIn(text) : LazyIn(s) => Works(<<"client", s>>)

(* The world in which a check ends well. *)
Healthy ==
  /\ Loadable # {} /\ SplitEntries(Path) # {}
  /\ \A split \in SplitEntries(Path) : \A i \in DOMAIN split : Reachable(split[i].text)

----------------------------------------------------------------------------
(* The inductive invariant *)

Unread == pc = "start" \/ (run = "fetch" /\ pc = "load")

(* The configuration is the one of the environment before it was scrubbed. *)
ConfigRead ==
  /\ Unread => env = Site.env /\ cfg = {} /\ abandoned = {}
  /\ cfg # {} => cfg = Loadable /\ env = SanitizeAWSEnv(Site.env)
  /\ pc \in {"ping", "split", "entry", "await"} => cfg # {}
  /\ ctx \in {"live", "done"}

BuiltAfterwards ==
  /\ builds \in [Schemes -> Nat]
  /\ (\E s \in Schemes : builds[s] > 0) => cfg # {}

Outcome == {"hit", "live", "stale", "failed"}

PathSplit ==
  /\ world \in Worlds /\ run \in {"check", "fetch"}
  /\ pc \in {"start", "ping", "split", "load"} => answers = <<>>
  /\ pc \in {"ping", "split"} => run = "check"
  /\ pc \in {"load", "await"} => run = "fetch"
  /\ pc \in {"load", "entry", "await"} =>
       /\ entries \in SplitEntries(Path)
       /\ answers \in Seq(Outcome) /\ Len(answers) < Len(entries)

(* A check that goes on has reached every entry that did not fail. *)
CheckedSoFar ==
  /\ run = "check" /\ pc = "entry" =>
       \A i \in DOMAIN answers : answers[i] = "failed" \/ Reachable(entries[i].text)
  /\ run = "check" /\ pc = "done" /\ Path # <<>> => Healthy

(* In a healthy world only the end of the budget makes a goroutine fail. *)
OnlyTime ==
  run = "fetch" /\ verdict = "done" /\ Path # <<>> =>
    /\ Healthy
    /\ (pc \in {"failed", "crashed"} \/ abandoned # {}) => ctx = "done"
    /\ pc \in {"entry", "await"} =>
         /\ DOMAIN work = DOMAIN entries
         /\ \A i \in DOMAIN work : /\ work[i] = "failed" => ctx = "done"
                                   /\ work[i] = "build" => Lazy(SchemeOf(i))

IInv == ConfigRead /\ BuiltAfterwards /\ PathSplit /\ CheckedSoFar /\ OnlyTime

----------------------------------------------------------------------------
LEMMA ReachableIsAnswerable ==
  ASSUME cfg = Loadable, NEW text
  PROVE  /\ Answerable(text) <=> Reachable(text)
         /\ Routed(text) <=> text \notin Malformed /\ RouteIn(text) # {}
  BY DEF Answerable, Reachable, Routed, Route1, RouteIn, Ready, Lazy, LazyIn

LEMMA SplitOnce ==
  ASSUME NEW path, NEW a \in SplitEntries(path), NEW b \in SplitEntries(path)
  PROVE  a = b
  BY DEF SplitEntries

LEMMA SplitShape ==
  ASSUME world \in Worlds, NEW split \in SplitEntries(Path)
  PROVE  Len(split) \in Nat \ {0} /\ DOMAIN split = 1..Len(split)
  BY PathsAssumption, WorldsAssumption DEF Path

LEMMA SiteAsRead ==
  ASSUME env = Site.env
  PROVE  LoadConfig([Site EXCEPT !.env = env]) = Loadable
  BY DEF Site, Loadable

LEMMA SameWorld ==
  ASSUME world' = world
  PROVE  /\ Path' = Path /\ Site' = Site /\ Loadable' = Loadable /\ Healthy' = Healthy
         /\ \A text : Reachable(text)' = Reachable(text)
  BY DEF Path, Site, Loadable, Healthy, Reachable, RouteIn, LazyIn, Works

LEMMA CountUp ==
  ASSUME NEW S, NEW f \in [S -> Nat], NEW s
  PROVE  [f EXCEPT ![s] = @ + 1] \in [S -> Nat]
  <1>1. CASE s \in S
    <2>1. f[s] + 1 \in Nat
      BY <1>1
    <2> QED
      BY <2>1
  <1>2. CASE s \notin S
    BY <1>2
  <1> QED
    BY <1>1, <1>2

LEMMA LoadReads ==
  ASSUME env = Site.env, NEW next \in {"ping", "entry"}, Load(next)
  PROVE  /\ cfg' = Loadable /\ ctx' \in {"live", "done"}
         /\ cfg' # {} => pc' = next /\ env' = SanitizeAWSEnv(Site.env)
         /\ cfg' = {} => pc' = "failed" /\ env' = Site.env
  BY SiteAsRead DEF Load

----------------------------------------------------------------------------
(* What is read before the environment is scrubbed *)

LEMMA InitConfigRead == Init => ConfigRead /\ BuiltAfterwards
  BY DEF Init, ConfigRead, BuiltAfterwards, Unread, Ended

LEMMA StepConfigRead ==
  ASSUME ConfigRead, BuiltAfterwards, PathSplit, [Next]_vars
  PROVE  ConfigRead' /\ BuiltAfterwards'
  <1> USE DEF ConfigRead, BuiltAfterwards, PathSplit, Unread
  <1>0. Loadable' = Loadable /\ Site' = Site
    BY SameWorld DEF Next, vars, process, goroutines, Expire, CheckLoad, CheckPing, CheckSplit,
       CheckEntry, CheckOver, FetchSplit, FetchLoad, Reject, CacheHit, StartResolve, TakeResult,
       TakeError, GiveUp, Ensure, Build, BuildFails, Request
  <1> USE <1>0
  <1>1. CASE UNCHANGED vars
    BY <1>1 DEF vars, process, goroutines
  <1>2. CASE Expire
    BY <1>2 DEF Expire, goroutines, Ended
  <1>3. CASE CheckLoad
    BY <1>3, LoadReads DEF CheckLoad, goroutines
  <1>4. CASE CheckPing
    BY <1>4 DEF CheckPing, process
  <1>5. CASE CheckSplit
    BY <1>5 DEF CheckSplit, Split, goroutines
  <1>6. CASE CheckEntry
    BY <1>6 DEF CheckEntry, process, goroutines, ExitCode
  <1>7. CASE CheckOver
    BY <1>7 DEF CheckOver
  <1>8. CASE FetchSplit
    BY <1>8 DEF FetchSplit, Split, goroutines
  <1>9. CASE FetchLoad
    BY <1>9, LoadReads DEF FetchLoad
  <1>10. CASE Reject
    BY <1>10 DEF Reject, process, goroutines
  <1>11. CASE CacheHit
    BY <1>11 DEF CacheHit, Answer, process, goroutines
  <1>12. CASE StartResolve
    BY <1>12 DEF StartResolve, process
  <1>13. CASE TakeResult
    BY <1>13 DEF TakeResult, Answer, process, goroutines
  <1>14. CASE TakeError
    BY <1>14 DEF TakeError, Rescue, Answer, process, goroutines
  <1>15. CASE GiveUp
    BY <1>15 DEF GiveUp, Rescue, Answer, process
  <1>16. ASSUME NEW i \in DOMAIN work, Ensure(i) \/ Build(i) \/ BuildFails(i) \/ Request(i)
         PROVE  ConfigRead' /\ BuiltAfterwards'
    <2>1. CASE Ensure(i)
      BY <2>1 DEF Ensure, In, process
    <2>2. CASE Build(i)
      <3>1. builds' \in [Schemes -> Nat]
        BY <2>2, CountUp DEF Build
      <3>2. cfg # {} /\ UNCHANGED <<run, pc, env, cfg, ctx, abandoned>>
        BY <2>2 DEF Build, In, process
      <3> QED
        BY <3>1, <3>2
    <2>3. CASE BuildFails(i)
      BY <2>3 DEF BuildFails, process
    <2>4. CASE Request(i)
      BY <2>4 DEF Request, process
    <2> QED
      BY <1>16, <2>1, <2>2, <2>3, <2>4
  <1> QED
    BY <1>1, <1>2, <1>3, <1>4, <1>5, <1>6, <1>7, <1>8, <1>9, <1>10, <1>11, <1>12, <1>13,
       <1>14, <1>15, <1>16 DEF Next

----------------------------------------------------------------------------
(* The entries of the path, and the answers so far *)

LEMMA InitPathSplit == Init => PathSplit /\ CheckedSoFar /\ OnlyTime
  BY DEF Init, PathSplit, CheckedSoFar, OnlyTime, Ended

(* An answer leaves the process at its next entry, or at the end. *)
LEMMA OneMoreAnswer ==
  ASSUME PathSplit, pc \in {"entry", "await"}, NEW how \in Outcome,
         answers' = Append(answers, how)
  PROVE  /\ answers' \in Seq(Outcome) /\ Len(answers') = Len(answers) + 1
         /\ Len(answers) \in Nat /\ Len(entries) \in Nat
         /\ Len(answers') # Len(entries) => Len(answers') < Len(entries)
  BY SplitShape DEF PathSplit

LEMMA AnswerKeepsSplit ==
  ASSUME PathSplit, pc \in {"entry", "await"}, NEW how \in Outcome, Answer(how),
         UNCHANGED <<world, run, entries>>
  PROVE  PathSplit'
  <1>1. Path' = Path
    BY DEF Path
  <1>2. answers' = Append(answers, how)
    BY DEF Answer
  <1>3. pc' = "done" \/ (pc' = "entry" /\ Len(answers') < Len(entries))
    BY <1>2, OneMoreAnswer DEF Answer
  <1>4. answers' \in Seq(Outcome)
    BY <1>2, OneMoreAnswer
  <1> QED
    BY <1>1, <1>3, <1>4 DEF PathSplit

LEMMA RescueKeepsSplit ==
  ASSUME PathSplit, pc = "await", Rescue, UNCHANGED <<world, run, entries>>
  PROVE  PathSplit'
  <1>1. CASE Answer("stale")
    BY <1>1, AnswerKeepsSplit DEF Outcome
  <1>2. CASE pc' = "failed"
    BY <1>2 DEF PathSplit
  <1> QED
    BY <1>1, <1>2 DEF Rescue

LEMMA StepPathSplit ==
  ASSUME PathSplit, [Next]_vars
  PROVE  PathSplit'
  <1> USE DEF PathSplit
  <1>0. world' = world /\ Path' = Path
    BY SameWorld DEF Next, vars, process, goroutines, Expire, CheckLoad, CheckPing, CheckSplit,
       CheckEntry, CheckOver, FetchSplit, FetchLoad, Reject, CacheHit, StartResolve, TakeResult,
       TakeError, GiveUp, Ensure, Build, BuildFails, Request
  <1> USE <1>0
  <1>1. CASE UNCHANGED vars
    BY <1>1 DEF vars, process
  <1>2. CASE Expire
    BY <1>2 DEF Expire
  <1>3. CASE CheckLoad
    BY <1>3 DEF CheckLoad, Load
  <1>4. CASE CheckPing
    BY <1>4 DEF CheckPing, process
  <1>5. CASE CheckSplit
    <2>1. CASE SplitEntries(Path) = {}
      BY <1>5, <2>1 DEF CheckSplit, Split
    <2>2. CASE SplitEntries(Path) # {}
      <3>1. entries' \in SplitEntries(Path) /\ pc' = "entry" /\ UNCHANGED <<run, answers>>
        BY <1>5, <2>2 DEF CheckSplit, Split
      <3>2. answers = <<>>
        BY <1>5 DEF CheckSplit
      <3> QED
        BY <3>1, <3>2, <1>5, SplitShape DEF CheckSplit
    <2> QED
      BY <2>1, <2>2
  <1>6. CASE CheckEntry
    <2>1. Diagnosis(Current) \in Outcome
      BY DEF Diagnosis, Outcome
    <2>2. answers' \in Seq(Outcome)
      BY <1>6, <2>1, OneMoreAnswer DEF CheckEntry
    <2>3. UNCHANGED <<run, entries>> /\ pc' \in {"entry", "failed", "done"}
      BY <1>6 DEF CheckEntry, process, ExitCode
    <2>4. pc' = "entry" => Len(answers') < Len(entries)
      BY <1>6 DEF CheckEntry, ExitCode
    <2> QED
      BY <1>6, <2>2, <2>3, <2>4 DEF CheckEntry
  <1>7. CASE CheckOver
    BY <1>7 DEF CheckOver
  <1>8. CASE FetchSplit
    <2>1. CASE SplitEntries(Path) = {}
      BY <1>8, <2>1 DEF FetchSplit, Split
    <2>2. CASE SplitEntries(Path) # {}
      <3>1. entries' \in SplitEntries(Path) /\ pc' = "load" /\ UNCHANGED <<run, answers>>
        BY <1>8, <2>2 DEF FetchSplit, Split
      <3>2. answers = <<>>
        BY <1>8 DEF FetchSplit
      <3> QED
        BY <3>1, <3>2, <1>8, SplitShape DEF FetchSplit
    <2> QED
      BY <2>1, <2>2
  <1>9. CASE FetchLoad
    BY <1>9 DEF FetchLoad, Load
  <1>10. CASE Reject
    BY <1>10 DEF Reject, process
  <1>11. CASE CacheHit
    BY <1>11, AnswerKeepsSplit DEF Outcome, CacheHit, process
  <1>12. CASE StartResolve
    BY <1>12 DEF StartResolve, process
  <1>13. CASE TakeResult
    BY <1>13, AnswerKeepsSplit DEF Outcome, TakeResult, process
  <1>14. CASE TakeError
    BY <1>14, RescueKeepsSplit DEF TakeError, process
  <1>15. CASE GiveUp
    BY <1>15, RescueKeepsSplit DEF GiveUp, process
  <1>16. ASSUME NEW i \in DOMAIN work, Ensure(i) \/ Build(i) \/ BuildFails(i) \/ Request(i)
         PROVE  PathSplit'
    BY <1>16 DEF Ensure, Build, BuildFails, Request, process
  <1> QED
    BY <1>1, <1>2, <1>3, <1>4, <1>5, <1>6, <1>7, <1>8, <1>9, <1>10, <1>11, <1>12, <1>13,
       <1>14, <1>15, <1>16 DEF Next

----------------------------------------------------------------------------
(* What a check knows when it has ended well *)

LEMMA StepCheckedSoFar ==
  ASSUME ConfigRead, PathSplit, CheckedSoFar, [Next]_vars
  PROVE  CheckedSoFar'
  <1> USE DEF CheckedSoFar
  <1>0. world' = world
    BY DEF Next, vars, process, goroutines, Expire, CheckLoad, CheckPing, CheckSplit,
       CheckEntry, CheckOver, FetchSplit, FetchLoad, Reject, CacheHit, StartResolve, TakeResult,
       TakeError, GiveUp, Ensure, Build, BuildFails, Request
  <1>a. Path' = Path /\ Healthy' = Healthy /\ \A text : Reachable(text)' = Reachable(text)
    BY <1>0, SameWorld
  <1> USE <1>a
  <1>1. CASE UNCHANGED <<run, pc, entries, answers>> \/ pc' \in {"start", "load"}
    BY <1>1
  <1>2. CASE run' = "fetch"
    BY <1>2
  <1>3. CASE pc' \in {"crashed", "failed", "ping", "split"}
    BY <1>3
  <1>4. CASE CheckPing /\ pc' = "done"
    BY <1>4 DEF CheckPing
  <1>5. CASE CheckSplit
    <2>1. answers' = <<>> /\ pc' # "done"
      BY <1>5 DEF CheckSplit, Split, PathSplit
    <2> QED
      BY <2>1
  <1>6. CASE CheckEntry
    <2>1. cfg = Loadable /\ entries \in SplitEntries(Path)
      BY <1>6 DEF CheckEntry, ConfigRead, PathSplit
    <2>2. Diagnosis(Current) = "failed" \/ Reachable(Current)
      BY <2>1, ReachableIsAnswerable DEF Diagnosis
    <2>3. Diagnosis(Current) \in Outcome
      BY DEF Diagnosis, Outcome
    <2>4. answers' = Append(answers, Diagnosis(Current)) /\ UNCHANGED <<run, entries>>
      BY <1>6 DEF CheckEntry, process
    <2>5. answers \in Seq(Outcome) /\ Len(answers) < Len(entries) /\ Len(entries) \in Nat
      BY <1>6, SplitShape DEF CheckEntry, PathSplit
    <2>6. \A i \in DOMAIN answers' : answers'[i] = "failed" \/ Reachable(entries[i].text)
      BY <1>6, <2>2, <2>3, <2>4, <2>5 DEF CheckEntry, Current
    <2>7. ASSUME pc' = "done"
          PROVE  Healthy
      <3>1. Len(answers') = Len(entries) /\ \A i \in DOMAIN answers' : answers'[i] # "failed"
        BY <1>6, <2>3, <2>4, <2>5, <2>7 DEF CheckEntry, ExitCode
      <3>2. DOMAIN answers' = DOMAIN entries
        BY <2>1, <2>3, <2>4, <2>5, <3>1, SplitShape DEF PathSplit
      <3>3. \A i \in DOMAIN entries : Reachable(entries[i].text)
        BY <2>6, <3>1, <3>2
      <3> QED
        BY <2>1, <3>3, <1>6, SplitOnce DEF Healthy, ConfigRead, CheckEntry
    <2> QED
      BY <2>4, <2>6, <2>7
  <1> QED
    <2>1. CASE CheckLoad \/ Expire \/ UNCHANGED vars \/ CheckOver
      BY <2>1, <1>1, <1>2, <1>3 DEF CheckLoad, Load, Expire, vars, process, CheckOver
    <2>2. CASE CheckPing
      BY <2>2, <1>3, <1>4 DEF CheckPing
    <2>3. CASE FetchSplit \/ FetchLoad \/ Reject \/ CacheHit \/ StartResolve
      BY <2>3, <1>2 DEF FetchSplit, FetchLoad, Reject, CacheHit, StartResolve
    <2>4. CASE TakeResult \/ TakeError \/ GiveUp
      BY <2>4, <1>2 DEF TakeResult, TakeError, GiveUp, PathSplit
    <2>5. ASSUME NEW i \in DOMAIN work, Ensure(i) \/ Build(i) \/ BuildFails(i) \/ Request(i)
          PROVE  CheckedSoFar'
      BY <2>5, <1>1, <1>3 DEF Ensure, Build, BuildFails, Request, process
    <2> QED
      BY <2>1, <2>2, <2>3, <2>4, <2>5, <1>5, <1>6 DEF Next

----------------------------------------------------------------------------
(* What can go wrong in a fetch that the check has cleared *)

Cleared == run = "fetch" /\ verdict = "done" /\ Path # <<>>

LEMMA ClearedEntry ==
  ASSUME ConfigRead, PathSplit, OnlyTime, Cleared, pc \in {"entry", "await"},
         NEW i \in DOMAIN entries
  PROVE  /\ Answerable(entries[i].text) /\ DOMAIN work = DOMAIN entries
         /\ SchemeOf(i) \in Route1(entries[i].text)
         /\ Lazy(SchemeOf(i)) => Works(<<"client", SchemeOf(i)>>)
         /\ Works(<<"secret", entries[i].text>>)
  <1>1. cfg = Loadable /\ entries \in SplitEntries(Path)
    BY DEF ConfigRead, PathSplit
  <1>2. Healthy /\ DOMAIN work = DOMAIN entries
    BY DEF OnlyTime, Cleared
  <1>3. Reachable(entries[i].text)
    BY <1>1, <1>2 DEF Healthy
  <1>4. Answerable(entries[i].text)
    BY <1>1, <1>3, ReachableIsAnswerable
  <1>5. SchemeOf(i) \in Route1(entries[i].text)
    BY <1>4 DEF SchemeOf, Answerable, Routed
  <1> QED
    BY <1>2, <1>4, <1>5 DEF Answerable, Ready

LEMMA CurrentEntry ==
  ASSUME PathSplit, pc \in {"entry", "await"}
  PROVE  Len(answers) + 1 \in DOMAIN entries
  BY SplitShape DEF PathSplit

LEMMA StepOnlyTime ==
  ASSUME ConfigRead, PathSplit, CheckedSoFar, OnlyTime, [Next]_vars
  PROVE  OnlyTime'
  <1>0. world' = world
    BY DEF Next, vars, process, goroutines, Expire, CheckLoad, CheckPing, CheckSplit,
       CheckEntry, CheckOver, FetchSplit, FetchLoad, Reject, CacheHit, StartResolve, TakeResult,
       TakeError, GiveUp, Ensure, Build, BuildFails, Request
  <1>a. Path' = Path /\ Healthy' = Healthy
    BY <1>0, SameWorld
  <1> USE <1>a
  <1>b. SUFFICES ASSUME Cleared', run = "fetch"
                 PROVE  OnlyTime'
    <2>1. CASE CheckOver
      <3>1. pc' = "start" /\ abandoned' = {} /\ verdict' = pc /\ run = "check"
        BY <2>1 DEF CheckOver
      <3> QED
        BY <3>1 DEF OnlyTime, CheckedSoFar
    <2>2. CASE ~CheckOver /\ run # "fetch"
      <3>1. run' = run
        BY <2>2 DEF Next, vars, process, goroutines, Expire, CheckLoad, CheckPing, CheckSplit,
           CheckEntry, FetchSplit, FetchLoad, Reject, CacheHit, StartResolve, TakeResult,
           TakeError, GiveUp, Ensure, Build, BuildFails, Request
      <3> QED
        BY <2>2, <3>1 DEF OnlyTime
    <2> QED
      BY <2>1, <2>2 DEF Cleared, OnlyTime, CheckOver
  <1>c. ~(CheckLoad \/ CheckPing \/ CheckSplit \/ CheckEntry \/ CheckOver)
    BY <1>b DEF CheckLoad, CheckPing, CheckSplit, CheckEntry, CheckOver
  <1>d. verdict' = verdict /\ run' = run
    BY <1>b, <1>c DEF Next, vars, process, goroutines, Expire, FetchSplit, FetchLoad, Reject,
       CacheHit, StartResolve, TakeResult, TakeError, GiveUp, Ensure, Build, BuildFails, Request
  <1>e. Cleared /\ Healthy
    BY <1>b, <1>d DEF Cleared, OnlyTime
  <1>1. CASE UNCHANGED vars
    BY <1>1 DEF OnlyTime, vars, process, goroutines, Lazy, SchemeOf, Route1
  <1>2. CASE Expire
    BY <1>2, <1>e DEF OnlyTime, Expire, goroutines, Cleared, Lazy, SchemeOf, Route1
  <1>8. CASE FetchSplit
    <2>1. pc' = "load" /\ abandoned' = {}
      BY <1>8, <1>e DEF FetchSplit, Split, Healthy, goroutines, ConfigRead, Unread
    <2> QED
      BY <1>e, <2>1 DEF OnlyTime
  <1>9. CASE FetchLoad
    <2>1. pc' = "entry" /\ abandoned' = {}
      BY <1>9, <1>e, LoadReads DEF FetchLoad, Healthy, ConfigRead, Unread
    <2>2. work' = [i \in DOMAIN entries |-> "none"] /\ entries' = entries
      BY <1>9 DEF FetchLoad
    <2> QED
      BY <1>e, <2>1, <2>2 DEF OnlyTime
  <1>10. CASE Reject
    BY <1>10, <1>e, CurrentEntry, ClearedEntry DEF Reject, Current, Answerable
  <1>11. CASE CacheHit
    BY <1>11, <1>e DEF CacheHit, Answer, process, goroutines, OnlyTime, Cleared, Lazy, SchemeOf,
       Route1
  <1>12. CASE StartResolve
    BY <1>12, <1>e DEF StartResolve, process, OnlyTime, Cleared, Lazy, SchemeOf, Route1
  <1>13. CASE TakeResult
    BY <1>13, <1>e DEF TakeResult, Answer, process, goroutines, OnlyTime, Cleared, Lazy, SchemeOf,
       Route1
  <1>14. CASE TakeError
    <2>1. ctx = "done" /\ ctx' = ctx
      BY <1>14, <1>e, CurrentEntry, ClearedEntry DEF TakeError, OnlyTime, Cleared, process
    <2> QED
      BY <1>14, <1>e, <2>1 DEF TakeError, process, goroutines, OnlyTime, Cleared, Lazy, SchemeOf,
         Route1
  <1>15. CASE GiveUp
    BY <1>15, <1>e DEF GiveUp, process, OnlyTime, Cleared, Lazy, SchemeOf, Route1
  <1>16. ASSUME NEW i \in DOMAIN work, Ensure(i) \/ Build(i) \/ BuildFails(i) \/ Request(i)
         PROVE  OnlyTime'
    <2>1. CASE Ensure(i)
      <3>1. pc' = "crashed" => abandoned # {}
        BY <2>1 DEF Ensure, In, Seen
      <3>2. /\ UNCHANGED <<run, verdict, cfg, ctx, entries, abandoned>>
            /\ pc \in {"entry", "await"} /\ pc' \in {pc, "crashed"}
            /\ \/ work' = work \/ work' = [work EXCEPT ![i] = "request"]
               \/ Lazy(SchemeOf(i)) /\ work' = [work EXCEPT ![i] = "build"]
        BY <2>1 DEF Ensure, In, To, process
      <3>3. \A j \in DOMAIN work : Lazy(SchemeOf(j))' = Lazy(SchemeOf(j))
        BY <3>2 DEF Lazy, SchemeOf, Route1
      <3>4. /\ DOMAIN work' = DOMAIN work /\ DOMAIN work = DOMAIN entries
            /\ \A j \in DOMAIN work : work'[j] = "failed" => ctx = "done"
        BY <3>2, <1>e DEF OnlyTime, Cleared
      <3>5. \A j \in DOMAIN work : work'[j] = "build" => Lazy(SchemeOf(j))
        BY <3>2, <1>e DEF OnlyTime, Cleared
      <3>6. (pc' \in {"failed", "crashed"} \/ abandoned' # {}) => ctx' = "done"
        BY <3>1, <3>2, <1>e DEF OnlyTime, Cleared
      <3> QED
        BY <3>2, <3>3, <3>4, <3>5, <3>6, <1>e DEF OnlyTime
    <2>2. CASE Build(i)
      BY <2>2, <1>e DEF Build, In, To, process, OnlyTime, Cleared, Lazy, SchemeOf, Route1
    <2>3. CASE BuildFails(i)
      <3>1. ctx = "done"
        BY <2>3, <1>e, ClearedEntry DEF BuildFails, In, OnlyTime, Cleared
      <3> QED
        BY <2>3, <3>1, <1>e
        DEF BuildFails, In, To, process, OnlyTime, Cleared, Lazy, SchemeOf, Route1
    <2>4. CASE Request(i)
      <3>1. work'[i] = "failed" => ctx = "done"
        BY <2>4, <1>e, ClearedEntry DEF Request, In, To, OnlyTime, Cleared, ConfigRead
      <3> QED
        BY <2>4, <3>1, <1>e
        DEF Request, In, To, process, OnlyTime, Cleared, Lazy, SchemeOf, Route1
    <2> QED
      BY <1>16, <2>1, <2>2, <2>3, <2>4
  <1> QED
    BY <1>c, <1>1, <1>2, <1>8, <1>9, <1>10, <1>11, <1>12, <1>13, <1>14, <1>15, <1>16 DEF Next

----------------------------------------------------------------------------
(* The theorems *)

LEMMA InvocationInvariant == Spec => []IInv
  <1>1. Init => IInv
    BY InitConfigRead, InitPathSplit DEF IInv
  <1>2. IInv /\ [Next]_vars => IInv'
    BY StepConfigRead, StepPathSplit, StepCheckedSoFar, StepOnlyTime DEF IInv
  <1> QED
    BY <1>1, <1>2, PTL DEF Spec

(* When a check has ended well, the fetch that follows it in the same world can
   fail only because its time-out has run out, whatever clients it builds and
   whatever the cache holds.  check.go:24-155, plugin.go:134-205. *)
THEOREM ClearedPathsAreFetched == Spec => []CheckPredictsFetch
  <1>1. IInv => CheckPredictsFetch
    BY DEF IInv, OnlyTime, CheckPredictsFetch
  <1> QED
    BY <1>1, InvocationInvariant, PTL

(* No SDK client is ever built while an AWS variable is in the environment, and
   the configuration is the one read before they were taken out.
   plugin.go:84-105, 140-148. *)
THEOREM ClientsSeeNoAwsVariable == Spec => []SdkSeesOnlyConfig
  <1>1. IInv => SdkSeesOnlyConfig
    <2> SUFFICES ASSUME IInv, \E s \in Schemes : builds[s] > 0
                 PROVE  DOMAIN env \cap AwsVariables = {} /\ cfg = LoadConfig(Site)
      BY DEF SdkSeesOnlyConfig
    <2>1. cfg = Loadable /\ env = SanitizeAWSEnv(Site.env)
      BY DEF IInv, ConfigRead, BuiltAfterwards
    <2> QED
      BY <2>1 DEF Loadable, SanitizeAWSEnv
  <1> QED
    BY <1>1, InvocationInvariant, PTL

----------------------------------------------------------------------------
(* Types *)

LEMMA WorldStays ==
  ASSUME [Next]_vars
  PROVE  world' = world
  BY DEF Next, vars, process, goroutines, Expire, CheckLoad, CheckPing, CheckSplit,
     CheckEntry, CheckOver, FetchSplit, FetchLoad, Reject, CacheHit, StartResolve, TakeResult,
     TakeError, GiveUp, Ensure, Build, BuildFails, Request

(* A check starts no goroutine, and in a fetch each entry has one. *)
Bookkeeping ==
  /\ run = "check" \/ pc \in {"start", "load"} =>
       work = <<>> /\ abandoned = {} /\ builder = [s \in Schemes |-> 0]
  /\ pc \in {"start", "ping", "split"} => entries = <<>>
  /\ pc \in {"start", "ping", "split", "load", "entry", "await"} \cup Ended
  /\ Len(entries) \in Nat /\ Len(answers) \in Nat /\ Len(answers) <= Len(entries)
  /\ run = "fetch" /\ pc \in {"entry", "await"} => DOMAIN work = DOMAIN entries
  /\ abandoned \subseteq DOMAIN work
  /\ builder \in [Schemes -> 0 .. Len(entries)]

LEMMA SplitLength ==
  ASSUME world \in Worlds, NEW next, Split(next), world' = world
  PROVE  /\ Len(entries') \in Nat
         /\ pc' = next \/ (pc' = "failed" /\ entries' = <<>>)
  <1>1. CASE SplitEntries(Path) = {}
    <2>1. Len(<<>>) = 0
      OBVIOUS
    <2> QED BY <1>1, <2>1 DEF Split
  <1>2. CASE SplitEntries(Path) # {}
    BY <1>2, SplitShape DEF Split
  <1> QED BY <1>1, <1>2

LEMMA AnswerKeepsBooks ==
  ASSUME PathSplit, Bookkeeping, pc \in {"entry", "await"}, NEW how \in Outcome, Answer(how),
         UNCHANGED <<run, entries, builder>>,
         DOMAIN work' = DOMAIN work, abandoned' \subseteq DOMAIN work', run = "fetch"
  PROVE  Bookkeeping'
  <1>1. /\ Len(answers') = Len(answers) + 1 /\ Len(answers) \in Nat
        /\ pc' \in {"done", "entry"} /\ Len(answers) < Len(entries)
    BY OneMoreAnswer DEF Answer, PathSplit
  <1> QED BY <1>1 DEF Bookkeeping, Ended

LEMMA RescueKeepsBooks ==
  ASSUME PathSplit, Bookkeeping, pc = "await", Rescue,
         UNCHANGED <<run, entries, builder, work>>, abandoned' \subseteq DOMAIN work, run = "fetch"
  PROVE  Bookkeeping'
  <1>1. CASE Answer("stale")
    BY <1>1, AnswerKeepsBooks DEF Outcome
  <1>2. CASE pc' = "failed" /\ answers' = answers
    BY <1>2 DEF Bookkeeping, Ended
  <1> QED BY <1>1, <1>2 DEF Rescue

LEMMA StepBookkeeping ==
  ASSUME ConfigRead, PathSplit, Bookkeeping, [Next]_vars
  PROVE  Bookkeeping'
  <1>0. world' = world /\ world \in Worlds /\ Len(<<>>) = 0
    BY WorldStays DEF PathSplit
  <1> USE DEF Bookkeeping
  <1>1. CASE UNCHANGED vars \/ Expire
    BY <1>1 DEF vars, Expire, process, goroutines
  <1>2. CASE CheckLoad
    BY <1>2, LoadReads DEF CheckLoad, goroutines, ConfigRead, Unread, Ended
  <1>3. CASE CheckPing
    BY <1>3 DEF CheckPing, process, Ended
  <1>4. CASE CheckSplit
    <2>1. /\ Len(entries') \in Nat /\ pc' \in {"entry", "failed"} /\ answers' = <<>>
          /\ run' = "check" /\ UNCHANGED <<work, abandoned, builder>>
      BY <1>0, <1>4, SplitLength DEF CheckSplit, goroutines, PathSplit
    <2> QED BY <1>0, <1>4, <2>1 DEF CheckSplit, Ended
  <1>5. CASE CheckEntry
    <2>1. Diagnosis(Current) \in Outcome
      BY DEF Diagnosis, Outcome
    <2>2. /\ Len(answers') = Len(answers) + 1 /\ Len(answers) < Len(entries)
          /\ pc' \in {"entry", "failed", "done"} /\ run' = "check" /\ entries' = entries
          /\ UNCHANGED <<work, abandoned, builder>>
      BY <1>5, <2>1, OneMoreAnswer DEF CheckEntry, ExitCode, process, goroutines, PathSplit
    <2> QED BY <1>5, <2>2 DEF CheckEntry, Ended
  <1>6. CASE CheckOver
    BY <1>0, <1>6 DEF CheckOver, Schemes
  <1>7. CASE FetchSplit
    <2>1. /\ Len(entries') \in Nat /\ pc' \in {"load", "failed"} /\ answers' = <<>>
          /\ run' = "fetch" /\ UNCHANGED <<work, abandoned, builder>>
      BY <1>0, <1>7, SplitLength DEF FetchSplit, goroutines, PathSplit
    <2> QED BY <1>0, <1>7, <2>1 DEF FetchSplit, Ended
  <1>8. CASE FetchLoad
    <2>1. /\ pc' \in {"entry", "failed"} /\ work' = [i \in DOMAIN entries |-> "none"]
          /\ UNCHANGED <<run, entries, answers, abandoned, builder>>
      BY <1>8, LoadReads DEF FetchLoad, ConfigRead, Unread
    <2> QED BY <1>8, <2>1 DEF FetchLoad, Ended
  <1>9. CASE Reject
    BY <1>9 DEF Reject, process, goroutines, Ended
  <1>10. CASE CacheHit
    BY <1>10, AnswerKeepsBooks DEF CacheHit, process, goroutines, Outcome
  <1>11. CASE StartResolve
    BY <1>11 DEF StartResolve, process
  <1>12. CASE TakeResult
    BY <1>12, AnswerKeepsBooks DEF TakeResult, process, goroutines, Outcome, PathSplit
  <1>13. CASE TakeError
    BY <1>13, RescueKeepsBooks DEF TakeError, process, goroutines, PathSplit
  <1>14. CASE GiveUp
    <2>1. run = "fetch" /\ Len(answers) + 1 \in DOMAIN work
      BY <1>14, CurrentEntry DEF GiveUp, PathSplit
    <2> QED BY <1>14, <2>1, RescueKeepsBooks DEF GiveUp, process
  <1>15. ASSUME NEW i \in DOMAIN work, Ensure(i) \/ Build(i) \/ BuildFails(i) \/ Request(i)
         PROVE  Bookkeeping'
    <2>1. /\ pc \in {"entry", "await"} /\ pc' \in {pc, "crashed"} /\ DOMAIN work' = DOMAIN work
          /\ UNCHANGED <<run, entries, answers, abandoned>>
      BY <1>15 DEF Ensure, Build, BuildFails, Request, In, To, process
    <2>2. run = "fetch"
      <3>1. DOMAIN <<>> = {}
        OBVIOUS
      <3> QED BY <3>1, <1>15 DEF PathSplit
    <2>3. builder' \in [Schemes -> 0 .. Len(entries)]
      <3>1. i \in 0 .. Len(entries)
        BY <2>1, <2>2, <1>0, SplitShape DEF PathSplit
      <3>2. CASE builder' = builder
        BY <3>2
      <3>3. CASE builder' = [builder EXCEPT ![SchemeOf(i)] = i]
        BY <3>1, <3>3
      <3> QED
        BY <1>15, <3>2, <3>3 DEF Ensure, Build, BuildFails, Request, Keep
    <2> QED BY <2>1, <2>2, <2>3 DEF Ended
  <1> QED
    BY <1>1, <1>2, <1>3, <1>4, <1>5, <1>6, <1>7, <1>8, <1>9, <1>10, <1>11, <1>12, <1>13,
       <1>14, <1>15 DEF Next

LEMMA BookkeepingInvariant == Spec => [](IInv /\ Bookkeeping)
  <1>1. Init => IInv /\ Bookkeeping
    <2>1. Len(<<>>) = 0
      OBVIOUS
    <2> QED
      BY <2>1, InitConfigRead, InitPathSplit DEF IInv, Init, Bookkeeping, Ended
  <1>2. IInv /\ Bookkeeping /\ [Next]_vars => (IInv /\ Bookkeeping)'
    BY StepConfigRead, StepPathSplit, StepCheckedSoFar, StepOnlyTime, StepBookkeeping DEF IInv
  <1> QED
    BY <1>1, <1>2, PTL DEF Spec

(* Answers never outnumber entries, a goroutine that nobody waits for is the one
   of an entry, and a client is remembered with the entry it was built for.
   plugin.go:134-205, 292-312. *)
THEOREM InvocationTypes == Spec => []TypeOK
  <1>1. IInv /\ Bookkeeping => TypeOK
    BY DEF IInv, ConfigRead, BuiltAfterwards, PathSplit, Bookkeeping, TypeOK
  <1> QED
    BY <1>1, BookkeepingInvariant, PTL

----------------------------------------------------------------------------
(* The configuration *)

(* What LoadConfig returns has passed its last check. *)
LEMMA LoadedIsSelected ==
  ASSUME NEW site, NEW c \in LoadConfig(site)
  PROVE  Selected(c)
  BY DEF LoadConfig

(* A Connect host without a token is refused, so that the host alone says
   whether 1Password is registered. *)
LEMMA SelectedIsDescribed ==
  ASSUME NEW c, Selected(c)
  PROVE  /\ Registered(c) # {}
         /\ ("1Password" \in Describe(c) <=> Op \in Registered(c))
         /\ ("AWS" \in Describe(c) <=> {Ssm, Sm} \subseteq Registered(c))
  <1>1. Op # Ssm /\ Op # Sm
    BY DEF Op, Ssm, Sm
  <1>2. OPEnabled(c) <=> c.sa # "" \/ c.host # ""
    BY DEF Selected, AnyBackend, OPEnabled
  <1>3. OPEnabled(c) \/ AWSEnabled(c)
    BY DEF Selected, AnyBackend, OPEnabled
  <1>4. /\ Op \in Registered(c) <=> OPEnabled(c)
        /\ Ssm \in Registered(c) <=> AWSEnabled(c)
        /\ Sm \in Registered(c) <=> AWSEnabled(c)
    BY <1>1 DEF Registered
  <1>5. /\ "1Password" \in Describe(c) <=> c.sa # "" \/ c.host # ""
        /\ "AWS" \in Describe(c) <=> AWSEnabled(c)
    BY DEF Describe
  <1> QED BY <1>2, <1>3, <1>4, <1>5

(* A loaded configuration describes itself by exactly the backends for which a
   provider is registered, and there is one.  config.go:61-82, 161-175,
   plugin.go:45-82. *)
THEOREM DescriptionsAreTrue == Spec => []DescribesRegistered
  <1>1. IInv => DescribesRegistered
    <2> SUFFICES ASSUME IInv, NEW c \in cfg
                 PROVE  /\ Registered(c) # {}
                        /\ ("1Password" \in Describe(c) <=> Op \in Registered(c))
                        /\ ("AWS" \in Describe(c) <=> {Ssm, Sm} \subseteq Registered(c))
      BY DEF DescribesRegistered
    <2>1. c \in LoadConfig(Site)
      BY DEF IInv, ConfigRead, Loadable
    <2> QED BY <2>1, LoadedIsSelected, SelectedIsDescribed
  <1> QED
    BY <1>1, InvocationInvariant, PTL

(* At most one host file is read. *)
LEMMA OneHostFile ==
  ASSUME NEW files, NEW g \in HostFile(files), NEW h \in HostFile(files)
  PROVE  g = h
  <1>1. ASSUME NEW file, NEW v \in ParseEnvFile(file), NEW w \in ParseEnvFile(file)
        PROVE  v = w
    BY <1>1 DEF ParseEnvFile
  <1> QED BY <1>1 DEF HostFile

(* LoadConfig looks at the environment only through Lookup. *)
LEMMA LookupDecides ==
  ASSUME NEW site, NEW other,
         \A h \in HostFile(site.files) : Lookup(h.vals, other.env) = Lookup(h.vals, site.env),
         other.files = site.files, other.tokens = site.tokens
  PROVE  LoadConfig(other) = LoadConfig(site)
  BY DEF LoadConfig

LEMMA SameLookup ==
  ASSUME NEW vals, NEW e1, NEW e2,
         \A k \in Settings \ DOMAIN vals : Getenv(e1, k) = Getenv(e2, k)
  PROVE  Lookup(vals, e1) = Lookup(vals, e2)
  BY DEF Lookup

(* Two environments that agree on the settings the host file leaves unset give
   the same configuration.  config.go:116-121. *)
THEOREM HostFileWins == Spec => []HostFileDecides
  <1>1. IInv => HostFileDecides
    <2> SUFFICES ASSUME IInv, pc = "ping", NEW n \in DOMAIN Environments,
                        \A k \in Settings \ SetByHost :
                          Getenv(Environments[n], k) = Getenv(Site.env, k)
                 PROVE  cfg = LoadConfig([Site EXCEPT !.env = Environments[n]])
      BY DEF HostFileDecides
    <2> DEFINE other == [Site EXCEPT !.env = Environments[n]]
    <2>1. cfg = LoadConfig(Site)
      BY DEF IInv, ConfigRead, Loadable
    <2>2. other.env = Environments[n] /\ other.files = Site.files /\ other.tokens = Site.tokens
      BY DEF Site
    <2>3. ASSUME NEW h \in HostFile(Site.files)
          PROVE  Lookup(h.vals, other.env) = Lookup(h.vals, Site.env)
      <3>1. SetByHost = DOMAIN h.vals
        BY <2>3, OneHostFile DEF SetByHost
      <3> QED BY <2>2, <3>1, SameLookup
    <2> HIDE DEF other
    <2>4. LoadConfig(other) = LoadConfig(Site)
      BY <2>2, <2>3, LookupDecides
    <2> QED BY <2>1, <2>4 DEF other
  <1> QED
    BY <1>1, InvocationInvariant, PTL

----------------------------------------------------------------------------
(* What a check reports *)

(* While its time lasts, a check has failed exactly the entries behind it that
   cannot be reached, and it ends behind the last one. *)
ReportedSoFar ==
  run = "check" /\ entries # <<>> =>
    /\ cfg = Loadable
    /\ pc \in Ended => DOMAIN answers = DOMAIN entries
    /\ ctx = "live" =>
         \A i \in DOMAIN answers : answers[i] = "failed" <=> ~Reachable(entries[i].text)

LEMMA StepReported ==
  ASSUME IInv, Bookkeeping, ReportedSoFar, [Next]_vars
  PROVE  ReportedSoFar'
  <1> USE DEF ReportedSoFar
  <1>0. world' = world
    BY WorldStays
  <1>a. Loadable' = Loadable /\ \A text : Reachable(text)' = Reachable(text)
    BY <1>0, SameWorld
  <1> USE <1>a
  <1>1. CASE run' = "fetch" \/ entries' = <<>>
    BY <1>1
  <1>2. CASE Expire
    BY <1>2 DEF Expire
  <1>3. CASE CheckSplit
    <2>1. /\ cfg = Loadable /\ cfg' = cfg /\ answers' = <<>>
          /\ pc' \in {"entry", "failed"} /\ (pc' = "failed" => entries' = <<>>)
      BY <1>3 DEF CheckSplit, Split, IInv, ConfigRead, PathSplit
    <2> QED BY <2>1 DEF Ended
  <1>4. CASE CheckEntry
    <2>1. /\ cfg = Loadable /\ entries \in SplitEntries(Path)
          /\ answers \in Seq(Outcome) /\ Len(answers) < Len(entries)
      BY <1>4 DEF CheckEntry, IInv, ConfigRead, PathSplit
    <2>2. entries # <<>> /\ Len(entries) \in Nat /\ DOMAIN entries = 1..Len(entries)
      <3>1. Len(<<>>) = 0
        OBVIOUS
      <3> QED BY <2>1, <3>1, SplitShape DEF IInv, PathSplit
    <2>3. Diagnosis(Current) \in Outcome
      BY DEF Diagnosis, Outcome
    <2>4. /\ answers' = Append(answers, Diagnosis(Current))
          /\ UNCHANGED <<run, cfg, ctx, entries>>
      BY <1>4 DEF CheckEntry, process
    <2>5. ctx = "live" => (Diagnosis(Current) = "failed" <=> ~Reachable(Current))
      BY <2>1, ReachableIsAnswerable DEF Diagnosis
    <2>6. /\ Len(answers') = Len(answers) + 1 /\ DOMAIN answers' = 1..Len(answers')
          /\ \A i \in DOMAIN answers : answers'[i] = answers[i]
          /\ DOMAIN answers = 1..Len(answers) /\ Len(answers) \in Nat
          /\ answers'[Len(answers) + 1] = Diagnosis(Current)
      BY <2>1, <2>3, <2>4
    <2>7. ASSUME ctx = "live", NEW i \in DOMAIN answers'
          PROVE  answers'[i] = "failed" <=> ~Reachable(entries[i].text)
      <3>1. CASE i \in DOMAIN answers
        BY <1>4, <2>2, <2>6, <2>7, <3>1 DEF CheckEntry
      <3>2. CASE i = Len(answers) + 1
        BY <2>5, <2>6, <2>7, <3>2 DEF Current
      <3> QED BY <2>6, <2>7, <3>1, <3>2
    <2>8. pc' \in Ended => DOMAIN answers' = DOMAIN entries
      <3>1. pc' \in Ended => ~(Len(answers') < Len(entries))
        BY <1>4 DEF CheckEntry, Ended
      <3>2. Len(answers) < Len(entries) /\ Len(answers) \in Nat /\ Len(entries) \in Nat
            /\ Len(answers') = Len(answers) + 1
        BY <2>1, <2>2, <2>6
      <3>3. pc' \in Ended => Len(answers') = Len(entries)
        BY <3>1, <3>2
      <3> QED BY <2>2, <2>6, <3>3
    <2> QED BY <2>1, <2>4, <2>7, <2>8
  <1>5. CASE UNCHANGED <<run, pc, cfg, ctx, entries, answers>>
    BY <1>5
  <1>6. CASE CheckLoad \/ CheckPing
    BY <1>1, <1>6 DEF CheckLoad, CheckPing, process, Bookkeeping
  <1>7. CASE CheckOver \/ FetchSplit \/ FetchLoad \/ Reject \/ CacheHit \/ StartResolve
    BY <1>1, <1>7 DEF CheckOver, FetchSplit, FetchLoad, Reject, CacheHit, StartResolve
  <1>8. CASE TakeResult \/ TakeError \/ GiveUp
    BY <1>1, <1>8 DEF TakeResult, TakeError, GiveUp, IInv, PathSplit
  <1>9. ASSUME NEW i \in DOMAIN work, Ensure(i) \/ Build(i) \/ BuildFails(i) \/ Request(i)
        PROVE  ReportedSoFar'
    <2>1. DOMAIN <<>> = {}
      OBVIOUS
    <2>2. run = "fetch"
      BY <1>9, <2>1 DEF Bookkeeping, IInv, PathSplit
    <2> QED
      BY <1>1, <1>9, <2>2 DEF Ensure, Build, BuildFails, Request
  <1> QED
    BY <1>2, <1>3, <1>4, <1>5, <1>6, <1>7, <1>8, <1>9 DEF Next, vars, process

(* In time, a check reports every entry that cannot be answered, also behind
   another one, and none that can.  check.go:125-154. *)
THEOREM ChecksReportAll == Spec => []CheckReportsAll
  <1>1. Init => ReportedSoFar
    BY DEF Init, ReportedSoFar
  <1>2. Spec => []ReportedSoFar
    BY <1>1, StepReported, BookkeepingInvariant, PTL DEF Spec
  <1>3. ReportedSoFar => CheckReportsAll
    <2> SUFFICES ASSUME ReportedSoFar, run = "check", ctx = "live", entries # <<>>, pc \in Ended
                 PROVE  {i \in DOMAIN answers : answers[i] = "failed"} =
                          {i \in DOMAIN entries : ~Answerable(entries[i].text)}
      BY DEF CheckReportsAll
    <2>1. DOMAIN answers = DOMAIN entries /\ cfg = Loadable
      BY DEF ReportedSoFar
    <2>2. \A i \in DOMAIN answers : answers[i] = "failed" <=> ~Answerable(entries[i].text)
      BY <2>1, ReachableIsAnswerable DEF ReportedSoFar
    <2> QED BY <2>1, <2>2
  <1> QED
    BY <1>2, <1>3, PTL

----------------------------------------------------------------------------
(* Which clients a fetch builds *)

(* A goroutine was started for an entry with a provider, and a client was built
   by the goroutine of an entry that goes to it. *)
BuildsCovered ==
  run = "fetch" =>
    /\ \A i \in DOMAIN work : work[i] # "none" => Route1(entries[i].text) # {}
    /\ \A s \in Schemes : builds[s] > 0 =>
         \E i \in DOMAIN work : work[i] # "none" /\ s \in Route1(entries[i].text)

Active == {"ensure", "build", "request"}

(* As long as every goroutine is waited for, only the one of the current entry
   runs, and it builds a client only if there is none. *)
BuiltOnce ==
  run = "fetch" /\ abandoned = {} =>
    /\ \A s \in Schemes : builds[s] <= 1 /\ (builder[s] = 0 => builds[s] = 0)
    /\ pc \in {"entry", "await"} =>
         \A i \in DOMAIN work :
           /\ work[i] \in Active => pc = "await" /\ i = Len(answers) + 1
           /\ work[i] = "build" => builder[SchemeOf(i)] = 0

ClientInv == BuildsCovered /\ BuiltOnce

LEMMA RoutesToSchemes ==
  ASSUME NEW text
  PROVE  Route1(text) \subseteq Schemes
  BY DEF Route1, Route, Registered, Schemes

(* A goroutine that moves on stays started, and keeps its scheme. *)
LEMMA GoroutineKeepsCover ==
  ASSUME ClientInv, run = "fetch", NEW i \in DOMAIN work, work[i] # "none",
         UNCHANGED <<run, cfg, entries>>,
         NEW next, next # "none", To(i, next),
         \/ builds' = builds
         \/ builds \in [Schemes -> Nat] /\ builds' = [builds EXCEPT ![SchemeOf(i)] = @ + 1]
  PROVE  BuildsCovered'
  <1>1. /\ DOMAIN work' = DOMAIN work
        /\ \A j \in DOMAIN work : work'[j] # "none" <=> work[j] # "none"
    BY DEF To
  <1>2. \A j \in DOMAIN work : Route1(entries[j].text)' = Route1(entries[j].text)
    BY DEF Route1
  <1>3. SchemeOf(i) \in Route1(entries[i].text)
    BY DEF ClientInv, BuildsCovered, SchemeOf
  <1>4. \A s \in Schemes : builds'[s] > 0 => builds[s] > 0 \/ s = SchemeOf(i)
    OBVIOUS
  <1> QED
    BY <1>1, <1>2, <1>3, <1>4 DEF ClientInv, BuildsCovered

LEMMA StepClients ==
  ASSUME IInv, Bookkeeping, ClientInv, [Next]_vars
  PROVE  ClientInv'
  <1> USE DEF ClientInv, BuildsCovered, BuiltOnce
  <1>0. builds \in [Schemes -> Nat] /\ DOMAIN <<>> = {}
    BY DEF IInv, BuiltAfterwards
  <1>1. CASE run' = "check"
    BY <1>1
  <1>2. CASE CheckOver
    BY <1>0, <1>2 DEF CheckOver, Schemes
  <1>3. CASE FetchSplit
    BY <1>0, <1>3 DEF FetchSplit, Split, goroutines, Bookkeeping
  <1>4. CASE FetchLoad
    <2>1. \A s \in Schemes : builds[s] = 0
      BY <1>0, <1>4 DEF FetchLoad, Bookkeeping
    <2>2. work' = [i \in DOMAIN entries |-> "none"] /\ builds' = builds
      BY <1>4 DEF FetchLoad
    <2> QED BY <2>1, <2>2 DEF Active
  <1>5. CASE UNCHANGED <<run, cfg, entries, goroutines>> /\ (pc' \in Ended \/ UNCHANGED <<pc, answers>>)
    <2>1. BuildsCovered'
      BY <1>5 DEF goroutines, Route1
    <2>2. \A i \in DOMAIN work : SchemeOf(i)' = SchemeOf(i)
      BY <1>5 DEF goroutines, SchemeOf, Route1
    <2>3. CASE pc' \in Ended
      BY <1>5, <2>1, <2>3 DEF goroutines, Ended
    <2>4. CASE UNCHANGED <<pc, answers>>
      BY <1>5, <2>1, <2>2, <2>4 DEF goroutines
    <2> QED BY <1>5, <2>3, <2>4
  <1>6. CASE CacheHit \/ TakeResult \/ TakeError
    <2>1. UNCHANGED <<run, cfg, entries, goroutines>> /\ pc \in {"entry", "await"}
      BY <1>6 DEF CacheHit, TakeResult, TakeError, process
    <2>2. BuildsCovered'
      BY <2>1 DEF goroutines, Route1
    <2>3. run = "fetch" /\ abandoned = {} => \A i \in DOMAIN work : work[i] \notin Active
      BY <1>6 DEF CacheHit, TakeResult, TakeError, Active
    <2>4. BuiltOnce'
      BY <2>1, <2>3 DEF goroutines, Active
    <2> QED BY <2>2, <2>4
  <1>7. CASE StartResolve
    <2> DEFINE n == Len(answers) + 1
    <2>1. /\ work' = [work EXCEPT ![n] = "ensure"] /\ run = "fetch" /\ pc = "entry"
          /\ UNCHANGED <<run, cfg, entries, answers, abandoned, builder, builds>> /\ pc' = "await"
      BY <1>7 DEF StartResolve, process
    <2>2. Route1(entries[n].text) # {}
      BY <1>7 DEF StartResolve, Routed, Current
    <2>3. \A i \in DOMAIN work : Route1(entries[i].text)' = Route1(entries[i].text)
      BY <2>1 DEF Route1
    <2>4. /\ DOMAIN work' = DOMAIN work
          /\ \A i \in DOMAIN work : work'[i] = IF i = n THEN "ensure" ELSE work[i]
      BY <2>1
    <2>5. BuildsCovered'
      BY <2>1, <2>2, <2>3, <2>4
    <2>6. BuiltOnce'
      BY <2>1, <2>4 DEF Active
    <2> QED BY <2>5, <2>6
  <1>8. CASE GiveUp
    <2>1. BuildsCovered'
      BY <1>8 DEF GiveUp, process, Route1
    <2>2. abandoned' # {}
      BY <1>8 DEF GiveUp
    <2> QED BY <2>1, <2>2
  <1>9. ASSUME NEW i \in DOMAIN work, Ensure(i) \/ Build(i) \/ BuildFails(i) \/ Request(i)
        PROVE  ClientInv'
    <2>1. run = "fetch"
      BY <1>0, <1>9 DEF Bookkeeping, IInv, PathSplit
    <2>2. /\ UNCHANGED <<run, cfg, entries, answers, abandoned>> /\ work[i] \in Active
          /\ pc \in {"entry", "await"} /\ pc' \in {pc, "crashed"}
      BY <1>9 DEF Ensure, Build, BuildFails, Request, In, process, Active
    <2>3. /\ SchemeOf(i) \in Schemes
          /\ \A j \in DOMAIN work : SchemeOf(j)' = SchemeOf(j)
      BY <2>1, <2>2, RoutesToSchemes DEF SchemeOf, Route1, Active
    <2>4. abandoned = {} => \A j \in DOMAIN work : work[j] \in Active => j = i
      BY <2>1, <2>2
    <2>5. CASE Ensure(i)
      <3>1. builder' = builder /\ builds' = builds
        BY <2>5 DEF Ensure
      <3>2. CASE work' = work
        BY <2>1, <2>2, <2>3, <3>1, <3>2 DEF Route1
      <3>3. CASE To(i, "request")
        BY <2>1, <2>2, <2>3, <2>4, <3>1, <3>3, GoroutineKeepsCover DEF To, Active
      <3>4. CASE To(i, "build") /\ "nothing" \in Seen(i)
        <4>1. abandoned = {} => builder[SchemeOf(i)] = 0
          BY <3>4 DEF Seen
        <4>2. BuildsCovered'
          BY <2>1, <2>2, <3>1, <3>4, GoroutineKeepsCover DEF Active
        <4>3. /\ DOMAIN work' = DOMAIN work
              /\ \A j \in DOMAIN work : work'[j] = IF j = i THEN "build" ELSE work[j]
          BY <3>4 DEF To
        <4> QED BY <2>1, <2>2, <2>3, <2>4, <3>1, <4>1, <4>2, <4>3 DEF Active
      <3> QED BY <2>5, <3>2, <3>3, <3>4 DEF Ensure
    <2>6. CASE Build(i)
      <3>1. /\ builder' = [builder EXCEPT ![SchemeOf(i)] = i] /\ To(i, "request")
            /\ builds' = [builds EXCEPT ![SchemeOf(i)] = @ + 1] /\ work[i] = "build"
        BY <2>6 DEF Build, Keep, In
      <3>2. BuildsCovered'
        BY <1>0, <2>1, <2>2, <3>1, GoroutineKeepsCover
      <3>3. i # 0
        BY <2>1, <2>2, SplitShape DEF Bookkeeping, IInv, PathSplit
      <3>4. /\ builder \in [Schemes -> 0 .. Len(entries)]
            /\ \A s \in Schemes : /\ builder'[s] = IF s = SchemeOf(i) THEN i ELSE builder[s]
                                  /\ builds'[s] = IF s = SchemeOf(i) THEN builds[s] + 1 ELSE builds[s]
        BY <1>0, <3>1 DEF Bookkeeping
      <3>5. abandoned = {} => builds[SchemeOf(i)] = 0
        BY <2>1, <2>2, <2>3, <3>1
      <3>6. abandoned = {} =>
              \A s \in Schemes : builds'[s] <= 1 /\ (builder'[s] = 0 => builds'[s] = 0)
        BY <2>1, <3>3, <3>4, <3>5
      <3>7. abandoned = {} => \A j \in DOMAIN work' :
              /\ work'[j] \in Active => j = i
              /\ work'[j] # "build"
        BY <2>4, <3>1 DEF To, Active
      <3> QED BY <2>1, <2>2, <3>2, <3>6, <3>7
    <2>7. CASE BuildFails(i) \/ Request(i)
      <3>1. PICK next \in {"ok", "failed"} : To(i, next)
        BY <2>7 DEF BuildFails, Request
      <3>2. builder' = builder /\ builds' = builds
        BY <2>7 DEF BuildFails, Request
      <3>3. BuildsCovered'
        BY <2>1, <2>2, <3>1, <3>2, GoroutineKeepsCover DEF Active
      <3>4. DOMAIN work' = DOMAIN work /\ \A j \in DOMAIN work : j # i => work'[j] = work[j]
        BY <3>1 DEF To
      <3>5. work'[i] \notin Active
        BY <3>1 DEF To, Active
      <3> QED BY <2>1, <2>2, <2>3, <2>4, <3>2, <3>3, <3>4, <3>5 DEF Active
    <2> QED BY <1>9, <2>5, <2>6, <2>7
  <1>10. CASE CheckLoad \/ CheckPing \/ CheckSplit \/ CheckEntry
    BY <1>1, <1>10 DEF CheckLoad, CheckPing, CheckSplit, CheckEntry
  <1>11. CASE Expire \/ Reject \/ UNCHANGED vars
    BY <1>5, <1>11 DEF Expire, Reject, vars, process, goroutines, Ended
  <1> QED
    BY <1>2, <1>3, <1>4, <1>6, <1>7, <1>8, <1>9, <1>10, <1>11 DEF Next

(* A fetch builds a client only for an entry that the cache did not answer, and
   no second one unless it has abandoned a goroutine.
   plugin.go:231-236, onepassword.go:113-143. *)
THEOREM ClientsAreBuiltOnce == Spec => []BuildsWhenNeeded
  <1>1. Init => ClientInv
    BY DEF Init, ClientInv, BuildsCovered, BuiltOnce
  <1>2. Spec => []ClientInv
    BY <1>1, StepClients, BookkeepingInvariant, PTL DEF Spec
  <1>3. IInv /\ ClientInv => BuildsWhenNeeded
    BY DEF IInv, BuiltAfterwards, ClientInv, BuildsCovered, BuiltOnce, BuildsWhenNeeded
  <1> QED
    BY <1>2, <1>3, InvocationInvariant, PTL
=============================================================================
