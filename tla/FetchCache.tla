----------------------------- MODULE FetchCache -----------------------------
(***************************************************************************)
(* The fetch protocol of internal/plugin: several one-shot processes, each *)
(* resolving its list of references through the shared cache directory.    *)
(*                                                                         *)
(*   lookup   about to call fetchOne for the next reference                *)
(*   lock     fresh miss: inside Cache.Lock, about to try the lock file    *)
(*   wait     between two polls of a lock file that was taken              *)
(*   recheck  the lock is held: about to read the cache a second time      *)
(*   await    inside resolveWithin: the resolve goroutine runs             *)
(*   rename   inside Put: the temporary file is written                    *)
(*                                                                         *)
(* A process may be preempted between any two of these steps for as long   *)
(* as Nomad lets it live (KillWindow).  fetchOne's deferred release runs   *)
(* in the step that returns from it: nothing happens in between that       *)
(* another process can see, except that the lock is held a little longer.  *)
(***************************************************************************)
EXTENDS DiskCache, Sequences

CONSTANTS
  Refs,       \* Refs[p]: the cache keys of p's entries, in order
  BadRefs,    \* keys standing for references Route or CacheKey rejects
  Timeout,    \* cfg.Timeout: one budget for all the references of a fetch
  KillWindow, \* Nomad kills the plugin this long after starting it
  Faults,     \* which failures the environment may produce
  MaxTime,    \* bound: the clock stops here
  Rotating,   \* bound: the keys whose secret is ever rotated
  MaxVer      \* bound: versions such a secret goes through

FaultKinds ==
  { "lock",     \* the lock file cannot be opened or flock is unsupported
    "store",    \* cache.New fails
    "read",     \* an existing entry cannot be read or parsed
    "put",      \* a write, close or rename fails
    "refuse",   \* the backend answers that the secret is gone or forbidden
    "outage",   \* the backend cannot be reached
    "kill" }    \* the process dies before Nomad's kill window is over

ASSUME RefsAssumption == Refs \in [Procs -> Seq(Keys) \ {<<>>}]
ASSUME TimeAssumption ==
  /\ Timeout \in Nat /\ KillWindow \in Nat
  /\ MaxTime \in Nat /\ MaxVer \in Nat \ {0}
ASSUME FaultAssumption == Faults \subseteq FaultKinds

VARIABLES
  now,      \* the clock of the node
  retired,  \* retired[k][v]: when version v of k's secret was rotated away
  pc,       \* pc[p]: where process p is
  deadline, \* deadline[p]: when p's context is done
  store,    \* store[p]: p opened the cache
  lock,     \* lock[p]: how p's call to Lock for the current reference ended
  call,     \* call[p]: p's resolve goroutine and its buffered channel
  out       \* out[p]: the answers p has so far, one per reference

procVars == <<pc, deadline, store, lock, call, out>>
vars == <<diskVars, now, retired, procVars>>

Polling    == {"lock", "wait"}
Running    == {"lookup", "lock", "wait", "recheck", "await", "rename"}
Stopped    == {"done", "failed", "dead"}
Errors     == {"refused", "unreachable", "timeout"}
LockStates == {"none", "held", "unavailable", "expired"}
CallStates == {"none", "working", "ok"} \cup Errors
Sources    == {"live", "hit"} \cup Errors  \* an error: served stale after it

NoCall == [st |-> "none", ver |-> 0]
Answer == [ver : Nat, at : Nat, src : Sources]

TypeOK ==
  /\ DiskTypeOK
  /\ now \in Nat
  /\ retired  \in [Keys -> Seq(Nat)]
  /\ pc       \in [Procs -> {"idle"} \cup Running \cup Stopped]
  /\ deadline \in [Procs -> Nat]
  /\ store    \in [Procs -> BOOLEAN]
  /\ lock     \in [Procs -> LockStates]
  /\ call     \in [Procs -> [st : CallStates, ver : Nat]]
  /\ out      \in [Procs -> Seq(Answer)]

Init ==
  /\ DiskInit
  /\ now = 0
  /\ retired  = [k \in Keys |-> <<>>]
  /\ pc       = [p \in Procs |-> "idle"]
  /\ deadline = [p \in Procs |-> 0]
  /\ store    = [p \in Procs |-> FALSE]
  /\ lock     = [p \in Procs |-> "none"]
  /\ call     = [p \in Procs |-> NoCall]
  /\ out      = [p \in Procs |-> <<>>]

----------------------------------------------------------------------------
(* State functions *)

Key(p)     == Refs[p][Len(out[p]) + 1]
Live(p)    == pc[p] \in Running
Expired(p) == now >= deadline[p]              \* ctx.Done() is ready
Current(k) == Len(retired[k]) + 1             \* the backend's version of k
Faulty(f)  == f \in Faults

(* A fetch with OP_CACHE_TTL=0 and OP_CACHE_MAX_STALE=0 has no cache dir. *)
Stores == IF TTL = 0 /\ MaxStale = 0 THEN {FALSE}
          ELSE IF Faulty("store") THEN BOOLEAN ELSE {TRUE}

(* The first moment Nomad would kill p: its start plus the kill window. *)
KillTime(p) == deadline[p] - Timeout + KillWindow

Goto(p, from, to) == pc[p] = from /\ pc' = [pc EXCEPT ![p] = to]

(* fetchOne returns a value: the lock is released and the loop of fetch goes
   on to the next reference, or the response is complete. *)
ReturnAnswer(p, v, src) ==
  /\ out'   = [out EXCEPT ![p] = Append(@, [ver |-> v, at |-> now, src |-> src])]
  /\ pc'    = [pc EXCEPT ![p] =
                 IF Len(out[p]) + 1 = Len(Refs[p]) THEN "done" ELSE "lookup"]
  /\ lock'  = [lock EXCEPT ![p] = "none"]
  /\ call'  = [call EXCEPT ![p] = NoCall]
  /\ flock' = WithoutLocks(p)
  /\ UNCHANGED <<deadline, store, now, retired>>

(* fetch returns an error: no answer survives, the process exits. *)
ExitWithoutReply(p, how) ==
  /\ pc'    = [pc EXCEPT ![p] = how]
  /\ out'   = [out EXCEPT ![p] = <<>>]
  /\ lock'  = [lock EXCEPT ![p] = "none"]
  /\ call'  = [call EXCEPT ![p] = NoCall]
  /\ flock' = WithoutLocks(p)
  /\ UNCHANGED <<cache, deadline, store, now, retired>>

(* resolveWithin starts the goroutine that calls the provider. *)
StartResolveUnlocked(p, lockResult) ==  \* slip: release deferred to the if block only
  /\ pc'    = [pc EXCEPT ![p] = "await"]
  /\ lock'  = [lock EXCEPT ![p] = "none"]
  /\ call'  = [call EXCEPT ![p] = [st |-> "working", ver |-> 0]]
  /\ flock' = WithoutLocks(p)
  /\ UNCHANGED <<cache, tmp, deadline, store, out, now, retired>>

StartResolve(p, lockResult) ==
  /\ pc'   = [pc EXCEPT ![p] = "await"]
  /\ lock' = [lock EXCEPT ![p] = lockResult]
  /\ call' = [call EXCEPT ![p] = [st |-> "working", ver |-> 0]]
  /\ UNCHANGED <<diskVars, deadline, store, out, now, retired>>

----------------------------------------------------------------------------
(* The environment *)

(* Nomad's kill comes in time, so no process outlives its kill window. *)
Tick ==
  /\ now < MaxTime
  /\ \A p \in Procs : Live(p) => now < KillTime(p)
  /\ now' = now + 1
  /\ UNCHANGED <<diskVars, retired, procVars>>

Rotate(k) ==
  /\ k \in Rotating
  /\ Current(k) < MaxVer
  /\ retired' = [retired EXCEPT ![k] = Append(@, now)]
  /\ UNCHANGED <<diskVars, now, procVars>>

(* A process dies anywhere: descriptors close, its temporary file stays. *)
Kill(p) ==
  /\ Live(p)
  /\ Faulty("kill") \/ now >= KillTime(p)
  /\ ExitWithoutReply(p, "dead")
  /\ UNCHANGED tmp

----------------------------------------------------------------------------
(* Fetch *)

(* Nomad execs the plugin.  The last conjunct bounds the model: a process only
   starts when the clock can still reach the end of its kill window. *)
Start(p) ==
  /\ Goto(p, "idle", "lookup")
  /\ now + KillWindow <= MaxTime
  /\ deadline' = [deadline EXCEPT ![p] = now + Timeout]
  /\ \E s \in Stores : store' = [store EXCEPT ![p] = s]
  /\ UNCHANGED <<diskVars, lock, call, out, now, retired>>

(* Route finds no provider, or CacheKey does not parse the reference. *)
RejectReference(p) ==
  /\ pc[p] = "lookup"
  /\ Key(p) \in BadRefs
  /\ ExitWithoutReply(p, "failed")
  /\ UNCHANGED tmp

(* The first Get, and the second one made under the lock, find an entry. *)
CacheHit(p) ==
  /\ pc[p] \in {"lookup", "recheck"}
  /\ Key(p) \notin BadRefs
  /\ store[p] /\ Fresh(Key(p), now)
  /\ ReturnAnswer(p, cache[Key(p)].ver, "hit")
  /\ UNCHANGED <<cache, tmp>>

Misses(p) == ~Fresh(Key(p), now) \/ Faulty("read")

CacheMiss(p) ==
  /\ Goto(p, "lookup", "lock")
  /\ Key(p) \notin BadRefs
  /\ store[p] /\ Misses(p)
  /\ UNCHANGED <<diskVars, deadline, store, lock, call, out, now, retired>>

ResolveUncached(p) ==
  /\ pc[p] = "lookup"
  /\ Key(p) \notin BadRefs
  /\ ~store[p]
  /\ StartResolve(p, "none")

(* Lock cannot open the file, or flock fails for good: proceed unlocked. *)
LockUnavailable(p) ==
  /\ pc[p] \in Polling
  /\ Faulty("lock")
  /\ StartResolve(p, "unavailable")

(* A poll finds the lock free. *)
AcquireLock(p) ==
  /\ pc[p] \in Polling /\ pc' = [pc EXCEPT ![p] = "recheck"]
  /\ LockFree(p, Key(p))
  /\ TakeLock(p, Key(p))
  /\ lock' = [lock EXCEPT ![p] = "held"]
  /\ UNCHANGED <<cache, tmp, deadline, store, call, out, now, retired>>

(* The first poll finds it taken. *)
LockContended(p) ==
  /\ Goto(p, "lock", "wait")
  /\ ~LockFree(p, Key(p))
  /\ UNCHANGED <<diskVars, deadline, store, lock, call, out, now, retired>>

(* The context is done before the next poll: proceed unlocked, even if the lock
   is free again. *)
LockWaitBlocks(p) ==  \* slip: a blocking flock, the context seen only afterwards
  /\ pc[p] = "wait"
  /\ LockFree(p, Key(p)) /\ Expired(p)
  /\ StartResolve(p, "expired")

LockWaitRetries(p) ==  \* slip: looks again, to find the lock taken again
  /\ Goto(p, "wait", "lookup")
  /\ Expired(p)
  /\ UNCHANGED <<diskVars, deadline, store, lock, call, out, now, retired>>

LockWaitExpires(p) ==
  /\ pc[p] = "wait"
  /\ Expired(p)
  /\ StartResolve(p, "expired")

RecheckSkipped(p) ==  \* slip: no second Get
  /\ pc[p] = "recheck"
  /\ StartResolve(p, "held")

RecheckMiss(p) ==
  /\ pc[p] = "recheck"
  /\ Misses(p)
  /\ StartResolve(p, "held")

----------------------------------------------------------------------------
(* resolveWithin *)

Reply(p, st, ver) ==
  /\ pc[p] = "await" /\ call[p].st = "working"
  /\ call' = [call EXCEPT ![p] = [st |-> st, ver |-> ver]]
  /\ UNCHANGED <<diskVars, pc, deadline, store, lock, out, now, retired>>

(* The goroutine puts its outcome in the channel.  With the context done every
   backend call fails without reaching the backend. *)
BackendAnswers(p)  == ~Expired(p) /\ Reply(p, "ok", Current(Key(p)))
BackendRefuses(p)  == ~Expired(p) /\ Faulty("refuse") /\ Reply(p, "refused", 0)
BackendUnreached(p) == (Expired(p) \/ Faulty("outage")) /\ Reply(p, "unreachable", 0)

(* select takes the ctx.Done() case, even when an outcome is ready too. *)
GiveUpOnError(p) ==  \* slip: waits for the goroutine, then looks at the context
  /\ pc[p] = "await" /\ call[p].st \in {"refused", "unreachable"}
  /\ Expired(p)
  /\ call' = [call EXCEPT ![p] = [st |-> "timeout", ver |-> 0]]
  /\ UNCHANGED <<diskVars, pc, deadline, store, lock, out, now, retired>>

GiveUp(p) ==
  /\ pc[p] = "await" /\ call[p].st \in {"working", "ok", "refused", "unreachable"}
  /\ Expired(p)
  /\ call' = [call EXCEPT ![p] = [st |-> "timeout", ver |-> 0]]
  /\ UNCHANGED <<diskVars, pc, deadline, store, lock, out, now, retired>>

ServeStale(p) ==
  /\ pc[p] = "await" /\ call[p].st \in Errors
  /\ store[p] /\ Usable(Key(p), now)
  /\ ReturnAnswer(p, cache[Key(p)].ver, call[p].st)
  /\ UNCHANGED <<cache, tmp>>

FailClosed(p) ==
  /\ pc[p] = "await" /\ call[p].st \in Errors
  /\ ~store[p] \/ ~Usable(Key(p), now) \/ Faulty("read")
  /\ ExitWithoutReply(p, "failed")
  /\ UNCHANGED tmp

ServeUncached(p) ==
  /\ pc[p] = "await" /\ call[p].st = "ok"
  /\ ~store[p]
  /\ ReturnAnswer(p, call[p].ver, "live")
  /\ UNCHANGED <<cache, tmp>>

PutTemp(p) ==
  /\ Goto(p, "await", "rename")
  /\ call[p].st = "ok" /\ store[p]
  /\ StampEntry(p, call[p].ver, now)
  /\ UNCHANGED <<cache, flock, deadline, store, lock, call, out, now, retired>>

PutRename(p) ==
  /\ pc[p] = "rename"
  /\ RenameEntry(p, Key(p))
  /\ ReturnAnswer(p, call[p].ver, "live")

(* Put fails before or after the temporary file exists; the fetch does not. *)
PutFails(p) ==
  /\ \/ pc[p] = "await" /\ call[p].st = "ok" /\ store[p]
     \/ pc[p] = "rename"
  /\ Faulty("put")
  /\ DropEntry(p)
  /\ ReturnAnswer(p, call[p].ver, "live")
  /\ UNCHANGED cache

----------------------------------------------------------------------------
Step(p) ==
  \/ RejectReference(p) \/ CacheHit(p) \/ CacheMiss(p) \/ ResolveUncached(p)
  \/ LockUnavailable(p) \/ AcquireLock(p) \/ LockContended(p) \/ LockWaitExpires(p)
  \/ RecheckMiss(p)
  \/ GiveUp(p) \/ ServeStale(p) \/ FailClosed(p)
  \/ ServeUncached(p) \/ PutTemp(p) \/ PutRename(p) \/ PutFails(p)

Backend(p) == BackendAnswers(p) \/ BackendRefuses(p) \/ BackendUnreached(p)

Next ==
  \/ Tick
  \/ \E k \in Keys : Rotate(k)
  \/ \E p \in Procs : Start(p) \/ Kill(p) \/ Step(p) \/ Backend(p)

Spec == Init /\ [][Next]_vars

(* The scheduler runs a process that can move, and time passes.  Nothing is
   assumed of the backend: it may never answer. *)
Fairness ==
  /\ WF_vars(Tick)
  /\ \A p \in Procs : WF_vars(Step(p))

FairSpec == Spec /\ Fairness
----------------------------------------------------------------------------
(* Properties *)

(* Version v of k was the backend's value at time t or later. *)
HadVersion(k, v, t) ==
  /\ v \in 1..Current(k)
  /\ v < Current(k) => retired[k][v] >= t

(* How far behind the backend an answer may be when it is given: the age the
   cache tolerates, plus the time between reading the backend and stamping the
   entry, which only Nomad's kill bounds. *)
Window(src) ==
  CASE src = "live" -> KillWindow
    [] src = "hit"  -> TTL + KillWindow
    [] OTHER        -> MaxStale + KillWindow

(* Every answer, live, from the cache or stale, is a value the backend really
   held, for the reference it answers, within its window: whatever process put
   it in the cache, however late, and whoever died on the way. *)
ServedWithinWindow ==
  \A p \in Procs : \A i \in 1..Len(out[p]) :
    LET a == out[p][i]
    IN  HadVersion(Refs[p][i], a.ver, a.at - Window(a.src))

(* A lock file is locked exactly by the process whose Lock call succeeded, for
   the reference it is working on: a process that moved on to its next
   reference, failed, finished or died owns none (Lock, fetchOne's defer). *)
LockFollowsReference ==
  \A k \in Keys, p \in Procs :
    flock[k] = p <=> Live(p) /\ lock[p] = "held" /\ Key(p) = k

(* Two processes never both believe they hold the lock of the same key. *)
MutualExclusion ==
  \A p, q \in Procs :
    p # q /\ lock[p] = "held" /\ lock[q] = "held" => Key(p) # Key(q)

(* A resolve that can still reach the backend. *)
Visiting(p) == call[p].st = "working" /\ ~Expired(p)

(* When advisory locks work and entries can be read, concurrent fetches of one
   reference are collapsed: at most one process with a cache visits the backend
   for a key ... *)
OneResolverPerKey ==
  \A p, q \in Procs :
    p # q /\ store[p] /\ store[q] /\ Visiting(p) /\ Visiting(q) => Key(p) # Key(q)

(* ... and none does while the cache has a fresh entry the process could have
   served: the second Get, made under the lock, comes after the Put of the
   process that held it before. *)
NoResolveWhileFresh ==
  \A p \in Procs : store[p] /\ Visiting(p) => ~Fresh(Key(p), now)

(* When locks work, the cache never replaces an entry by an older version
   of the secret: whoever puts a value read it while holding the lock. *)
CacheNeverRegresses ==
  [][\A k \in Keys : cache'[k].ver >= cache[k].ver]_vars

(* A Put leaves a temporary file behind only if the process dies inside it:
   neither a failed Put nor a successful one does. *)
TempFilesRemoved ==
  \A p \in Procs : tmp[p] # Absent => pc[p] \in {"rename", "dead"}

(* A process that waits for a lock waits for one that is past its own wait: it
   holds one lock at a time and gives it up before it asks for the next.  So waits
   form no circle, nor even a chain, in whatever order references are listed. *)
HoldersNeverWait ==
  \A p \in Procs : pc[p] \in Polling /\ ~LockFree(p, Key(p)) =>
    \E q \in Procs \ {p} : /\ lock[q] = "held" /\ Key(q) = Key(p)
                           /\ pc[q] \in {"recheck", "await", "rename"}

(* Past its deadline nothing can block a process: not a lock another process
   holds, not a backend that does not answer.  So the plugin stays inside
   Nomad's kill window whatever the number of references. *)
NeverBlockedPastDeadline ==
  \A p \in Procs : Live(p) /\ Expired(p) => ENABLED Step(p)

(* Every fetch ends, by itself, even if the backend never answers and the
   processes want overlapping references in opposite orders. *)
EveryFetchEnds ==
  \A p \in Procs : pc[p] = "lookup" ~> pc[p] \in Stopped

(* How many steps p can still take: at most seven for each reference it has left,
   and one to start. *)
Stage(p) ==
  CASE pc[p] = "lookup"  -> 7
    [] pc[p] = "lock"    -> 6
    [] pc[p] = "wait"    -> 5
    [] pc[p] = "recheck" -> 4
    [] pc[p] = "await"   -> CASE call[p].st = "working" -> 3
                              [] call[p].st = "timeout" -> 1
                              [] OTHER -> 2
    [] OTHER -> 1
StepsLeft(p) ==
  CASE pc[p] = "idle" -> 7 * Len(Refs[p]) + 1
    [] Live(p)        -> 7 * (Len(Refs[p]) - Len(out[p]) - 1) + Stage(p)
    [] OTHER          -> 0

(* No step is ever taken back: whatever a process does or is done to it, a lock
   that is taken, a time-out, an answer too late, brings it nearer its end. *)
Place(p) == <<pc[p], deadline[p], store[p], lock[p], call[p], out[p]>>
EveryStepCounts ==
  [][\A p \in Procs : StepsLeft(p)' < StepsLeft(p) \/ Place(p)' = Place(p)]_vars

----------------------------------------------------------------------------
(* What the documentation says and the code does not do. *)

(* "The lock is best-effort and never fails a fetch: ... or the wait runs out
   the fetch's budget, the plugin resolves unlocked" (docs/user-guide.md): a
   fetch does not fail right after its wait for a lock expired. *)
LockNeverFailsFetch ==
  [][\A p \in Procs : lock[p] = "expired" => pc'[p] # "failed"]_vars
=============================================================================
