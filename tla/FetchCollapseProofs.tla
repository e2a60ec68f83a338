------------------------- MODULE FetchCollapseProofs -------------------------
(***************************************************************************)
(* What the lock buys when advisory locks work and entries can be read:     *)
(* concurrent fetches of one reference are collapsed into one, and the      *)
(* cache only moves forward.                                                *)
(***************************************************************************)
EXTENDS FetchWindowProofs

Reliable == "lock" \notin Faults /\ "read" \notin Faults

(* Only the holder of the lock reaches the backend for the cache, and keeps
   the lock until its Put is over. *)
CachersHoldLock ==
  \A p \in Procs :
    /\ store[p] /\ (Visiting(p) \/ call[p].st = "ok") => lock[p] = "held"
    /\ pc[p] = "rename" => store[p] /\ call[p].st = "ok" /\ tmp[p].ver = call[p].ver
    /\ pc[p] \in {"lock", "wait", "recheck"} => store[p]

(* What it found in the channel is no older than what the cache has. *)
ChannelAhead ==
  \A p \in Procs :
    store[p] /\ call[p].st = "ok" => call[p].ver >= cache[Key(p)].ver

CollapseInv ==
  WindowInv /\ LockInv /\ CachersHoldLock /\ NoResolveWhileFresh /\ ChannelAhead

(* An entry of the cache is never ahead of the backend. *)
LEMMA CacheBehindBackend ==
  ASSUME WindowInv, NEW k \in Keys
  PROVE  cache[k].ver <= Current(k)
  <1>1. cache[k] \in Entry /\ retired[k] \in Seq(Nat)
    BY DEF WindowInv, TypeInv, TypeOK, DiskTypeOK
  <1>2. CASE cache[k] = Absent
    BY <1>1, <1>2 DEF Absent, Current
  <1>3. CASE cache[k] # Absent
    BY <1>1, <1>3 DEF WindowInv, CacheRecent, FileRecent, HadVersion, Current, Entry
  <1> QED BY <1>2, <1>3

(* Two processes under the lock work on different references. *)
LEMMA HoldersDiffer ==
  ASSUME LockInv, NEW p \in Procs, NEW q \in Procs, p # q,
         lock[p] = "held", lock[q] = "held"
  PROVE  Key(p) # Key(q)
  <1>1. pc[p] \in Running /\ pc[q] \in Running
    BY DEF LockInv, LockPlace, Running
  <1>2. Key(p) \in Keys
    BY <1>1, KeyInKeys DEF LockInv, Working
  <1> QED BY <1>1, <1>2 DEF LockInv, LockFollowsReference, Live

(* A process that is not between the channel and the Put says nothing here. *)
LEMMA LeavesChannel ==
  ASSUME CollapseInv, NEW p \in Procs,
         call'[p].st \notin {"working", "ok"} \/ (call'[p].st = "working" /\ (Expired(p) \/ ~store[p])),
         pc'[p] \notin {"rename", "recheck"}, pc'[p] \in {"lock", "wait"} => store[p],
         \A q \in Procs : q # p => /\ pc'[q] = pc[q] /\ call'[q] = call[q] /\ lock'[q] = lock[q]
                                   /\ out'[q] = out[q] /\ tmp'[q] = tmp[q],
         UNCHANGED <<cache, store, now, deadline>>
  PROVE  CachersHoldLock' /\ NoResolveWhileFresh' /\ ChannelAhead'
  <1>1. CachersHoldLock'
    BY DEF CollapseInv, CachersHoldLock, Visiting, Expired
  <1>2. NoResolveWhileFresh' /\ ChannelAhead'
    BY DEF CollapseInv, NoResolveWhileFresh, ChannelAhead, Visiting, Expired, Key, Fresh, Age
  <1> QED BY <1>1, <1>2

LEMMA InitCollapse == Init => CollapseInv
  BY InitWindow, InitLocks
  DEF Init, CollapseInv, CachersHoldLock, NoResolveWhileFresh, ChannelAhead, Visiting, NoCall

LEMMA StepCollapse ==
  ASSUME Reliable, CollapseInv, NEW p \in Procs, Step(p)
  PROVE  CachersHoldLock' /\ NoResolveWhileFresh' /\ ChannelAhead'
  <1> USE DEF CollapseInv, WindowInv, TypeInv, TypeOK
  <1>1. CASE CacheHit(p) \/ ServeStale(p) \/ ServeUncached(p) \/ PutFails(p)
    <2>1. /\ call'[p].st = "none" /\ pc'[p] \in {"done", "lookup"}
          /\ \A q \in Procs : q # p => /\ pc'[q] = pc[q] /\ call'[q] = call[q] /\ lock'[q] = lock[q]
                                       /\ out'[q] = out[q] /\ tmp'[q] = tmp[q]
          /\ UNCHANGED <<cache, store, now, deadline>>
      BY <1>1 DEF CacheHit, ServeStale, ServeUncached, PutFails, DropEntry, ReturnAnswer, NoCall,
         DiskTypeOK
    <2> QED BY <2>1, LeavesChannel
  <1>2. CASE RejectReference(p) \/ FailClosed(p)
    <2>1. /\ call'[p].st = "none" /\ pc'[p] = "failed"
          /\ \A q \in Procs : q # p => /\ pc'[q] = pc[q] /\ call'[q] = call[q] /\ lock'[q] = lock[q]
                                       /\ out'[q] = out[q] /\ tmp'[q] = tmp[q]
          /\ UNCHANGED <<cache, store, now, deadline>>
      BY <1>2 DEF RejectReference, FailClosed, ExitWithoutReply, NoCall
    <2> QED BY <2>1, LeavesChannel
  <1>3. CASE ResolveUncached(p) \/ LockUnavailable(p) \/ LockWaitExpires(p)
    <2>1. Expired(p) \/ ~store[p]
      BY <1>3 DEF ResolveUncached, Polling, LockUnavailable, LockWaitExpires, Reliable, Faulty
    <2>2. /\ call'[p].st = "working" /\ pc'[p] = "await"
          /\ \A q \in Procs : q # p => /\ pc'[q] = pc[q] /\ call'[q] = call[q] /\ lock'[q] = lock[q]
                                       /\ out'[q] = out[q] /\ tmp'[q] = tmp[q]
          /\ UNCHANGED <<cache, store, now, deadline>>
      BY <1>3 DEF ResolveUncached, Polling, LockUnavailable, LockWaitExpires, StartResolve, diskVars
    <2> QED BY <2>1, <2>2, LeavesChannel
  <1>4. CASE RecheckMiss(p)
    <2>1. /\ pc[p] = "recheck" /\ ~Fresh(Key(p), now)
          /\ call'[p].st = "working" /\ pc'[p] = "await" /\ lock'[p] = "held"
          /\ \A q \in Procs : q # p => pc'[q] = pc[q] /\ call'[q] = call[q] /\ lock'[q] = lock[q]
          /\ UNCHANGED <<cache, store, now, deadline, out, tmp>>
      BY <1>4 DEF RecheckMiss, Misses, StartResolve, diskVars, Reliable, Faulty
    <2>2. CachersHoldLock'
      BY <2>1 DEF CachersHoldLock, Visiting, Expired
    <2>3. NoResolveWhileFresh' /\ ChannelAhead'
      BY <2>1 DEF NoResolveWhileFresh, ChannelAhead, Visiting, Expired, Key, Fresh, Age
    <2> QED BY <2>2, <2>3
  <1>5. CASE CacheMiss(p) \/ LockContended(p)
    <2>1. /\ pc[p] \in {"lookup", "lock"} /\ pc'[p] \in {"lock", "wait"} /\ store[p]
          /\ \A q \in Procs : q # p => pc'[q] = pc[q]
          /\ UNCHANGED <<cache, store, now, deadline, out, tmp, call, lock>>
      BY <1>5 DEF CacheMiss, LockContended, Goto, diskVars, CachersHoldLock
    <2>2. call[p].st = "none"
      BY <2>1 DEF ChannelRecent
    <2> QED BY <2>1, <2>2, LeavesChannel
  <1>6. CASE AcquireLock(p)
    <2>1. /\ pc[p] \in {"lock", "wait"} /\ pc'[p] = "recheck" /\ lock'[p] = "held"
          /\ \A q \in Procs : q # p => pc'[q] = pc[q] /\ lock'[q] = lock[q]
          /\ UNCHANGED <<cache, store, now, deadline, out, tmp, call>>
      BY <1>6 DEF AcquireLock, Polling
    <2>2. call[p].st = "none"
      BY <2>1 DEF ChannelRecent
    <2>3. CachersHoldLock'
      BY <2>1, <2>2 DEF CachersHoldLock, Visiting, Expired
    <2>4. NoResolveWhileFresh' /\ ChannelAhead'
      BY <2>1 DEF NoResolveWhileFresh, ChannelAhead, Visiting, Expired, Key, Fresh, Age
    <2> QED BY <2>3, <2>4
  <1>7. CASE GiveUp(p)
    <2>1. /\ call'[p].st = "timeout" /\ pc'[p] = "await"
          /\ \A q \in Procs : q # p => call'[q] = call[q]
          /\ UNCHANGED <<cache, store, now, deadline, out, tmp, pc, lock>>
      BY <1>7 DEF GiveUp, diskVars
    <2> QED BY <2>1, LeavesChannel
  <1>8. CASE PutTemp(p)
    <2>1. /\ call[p].st = "ok" /\ store[p] /\ pc'[p] = "rename" /\ tmp'[p].ver = call[p].ver
          /\ \A q \in Procs : q # p => pc'[q] = pc[q] /\ tmp'[q] = tmp[q]
          /\ UNCHANGED <<cache, store, now, deadline, out, call, lock>>
      BY <1>8 DEF PutTemp, Goto, StampEntry, DiskTypeOK
    <2>2. CachersHoldLock'
      BY <2>1 DEF CachersHoldLock, Visiting, Expired
    <2>3. NoResolveWhileFresh' /\ ChannelAhead'
      BY <2>1 DEF NoResolveWhileFresh, ChannelAhead, Visiting, Expired, Key, Fresh, Age
    <2> QED BY <2>2, <2>3
  <1>9. CASE PutRename(p)
    <2>1. /\ call'[p].st = "none" /\ pc'[p] \in {"done", "lookup"} /\ lock[p] = "held"
          /\ \A q \in Procs : q # p => /\ pc'[q] = pc[q] /\ call'[q] = call[q] /\ lock'[q] = lock[q]
                                       /\ out'[q] = out[q] /\ tmp'[q] = tmp[q]
          /\ UNCHANGED <<store, now, deadline>>
          /\ \A k \in Keys : k # Key(p) => cache'[k] = cache[k]
      BY <1>9 DEF PutRename, RenameEntry, ReturnAnswer, NoCall, CachersHoldLock, DiskTypeOK
    <2>2. CachersHoldLock'
      <3>1. ASSUME NEW q \in Procs, q # p
            PROVE  /\ (Visiting(q)' <=> Visiting(q)) /\ store'[q] = store[q]
                   /\ call'[q] = call[q] /\ lock'[q] = lock[q]
                   /\ pc'[q] = pc[q] /\ tmp'[q] = tmp[q]
        BY <2>1, <3>1 DEF Visiting, Expired
      <3>2. ~Visiting(p)' /\ call'[p].st # "ok" /\ pc'[p] \notin {"rename", "lock", "wait", "recheck"}
        BY <2>1 DEF Visiting
      <3> QED BY ONLY <3>1, <3>2, CollapseInv DEF CollapseInv, CachersHoldLock
    <2>3. ASSUME NEW q \in Procs, q # p, store[q], Visiting(q) \/ call[q].st = "ok"
          PROVE  cache'[Key(q)] = cache[Key(q)]
      <3>1. lock[q] = "held" /\ pc[q] \in Running
        BY <2>3 DEF CachersHoldLock, ChannelRecent, Visiting, Running
      <3>2. Key(q) # Key(p) /\ Key(q) \in Keys
        BY <2>1, <2>3, <3>1, HoldersDiffer, KeyInKeys DEF Working
      <3> QED BY <2>1, <3>2
    <2>4. NoResolveWhileFresh' /\ ChannelAhead'
      <3> SUFFICES ASSUME NEW q \in Procs, q # p, store[q], Visiting(q) \/ call[q].st = "ok"
                   PROVE  /\ Visiting(q) => ~Fresh(Key(q), now)'
                          /\ call[q].st = "ok" => call[q].ver >= cache'[Key(q)].ver
        BY <2>1 DEF NoResolveWhileFresh, ChannelAhead, Visiting, Expired, Key
      <3>1. Key(q)' = Key(q) /\ cache'[Key(q)] = cache[Key(q)] /\ now' = now
        BY <2>1, <2>3 DEF Key
      <3> QED BY <3>1 DEF NoResolveWhileFresh, ChannelAhead, Fresh, Age
    <2> QED BY <2>2, <2>4
  <1> QED
    BY <1>1, <1>2, <1>3, <1>4, <1>5, <1>6, <1>7, <1>8, <1>9 DEF Step

LEMMA NextCollapse == Reliable /\ CollapseInv /\ [Next]_vars => CollapseInv'
  <1> SUFFICES ASSUME Reliable, CollapseInv, [Next]_vars
               PROVE  CachersHoldLock' /\ NoResolveWhileFresh' /\ ChannelAhead'
    BY NextWindow, NextLocks DEF CollapseInv
  <1> USE DEF CollapseInv, WindowInv, TypeInv, TypeOK
  <1>1. CASE Tick
    <2>1. /\ now \in Nat /\ now' = now + 1
          /\ UNCHANGED <<cache, tmp, pc, deadline, store, lock, call, out>>
      BY <1>1 DEF Tick, diskVars, procVars
    <2>2. \A p \in Procs : Visiting(p)' => Visiting(p)
      BY <2>1 DEF Visiting, Expired
    <2>3. CachersHoldLock'
      BY <2>1, <2>2 DEF CachersHoldLock
    <2>4. ASSUME NEW p \in Procs, store[p], Visiting(p)
          PROVE  ~Fresh(Key(p), now)'
      <3>1. Key(p) \in Keys /\ Key(p)' = Key(p) /\ ~Fresh(Key(p), now)
        BY <2>1, <2>4, KeyInKeys
        DEF ChannelRecent, Visiting, Working, Running, NoResolveWhileFresh, Key
      <3>2. cache[Key(p)].at \in Nat
        BY <3>1 DEF DiskTypeOK, Entry
      <3> QED BY <2>1, <3>1, <3>2, AgeAssumption DEF Fresh, Age
    <2> QED
      BY <2>1, <2>2, <2>3, <2>4 DEF NoResolveWhileFresh, ChannelAhead, Key
  <1>2. ASSUME NEW k \in Keys, Rotate(k)
        PROVE  CachersHoldLock' /\ NoResolveWhileFresh' /\ ChannelAhead'
    BY <1>2 DEF Rotate, diskVars, procVars, CachersHoldLock, NoResolveWhileFresh, ChannelAhead,
       Visiting, Expired, Key, Fresh, Age
  <1>3. ASSUME NEW p \in Procs, Start(p)
        PROVE  CachersHoldLock' /\ NoResolveWhileFresh' /\ ChannelAhead'
    <2>1. /\ pc[p] = "idle" /\ pc'[p] = "lookup"
          /\ \A q \in Procs : q # p => /\ pc'[q] = pc[q] /\ deadline'[q] = deadline[q]
                                       /\ store'[q] = store[q]
          /\ UNCHANGED <<now, cache, tmp, call, lock, out>>
      BY <1>3 DEF Start, Goto, diskVars
    <2>2. call[p].st = "none"
      BY <2>1 DEF ChannelRecent
    <2>3. CachersHoldLock'
      BY <2>1, <2>2 DEF CachersHoldLock, Visiting, Expired
    <2>4. NoResolveWhileFresh' /\ ChannelAhead'
      BY <2>1, <2>2 DEF NoResolveWhileFresh, ChannelAhead, Visiting, Expired, Key, Fresh, Age
    <2> QED BY <2>3, <2>4
  <1>4. ASSUME NEW p \in Procs, Kill(p)
        PROVE  CachersHoldLock' /\ NoResolveWhileFresh' /\ ChannelAhead'
    <2>1. /\ call'[p].st = "none" /\ pc'[p] = "dead"
          /\ \A q \in Procs : q # p => /\ pc'[q] = pc[q] /\ call'[q] = call[q] /\ lock'[q] = lock[q]
                                       /\ out'[q] = out[q] /\ tmp'[q] = tmp[q]
          /\ UNCHANGED <<cache, store, now, deadline>>
      BY <1>4 DEF Kill, ExitWithoutReply, NoCall
    <2> QED BY <2>1, LeavesChannel
  <1>5. ASSUME NEW p \in Procs, Step(p)
        PROVE  CachersHoldLock' /\ NoResolveWhileFresh' /\ ChannelAhead'
    BY <1>5, StepCollapse
  <1>6. ASSUME NEW p \in Procs, Backend(p)
        PROVE  CachersHoldLock' /\ NoResolveWhileFresh' /\ ChannelAhead'
    <2>1. /\ pc[p] = "await" /\ call[p].st = "working"
          /\ call'[p].st \in {"ok", "refused", "unreachable"}
          /\ call'[p].st = "ok" => ~Expired(p) /\ call'[p].ver = Current(Key(p))
          /\ \A q \in Procs : q # p => call'[q] = call[q]
          /\ UNCHANGED <<now, deadline, store, cache, tmp, out, pc, lock>>
      BY <1>6 DEF Backend, BackendAnswers, BackendRefuses, BackendUnreached, Reply, diskVars
    <2>2. Key(p) \in Keys
      BY <2>1, KeyInKeys DEF Working, Running
    <2>3. cache[Key(p)].ver <= Current(Key(p))
      BY <2>2, CacheBehindBackend
    <2>4. CachersHoldLock'
      BY <2>1 DEF CachersHoldLock, Visiting, Expired
    <2>5. NoResolveWhileFresh' /\ ChannelAhead'
      BY <2>1, <2>3 DEF NoResolveWhileFresh, ChannelAhead, Visiting, Expired, Key, Fresh, Age
    <2> QED BY <2>4, <2>5
  <1>7. CASE UNCHANGED vars
    BY <1>7 DEF vars, diskVars, procVars, CachersHoldLock, NoResolveWhileFresh, ChannelAhead,
       Visiting, Expired, Key, Fresh, Age
  <1> QED
    BY <1>1, <1>2, <1>3, <1>4, <1>5, <1>6, <1>7 DEF Next

LEMMA CollapseAlways == ASSUME Reliable PROVE Spec => []CollapseInv
  <1>1. Init => CollapseInv
    BY InitCollapse
  <1>2. CollapseInv /\ [Next]_vars => CollapseInv'
    BY NextCollapse
  <1> QED BY <1>1, <1>2, PTL DEF Spec

(* With working locks and readable entries, at most one process with a cache is
   on its way to the backend for a key: concurrent fetches are collapsed. *)
THEOREM FetchesCollapse == ASSUME Reliable PROVE Spec => []OneResolverPerKey
  <1>1. CollapseInv => OneResolverPerKey
    BY HoldersDiffer DEF CollapseInv, CachersHoldLock, OneResolverPerKey
  <1> QED BY <1>1, CollapseAlways, PTL

(* Nor is it while the cache has a fresh entry to serve. *)
THEOREM ResolvesAreNeeded == ASSUME Reliable PROVE Spec => []NoResolveWhileFresh
  <1>1. CollapseInv => NoResolveWhileFresh
    BY DEF CollapseInv
  <1> QED BY <1>1, CollapseAlways, PTL

(* An entry is never replaced by an older version of the secret. *)
THEOREM CacheMovesForward == ASSUME Reliable PROVE Spec => CacheNeverRegresses
  <1>1. CollapseInv /\ [Next]_vars => [\A k \in Keys : cache'[k].ver >= cache[k].ver]_vars
    <2> SUFFICES ASSUME CollapseInv, [Next]_vars, NEW k \in Keys
                 PROVE  cache'[k].ver >= cache[k].ver
      OBVIOUS
    <2>1. cache[k].ver \in Nat
      BY DEF CollapseInv, WindowInv, TypeInv, TypeOK, DiskTypeOK, Entry
    <2>2. CASE cache' = cache
      BY <2>1, <2>2
    <2>3. ASSUME NEW p \in Procs, PutRename(p)
          PROVE  cache'[k].ver >= cache[k].ver
      <3>1. /\ store[p] /\ call[p].st = "ok" /\ tmp[p].ver = call[p].ver
            /\ call[p].ver >= cache[Key(p)].ver
        BY <2>3 DEF PutRename, CollapseInv, CachersHoldLock, ChannelAhead
      <3>2. cache' = [cache EXCEPT ![Key(p)] = tmp[p]] /\ cache \in [Keys -> Entry]
        BY <2>3 DEF PutRename, RenameEntry, CollapseInv, WindowInv, TypeInv, TypeOK, DiskTypeOK
      <3> QED BY <2>1, <3>1, <3>2
    <2> QED
      BY <2>2, <2>3
      DEF Next, vars, diskVars, procVars, Tick, Rotate, Start, Kill, Step, Backend,
          RejectReference, CacheHit, CacheMiss, ResolveUncached, Polling, LockUnavailable, AcquireLock, LockContended,
          LockWaitExpires, RecheckMiss, GiveUp, ServeStale, FailClosed, ServeUncached, PutTemp,
          PutFails, BackendAnswers, BackendRefuses, BackendUnreached, Reply, StartResolve,
          ExitWithoutReply
  <1> QED BY <1>1, CollapseAlways, PTL DEF Spec, CacheNeverRegresses
=============================================================================
