-------------------------- MODULE FetchCacheProofs --------------------------
(***************************************************************************)
(* Theorems about FetchCache, for every set of processes, keys, reference   *)
(* lists, time-outs and faults.                                             *)
(***************************************************************************)
EXTENDS FetchCache, TLAPS

(* A process has at most one answer per reference, and one fewer while it is
   still working: so Key(p) is the key of an entry of p's list. *)
Working == {"idle"} \cup Running
OutBounded ==
  \A p \in Procs :
    /\ Len(out[p]) <= Len(Refs[p])
    /\ pc[p] \in Working => Len(out[p]) < Len(Refs[p])

TypeInv == TypeOK /\ OutBounded

(* The reference a working process is on is one of its list. *)
LEMMA KeyInKeys ==
  ASSUME TypeInv, NEW p \in Procs, pc[p] \in Working
  PROVE  Key(p) \in Keys
  <1>1. Refs[p] \in Seq(Keys) /\ out[p] \in Seq(Answer)
    BY RefsAssumption DEF TypeInv, TypeOK
  <1>2. Len(out[p]) + 1 \in 1..Len(Refs[p])
    BY <1>1 DEF TypeInv, OutBounded
  <1> QED  BY <1>1, <1>2 DEF Key

(* A fetchOne that returns an answer of the right type keeps the types. *)
LEMMA ReturnKeepsTypes ==
  ASSUME TypeInv, NEW p \in Procs, pc[p] \in Working,
         NEW v \in Nat, NEW src \in Sources, ReturnAnswer(p, v, src),
         cache' \in [Keys -> Entry], tmp' \in [Procs -> Entry]
  PROVE  TypeInv'
  <1> DEFINE a == [ver |-> v, at |-> now, src |-> src]
  <1>1. a \in Answer
    BY DEF TypeInv, TypeOK, Answer
  <1>2. Refs[p] \in Seq(Keys) /\ out[p] \in Seq(Answer)
    BY RefsAssumption DEF TypeInv, TypeOK
  <1>3. Append(out[p], a) \in Seq(Answer) /\ Len(Append(out[p], a)) = Len(out[p]) + 1
    BY <1>1, <1>2
  <1>4. out' = [out EXCEPT ![p] = Append(out[p], a)]
    BY DEF ReturnAnswer
  <1>5. out' \in [Procs -> Seq(Answer)]
    BY <1>3, <1>4 DEF TypeInv, TypeOK
  <1>6. TypeOK'
    BY <1>5 DEF TypeInv, TypeOK, DiskTypeOK, ReturnAnswer, WithoutLocks, Running,
                Stopped, LockStates, CallStates, NoCall
  <1>7. ASSUME NEW q \in Procs
        PROVE  /\ Len(out'[q]) <= Len(Refs[q])
               /\ pc'[q] \in Working => Len(out'[q]) < Len(Refs[q])
    <2>1. CASE q = p
      <3>1. out'[p] = Append(out[p], a)
        BY <1>4 DEF TypeInv, TypeOK
      <3>2. Len(out'[p]) = Len(out[p]) + 1 /\ Len(out[p]) \in Nat /\ Len(Refs[p]) \in Nat
        BY <3>1, <1>2, <1>3
      <3>3. pc'[p] = IF Len(out[p]) + 1 = Len(Refs[p]) THEN "done" ELSE "lookup"
        BY DEF ReturnAnswer, TypeInv, TypeOK
      <3> QED BY <2>1, <3>2, <3>3 DEF TypeInv, OutBounded, Working, Running
    <2>2. CASE q # p
      BY <2>2, <1>4 DEF TypeInv, TypeOK, OutBounded, ReturnAnswer
    <2> QED BY <2>1, <2>2
  <1> QED BY <1>6, <1>7 DEF TypeInv, OutBounded

(* So does a process that exits without a reply. *)
LEMMA ExitKeepsTypes ==
  ASSUME TypeInv, NEW p \in Procs, NEW how \in {"failed", "dead"},
         ExitWithoutReply(p, how), UNCHANGED tmp
  PROVE  TypeInv'
  <1>1. TypeOK'
    BY DEF TypeInv, TypeOK, DiskTypeOK, ExitWithoutReply, WithoutLocks,
           Stopped, LockStates, CallStates, NoCall
  <1>2. OutBounded'
    <2>1. Len(<<>>) = 0 /\ Len(Refs[p]) \in Nat
      BY RefsAssumption
    <2>2. pc'[p] = how /\ out'[p] = <<>> /\ how \notin Working
      BY DEF TypeInv, TypeOK, ExitWithoutReply, Working, Running
    <2>3. \A q \in Procs : q # p => pc'[q] = pc[q] /\ out'[q] = out[q]
      BY DEF TypeInv, TypeOK, ExitWithoutReply
    <2> QED BY <2>1, <2>2, <2>3 DEF TypeInv, OutBounded
  <1> QED BY <1>1, <1>2 DEF TypeInv

(* And one that starts a resolve. *)
LEMMA ResolveKeepsTypes ==
  ASSUME TypeInv, NEW p \in Procs, pc[p] \in Running,
         NEW l \in LockStates, StartResolve(p, l)
  PROVE  TypeInv'
  <1>1. TypeOK'
    BY DEF TypeInv, TypeOK, DiskTypeOK, StartResolve, diskVars, Running, CallStates
  <1> QED
    BY <1>1 DEF TypeInv, TypeOK, OutBounded, StartResolve, Working, Running

LEMMA InitTypes == Init => TypeInv
  <1>1. \A p \in Procs : Len(Refs[p]) \in Nat /\ Len(Refs[p]) > 0
    BY RefsAssumption
  <1>2. Len(<<>>) = 0 /\ <<>> \in Seq(Answer) /\ <<>> \in Seq(Nat)
    OBVIOUS
  <1> QED
    BY <1>1, <1>2 DEF Init, DiskInit, TypeInv, TypeOK, DiskTypeOK, OutBounded, Absent,
       Entry, LockStates, CallStates, NoCall

(* One step per action; the actions that return, exit or resolve are instances
   of the three lemmas above. *)
LEMMA NextTypes == TypeInv /\ [Next]_vars => TypeInv'
  <1> SUFFICES ASSUME TypeInv, [Next]_vars PROVE TypeInv'
    OBVIOUS
  <1>1. CASE Tick
    BY <1>1 DEF Tick, TypeInv, TypeOK, DiskTypeOK, OutBounded, diskVars, procVars
  <1>2. ASSUME NEW k \in Keys, Rotate(k) PROVE TypeInv'
    <2>1. retired[k] \in Seq(Nat) /\ now \in Nat
      BY DEF TypeInv, TypeOK
    <2>2. Append(retired[k], now) \in Seq(Nat)
      BY <2>1
    <2>3. retired' \in [Keys -> Seq(Nat)]
      BY <1>2, <2>2 DEF Rotate, TypeInv, TypeOK
    <2> QED
      BY <1>2, <2>3 DEF Rotate, TypeInv, TypeOK, DiskTypeOK, OutBounded, diskVars, procVars
  <1>3. ASSUME NEW p \in Procs, Start(p) PROVE TypeInv'
    <2>1. now + Timeout \in Nat
      BY TimeAssumption DEF TypeInv, TypeOK
    <2>2. Stores \subseteq BOOLEAN
      BY DEF Stores
    <2>3. TypeOK'
      BY <1>3, <2>1, <2>2 DEF Start, Goto, TypeInv, TypeOK, DiskTypeOK, diskVars, Running
    <2> QED
      BY <1>3, <2>3 DEF Start, Goto, TypeInv, TypeOK, OutBounded, Working, Running
  <1>4. ASSUME NEW p \in Procs, Kill(p) PROVE TypeInv'
    BY <1>4, ExitKeepsTypes DEF Kill
  <1>5. ASSUME NEW p \in Procs, Step(p) PROVE TypeInv'
    <2>1. CASE RejectReference(p) \/ FailClosed(p)
      BY <2>1, ExitKeepsTypes DEF RejectReference, FailClosed
    <2>2. CASE CacheHit(p) \/ ServeStale(p) \/ ServeUncached(p)
      <3>1. pc[p] \in Working /\ cache' = cache /\ tmp' = tmp
        BY <2>2 DEF CacheHit, ServeStale, ServeUncached, Working, Running
      <3>2. /\ cache' \in [Keys -> Entry] /\ tmp' \in [Procs -> Entry]
            /\ cache[Key(p)].ver \in Nat /\ call[p].ver \in Nat
        BY <3>1, KeyInKeys DEF TypeInv, TypeOK, DiskTypeOK, Entry
      <3>3. "hit" \in Sources /\ "live" \in Sources
            /\ (call[p].st \in Errors => call[p].st \in Sources)
        BY DEF Sources
      <3> QED
        BY <2>2, <3>1, <3>2, <3>3, ReturnKeepsTypes DEF CacheHit, ServeStale, ServeUncached
    <2>3. CASE ResolveUncached(p) \/ LockUnavailable(p) \/ LockWaitExpires(p) \/ RecheckMiss(p)
      <3>1. pc[p] \in Running
        BY <2>3 DEF ResolveUncached, Polling, LockUnavailable, LockWaitExpires, RecheckMiss, Running
      <3> QED
        BY <2>3, <3>1, ResolveKeepsTypes
        DEF ResolveUncached, Polling, LockUnavailable, LockWaitExpires, RecheckMiss, LockStates
    <2>4. CASE CacheMiss(p) \/ LockContended(p)
      BY <2>4 DEF CacheMiss, LockContended, Goto, TypeInv, TypeOK, DiskTypeOK, OutBounded, diskVars,
                  Working, Running
    <2>5. CASE AcquireLock(p)
      BY <2>5, KeyInKeys DEF AcquireLock, TakeLock, Polling, TypeInv, TypeOK, DiskTypeOK, OutBounded,
                  Working, Running, LockStates
    <2>6. CASE GiveUp(p)
      BY <2>6 DEF GiveUp, TypeInv, TypeOK, DiskTypeOK, OutBounded, diskVars, CallStates, Errors
    <2>7. CASE PutTemp(p)
      BY <2>7 DEF PutTemp, StampEntry, Goto, TypeInv, TypeOK, DiskTypeOK, Entry, OutBounded,
                  Working, Running
    <2>8. CASE PutRename(p) \/ PutFails(p)
      <3>1. pc[p] \in Working
        BY <2>8 DEF PutRename, PutFails, Working, Running
      <3>2. cache' \in [Keys -> Entry] /\ tmp' \in [Procs -> Entry]
        <4>1. tmp[p] \in Entry /\ Absent \in Entry
          BY DEF TypeInv, TypeOK, DiskTypeOK, Absent, Entry
        <4>2. CASE PutRename(p)
          BY <4>1, <4>2 DEF PutRename, RenameEntry, TypeInv, TypeOK, DiskTypeOK
        <4>3. CASE PutFails(p)
          BY <4>1, <4>3 DEF PutFails, DropEntry, TypeInv, TypeOK, DiskTypeOK
        <4> QED BY <2>8, <4>2, <4>3
      <3>3. call[p].ver \in Nat /\ "live" \in Sources
        BY DEF TypeInv, TypeOK, Sources
      <3> QED
        BY <2>8, <3>1, <3>2, <3>3, ReturnKeepsTypes DEF PutRename, PutFails
    <2> QED
      BY <1>5, <2>1, <2>2, <2>3, <2>4, <2>5, <2>6, <2>7, <2>8 DEF Step
  <1>6. ASSUME NEW p \in Procs, Backend(p) PROVE TypeInv'
    <2>1. ASSUME NEW k \in Keys PROVE Current(k) \in Nat
      BY DEF Current, TypeInv, TypeOK
    <2>2. PICK st \in CallStates, v \in Nat : Reply(p, st, v)
      <3>1. CASE BackendAnswers(p)
        <4>1. Key(p) \in Keys
          BY <3>1, KeyInKeys DEF BackendAnswers, Reply, Working, Running
        <4> QED BY <3>1, <4>1, <2>1 DEF BackendAnswers, CallStates
      <3>2. CASE BackendRefuses(p) \/ BackendUnreached(p)
        BY <3>2 DEF BackendRefuses, BackendUnreached, CallStates, Errors
      <3> QED BY <1>6, <3>1, <3>2 DEF Backend
    <2> QED
      BY <2>2 DEF Reply, TypeInv, TypeOK, DiskTypeOK, OutBounded, diskVars
  <1>7. CASE UNCHANGED vars
    BY <1>7 DEF vars, diskVars, procVars, TypeInv, TypeOK, DiskTypeOK, OutBounded
  <1> QED
    BY <1>1, <1>2, <1>3, <1>4, <1>5, <1>6, <1>7 DEF Next

(* Type correctness: every variable keeps its type, and fetch never collects
   more answers than it has references. *)
THEOREM TypeCorrect == Spec => [](TypeOK /\ OutBounded)
  BY InitTypes, NextTypes, PTL DEF Spec, TypeInv

----------------------------------------------------------------------------
(* Temporary files *)

(* A step of p that neither puts nor starts keeps its temporary file, and leaves
   no place but where there is none. *)
LEMMA NextTemps == TypeInv /\ TempFilesRemoved /\ [Next]_vars => TempFilesRemoved'
  <1> SUFFICES ASSUME TypeInv, TempFilesRemoved, [Next]_vars PROVE TempFilesRemoved'
    OBVIOUS
  <1> USE DEF TempFilesRemoved
  <1> /\ tmp \in [Procs -> Entry]
      /\ pc \in [Procs -> {"idle"} \cup Running \cup Stopped]
    BY DEF TypeInv, TypeOK, DiskTypeOK
  <1>1. CASE Tick
    BY <1>1 DEF Tick, diskVars, procVars
  <1>2. ASSUME NEW k \in Keys, Rotate(k) PROVE TempFilesRemoved'
    BY <1>2 DEF Rotate, diskVars, procVars
  <1>3. ASSUME NEW p \in Procs, Start(p) PROVE TempFilesRemoved'
    BY <1>3 DEF Start, Goto, diskVars
  <1>4. ASSUME NEW p \in Procs, Kill(p) PROVE TempFilesRemoved'
    BY <1>4 DEF Kill, ExitWithoutReply
  <1>5. ASSUME NEW p \in Procs, Step(p) PROVE TempFilesRemoved'
    <2>1. CASE RejectReference(p) \/ FailClosed(p)
      BY <2>1 DEF RejectReference, FailClosed, ExitWithoutReply
    <2>2. CASE CacheHit(p) \/ ServeStale(p) \/ ServeUncached(p)
      BY <2>2 DEF CacheHit, ServeStale, ServeUncached, ReturnAnswer
    <2>3. CASE ResolveUncached(p) \/ LockUnavailable(p) \/ LockWaitExpires(p) \/ RecheckMiss(p)
      BY <2>3 DEF ResolveUncached, Polling, LockUnavailable, LockWaitExpires, RecheckMiss,
                  StartResolve, diskVars
    <2>4. CASE CacheMiss(p) \/ AcquireLock(p) \/ LockContended(p) \/ GiveUp(p)
      BY <2>4 DEF CacheMiss, AcquireLock, LockContended, Polling, GiveUp, Goto, diskVars
    <2>5. CASE PutTemp(p)
      BY <2>5 DEF PutTemp, Goto, StampEntry
    <2>6. CASE PutRename(p) \/ PutFails(p)
      BY <2>6 DEF PutRename, PutFails, RenameEntry, DropEntry, ReturnAnswer
    <2> QED
      BY <1>5, <2>1, <2>2, <2>3, <2>4, <2>5, <2>6 DEF Step
  <1>6. ASSUME NEW p \in Procs, Backend(p) PROVE TempFilesRemoved'
    BY <1>6 DEF Backend, BackendAnswers, BackendRefuses, BackendUnreached, Reply, diskVars
  <1>7. CASE UNCHANGED vars
    BY <1>7 DEF vars, diskVars, procVars
  <1> QED
    BY <1>1, <1>2, <1>3, <1>4, <1>5, <1>6, <1>7 DEF Next

(* A temporary file outlives its Put only when the process dies inside it,
   whatever else fails (Put's deferred os.Remove). *)
THEOREM TempsAreRemoved == Spec => []TempFilesRemoved
  <1>1. Init => TempFilesRemoved
    BY DEF Init, DiskInit, TempFilesRemoved
  <1> QED
    BY <1>1, InitTypes, NextTypes, NextTemps, PTL DEF Spec

----------------------------------------------------------------------------
(* Locks *)

(* Where a process can be while its Lock call has succeeded: between Lock's
   return and fetchOne's, and nowhere else. *)
LockPlace ==
  \A p \in Procs :
    /\ lock[p] = "held" => pc[p] \in {"recheck", "await", "rename"}
    /\ pc[p] = "recheck" => lock[p] = "held"

LockInv == TypeInv /\ LockFollowsReference /\ LockPlace

(* fetchOne's deferred release frees the one lock the process can own. *)
LEMMA ReturnKeepsLocks ==
  ASSUME LockInv, NEW p \in Procs, NEW v, NEW src, ReturnAnswer(p, v, src)
  PROVE  LockFollowsReference' /\ LockPlace'
  <1>1. /\ lock'[p] = "none" /\ pc'[p] \in {"done", "lookup"}
        /\ \A k \in Keys : flock'[k] # p
    BY NobodyAssumption DEF ReturnAnswer, WithoutLocks, LockInv, TypeInv, TypeOK
  <1>2. ASSUME NEW q \in Procs, q # p
        PROVE  /\ lock'[q] = lock[q] /\ pc'[q] = pc[q] /\ out'[q] = out[q]
               /\ \A k \in Keys : flock'[k] = q <=> flock[k] = q
    BY <1>2, NobodyAssumption DEF ReturnAnswer, WithoutLocks, LockInv, TypeInv, TypeOK
  <1>3. LockFollowsReference'
    BY <1>1, <1>2 DEF LockInv, LockFollowsReference, Live, Key
  <1>4. LockPlace'
    BY <1>1, <1>2 DEF LockInv, LockPlace
  <1> QED BY <1>3, <1>4

(* So does the end of a process, by itself or by a signal. *)
LEMMA ExitKeepsLocks ==
  ASSUME LockInv, NEW p \in Procs, NEW how \in {"failed", "dead"}, ExitWithoutReply(p, how)
  PROVE  LockFollowsReference' /\ LockPlace'
  <1>1. /\ lock'[p] = "none" /\ pc'[p] = how
        /\ \A k \in Keys : flock'[k] # p
    BY NobodyAssumption DEF ExitWithoutReply, WithoutLocks, LockInv, TypeInv, TypeOK
  <1>2. ASSUME NEW q \in Procs, q # p
        PROVE  /\ lock'[q] = lock[q] /\ pc'[q] = pc[q] /\ out'[q] = out[q]
               /\ \A k \in Keys : flock'[k] = q <=> flock[k] = q
    BY <1>2, NobodyAssumption DEF ExitWithoutReply, WithoutLocks, LockInv, TypeInv, TypeOK
  <1>3. LockFollowsReference'
    BY <1>1, <1>2 DEF LockInv, LockFollowsReference, Live, Key
  <1>4. LockPlace'
    BY <1>1, <1>2 DEF LockInv, LockPlace
  <1> QED BY <1>3, <1>4

(* A resolve starts with the lock held exactly if it was held before. *)
LEMMA ResolveKeepsLocks ==
  ASSUME LockInv, NEW p \in Procs, NEW l \in LockStates, StartResolve(p, l),
         pc[p] \in Running, l = "held" <=> lock[p] = "held"
  PROVE  LockFollowsReference' /\ LockPlace'
  <1>1. /\ lock'[p] = l /\ pc'[p] = "await" /\ out' = out /\ flock' = flock
        /\ \A q \in Procs : q # p => lock'[q] = lock[q] /\ pc'[q] = pc[q]
    BY DEF StartResolve, diskVars, LockInv, TypeInv, TypeOK
  <1>2. LockFollowsReference'
    BY <1>1 DEF LockInv, LockFollowsReference, Live, Key, Running
  <1>3. LockPlace'
    BY <1>1 DEF LockInv, LockPlace
  <1> QED BY <1>2, <1>3

LEMMA InitLocks == Init => LockInv
  <1>1. Init => LockFollowsReference /\ LockPlace
    BY NobodyAssumption DEF Init, DiskInit, LockFollowsReference, LockPlace, Live, Running
  <1> QED BY <1>1, InitTypes DEF LockInv

LEMMA NextLocks == LockInv /\ [Next]_vars => LockInv'
  <1> SUFFICES ASSUME LockInv, [Next]_vars PROVE LockFollowsReference' /\ LockPlace'
    BY NextTypes DEF LockInv
  <1> USE DEF LockFollowsReference, LockPlace, Live, Key
  <1>1. CASE Tick
    BY <1>1 DEF Tick, LockInv, diskVars, procVars
  <1>2. ASSUME NEW k \in Keys, Rotate(k) PROVE LockFollowsReference' /\ LockPlace'
    BY <1>2 DEF Rotate, LockInv, diskVars, procVars
  <1>3. ASSUME NEW p \in Procs, Start(p) PROVE LockFollowsReference' /\ LockPlace'
    <2>1. /\ lock' = lock /\ flock' = flock /\ out' = out
          /\ pc' = [pc EXCEPT ![p] = "lookup"] /\ pc[p] = "idle"
      BY <1>3 DEF Start, Goto, diskVars
    <2>2. lock[p] # "held"
      BY <2>1 DEF LockInv
    <2> QED BY <2>1, <2>2 DEF LockInv, TypeInv, TypeOK, Running
  <1>4. ASSUME NEW p \in Procs, Kill(p) PROVE LockFollowsReference' /\ LockPlace'
    BY <1>4, ExitKeepsLocks DEF Kill
  <1>5. ASSUME NEW p \in Procs, Step(p) PROVE LockFollowsReference' /\ LockPlace'
    <2>1. CASE RejectReference(p) \/ FailClosed(p)
      BY <2>1, ExitKeepsLocks DEF RejectReference, FailClosed
    <2>2. CASE CacheHit(p) \/ ServeStale(p) \/ ServeUncached(p) \/ PutRename(p) \/ PutFails(p)
      BY <2>2, ReturnKeepsLocks DEF CacheHit, ServeStale, ServeUncached, PutRename, PutFails
    <2>3. CASE ResolveUncached(p) \/ LockUnavailable(p) \/ LockWaitExpires(p)
      BY <2>3, ResolveKeepsLocks
      DEF ResolveUncached, Polling, LockUnavailable, LockWaitExpires, LockStates, LockInv, Running
    <2>4. CASE RecheckMiss(p)
      BY <2>4, ResolveKeepsLocks DEF RecheckMiss, LockStates, LockInv, Running
    <2>5. CASE CacheMiss(p) \/ LockContended(p)
      <3>1. /\ lock' = lock /\ flock' = flock /\ out' = out /\ pc[p] \in {"lookup", "lock"}
            /\ pc' = [pc EXCEPT ![p] = "lock"] \/ pc' = [pc EXCEPT ![p] = "wait"]
        BY <2>5 DEF CacheMiss, LockContended, Goto, diskVars
      <3>2. lock[p] # "held" /\ pc \in [Procs -> {"idle"} \cup Running \cup Stopped]
        BY <3>1 DEF LockInv, TypeInv, TypeOK
      <3>3. CASE pc' = [pc EXCEPT ![p] = "lock"]
        BY <3>1, <3>2, <3>3 DEF LockInv, Running
      <3>4. CASE pc' = [pc EXCEPT ![p] = "wait"]
        BY <3>1, <3>2, <3>4 DEF LockInv, Running
      <3> QED BY <3>1, <3>3, <3>4
    <2>6. CASE AcquireLock(p)
      <3>1. Key(p) \in Keys /\ flock[Key(p)] = Nobody
        BY <2>6, KeyInKeys DEF AcquireLock, Polling, LockFree, LockInv, Working, Running
      <3>2. /\ flock' = [flock EXCEPT ![Key(p)] = p] /\ out' = out
            /\ pc' = [pc EXCEPT ![p] = "recheck"] /\ lock' = [lock EXCEPT ![p] = "held"]
            /\ pc[p] \in {"lock", "wait"}
        BY <2>6 DEF AcquireLock, Polling, TakeLock
      <3>3. LockPlace'
        BY <3>2 DEF LockInv, TypeInv, TypeOK
      <3>4. ASSUME NEW k \in Keys, NEW q \in Procs
            PROVE  flock'[k] = q <=> pc'[q] \in Running /\ lock'[q] = "held" /\ Key(q) = k
        <4>1. CASE q = p
          BY <3>1, <3>2, <4>1 DEF LockInv, TypeInv, TypeOK, DiskTypeOK, Running
        <4>2. CASE q # p
          BY <3>1, <3>2, <4>2, NobodyAssumption DEF LockInv, TypeInv, TypeOK, DiskTypeOK
        <4> QED BY <4>1, <4>2
      <3> QED BY <3>2, <3>3, <3>4
    <2>7. CASE GiveUp(p)
      BY <2>7 DEF GiveUp, LockInv, diskVars
    <2>8. CASE PutTemp(p)
      BY <2>8 DEF PutTemp, Goto, LockInv, TypeInv, TypeOK, Running
    <2> QED
      BY <1>5, <2>1, <2>2, <2>3, <2>4, <2>5, <2>6, <2>7, <2>8 DEF Step
  <1>6. ASSUME NEW p \in Procs, Backend(p) PROVE LockFollowsReference' /\ LockPlace'
    BY <1>6 DEF Backend, BackendAnswers, BackendRefuses, BackendUnreached, Reply, LockInv, diskVars
  <1>7. CASE UNCHANGED vars
    BY <1>7 DEF vars, diskVars, procVars, LockInv
  <1> QED
    BY <1>1, <1>2, <1>3, <1>4, <1>5, <1>6, <1>7 DEF Next

LEMMA LocksAlways == Spec => []LockInv
  BY InitLocks, NextLocks, PTL DEF Spec

(* A lock file is locked exactly by the process that is working, under its
   lock, on that very reference (Lock, fetchOne's deferred release, and the
   kernel's when a process dies). *)
THEOREM LocksFollowReferences == Spec => []LockFollowsReference
  <1>1. LockInv => LockFollowsReference
    BY DEF LockInv
  <1> QED BY <1>1, LocksAlways, PTL

(* No two processes hold the lock of one reference, whatever dies or fails. *)
THEOREM LocksExclude == Spec => []MutualExclusion
  <1>1. LockInv => MutualExclusion
    <2> SUFFICES ASSUME LockInv, NEW p \in Procs, NEW q \in Procs, p # q,
                        lock[p] = "held", lock[q] = "held", Key(p) = Key(q)
                 PROVE  FALSE
      BY DEF MutualExclusion
    <2>1. pc[p] \in Working /\ Live(p) /\ Live(q)
      BY DEF LockInv, LockPlace, Working, Running, Live
    <2>2. Key(p) \in Keys
      BY <2>1, KeyInKeys DEF LockInv
    <2> QED BY <2>1, <2>2 DEF LockInv, LockFollowsReference
  <1> QED BY <1>1, LocksAlways, PTL
(* A process never waits for a lock behind one that waits itself, so overlapping
   references in opposite orders cannot deadlock (fetchOne's deferred release
   comes before the next reference's Lock). *)
THEOREM WaitsNeverChain == Spec => []HoldersNeverWait
  <1>1. LockInv => HoldersNeverWait
    <2> SUFFICES ASSUME LockInv, NEW p \in Procs, pc[p] \in Polling, ~LockFree(p, Key(p))
                 PROVE  \E q \in Procs \ {p} : /\ lock[q] = "held" /\ Key(q) = Key(p)
                                               /\ pc[q] \in {"recheck", "await", "rename"}
      BY DEF HoldersNeverWait
    <2>1. Key(p) \in Keys
      BY KeyInKeys DEF LockInv, Polling, Working, Running
    <2>2. flock[Key(p)] \in Procs
      BY <2>1 DEF LockFree, LockInv, TypeInv, TypeOK, DiskTypeOK
    <2>3. PICK q \in Procs : flock[Key(p)] = q
      BY <2>2
    <2>4. lock[q] = "held" /\ Key(q) = Key(p)
      BY <2>1, <2>3 DEF LockInv, LockFollowsReference
    <2>5. pc[q] \in {"recheck", "await", "rename"}
      BY <2>4 DEF LockInv, LockPlace
    <2> QED BY <2>4, <2>5 DEF Polling
  <1> QED BY <1>1, LocksAlways, PTL

----------------------------------------------------------------------------
(* Progress: nothing is done twice, and past its deadline nobody waits. *)

(* Seven steps for each of the references left, of which the process has n of r. *)
LEMMA SevenEach ==
  ASSUME NEW r \in Nat, NEW n \in Nat, NEW s \in 1..7
  PROVE  /\ n < r => 7 * (r - n - 1) + s \in Nat /\ 7 * (r - n - 1) + s > 0
         /\ \A t \in 1..7 : t < s => 7 * (r - n - 1) + t < 7 * (r - n - 1) + s
         /\ 7 * (r - (n + 1) - 1) + 7 < 7 * (r - n - 1) + s
         /\ 7 * (r - n - 1) + 7 < 7 * r + 1
  OBVIOUS

LEMMA SevenStages ==
  ASSUME NEW p \in Procs, Live(p)
  PROVE  Stage(p) \in 1..7
  BY DEF Stage, Live, Running

LEMMA StepsOfRunning ==
  ASSUME TypeInv, NEW p \in Procs, Live(p)
  PROVE  /\ Len(Refs[p]) \in Nat /\ Len(out[p]) \in Nat
         /\ Len(out[p]) < Len(Refs[p])
         /\ StepsLeft(p) = 7 * (Len(Refs[p]) - Len(out[p]) - 1) + Stage(p)
         /\ StepsLeft(p) \in Nat /\ StepsLeft(p) > 0
  <1>1. Len(Refs[p]) \in Nat /\ Len(out[p]) \in Nat
    BY RefsAssumption DEF TypeInv, TypeOK
  <1>2. Len(out[p]) < Len(Refs[p])
    BY DEF TypeInv, OutBounded, Live, Working
  <1>3. StepsLeft(p) = 7 * (Len(Refs[p]) - Len(out[p]) - 1) + Stage(p)
    BY DEF StepsLeft, Live, Running
  <1>4. Stage(p) \in 1..7
    BY SevenStages
  <1> QED BY <1>1, <1>2, <1>3, <1>4, SevenEach

(* A step that stays on the reference and moves to a later stage counts. *)
LEMMA LaterStage ==
  ASSUME TypeInv, NEW p \in Procs, Live(p), Live(p)', out'[p] = out[p], Stage(p)' < Stage(p)
  PROVE  StepsLeft(p)' < StepsLeft(p)
  <1>1. StepsLeft(p) = 7 * (Len(Refs[p]) - Len(out[p]) - 1) + Stage(p)
        /\ Len(Refs[p]) \in Nat /\ Len(out[p]) \in Nat
    BY StepsOfRunning
  <1>2. StepsLeft(p)' = 7 * (Len(Refs[p]) - Len(out[p]) - 1) + Stage(p)'
    BY DEF StepsLeft, Live, Running
  <1>3. Stage(p) \in 1..7
    BY SevenStages
  <1>4. Stage(p)' \in 1..7
    BY DEF Stage, Live, Running
  <1> QED BY <1>1, <1>2, <1>3, <1>4, SevenEach

(* So does an answer, and so does an exit. *)
LEMMA AnswerCounts ==
  ASSUME TypeInv, NEW p \in Procs, Live(p), NEW v, NEW src, ReturnAnswer(p, v, src)
  PROVE  StepsLeft(p)' < StepsLeft(p)
  <1> DEFINE r == Len(Refs[p])
             n == Len(out[p])
  <1>1. r \in Nat /\ n \in Nat /\ n < r /\ StepsLeft(p) = 7 * (r - n - 1) + Stage(p)
        /\ StepsLeft(p) > 0
    BY StepsOfRunning
  <1>2. Stage(p) \in 1..7
    BY SevenStages
  <1>3. pc'[p] = IF n + 1 = r THEN "done" ELSE "lookup"
    BY DEF ReturnAnswer, TypeInv, TypeOK
  <1>4. Len(out'[p]) = n + 1
    BY DEF ReturnAnswer, TypeInv, TypeOK
  <1>5. CASE n + 1 = r
    <2>1. StepsLeft(p)' = 0
      BY <1>3, <1>5 DEF StepsLeft, Live, Running
    <2> QED BY <2>1, <1>1
  <1>6. CASE n + 1 # r
    <2>1. Stage(p)' = 7
      BY <1>3, <1>6 DEF Stage
    <2>2. StepsLeft(p)' = 7 * (r - (n + 1) - 1) + 7
      BY <1>3, <1>4, <1>6, <2>1 DEF StepsLeft, Live, Running
    <2> HIDE DEF r, n
    <2> QED BY <2>2, <1>1, <1>2, SevenEach
  <1> QED BY <1>5, <1>6

LEMMA ExitCounts ==
  ASSUME TypeInv, NEW p \in Procs, Live(p), NEW how \in {"failed", "dead"},
         ExitWithoutReply(p, how)
  PROVE  StepsLeft(p)' < StepsLeft(p)
  <1>1. StepsLeft(p)' = 0
    BY DEF ExitWithoutReply, StepsLeft, Live, Running, TypeInv, TypeOK
  <1> QED BY <1>1, StepsOfRunning

LEMMA ResolveCounts ==
  ASSUME TypeInv, NEW p \in Procs, pc[p] \in {"lookup", "lock", "wait", "recheck"}, NEW l,
         StartResolve(p, l)
  PROVE  StepsLeft(p)' < StepsLeft(p)
  <1>1. pc'[p] = "await" /\ call'[p].st = "working" /\ out' = out
    BY DEF StartResolve, TypeInv, TypeOK
  <1>2. Stage(p)' = 3 /\ Stage(p) \in 4..7
    BY <1>1 DEF Stage
  <1>3. Live(p) /\ Live(p)'
    BY <1>1 DEF Live, Running
  <1> QED BY <1>1, <1>2, <1>3, LaterStage

(* Each step of a process leads to a later stage, to an answer or to its end. *)
LEMMA OwnStepCounts ==
  ASSUME TypeInv, NEW p \in Procs, Start(p) \/ Kill(p) \/ Step(p) \/ Backend(p)
  PROVE  StepsLeft(p)' < StepsLeft(p)
  <1>1. CASE Start(p)
    <2>1. pc[p] = "idle" /\ pc'[p] = "lookup" /\ out'[p] = out[p]
      BY <1>1 DEF Start, Goto, TypeInv, TypeOK
    <2>2. Len(Refs[p]) \in Nat /\ Len(out[p]) \in Nat
      BY RefsAssumption DEF TypeInv, TypeOK
    <2>3. StepsLeft(p) = 7 * Len(Refs[p]) + 1
      BY <2>1 DEF StepsLeft, Live, Running
    <2>4. StepsLeft(p)' = 7 * (Len(Refs[p]) - Len(out[p]) - 1) + 7
      BY <2>1 DEF StepsLeft, Stage, Live, Running
    <2>5. 1 \in 1..7
      OBVIOUS
    <2> QED BY <2>2, <2>3, <2>4, <2>5, SevenEach
  <1>2. CASE Kill(p) \/ RejectReference(p) \/ FailClosed(p)
    <2>1. Live(p)
      BY <1>2 DEF Kill, RejectReference, FailClosed, Live, Running
    <2> QED BY <1>2, <2>1, ExitCounts DEF Kill, RejectReference, FailClosed
  <1>3. CASE CacheHit(p) \/ ServeStale(p) \/ ServeUncached(p) \/ PutRename(p) \/ PutFails(p)
    <2>1. Live(p)
      BY <1>3 DEF CacheHit, ServeStale, ServeUncached, PutRename, PutFails, Live, Running
    <2> QED
      BY <1>3, <2>1, AnswerCounts DEF CacheHit, ServeStale, ServeUncached, PutRename, PutFails
  <1>4. CASE ResolveUncached(p) \/ LockUnavailable(p) \/ LockWaitExpires(p) \/ RecheckMiss(p)
    BY <1>4, ResolveCounts DEF ResolveUncached, Polling, LockUnavailable, LockWaitExpires, RecheckMiss
  <1>5. CASE CacheMiss(p) \/ AcquireLock(p) \/ LockContended(p)
    <2>1. /\ out'[p] = out[p]
          /\ \/ pc[p] = "lookup" /\ pc'[p] = "lock"
             \/ pc[p] = "lock" /\ pc'[p] = "wait"
             \/ pc[p] \in {"lock", "wait"} /\ pc'[p] = "recheck"
      BY <1>5 DEF CacheMiss, AcquireLock, LockContended, Polling, Goto, TypeInv, TypeOK
    <2>2. Stage(p)' < Stage(p) /\ Live(p) /\ Live(p)'
      BY <2>1 DEF Stage, Live, Running
    <2> QED BY <2>1, <2>2, LaterStage
  <1>6. CASE GiveUp(p)
    <2>1. /\ out'[p] = out[p] /\ pc[p] = "await" /\ pc'[p] = "await"
          /\ call[p].st # "timeout" /\ call'[p].st = "timeout"
      BY <1>6 DEF GiveUp, TypeInv, TypeOK
    <2>2. Stage(p)' < Stage(p) /\ Live(p) /\ Live(p)'
      BY <2>1 DEF Stage, Live, Running
    <2> QED BY <2>1, <2>2, LaterStage
  <1>7. CASE PutTemp(p)
    <2>1. /\ out'[p] = out[p] /\ pc[p] = "await" /\ pc'[p] = "rename" /\ call[p].st = "ok"
      BY <1>7 DEF PutTemp, Goto, TypeInv, TypeOK
    <2>2. Stage(p)' < Stage(p) /\ Live(p) /\ Live(p)'
      BY <2>1 DEF Stage, Live, Running
    <2> QED BY <2>1, <2>2, LaterStage
  <1>8. CASE Backend(p)
    <2>1. PICK st, v : st \in {"ok", "refused", "unreachable"} /\ Reply(p, st, v)
      BY <1>8 DEF Backend, BackendAnswers, BackendRefuses, BackendUnreached
    <2>2. /\ out'[p] = out[p] /\ pc[p] = "await" /\ pc'[p] = "await"
          /\ call[p].st = "working" /\ call'[p].st \in {"ok", "refused", "unreachable"}
      BY <2>1 DEF Reply, TypeInv, TypeOK
    <2>3. Stage(p)' < Stage(p) /\ Live(p) /\ Live(p)'
      BY <2>2 DEF Stage, Live, Running
    <2> QED BY <2>2, <2>3, LaterStage
  <1> QED
    BY <1>1, <1>2, <1>3, <1>4, <1>5, <1>6, <1>7, <1>8 DEF Step

(* And it moves no other process. *)
LEMMA OthersStay ==
  ASSUME TypeInv, NEW p \in Procs, Start(p) \/ Kill(p) \/ Step(p) \/ Backend(p),
         NEW q \in Procs, q # p
  PROVE  Place(q)' = Place(q)
  <1> USE DEF Place, TypeInv, TypeOK
  <1>1. CASE Start(p)
    BY <1>1 DEF Start, Goto
  <1>2. CASE Kill(p) \/ RejectReference(p) \/ FailClosed(p)
    BY <1>2 DEF Kill, RejectReference, FailClosed, ExitWithoutReply
  <1>3. CASE CacheHit(p) \/ ServeStale(p) \/ ServeUncached(p) \/ PutRename(p) \/ PutFails(p)
    BY <1>3 DEF CacheHit, ServeStale, ServeUncached, PutRename, PutFails, ReturnAnswer
  <1>4. CASE ResolveUncached(p) \/ LockUnavailable(p) \/ LockWaitExpires(p) \/ RecheckMiss(p)
    BY <1>4 DEF ResolveUncached, Polling, LockUnavailable, LockWaitExpires, RecheckMiss, StartResolve
  <1>5. CASE CacheMiss(p) \/ AcquireLock(p) \/ LockContended(p) \/ GiveUp(p) \/ PutTemp(p)
    BY <1>5 DEF CacheMiss, AcquireLock, LockContended, GiveUp, PutTemp, Goto
  <1>6. CASE Backend(p)
    BY <1>6 DEF Backend, BackendAnswers, BackendRefuses, BackendUnreached, Reply
  <1> QED
    BY <1>1, <1>2, <1>3, <1>4, <1>5, <1>6 DEF Step

(* A fetch of n references is over after 7 n + 1 steps of its own at most: no
   lock, time-out or late answer ever makes it start anything again (fetch's
   loop, fetchOne, resolveWithin). *)
THEOREM FetchesAreFinite == Spec => EveryStepCounts
  <1>1. ASSUME TypeInv, [Next]_vars, NEW p \in Procs
        PROVE  StepsLeft(p)' < StepsLeft(p) \/ Place(p)' = Place(p)
    <2>1. CASE Tick \/ (\E k \in Keys : Rotate(k)) \/ UNCHANGED vars
      BY <2>1 DEF Tick, Rotate, Place, vars, procVars
    <2>2. ASSUME NEW q \in Procs, Start(q) \/ Kill(q) \/ Step(q) \/ Backend(q)
          PROVE  StepsLeft(p)' < StepsLeft(p) \/ Place(p)' = Place(p)
      <3>1. CASE q = p
        BY <1>1, <2>2, <3>1, OwnStepCounts
      <3>2. CASE q # p
        BY <1>1, <2>2, <3>2, OthersStay
      <3> QED BY <3>1, <3>2
    <2> QED BY <1>1, <2>1, <2>2 DEF Next
  <1>2. TypeInv /\ [Next]_vars =>
          [\A p \in Procs : StepsLeft(p)' < StepsLeft(p) \/ Place(p)' = Place(p)]_vars
    BY <1>1
  <1> QED
    BY <1>2, InitTypes, NextTypes, PTL DEF Spec, EveryStepCounts

(* The guards of Step(p), action by action. *)
CanStep(p) ==
  \/ pc[p] = "lookup" /\ Key(p) \in BadRefs                      \* RejectReference
  \/ /\ pc[p] \in {"lookup", "recheck"} /\ Key(p) \notin BadRefs  \* CacheHit
     /\ store[p] /\ Fresh(Key(p), now)
  \/ /\ pc[p] = "lookup" /\ Key(p) \notin BadRefs                 \* CacheMiss
     /\ store[p] /\ Misses(p)
  \/ pc[p] = "lookup" /\ Key(p) \notin BadRefs /\ ~store[p]       \* ResolveUncached
  \/ pc[p] \in Polling /\ Faulty("lock")                         \* LockUnavailable
  \/ pc[p] \in Polling /\ LockFree(p, Key(p))                    \* AcquireLock
  \/ pc[p] = "lock" /\ ~LockFree(p, Key(p))                      \* LockContended
  \/ pc[p] = "wait" /\ Expired(p)                                \* LockWaitExpires
  \/ pc[p] = "recheck" /\ Misses(p)                              \* RecheckMiss
  \/ /\ pc[p] = "await" /\ Expired(p)                            \* GiveUp
     /\ call[p].st \in {"working", "ok", "refused", "unreachable"}
  \/ /\ pc[p] = "await" /\ call[p].st \in Errors                 \* ServeStale
     /\ store[p] /\ Usable(Key(p), now)
  \/ /\ pc[p] = "await" /\ call[p].st \in Errors                 \* FailClosed
     /\ ~store[p] \/ ~Usable(Key(p), now) \/ Faulty("read")
  \/ pc[p] = "await" /\ call[p].st = "ok" /\ ~store[p]           \* ServeUncached
  \/ pc[p] = "await" /\ call[p].st = "ok" /\ store[p]            \* PutTemp
  \/ pc[p] = "rename"                                            \* PutRename, PutFails

(* What a process that asks for a lock has seen to, and what one that awaits
   has started. *)
Prepared ==
  \A p \in Procs :
    /\ pc[p] \in {"lock", "wait", "recheck"} => store[p] /\ Key(p) \notin BadRefs
    /\ pc[p] = "await" => call[p].st # "none"

LEMMA NextPrepared == TypeInv /\ Prepared /\ [Next]_vars => Prepared'
  <1> SUFFICES ASSUME TypeInv, Prepared, [Next]_vars PROVE Prepared'
    OBVIOUS
  <1> USE DEF Prepared, TypeInv, TypeOK, Key
  <1>1. CASE Tick \/ (\E k \in Keys : Rotate(k)) \/ UNCHANGED vars
    BY <1>1 DEF Tick, Rotate, vars, procVars
  <1>2. ASSUME NEW p \in Procs, Start(p) PROVE Prepared'
    BY <1>2 DEF Start, Goto
  <1>3. ASSUME NEW p \in Procs, NEW how \in {"failed", "dead"}, ExitWithoutReply(p, how)
        PROVE  Prepared'
    BY <1>3 DEF ExitWithoutReply
  <1>4. ASSUME NEW p \in Procs, NEW v, NEW src, ReturnAnswer(p, v, src) PROVE Prepared'
    BY <1>4 DEF ReturnAnswer
  <1>5. ASSUME NEW p \in Procs, NEW l, StartResolve(p, l) PROVE Prepared'
    BY <1>5 DEF StartResolve
  <1>6. ASSUME NEW p \in Procs, NEW st \in {"ok", "refused", "unreachable"}, NEW v, Reply(p, st, v)
        PROVE  Prepared'
    BY <1>6 DEF Reply
  <1>7. ASSUME NEW p \in Procs, Step(p) PROVE Prepared'
    <2>1. CASE CacheMiss(p) \/ AcquireLock(p) \/ LockContended(p) \/ PutTemp(p)
      <3>1. /\ store' = store /\ call' = call /\ out' = out
            /\ \E to \in {"lock", "wait", "recheck", "rename"} :
                 /\ pc' = [pc EXCEPT ![p] = to]
                 /\ to = "lock" => store[p] /\ Key(p) \notin BadRefs
                 /\ to \in {"wait", "recheck"} => pc[p] \in {"lock", "wait"}
        BY <2>1 DEF CacheMiss, AcquireLock, LockContended, Polling, PutTemp, Goto
      <3> QED BY <3>1
    <2>2. CASE GiveUp(p)
      BY <2>2 DEF GiveUp
    <2>3. CASE RejectReference(p) \/ FailClosed(p)
      BY <2>3, <1>3 DEF RejectReference, FailClosed
    <2>4. CASE CacheHit(p) \/ ServeStale(p) \/ ServeUncached(p) \/ PutRename(p) \/ PutFails(p)
      BY <2>4, <1>4 DEF CacheHit, ServeStale, ServeUncached, PutRename, PutFails
    <2>5. CASE ResolveUncached(p) \/ LockUnavailable(p) \/ LockWaitExpires(p) \/ RecheckMiss(p)
      BY <2>5, <1>5 DEF ResolveUncached, Polling, LockUnavailable, LockWaitExpires, RecheckMiss
    <2> QED BY <1>7, <2>1, <2>2, <2>3, <2>4, <2>5 DEF Step
  <1>8. ASSUME NEW p \in Procs, Kill(p) \/ Backend(p) PROVE Prepared'
    BY <1>8, <1>3, <1>6 DEF Kill, Backend, BackendAnswers, BackendRefuses, BackendUnreached
  <1> QED BY <1>1, <1>2, <1>7, <1>8 DEF Next

(* Until its deadline a process waits for nothing but a lock that another one
   holds and the answer of its own goroutine; past it, for nothing. *)
THEOREM NobodyIsBlocked ==
  Spec => [](\A p \in Procs : Live(p) =>
               \/ CanStep(p)
               \/ ~Expired(p) /\ pc[p] = "wait" /\ ~LockFree(p, Key(p))
               \/ ~Expired(p) /\ pc[p] = "await" /\ call[p].st = "working")
  <1>1. Init => Prepared
    BY DEF Init, Prepared
  <1>2. ASSUME TypeInv, Prepared, NEW p \in Procs, Live(p)
        PROVE  \/ CanStep(p)
               \/ ~Expired(p) /\ pc[p] = "wait" /\ ~LockFree(p, Key(p))
               \/ ~Expired(p) /\ pc[p] = "await" /\ call[p].st = "working"
    <2>1. CASE pc[p] \in {"lookup", "recheck"}
      BY <1>2, <2>1 DEF CanStep, Misses, Prepared, TypeInv, TypeOK
    <2>2. CASE pc[p] \in {"lock", "wait", "rename"}
      BY <2>2 DEF CanStep, Polling
    <2>3. CASE pc[p] = "await"
      <3>1. call[p].st \in {"working", "ok"} \cup Errors
        BY <1>2, <2>3 DEF Prepared, TypeInv, TypeOK, CallStates
      <3> QED BY <1>2, <2>3, <3>1 DEF CanStep, TypeInv, TypeOK
    <2> QED BY <1>2, <2>1, <2>2, <2>3 DEF Live, Running
  <1>3. TypeInv /\ Prepared =>
          \A p \in Procs : Live(p) =>
            \/ CanStep(p)
            \/ ~Expired(p) /\ pc[p] = "wait" /\ ~LockFree(p, Key(p))
            \/ ~Expired(p) /\ pc[p] = "await" /\ call[p].st = "working"
    BY <1>2
  <1> QED
    BY <1>1, <1>3, InitTypes, NextTypes, NextPrepared, PTL DEF Spec

=============================================================================
