------------------------- MODULE FetchServiceProofs -------------------------
(***************************************************************************)
(* FetchCache implements SecretService: the cache, the locks, the deadlines *)
(* and the crashes add nothing to what the abstract service may do.         *)
(***************************************************************************)
EXTENDS FetchService, FetchWindowProofs

(* A running process has given all its answers since it started. *)
AnswersSinceStart ==
  \A p \in Procs :
    /\ pc[p] = "idle" => out[p] = <<>>
    /\ Live(p) => \A i \in 1..Len(out[p]) : out[p][i].at >= deadline[p] - Timeout

VersionsBounded == \A k \in Keys : Current(k) <= MaxVer

ServiceInv == WindowInv /\ AnswersSinceStart /\ VersionsBounded

----------------------------------------------------------------------------
(* All a process can do to the abstract state: give an answer, exit without
   one, or move on inside fetchOne. *)
Moves(p) ==
  /\ pc'[p] \in Running
  /\ \A q \in Procs : q # p => pc'[q] = pc[q]
  /\ UNCHANGED <<now, retired, deadline, out>>

LEMMA ProcessShape ==
  ASSUME ServiceInv, NEW p \in Procs, Kill(p) \/ Step(p) \/ Backend(p)
  PROVE  /\ pc[p] \in Running
         /\ \/ \E v \in Nat, src \in Sources : ReturnAnswer(p, v, src)
            \/ \E how \in {"failed", "dead"} : ExitWithoutReply(p, how)
            \/ Moves(p)
  <1>1. pc[p] \in Running
    BY DEF Kill, Live, Step, Backend, BackendAnswers, BackendRefuses, BackendUnreached, Reply,
       RejectReference, CacheHit, CacheMiss, ResolveUncached, Polling, LockUnavailable, AcquireLock, LockContended,
       LockWaitExpires, RecheckMiss, GiveUp, ServeStale, FailClosed, ServeUncached, PutTemp,
       PutRename, PutFails, Goto, Running
  <1>2. /\ cache[Key(p)].ver \in Nat /\ call[p].ver \in Nat
        /\ pc \in [Procs -> {"idle"} \cup Running \cup Stopped]
    BY <1>1, KeyInKeys DEF Working, ServiceInv, WindowInv, TypeInv, TypeOK, DiskTypeOK, Entry
  <1>3. CASE Kill(p) \/ RejectReference(p) \/ FailClosed(p)
    BY <1>1, <1>3 DEF Kill, RejectReference, FailClosed
  <1>4. CASE CacheHit(p) \/ ServeStale(p) \/ ServeUncached(p) \/ PutRename(p) \/ PutFails(p)
    <2>1. "hit" \in Sources /\ "live" \in Sources /\ Errors \subseteq Sources
      BY DEF Sources
    <2> QED
      BY <1>1, <1>2, <1>4, <2>1 DEF CacheHit, ServeStale, ServeUncached, PutRename, PutFails
  <1>5. CASE ResolveUncached(p) \/ LockUnavailable(p) \/ LockWaitExpires(p) \/ RecheckMiss(p)
    BY <1>1, <1>2, <1>5 DEF ResolveUncached, Polling, LockUnavailable, LockWaitExpires, RecheckMiss,
       StartResolve, Moves, Running
  <1>6. CASE CacheMiss(p) \/ AcquireLock(p) \/ LockContended(p) \/ PutTemp(p)
    BY <1>1, <1>2, <1>6 DEF CacheMiss, AcquireLock, LockContended, Polling, PutTemp, Goto, Moves, Running
  <1>7. CASE GiveUp(p) \/ Backend(p)
    BY <1>1, <1>7 DEF GiveUp, Backend, BackendAnswers, BackendRefuses, BackendUnreached, Reply,
       Moves, Running
  <1> QED BY <1>1, <1>3, <1>4, <1>5, <1>6, <1>7 DEF Step

(* The answer a process gives is, like those before it, given since it started. *)
LEMMA ReturnSinceStart ==
  ASSUME ServiceInv, NEW p \in Procs, pc[p] \in Running,
         NEW v \in Nat, NEW src \in Sources, ReturnAnswer(p, v, src)
  PROVE  /\ Len(out'[p]) = Len(out[p]) + 1
         /\ \A i \in 1..Len(out'[p]) : out'[p][i].at >= deadline[p] - Timeout
  <1> DEFINE a == [ver |-> v, at |-> now, src |-> src]
  <1>1. out[p] \in Seq(Answer) /\ out'[p] = Append(out[p], a)
    BY DEF ReturnAnswer, ServiceInv, WindowInv, TypeInv, TypeOK
  <1>2. /\ Len(out'[p]) = Len(out[p]) + 1 /\ Len(out[p]) \in Nat
        /\ \A i \in 1..Len(out[p]) : out'[p][i] = out[p][i]
        /\ out'[p][Len(out[p]) + 1] = a
    BY <1>1
  <1>3. /\ now >= deadline[p] - Timeout
        /\ \A i \in 1..Len(out[p]) : out[p][i].at >= deadline[p] - Timeout
    BY TimeAssumption DEF ServiceInv, WindowInv, InItsWindow, Live, AnswersSinceStart,
       TypeInv, TypeOK
  <1>4. ASSUME NEW i \in 1..Len(out'[p]) PROVE out'[p][i].at >= deadline[p] - Timeout
    <2>1. CASE i \in 1..Len(out[p])
      BY <1>2, <1>3, <2>1
    <2>2. CASE i = Len(out[p]) + 1
      BY <1>2, <1>3, <2>2
    <2> QED BY <1>2, <1>4, <2>1, <2>2
  <1> QED BY <1>2, <1>4

LEMMA InitService == Init => ServiceInv
  <1>1. Len(<<>>) = 0
    OBVIOUS
  <1> QED
    BY <1>1, InitWindow, TimeAssumption DEF Init, ServiceInv, AnswersSinceStart, VersionsBounded,
       Current, Live, Running

LEMMA NextService == ServiceInv /\ [Next]_vars => ServiceInv'
  <1> SUFFICES ASSUME ServiceInv, [Next]_vars PROVE ServiceInv'
    OBVIOUS
  <1>1. WindowInv'
    BY NextWindow DEF ServiceInv
  <1>2. CASE Tick \/ UNCHANGED vars
    BY <1>1, <1>2 DEF Tick, vars, diskVars, procVars, ServiceInv, AnswersSinceStart,
       VersionsBounded, Current, Live
  <1>3. ASSUME NEW k \in Keys, Rotate(k) PROVE ServiceInv'
    <2>1. retired[k] \in Seq(Nat) /\ now \in Nat
      BY DEF ServiceInv, WindowInv, TypeInv, TypeOK
    <2>2. retired'[k] = Append(retired[k], now) /\ \A j \in Keys : j # k => retired'[j] = retired[j]
      BY <1>3 DEF Rotate, ServiceInv, WindowInv, TypeInv, TypeOK
    <2>3. Len(retired'[k]) = Len(retired[k]) + 1 /\ Len(retired[k]) \in Nat
      BY <2>1, <2>2
    <2>4. VersionsBounded'
      BY <1>3, <2>2, <2>3, TimeAssumption DEF Rotate, Current, VersionsBounded, ServiceInv
    <2> QED
      BY <1>1, <1>3, <2>4 DEF Rotate, procVars, ServiceInv, AnswersSinceStart, Live
  <1>4. ASSUME NEW p \in Procs, Start(p) PROVE ServiceInv'
    <2>1. Len(<<>>) = 0
      OBVIOUS
    <2>2. /\ pc[p] = "idle" /\ pc'[p] = "lookup" /\ out' = out /\ retired' = retired
          /\ \A q \in Procs : q # p => pc'[q] = pc[q] /\ deadline'[q] = deadline[q]
      BY <1>4 DEF Start, Goto, ServiceInv, WindowInv, TypeInv, TypeOK
    <2> QED
      BY <1>1, <2>1, <2>2 DEF ServiceInv, AnswersSinceStart, VersionsBounded, Current, Live
  <1>5. ASSUME NEW p \in Procs, Kill(p) \/ Step(p) \/ Backend(p) PROVE ServiceInv'
    <2>1. pc[p] \in Running
      BY <1>5, ProcessShape
    <2>2. ASSUME NEW v \in Nat, NEW src \in Sources, ReturnAnswer(p, v, src) PROVE ServiceInv'
      <3>1. /\ pc'[p] \in {"done", "lookup"} /\ deadline' = deadline /\ retired' = retired
            /\ \A q \in Procs : q # p => pc'[q] = pc[q] /\ out'[q] = out[q]
        BY <2>2 DEF ReturnAnswer, ServiceInv, WindowInv, TypeInv, TypeOK
      <3> QED
        BY <1>1, <2>1, <2>2, <3>1, ReturnSinceStart DEF ServiceInv, AnswersSinceStart,
           VersionsBounded, Current, Live
    <2>3. ASSUME NEW how \in {"failed", "dead"}, ExitWithoutReply(p, how) PROVE ServiceInv'
      <3>1. /\ pc'[p] = how /\ deadline' = deadline /\ retired' = retired
            /\ \A q \in Procs : q # p => pc'[q] = pc[q] /\ out'[q] = out[q]
        BY <2>3 DEF ExitWithoutReply, ServiceInv, WindowInv, TypeInv, TypeOK
      <3> QED
        BY <1>1, <3>1 DEF ServiceInv, AnswersSinceStart, VersionsBounded, Current, Live, Running
    <2>4. CASE Moves(p)
      BY <1>1, <2>1, <2>4 DEF Moves, ServiceInv, AnswersSinceStart, VersionsBounded, Current,
         Live, Running
    <2> QED BY <1>5, <2>2, <2>3, <2>4, ProcessShape
  <1> QED BY <1>2, <1>3, <1>4, <1>5 DEF Next

----------------------------------------------------------------------------
(* The mapping of the abstract variables under each kind of step. *)
LEMMA InitImplements == Init => Service!Init
  BY DEF Init, Service!Init, ServicePhase, ServiceReply, Running

LEMMA ExitImplements ==
  ASSUME ServiceInv, NEW p \in Procs, pc[p] \in Running,
         NEW how \in {"failed", "dead"}, ExitWithoutReply(p, how)
  PROVE  Service!Refuse(p)
  <1>1. /\ pc'[p] = how /\ now' = now /\ retired' = retired
        /\ \A q \in Procs : q # p => pc'[q] = pc[q] /\ out'[q] = out[q]
    BY DEF ExitWithoutReply, ServiceInv, WindowInv, TypeInv, TypeOK
  <1>2. ServicePhase[p] = "pending"
    BY DEF ServicePhase, Running
  <1>3. ServicePhase' = [ServicePhase EXCEPT ![p] = "none"]
    BY <1>1 DEF ServicePhase, Running
  <1>4. ServiceReply' = ServiceReply
    BY <1>1 DEF ServiceReply, Running
  <1> QED BY <1>1, <1>2, <1>3, <1>4 DEF Service!Refuse

(* An answer given at x, its value held within w of that, to a process that
   began at most K before: the two delays add up. *)
LEMMA LagAdds ==
  ASSUME NEW x \in Nat, NEW w \in Nat, NEW n \in Nat, NEW oldest \in Nat, NEW K \in Nat,
         x >= n - K, w <= oldest + K
  PROVE  \A r \in Nat : r >= x - w => r >= n - (oldest + 2 * K)
  OBVIOUS

(* The last answer completes the reply; each version in it was the backend's
   no more than MaxLag ago. *)
LEMMA ReplyWithinLag ==
  ASSUME ServiceInv, ServiceInv', NEW p \in Procs, pc[p] \in Running,
         NEW v \in Nat, NEW src \in Sources, ReturnAnswer(p, v, src),
         NEW i \in 1..Len(out'[p])
  PROVE  /\ out'[p][i].ver \in 1..MaxVer
         /\ Service!HeldSince(Refs[p][i], out'[p][i].ver, now - (OldestAge + 2 * KillWindow))
  <1> DEFINE a == out'[p][i]
             k == Refs[p][i]
  <1>1. now' = now /\ retired' = retired
    BY DEF ReturnAnswer
  <1>2. a \in Answer /\ k \in Keys
    <2>1. out'[p] \in Seq(Answer) /\ Refs[p] \in Seq(Keys) /\ Len(out'[p]) <= Len(Refs[p])
      BY RefsAssumption DEF ServiceInv, WindowInv, TypeInv, TypeOK, OutBounded
    <2> QED BY <2>1
  <1>3. /\ a.at \in Nat /\ a.ver \in Nat /\ now \in Nat /\ deadline[p] \in Nat
        /\ Len(retired[k]) \in Nat /\ \A j \in 1..Len(retired[k]) : retired[k][j] \in Nat
    <2>1. retired[k] \in Seq(Nat)
      BY <1>2 DEF ServiceInv, WindowInv, TypeInv, TypeOK
    <2>2. Len(retired[k]) \in Nat /\ \A j \in 1..Len(retired[k]) : retired[k][j] \in Nat
      BY <2>1
    <2>3. a.at \in Nat /\ a.ver \in Nat
      BY <1>2 DEF Answer
    <2> QED BY <2>2, <2>3 DEF ServiceInv, WindowInv, TypeInv, TypeOK
  <1>4. /\ a.ver \in 1..(Len(retired[k]) + 1)
        /\ a.ver < Len(retired[k]) + 1 => retired[k][a.ver] >= a.at - Window(a.src)
    BY <1>1 DEF ServiceInv, WindowInv, AnswersRecent, HadVersion, Current
  <1>5. a.at >= now - KillWindow
    <2>1. now - KillWindow <= deadline[p] - Timeout
      BY DEF ServiceInv, WindowInv, InItsWindow, Live
    <2> QED BY <1>3, <2>1, ReturnSinceStart, TimeAssumption
  <1>6. Window(a.src) \in Nat /\ Window(a.src) <= OldestAge + KillWindow /\ OldestAge \in Nat
    BY AgeAssumption, TimeAssumption DEF Window, OldestAge
  <1>7. \A r \in Nat : r >= a.at - Window(a.src) => r >= now - (OldestAge + 2 * KillWindow)
    <2>1. a.at \in Nat /\ now \in Nat /\ KillWindow \in Nat
      BY <1>3, TimeAssumption
    <2> QED BY <1>5, <1>6, <2>1, LagAdds
  <1>8. a.ver \in 1..MaxVer
    BY <1>2, <1>3, <1>4, TimeAssumption DEF ServiceInv, VersionsBounded, Current
  <1>9. Service!HeldSince(k, a.ver, now - (OldestAge + 2 * KillWindow))
    <2>1. a.ver <= Len(retired[k]) + 1
      BY <1>3, <1>4
    <2>2. ASSUME a.ver <= Len(retired[k])
          PROVE  retired[k][a.ver] >= now - (OldestAge + 2 * KillWindow)
      <3>1. retired[k][a.ver] \in Nat /\ retired[k][a.ver] >= a.at - Window(a.src)
        BY <1>3, <1>4, <2>2
      <3> QED BY <1>7, <3>1
    <2> QED BY <2>1, <2>2 DEF Service!HeldSince
  <1> QED BY <1>8, <1>9

LEMMA ReturnImplements ==
  ASSUME ServiceInv, ServiceInv', NEW p \in Procs, pc[p] \in Running,
         NEW v \in Nat, NEW src \in Sources, ReturnAnswer(p, v, src)
  PROVE  Service!Respond(p) \/ UNCHANGED Service!serviceVars
  <1>1. /\ now' = now /\ retired' = retired
        /\ pc'[p] = IF Len(out[p]) + 1 = Len(Refs[p]) THEN "done" ELSE "lookup"
        /\ \A q \in Procs : q # p => pc'[q] = pc[q] /\ out'[q] = out[q]
    BY DEF ReturnAnswer, ServiceInv, WindowInv, TypeInv, TypeOK
  <1>2. CASE pc'[p] = "lookup"
    <2>1. ServicePhase' = ServicePhase /\ ServiceReply' = ServiceReply
      BY <1>1, <1>2 DEF ServicePhase, ServiceReply, Running
    <2> QED BY <1>1, <2>1 DEF Service!serviceVars
  <1>3. CASE pc'[p] = "done"
    <2> DEFINE s == [i \in 1..Len(out'[p]) |-> out'[p][i].ver]
    <2>1. Len(out'[p]) = Len(Refs[p])
      BY <1>1, <1>3, ReturnSinceStart
    <2>2. /\ s \in [1..Len(Refs[p]) -> 1..MaxVer]
          /\ \A i \in 1..Len(Refs[p]) :
               Service!HeldSince(Refs[p][i], s[i], now - (OldestAge + 2 * KillWindow))
      BY <2>1, ReplyWithinLag
    <2>3. ServicePhase[p] = "pending"
      BY DEF ServicePhase, Running
    <2>4. ServicePhase' = [ServicePhase EXCEPT ![p] = "answered"]
      BY <1>1, <1>3 DEF ServicePhase, Running
    <2>5. ServiceReply' = [ServiceReply EXCEPT ![p] = s]
      BY <1>1, <1>3 DEF ServiceReply
    <2> HIDE DEF s
    <2>6. Service!Respond(p)
      BY <1>1, <2>2, <2>3, <2>4, <2>5 DEF Service!Respond
    <2> QED BY <2>6
  <1> QED BY <1>1, <1>2, <1>3

(* Every step of FetchCache is a step of the abstract service, or none. *)
LEMMA NextImplements ==
  ServiceInv /\ ServiceInv' /\ [Next]_vars => [Service!Next]_(Service!serviceVars)
  <1> SUFFICES ASSUME ServiceInv, ServiceInv', [Next]_vars
               PROVE  Service!Next \/ UNCHANGED Service!serviceVars
    OBVIOUS
  <1>1. CASE Tick
    <2>1. Service!TimePasses
      BY <1>1 DEF Tick, procVars, Service!TimePasses, ServicePhase, ServiceReply
    <2> QED BY <2>1 DEF Service!Next
  <1>2. ASSUME NEW k \in Keys, Rotate(k) PROVE Service!Next
    <2>1. Service!Rotate(k)
      BY <1>2 DEF Rotate, procVars, Service!Rotate, ServicePhase, ServiceReply
    <2> QED BY <2>1 DEF Service!Next
  <1>3. ASSUME NEW p \in Procs, Start(p) PROVE Service!Next
    <2>1. /\ pc[p] = "idle" /\ pc'[p] = "lookup" /\ UNCHANGED <<now, retired, out>>
          /\ \A q \in Procs : q # p => pc'[q] = pc[q]
      BY <1>3 DEF Start, Goto, ServiceInv, WindowInv, TypeInv, TypeOK
    <2>2. ServicePhase[p] = "idle" /\ ServicePhase' = [ServicePhase EXCEPT ![p] = "pending"]
      BY <2>1 DEF ServicePhase, Running
    <2>3. ServiceReply' = ServiceReply
      BY <2>1 DEF ServiceReply
    <2>4. Service!Request(p)
      BY <2>1, <2>2, <2>3 DEF Service!Request
    <2> QED BY <2>4 DEF Service!Next
  <1>4. ASSUME NEW p \in Procs, Kill(p) \/ Step(p) \/ Backend(p)
        PROVE  Service!Next \/ UNCHANGED Service!serviceVars
    <2>1. pc[p] \in Running
      BY <1>4, ProcessShape
    <2>2. CASE \E v \in Nat, src \in Sources : ReturnAnswer(p, v, src)
      BY <2>1, <2>2, ReturnImplements DEF Service!Next
    <2>3. CASE \E how \in {"failed", "dead"} : ExitWithoutReply(p, how)
      BY <2>1, <2>3, ExitImplements DEF Service!Next
    <2>4. CASE Moves(p)
      BY <2>1, <2>4 DEF Moves, Service!serviceVars, ServicePhase, ServiceReply, Running
    <2> QED BY <1>4, <2>2, <2>3, <2>4, ProcessShape
  <1>5. CASE UNCHANGED vars
    BY <1>5 DEF vars, procVars, Service!serviceVars, ServicePhase, ServiceReply
  <1> QED BY <1>1, <1>2, <1>3, <1>4, <1>5 DEF Next

(* The fetch protocol implements the service Nomad is promised: every request
   ends with one answer per reference, in order, each a value the backend held
   at most OldestAge + 2 * KillWindow before, or with none. *)
THEOREM FetchesImplementService == Spec => ImplementsService
  <1>1. Spec => []ServiceInv
    BY InitService, NextService, PTL DEF Spec
  <1>2. Spec => Service!Spec
    BY <1>1, InitImplements, NextImplements, PTL DEF Spec, Service!Spec
  <1> QED BY <1>2 DEF ImplementsService
=============================================================================
