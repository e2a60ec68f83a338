-------------------------- MODULE FetchWindowProofs --------------------------
(***************************************************************************)
(* No answer is older than its window: a value read from the backend keeps  *)
(* being within reach of it while it travels through the resolve channel,   *)
(* the temporary file and the cache entry, whatever the delays on the way.  *)
(***************************************************************************)
EXTENDS FetchCacheProofs

(* Nomad kills in time, so the running process started recently. *)
InItsWindow ==
  \A p \in Procs : Live(p) => /\ deadline[p] - Timeout <= now
                              /\ now - KillWindow <= deadline[p] - Timeout

(* What is in the channel was read after the process started. *)
ChannelRecent ==
  \A p \in Procs :
    /\ call[p].st # "none" => pc[p] \in {"await", "rename"}
    /\ pc[p] = "rename" => call[p].st = "ok"
    /\ call[p].st = "ok" => HadVersion(Key(p), call[p].ver, deadline[p] - Timeout)

(* What is in a file was read at most KillWindow before its stamp. *)
FileRecent(k, e) == e.at <= now /\ HadVersion(k, e.ver, e.at - KillWindow)

TempRecent  == \A p \in Procs : pc[p] = "rename" => FileRecent(Key(p), tmp[p])
CacheRecent == \A k \in Keys : cache[k] # Absent => FileRecent(k, cache[k])

AnswersRecent ==
  \A p \in Procs : \A i \in 1..Len(out[p]) :
    /\ out[p][i].at <= now
    /\ HadVersion(Refs[p][i], out[p][i].ver, out[p][i].at - Window(out[p][i].src))

WindowInv ==
  TypeInv /\ InItsWindow /\ ChannelRecent /\ TempRecent /\ CacheRecent /\ AnswersRecent

----------------------------------------------------------------------------
(* A version held at t or later was held at any earlier time or later. *)
LEMMA HadVersionEarlier ==
  ASSUME TypeInv, NEW k \in Keys, NEW v \in Int, NEW t \in Int, NEW u \in Int,
         u <= t, HadVersion(k, v, t)
  PROVE  HadVersion(k, v, u)
  <1>1. v < Current(k) => retired[k][v] \in Nat
    BY DEF TypeInv, TypeOK, Current, HadVersion
  <1> QED BY <1>1 DEF HadVersion

(* Rotations only retire the current version, and they retire it now. *)
LEMMA HadVersionRotates ==
  ASSUME TypeInv, NEW k \in Keys, NEW j \in Keys, NEW v \in Int, NEW t \in Int,
         t <= now, Rotate(j), HadVersion(k, v, t)
  PROVE  HadVersion(k, v, t)'
  <1>1. retired[j] \in Seq(Nat) /\ retired[k] \in Seq(Nat) /\ now \in Nat
    BY DEF TypeInv, TypeOK
  <1>2. retired' = [retired EXCEPT ![j] = Append(retired[j], now)]
    BY DEF Rotate
  <1>3. CASE k # j
    BY <1>2, <1>3 DEF HadVersion, Current, TypeInv, TypeOK
  <1>4. CASE k = j
    <2>1. retired'[k] = Append(retired[k], now)
      BY <1>2, <1>4 DEF TypeInv, TypeOK
    <2>2. /\ Len(retired'[k]) = Len(retired[k]) + 1
          /\ \A i \in 1..Len(retired[k]) : retired'[k][i] = retired[k][i]
          /\ retired'[k][Len(retired[k]) + 1] = now
      BY <2>1, <1>1
    <2>3. Len(retired[k]) \in Nat
      BY <1>1
    <2> QED BY <2>2, <2>3 DEF HadVersion, Current
  <1> QED BY <1>3, <1>4

LEMMA WindowType ==
  ASSUME NEW src PROVE Window(src) \in Nat
  BY AgeAssumption, TimeAssumption DEF Window

(* An answer within its window keeps all the answers within theirs. *)
LEMMA ReturnKeepsWindow ==
  ASSUME WindowInv, NEW p \in Procs, pc[p] \in Running, NEW v \in Nat, NEW src \in Sources,
         ReturnAnswer(p, v, src), HadVersion(Key(p), v, now - Window(src)),
         \A q \in Procs : q # p => tmp'[q] = tmp[q]
  PROVE  InItsWindow' /\ ChannelRecent' /\ TempRecent' /\ AnswersRecent'
  <1> DEFINE a == [ver |-> v, at |-> now, src |-> src]
  <1>1. /\ now' = now /\ retired' = retired /\ deadline' = deadline
        /\ pc'[p] \in {"done", "lookup"} /\ call'[p].st = "none"
        /\ out'[p] = Append(out[p], a)
        /\ \A q \in Procs : q # p => /\ pc'[q] = pc[q] /\ call'[q] = call[q]
                                     /\ out'[q] = out[q]
    BY DEF ReturnAnswer, NoCall, WindowInv, TypeInv, TypeOK
  <1>2. InItsWindow'
    BY <1>1 DEF WindowInv, InItsWindow, Live, Running
  <1>3. ChannelRecent'
    BY <1>1 DEF WindowInv, ChannelRecent, HadVersion, Current, Key
  <1>4. TempRecent'
    BY <1>1 DEF WindowInv, TempRecent, FileRecent, HadVersion, Current, Key
  <1>5. ASSUME NEW q \in Procs, NEW i \in 1..Len(out'[q])
        PROVE  /\ out'[q][i].at <= now
               /\ HadVersion(Refs[q][i], out'[q][i].ver, out'[q][i].at - Window(out'[q][i].src))
    <2>1. CASE q # p
      BY <1>1, <1>5, <2>1 DEF WindowInv, AnswersRecent
    <2>2. CASE q = p
      <3>1. out[p] \in Seq(Answer) /\ now \in Nat
        BY DEF WindowInv, TypeInv, TypeOK
      <3>2. Len(out'[p]) = Len(out[p]) + 1 /\ Len(out[p]) \in Nat
        BY <1>1, <3>1
      <3>3. CASE i \in 1..Len(out[p])
        <4>1. out'[p][i] = out[p][i]
          BY <1>1, <3>1, <3>3
        <4> QED BY <2>2, <3>3, <4>1 DEF WindowInv, AnswersRecent
      <3>4. CASE i = Len(out[p]) + 1
        <4>1. out'[p][i] = a
          BY <1>1, <3>1, <3>4
        <4>2. Refs[p][i] = Key(p)
          BY <3>4 DEF Key
        <4> QED BY <2>2, <3>1, <4>1, <4>2
      <3> QED BY <1>5, <2>2, <3>2, <3>3, <3>4
    <2> QED BY <2>1, <2>2
  <1>6. AnswersRecent'
    BY <1>1, <1>5 DEF AnswersRecent, HadVersion, Current
  <1> QED BY <1>2, <1>3, <1>4, <1>6

(* Exits only forget. *)
LEMMA ExitKeepsWindow ==
  ASSUME WindowInv, NEW p \in Procs, NEW how \in {"failed", "dead"},
         ExitWithoutReply(p, how), UNCHANGED tmp
  PROVE  InItsWindow' /\ ChannelRecent' /\ TempRecent' /\ AnswersRecent' /\ CacheRecent'
  <1>1. /\ now' = now /\ retired' = retired /\ deadline' = deadline /\ cache' = cache
        /\ pc'[p] = how /\ call'[p].st = "none" /\ out'[p] = <<>>
        /\ \A q \in Procs : q # p => /\ pc'[q] = pc[q] /\ call'[q] = call[q]
                                     /\ out'[q] = out[q]
    BY DEF ExitWithoutReply, NoCall, WindowInv, TypeInv, TypeOK
  <1>2. Len(<<>>) = 0
    OBVIOUS
  <1>3. InItsWindow' /\ ChannelRecent'
    BY <1>1 DEF WindowInv, InItsWindow, ChannelRecent, Live, Running, HadVersion, Current, Key
  <1>4. TempRecent' /\ CacheRecent'
    BY <1>1 DEF WindowInv, TempRecent, CacheRecent, FileRecent, HadVersion, Current, Key
  <1>5. AnswersRecent'
    BY <1>1, <1>2 DEF WindowInv, AnswersRecent, HadVersion, Current
  <1> QED BY <1>3, <1>4, <1>5

(* Nothing changes but the channel, and where the process is in fetchOne. *)
LEMMA ChannelKeepsWindow ==
  ASSUME WindowInv, NEW p \in Procs, pc[p] \in Running, pc'[p] = "await",
         \A q \in Procs : q # p => pc'[q] = pc[q] /\ call'[q] = call[q],
         UNCHANGED <<now, retired, deadline, cache, tmp, out>>,
         call'[p].st = "ok" => HadVersion(Key(p), call'[p].ver, deadline[p] - Timeout)
  PROVE  InItsWindow' /\ ChannelRecent' /\ TempRecent' /\ AnswersRecent' /\ CacheRecent'
  <1>1. InItsWindow' /\ ChannelRecent'
    BY DEF WindowInv, InItsWindow, ChannelRecent, Live, HadVersion, Current, Key
  <1>2. TempRecent' /\ CacheRecent' /\ AnswersRecent'
    BY DEF WindowInv, TempRecent, CacheRecent, AnswersRecent, FileRecent, HadVersion, Current, Key
  <1> QED BY <1>1, <1>2

----------------------------------------------------------------------------
LEMMA InitWindow == Init => WindowInv
  <1>1. Len(<<>>) = 0
    OBVIOUS
  <1> QED
    BY <1>1, InitTypes DEF Init, DiskInit, WindowInv, InItsWindow, ChannelRecent, TempRecent,
       CacheRecent, AnswersRecent, Live, Running, NoCall

(* What a file or an answer holds stays recent while the clock only moves on
   and the backend only rotates. *)
LEMMA EnvironmentKeepsWindow ==
  ASSUME WindowInv, Tick \/ \E k \in Keys : Rotate(k)
  PROVE  WindowInv'
  <1> DEFINE StillHad(k, v, t) ==
               /\ v \in 1..(Len(retired'[k]) + 1)
               /\ v < Len(retired'[k]) + 1 => retired'[k][v] >= t
  <1>1. /\ UNCHANGED <<cache, tmp, flock, pc, deadline, store, lock, call, out>>
        /\ now' \in Nat /\ now \in Nat /\ now <= now'
    BY DEF Tick, Rotate, diskVars, procVars, WindowInv, TypeInv, TypeOK
  <1>2. ASSUME NEW k \in Keys, NEW v \in Int, NEW t \in Int, t <= now, HadVersion(k, v, t)
        PROVE  StillHad(k, v, t)
    <2>1. HadVersion(k, v, t)'
      BY <1>2, HadVersionRotates DEF Tick, HadVersion, Current, WindowInv
    <2> QED BY <2>1 DEF HadVersion, Current
  <1> HIDE DEF StillHad
  <1>3. TypeInv'
    BY NextTypes DEF WindowInv, Next
  <1>4. InItsWindow'
    BY <1>1, TimeAssumption DEF Tick, Rotate, WindowInv, InItsWindow, Live, KillTime, TypeInv, TypeOK
  <1>5. ChannelRecent'
    <2> SUFFICES ASSUME NEW p \in Procs, call[p].st = "ok"
                 PROVE  HadVersion(Key(p), call[p].ver, deadline[p] - Timeout)'
      BY <1>1 DEF ChannelRecent, WindowInv
    <2>1. pc[p] \in Running
      BY DEF ChannelRecent, WindowInv, Running
    <2>2. deadline[p] - Timeout <= now /\ deadline[p] - Timeout \in Int /\ call[p].ver \in Nat
      BY <2>1, TimeAssumption DEF WindowInv, InItsWindow, Live, TypeInv, TypeOK
    <2>3. Key(p) \in Keys /\ Key(p)' = Key(p)
      BY <1>1, <2>1, KeyInKeys DEF Working, WindowInv, Key
    <2>4. HadVersion(Key(p), call[p].ver, deadline[p] - Timeout)
      BY DEF WindowInv, ChannelRecent
    <2>5. StillHad(Key(p), call[p].ver, deadline[p] - Timeout)
      BY <1>2, <2>2, <2>3, <2>4
    <2> QED BY <1>1, <2>3, <2>5 DEF StillHad, HadVersion, Current
  <1>6. ASSUME NEW k \in Keys, NEW e \in Entry, FileRecent(k, e)
        PROVE  FileRecent(k, e)'
    <2>1. e.at \in Nat /\ e.ver \in Nat /\ e.at - KillWindow \in Int /\ e.at - KillWindow <= now
      BY <1>1, <1>6, TimeAssumption DEF Entry, FileRecent
    <2>2. StillHad(k, e.ver, e.at - KillWindow)
      BY <1>2, <1>6, <2>1 DEF FileRecent
    <2> QED BY <1>1, <1>6, <2>1, <2>2 DEF StillHad, FileRecent, HadVersion, Current
  <1>7. TempRecent'
    <2> SUFFICES ASSUME NEW p \in Procs, pc[p] = "rename"
                 PROVE  FileRecent(Key(p), tmp[p])'
      BY <1>1 DEF TempRecent
    <2>1. Key(p) \in Keys /\ tmp[p] \in Entry
      BY KeyInKeys DEF Working, Running, WindowInv, TypeInv, TypeOK, DiskTypeOK
    <2> QED BY <1>1, <1>6, <2>1 DEF WindowInv, TempRecent, FileRecent, HadVersion, Current, Key
  <1>8. CacheRecent'
    BY <1>1, <1>6 DEF WindowInv, CacheRecent, FileRecent, HadVersion, Current,
       TypeInv, TypeOK, DiskTypeOK
  <1>9. AnswersRecent'
    <2> SUFFICES ASSUME NEW p \in Procs, NEW i \in 1..Len(out[p])
                 PROVE  /\ out[p][i].at <= now'
                        /\ HadVersion(Refs[p][i], out[p][i].ver,
                                      out[p][i].at - Window(out[p][i].src))'
      BY <1>1 DEF AnswersRecent
    <2>1. out[p] \in Seq(Answer) /\ Refs[p] \in Seq(Keys) /\ Len(out[p]) <= Len(Refs[p])
      BY RefsAssumption DEF WindowInv, TypeInv, TypeOK, OutBounded
    <2>2. out[p][i] \in Answer /\ Refs[p][i] \in Keys
      BY <2>1
    <2>3. /\ out[p][i].at \in Nat /\ out[p][i].ver \in Nat
          /\ out[p][i].at <= now
          /\ out[p][i].at - Window(out[p][i].src) \in Int
          /\ out[p][i].at - Window(out[p][i].src) <= now
      BY <1>1, <2>2, WindowType DEF Answer, WindowInv, AnswersRecent
    <2>4. HadVersion(Refs[p][i], out[p][i].ver, out[p][i].at - Window(out[p][i].src))
      BY DEF WindowInv, AnswersRecent
    <2>5. StillHad(Refs[p][i], out[p][i].ver, out[p][i].at - Window(out[p][i].src))
      BY <1>2, <2>2, <2>3, <2>4
    <2> QED BY <1>1, <2>3, <2>5 DEF StillHad, HadVersion, Current, Window
  <1> QED BY <1>3, <1>4, <1>5, <1>7, <1>8, <1>9 DEF WindowInv

(* One step of a process.  Only PutRename changes the cache. *)
LEMMA StepKeepsWindow ==
  ASSUME WindowInv, NEW p \in Procs, Step(p)
  PROVE  WindowInv'
  <1>1. TypeInv'
    BY NextTypes DEF WindowInv, Next
  <1>2. pc[p] \in Running
    BY DEF Step, RejectReference, CacheHit, CacheMiss, ResolveUncached, Polling, LockUnavailable,
       AcquireLock, LockContended, LockWaitExpires, RecheckMiss, GiveUp, ServeStale, FailClosed,
       ServeUncached, PutTemp, PutRename, PutFails, Goto, Running
  <1>3. /\ Key(p) \in Keys /\ now \in Nat /\ deadline[p] \in Nat
        /\ cache[Key(p)] \in Entry /\ call[p].ver \in Nat
        /\ deadline[p] - Timeout <= now /\ now - KillWindow <= deadline[p] - Timeout
    BY <1>2, KeyInKeys DEF Working, WindowInv, TypeInv, TypeOK, DiskTypeOK, InItsWindow, Live
  <1>4. CASE RejectReference(p) \/ FailClosed(p)
    BY <1>1, <1>4, ExitKeepsWindow DEF RejectReference, FailClosed, WindowInv
  <1>5. CASE CacheHit(p) \/ ServeStale(p)
    <2>1. PICK src \in Sources \ {"live"} :
            /\ ReturnAnswer(p, cache[Key(p)].ver, src) /\ UNCHANGED <<cache, tmp>>
            /\ cache[Key(p)] # Absent
            /\ now - cache[Key(p)].at <= Window(src) - KillWindow
      <3>1. CASE CacheHit(p)
        BY <1>3, <3>1, AgeAssumption, TimeAssumption
        DEF CacheHit, Fresh, Age, Window, Sources, Errors, Entry
      <3>2. CASE ServeStale(p)
        BY <1>3, <3>2, AgeAssumption, TimeAssumption
        DEF ServeStale, Usable, Age, Window, Sources, Errors, Entry
      <3> QED BY <1>5, <3>1, <3>2
    <2>2. /\ cache[Key(p)].ver \in Nat /\ cache[Key(p)].at \in Nat
          /\ Window(src) \in Nat
          /\ HadVersion(Key(p), cache[Key(p)].ver, cache[Key(p)].at - KillWindow)
      BY <1>3, <2>1, WindowType DEF Entry, WindowInv, CacheRecent, FileRecent
    <2>3. HadVersion(Key(p), cache[Key(p)].ver, now - Window(src))
      BY <1>3, <2>1, <2>2, HadVersionEarlier, TimeAssumption DEF WindowInv
    <2>4. CacheRecent'
      BY <2>1 DEF ReturnAnswer, WindowInv, CacheRecent, FileRecent, HadVersion, Current
    <2> QED
      BY <1>1, <1>2, <2>1, <2>2, <2>3, <2>4, ReturnKeepsWindow DEF WindowInv
  <1>6. CASE ServeUncached(p) \/ PutRename(p) \/ PutFails(p)
    <2>1. /\ ReturnAnswer(p, call[p].ver, "live") /\ call[p].st = "ok"
          /\ \A q \in Procs : q # p => tmp'[q] = tmp[q]
      BY <1>6 DEF ServeUncached, PutRename, PutFails, RenameEntry, DropEntry, WindowInv,
         ChannelRecent, TypeInv, TypeOK, DiskTypeOK
    <2>2. HadVersion(Key(p), call[p].ver, now - Window("live"))
      <3>1. HadVersion(Key(p), call[p].ver, deadline[p] - Timeout)
        BY <2>1 DEF WindowInv, ChannelRecent
      <3>2. Window("live") = KillWindow
        BY DEF Window
      <3> QED BY <1>3, <3>1, <3>2, HadVersionEarlier, TimeAssumption DEF WindowInv
    <2>3. "live" \in Sources
      BY DEF Sources
    <2>4. CacheRecent'
      <3>1. now' = now /\ retired' = retired
        BY <2>1 DEF ReturnAnswer
      <3>2. CASE PutRename(p)
        <4>1. FileRecent(Key(p), tmp[p])
          BY <3>2 DEF PutRename, WindowInv, TempRecent
        <4> QED
          BY <1>3, <3>1, <3>2, <4>1 DEF PutRename, RenameEntry, WindowInv, CacheRecent, FileRecent,
             HadVersion, Current, TypeInv, TypeOK, DiskTypeOK
      <3>3. CASE cache' = cache
        BY <3>1, <3>3 DEF WindowInv, CacheRecent, FileRecent, HadVersion, Current
      <3> QED BY <1>6, <3>2, <3>3 DEF ServeUncached, PutFails
    <2> QED
      BY <1>1, <1>2, <1>3, <2>1, <2>2, <2>3, <2>4, ReturnKeepsWindow DEF WindowInv
  <1>7. CASE ResolveUncached(p) \/ LockUnavailable(p) \/ LockWaitExpires(p) \/ RecheckMiss(p) \/ GiveUp(p)
    <2>1. /\ pc'[p] = "await" /\ call'[p].st \in {"working", "timeout"}
          /\ \A q \in Procs : q # p => pc'[q] = pc[q] /\ call'[q] = call[q]
          /\ UNCHANGED <<now, retired, deadline, cache, tmp, out>>
      BY <1>7 DEF ResolveUncached, Polling, LockUnavailable, LockWaitExpires, RecheckMiss, GiveUp,
         StartResolve, diskVars, WindowInv, TypeInv, TypeOK
    <2> QED
      BY <1>1, <1>2, <2>1, ChannelKeepsWindow DEF WindowInv
  <1>8. CASE CacheMiss(p) \/ AcquireLock(p) \/ LockContended(p)
    <2>1. /\ pc'[p] \in {"lock", "wait", "recheck"} /\ call[p].st = "none"
          /\ \A q \in Procs : q # p => pc'[q] = pc[q]
          /\ UNCHANGED <<now, retired, deadline, cache, tmp, call, out>>
      BY <1>8 DEF CacheMiss, AcquireLock, LockContended, Polling, Goto, diskVars, WindowInv, ChannelRecent, TypeInv, TypeOK
    <2>2. InItsWindow' /\ ChannelRecent'
      BY <1>2, <2>1 DEF WindowInv, InItsWindow, ChannelRecent, Live, HadVersion, Current, Key
    <2>3. TempRecent' /\ CacheRecent' /\ AnswersRecent'
      BY <2>1 DEF WindowInv, TempRecent, CacheRecent, AnswersRecent, FileRecent, HadVersion,
         Current, Key
    <2> QED BY <1>1, <2>2, <2>3 DEF WindowInv
  <1>9. CASE PutTemp(p)
    <2>1. /\ pc'[p] = "rename" /\ call[p].st = "ok"
          /\ tmp'[p] = [ver |-> call[p].ver, at |-> now]
          /\ \A q \in Procs : q # p => pc'[q] = pc[q] /\ tmp'[q] = tmp[q]
          /\ UNCHANGED <<now, retired, deadline, cache, call, out>>
      BY <1>9 DEF PutTemp, Goto, StampEntry, WindowInv, TypeInv, TypeOK, DiskTypeOK
    <2>2. HadVersion(Key(p), call[p].ver, deadline[p] - Timeout)
      BY <2>1 DEF WindowInv, ChannelRecent
    <2>3. HadVersion(Key(p), call[p].ver, now - KillWindow)
      BY <1>3, <2>2, HadVersionEarlier, TimeAssumption DEF WindowInv
    <2>4. InItsWindow' /\ ChannelRecent'
      BY <1>2, <2>1 DEF WindowInv, InItsWindow, ChannelRecent, Live, HadVersion, Current, Key
    <2>5. TempRecent'
      <3>1. FileRecent(Key(p), tmp'[p])
        BY <1>3, <2>1, <2>3 DEF FileRecent
      <3>2. \A q \in Procs : q # p /\ pc'[q] = "rename" => FileRecent(Key(q), tmp'[q])
        BY <2>1 DEF WindowInv, TempRecent
      <3> QED BY <2>1, <3>1, <3>2 DEF TempRecent, FileRecent, HadVersion, Current, Key
    <2>6. CacheRecent' /\ AnswersRecent'
      BY <2>1 DEF WindowInv, CacheRecent, AnswersRecent, FileRecent, HadVersion, Current
    <2> QED BY <1>1, <2>4, <2>5, <2>6 DEF WindowInv
  <1> QED
    BY <1>4, <1>5, <1>6, <1>7, <1>8, <1>9 DEF Step

LEMMA NextWindow == WindowInv /\ [Next]_vars => WindowInv'
  <1> SUFFICES ASSUME WindowInv, [Next]_vars PROVE WindowInv'
    OBVIOUS
  <1>1. TypeInv'
    BY NextTypes DEF WindowInv
  <1>2. CASE Tick \/ \E k \in Keys : Rotate(k)
    BY <1>2, EnvironmentKeepsWindow
  <1>3. ASSUME NEW p \in Procs, Start(p) PROVE WindowInv'
    <2>1. /\ pc[p] = "idle" /\ pc'[p] = "lookup" /\ deadline'[p] = now + Timeout
          /\ \A q \in Procs : q # p => pc'[q] = pc[q] /\ deadline'[q] = deadline[q]
          /\ UNCHANGED <<now, retired, cache, tmp, call, out>>
      BY <1>3 DEF Start, Goto, diskVars, WindowInv, TypeInv, TypeOK
    <2>2. InItsWindow'
      <3>1. now \in Nat /\ deadline'[p] - Timeout = now /\ now - KillWindow <= now
        BY <2>1, TimeAssumption DEF WindowInv, TypeInv, TypeOK
      <3> QED BY <2>1, <3>1 DEF WindowInv, InItsWindow, Live
    <2>3. ChannelRecent'
      <3>1. call[p].st = "none"
        BY <2>1 DEF WindowInv, ChannelRecent
      <3> QED BY <2>1, <3>1 DEF WindowInv, ChannelRecent, HadVersion, Current, Key
    <2>4. TempRecent' /\ CacheRecent' /\ AnswersRecent'
      BY <2>1 DEF WindowInv, TempRecent, CacheRecent, AnswersRecent, FileRecent, HadVersion,
         Current, Key
    <2> QED BY <1>1, <2>2, <2>3, <2>4 DEF WindowInv
  <1>4. ASSUME NEW p \in Procs, Kill(p) PROVE WindowInv'
    BY <1>1, <1>4, ExitKeepsWindow DEF Kill, WindowInv
  <1>5. ASSUME NEW p \in Procs, Backend(p) PROVE WindowInv'
    <2>1. /\ pc[p] = "await" /\ pc'[p] = "await"
          /\ \A q \in Procs : q # p => pc'[q] = pc[q] /\ call'[q] = call[q]
          /\ UNCHANGED <<now, retired, deadline, cache, tmp, out>>
      BY <1>5 DEF Backend, BackendAnswers, BackendRefuses, BackendUnreached, Reply, diskVars,
         WindowInv, TypeInv, TypeOK
    <2>2. Key(p) \in Keys
      BY <2>1, KeyInKeys DEF WindowInv, Working, Running
    <2>3. call'[p].st = "ok" => call'[p].ver = Current(Key(p))
      BY <1>5 DEF Backend, BackendAnswers, BackendRefuses, BackendUnreached, Reply,
         WindowInv, TypeInv, TypeOK
    <2>4. HadVersion(Key(p), Current(Key(p)), deadline[p] - Timeout)
      BY <2>2 DEF HadVersion, Current, WindowInv, TypeInv, TypeOK
    <2> QED
      BY <1>1, <2>1, <2>3, <2>4, ChannelKeepsWindow DEF WindowInv, Running
  <1>6. CASE UNCHANGED vars
    BY <1>1, <1>6 DEF vars, diskVars, procVars, WindowInv, InItsWindow, ChannelRecent, TempRecent,
       CacheRecent, AnswersRecent, FileRecent, Live, HadVersion, Current, Key
  <1> QED
    BY <1>2, <1>3, <1>4, <1>5, <1>6, StepKeepsWindow DEF Next

(* Whatever the cache, the locks and the schedule do, an answer is a version the
   backend held within the window of its source. *)
THEOREM AnswersWithinWindow == Spec => []ServedWithinWindow
  <1>1. WindowInv => ServedWithinWindow
    BY DEF WindowInv, AnswersRecent, ServedWithinWindow
  <1>2. Spec => []WindowInv
    BY InitWindow, NextWindow, PTL DEF Spec
  <1> QED BY <1>1, <1>2, PTL
=============================================================================
