----------------------------- MODULE DiskCache -----------------------------
(***************************************************************************)
(* The cache directory shared by every plugin process on a Nomad client    *)
(* (internal/cache).  For each cache key it holds at most one entry file   *)
(* <sha256>.json and one lock file <sha256>.lock; a Put in progress owns a *)
(* temporary file beside them.                                             *)
(*                                                                         *)
(* Secret values are abstracted to version numbers of the backend value:   *)
(* version 0 stands for "no file".  Time is a natural number of ticks; the *)
(* caller passes the current time.                                         *)
(*                                                                         *)
(* A definition marked "slip" is a mistake the code could have made; the   *)
(* properties are tried against the model with the slip in place.          *)
(***************************************************************************)
EXTENDS Integers

CONSTANTS
  Procs,    \* plugin processes, each one exec of the binary
  Keys,     \* cache keys: backend scope + canonical reference
  Nobody,   \* the owner of a lock file nobody has locked
  TTL,      \* OP_CACHE_TTL in ticks; 0 disables freshness
  MaxStale  \* OP_CACHE_MAX_STALE in ticks; 0 disables the stale fallback

ASSUME NobodyAssumption == Nobody \notin Procs
ASSUME AgeAssumption    == TTL \in Nat /\ MaxStale \in Nat

VARIABLES
  cache,    \* cache[k]: the entry file of key k
  tmp,      \* tmp[p]: the temporary file process p has created
  flock     \* flock[k]: the process the kernel records as owner of k's lock

diskVars == <<cache, tmp, flock>>

Entry  == [ver : Nat, at : Nat]
Absent == [ver |-> 0, at |-> 0]

DiskTypeOK ==
  /\ cache \in [Keys -> Entry]
  /\ tmp   \in [Procs -> Entry]
  /\ flock \in [Keys -> Procs \cup {Nobody}]

DiskInit ==
  /\ cache = [k \in Keys |-> Absent]
  /\ tmp   = [p \in Procs |-> Absent]
  /\ flock = [k \in Keys |-> Nobody]

----------------------------------------------------------------------------
(* Entries *)

Age(k, t) == t - cache[k].at

(* Cache.Get finds a servable entry. *)
FreshOnceExpired(k, t) == cache[k] # Absent /\ TTL > 0 /\ Age(k, t) > TTL  \* slip: inverted
Fresh(k, t) == cache[k] # Absent /\ TTL > 0 /\ Age(k, t) <= TTL

(* Cache.Stale under fetchOne's MaxStale > 0 guard. *)
UsableAtAnyAge(k, t) == cache[k] # Absent  \* slip: maxAge ignored
Usable(k, t) == cache[k] # Absent /\ MaxStale > 0 /\ Age(k, t) <= MaxStale

(* Put, first half: the entry is stamped with the time of the Put and written
   to a temporary file.  Second half: the file is renamed over the entry.  A
   failure at any point removes the temporary file (defer os.Remove). *)
StampNothing(p, v, t) ==  \* slip: FetchedAt keeps its zero value, before any clock
  tmp' = [tmp EXCEPT ![p] = [ver |-> v, at |-> -1]]
StampEntry(p, v, t) ==
  tmp' = [tmp EXCEPT ![p] = [ver |-> v, at |-> t]]

RenameEntry(p, k) ==
  /\ cache' = [cache EXCEPT ![k] = tmp[p]]
  /\ tmp'   = [tmp EXCEPT ![p] = Absent]

KeepEntry(p) == UNCHANGED tmp  \* slip: no os.Remove
DropEntry(p) == tmp' = [tmp EXCEPT ![p] = Absent]

----------------------------------------------------------------------------
(* Locks *)

LockIgnored(p, k) == k \in Keys  \* slip: EWOULDBLOCK taken for success
LockFree(p, k)    == flock[k] = Nobody

TakeLock(p, k) == flock' = [flock EXCEPT ![k] = p]

(* What remains when p's descriptors are closed: by the release function that
   fetchOne defers, by a failed Lock, or by the kernel when p exits. *)
StillOwned(p)   == flock  \* slip: never released
WithoutLocks(p) == [k \in Keys |-> IF flock[k] = p THEN Nobody ELSE flock[k]]
=============================================================================
