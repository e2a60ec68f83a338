---------------------------- MODULE FetchService ----------------------------
(***************************************************************************)
(* FetchCache implements SecretService: the refinement mapping.             *)
(***************************************************************************)
EXTENDS FetchCache

(* A process is pending while it runs; only a finished one has replied. *)
ServicePhase == [p \in Procs |->
  CASE pc[p] = "idle"    -> "idle"
    [] pc[p] \in Running -> "pending"
    [] pc[p] = "done"    -> "answered"
    [] OTHER             -> "none"]

ServiceReply == [p \in Procs |->
  IF pc[p] = "done" THEN [i \in 1..Len(out[p]) |-> out[p][i].ver] ELSE <<>>]

(* The longest an answer can have been rotated away when the reply is given:
   the age the cache tolerates, the life of the process that stamped the entry
   too late, and the life of the process that collected the answer. *)
OldestAge == IF TTL > MaxStale THEN TTL ELSE MaxStale

Service == INSTANCE SecretService WITH
  MaxLag <- OldestAge + 2 * KillWindow, phase <- ServicePhase, reply <- ServiceReply

(* Every behaviour of the processes, the cache directory, the backend and their
   failures is one of the abstract service (Fetch, plugin.go). *)
ImplementsService == Service!Spec
=============================================================================
