--------------------------- MODULE SecretService ---------------------------
(***************************************************************************)
(* What Nomad is promised by `remote-secrets fetch`, with no cache, lock or *)
(* deadline in sight: a request ends with one answer for every reference,   *)
(* in order, each a value the backend held at most MaxLag ago, or with no   *)
(* answer at all.  FetchCache implements this specification.                *)
(***************************************************************************)
EXTENDS Integers, Sequences

CONSTANTS
  Procs,    \* requests
  Keys,     \* secrets
  Refs,     \* Refs[p]: the secrets request p asks for
  MaxLag,   \* how long a value may have been rotated away
  MaxVer    \* bound: versions a secret goes through

VARIABLES
  now, retired,  \* the clock and, per secret, when each version was replaced
  phase,         \* phase[p]: "idle", "pending", "answered" or "none"
  reply          \* reply[p]: the versions answered

serviceVars == <<now, retired, phase, reply>>

HeldSince(k, v, t) ==
  /\ v <= Len(retired[k]) + 1
  /\ v <= Len(retired[k]) => retired[k][v] >= t

Init ==
  /\ now = 0
  /\ retired = [k \in Keys |-> <<>>]
  /\ phase   = [p \in Procs |-> "idle"]
  /\ reply   = [p \in Procs |-> <<>>]

TimePasses == now' = now + 1 /\ UNCHANGED <<retired, phase, reply>>

Rotate(k) ==
  /\ retired' = [retired EXCEPT ![k] = Append(@, now)]
  /\ UNCHANGED <<now, phase, reply>>

Request(p) ==
  /\ phase[p] = "idle"
  /\ phase' = [phase EXCEPT ![p] = "pending"]
  /\ UNCHANGED <<now, retired, reply>>

Respond(p) ==
  /\ phase[p] = "pending"
  /\ phase' = [phase EXCEPT ![p] = "answered"]
  /\ \E s \in [1..Len(Refs[p]) -> 1..MaxVer] :
       /\ \A i \in 1..Len(Refs[p]) : HeldSince(Refs[p][i], s[i], now - MaxLag)
       /\ reply' = [reply EXCEPT ![p] = s]
  /\ UNCHANGED <<now, retired>>

Refuse(p) ==
  /\ phase[p] = "pending"
  /\ phase' = [phase EXCEPT ![p] = "none"]
  /\ UNCHANGED <<now, retired, reply>>

Next ==
  \/ TimePasses
  \/ \E k \in Keys : Rotate(k)
  \/ \E p \in Procs : Request(p) \/ Respond(p) \/ Refuse(p)

Spec == Init /\ [][Next]_serviceVars
=============================================================================
