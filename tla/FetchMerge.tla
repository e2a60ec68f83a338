----------------------------- MODULE FetchMerge -----------------------------
(***************************************************************************)
(* One fetch after another on a Nomad client: what each answers, when any   *)
(* entry may come from the backend, from a fresh cache entry or from a stale *)
(* one (internal/plugin).  FetchCache models when a fetch may use the cache *)
(* and what concurrent fetches do to it; here fetches are sequential, time  *)
(* is left out (an entry in the cache may be fresh, stale or too old at any  *)
(* time), and the data are kept: references, results, cached values and the *)
(* response.                                                               *)
(*                                                                         *)
(* A request is a sequence of entries [name, ref]; ref.scheme is "op",      *)
(* "aws-ssm" or "aws-sm".                                                  *)
(***************************************************************************)
EXTENDS OpSources, AwsSecrets

CONSTANTS
  Requests,   \* the secret blocks of the jobs, split into entries
  Accounts,   \* credentials the node may be configured with: a 1Password token,
              \* an AWS profile
  Source,     \* Source[a]: the 1Password backend that account a selects
  Contents    \* Contents[o]: what secret o may hold, for each Object below

Schemes == {"op", "aws-ssm", "aws-sm"}

(* What SplitEntries lets through: at least one entry, a name for each unless
   there is one alone, no name twice; and Route a known scheme. *)
ASSUME RequestsAssumption ==
  \A r \in Requests :
    /\ Len(r) \in Nat \ {0} /\ DOMAIN r = 1..Len(r)
    /\ \A i \in DOMAIN r : r[i].ref.scheme \in Schemes /\ r[i].name \in Seq(STRING)
    /\ \A i, j \in DOMAIN r : i # j => r[i].name # r[j].name /\ r[i].name # None

ASSUME SourceAssumption == Source \in [Accounts -> Sources]

VARIABLES
  account,    \* the credentials the fetch in progress was configured with
  store,      \* the entry files: cache key -> entry
  request,    \* the entries of the fetch in progress, or of the last one
  served,     \* for each entry answered so far: what answered it
  merged,     \* the response as far as it is built
  outcome     \* "busy", "ok" or "error"

vars == <<account, store, request, served, merged, outcome>>

----------------------------------------------------------------------------
(* Providers *)

Secret(ref) ==
  IF ref.scheme = "op" THEN <<"op", ref.vault, ref.item>>
  ELSE IF ref.scheme = "aws-ssm" THEN <<"aws-ssm", ref.name>>
  ELSE <<"aws-sm", ref.name, ref.version, ref.stage>>

(* Accounts may keep different secrets under one name. *)
Object(a, ref) == <<a, Secret(ref)>>

(* The results a resolve may return for a reference to this content; none when
   it returns an error. *)
Resolve(via, ref, content) ==
  CASE ref.scheme = "op"      -> OpResolve(GetItem(via, content), ref)
    [] ref.scheme = "aws-ssm" -> SsmResolve(content, ref)
    [] ref.scheme = "aws-sm"  -> SmResolve(content, ref)

JobRefs == UNION {{q[i].ref : i \in DOMAIN q} : q \in Requests}
OpRefs  == {r \in JobRefs : r.scheme = "op"}

(* 1Password items are what an account can keep. *)
ASSUME ItemsAssumption ==
  \A a \in Accounts, ref \in OpRefs : \A c \in Contents[Object(a, ref)] : WellKept(c)

(* The keys of a result are names: Values is a map[string]string. *)
ASSUME KeysAssumption ==
  \A a \in Accounts, ref \in JobRefs : \A c \in Contents[Object(a, ref)] :
    \A r \in Resolve(Source[a], ref, c) : DOMAIN r.values \subseteq Seq(STRING)

(* Provider.CacheKey.  A 1Password key holds a digest of the token; an AWS key
   holds the region and the endpoint, which do not change here, and nothing of
   the credentials. *)
KeyWithoutScope(ref) ==  \* slip: no token digest
  IF ref.scheme = "op" THEN <<"op", RefString(ref)>>
  ELSE IF ref.scheme = "aws-ssm" THEN <<"aws-ssm", SsmKey(ref)>>
  ELSE <<"aws-sm", SmKey(ref)>>
CacheKey(ref) ==
  IF ref.scheme = "op" THEN <<"op", account, RefString(ref)>>
  ELSE IF ref.scheme = "aws-ssm" THEN <<"aws-ssm", SsmKey(ref)>>
  ELSE <<"aws-sm", SmKey(ref)>>

----------------------------------------------------------------------------
(* The cache.  Beside its values an entry holds, for the properties only, the
   account, the secret and the result of the resolve that wrote it. *)
Entry(r, c) == [values |-> r.values, account |-> account, result |-> r, content |-> c]

Put(key, e) == store' = Over(Single(key, e), store)

----------------------------------------------------------------------------
(* The fetch loop *)

Init ==
  /\ account \in Accounts
  /\ store = <<>> /\ request = <<>> /\ served = <<>> /\ merged = <<>>
  /\ outcome = "error"

(* The configuration is read once, when the fetch starts. *)
Begin(r, a) ==
  /\ outcome # "busy"
  /\ request' = r /\ account' = a
  /\ served' = <<>> /\ merged' = <<>> /\ outcome' = "busy"
  /\ UNCHANGED store

Current == request[Len(served) + 1]
KeyOfFirst == CacheKey(request[1].ref)  \* slip: one key for the whole block
Key     == CacheKey(Current.ref)

(* fetchOne returned result r for the current entry; e says where it is from. *)
Answer(r, e) ==
  /\ served' = Append(served, [result |-> r, from |-> e, account |-> account])
  /\ merged' = IF Current.name = None THEN r.values
               ELSE Over(Contribution(Current.name, r), merged)
  /\ outcome' = IF Len(served') = Len(request) THEN "ok" ELSE "busy"
  /\ UNCHANGED <<account, request>>

(* A fresh entry, or a stale one after a resolve that failed. *)
ServeCached ==
  /\ outcome = "busy"
  /\ Key \in DOMAIN store
  /\ Answer(FromCache(store[Key].values), store[Key])
  /\ UNCHANGED store

(* A live resolve, for want of a fresh entry; the Put after it may fail, which
   fails nothing.  The secret may hold something else at every resolve. *)
ServeLive ==
  /\ outcome = "busy"
  /\ \E c \in Contents[Object(account, Current.ref)] :
       \E r \in Resolve(Source[account], Current.ref, c) :
         /\ Answer(r, Entry(r, c))
         /\ Put(Key, Entry(r, c)) \/ UNCHANGED store

(* The resolve failed and no entry is young enough: fail closed. *)
Fail ==
  /\ outcome = "busy"
  /\ merged' = <<>> /\ outcome' = "error"
  /\ UNCHANGED <<account, store, request, served>>

Next ==
  \/ \E r \in Requests, a \in Accounts : Begin(r, a)
  \/ ServeCached
  \/ ServeLive
  \/ Fail

Spec == Init /\ [][Next]_vars

----------------------------------------------------------------------------
(* Properties *)

Answered == {i \in DOMAIN served : request[i].name # None}

(* An entry is answered from the cache exactly as the resolve that wrote the
   cache entry would have answered it. *)
SameAsLive(i) ==
  Contribution(request[i].name, served[i].result)
    = Contribution(request[i].name, served[i].from.result)

KeepsValue(r) == r.object /\ Value \in DOMAIN r.values

(* Storing only the values loses nothing the merge needs - for scalars, files
   and objects that have no key "value".  plugin.go:270-277, 315-334. *)
WarmLikeCold ==
  \A i \in Answered : KeepsValue(served[i].from.result) \/ SameAsLive(i)

(* The same for every result, as plugin.go:320-323 reasons: "A scalar always
   carries "value"; a whole item never does". *)
CacheTransparent == \A i \in Answered : SameAsLive(i)

(* The default arm of the merge never reads a missing "value", which Go would
   turn into an empty secret: what has no "value" is a file or an object, when
   resolved and when read back from the cache.  plugin.go:187-202. *)
NoSilentEmpty ==
  \A i \in DOMAIN served :
    Expands(served[i].result) \/ Value \in DOMAIN served[i].result.values

(* When no entry's name continues another's, no entry overwrites a key of
   another: each is in the response as it would be alone.  plugin.go:192-201. *)
Separate ==
  \A i, j \in DOMAIN request : i # j => ~IsPrefix(request[i].name, request[j].name)

NamesStayApart ==
  outcome = "ok" /\ Separate /\ Answered # {} =>
    \A i \in DOMAIN served :
      LET own == Contribution(request[i].name, served[i].result)
      IN  /\ DOMAIN own \subseteq DOMAIN merged
          /\ \A k \in DOMAIN own : merged[k] = own[k]

(* A 1Password answer was resolved with the credentials of the fetch it answers,
   however long ago: the digest in its key keeps accounts apart.  AWS answers are
   not in this, as the next property says.  onepassword.go:101-111. *)
OpScoped ==
  \A i \in DOMAIN served :
    request[i].ref.scheme = "op" => served[i].from.account = served[i].account

(* The same for every backend, as docs/user-guide.md:542-543 promises: "values are
   never shared across different servers, accounts, or tokens".  The keys of
   awsssm.go:121 and awssm.go:133 hold no credential, so AWS entries are. *)
NeverSharedAcrossAccounts ==
  \A i \in DOMAIN served : served[i].from.account = served[i].account

(* The reference asks for the notes by name. *)
NamesNotes(ref) == Addresses([sections |-> <<>>], ref, NotesField(Empty))

(* "keeping ${secret.x.username} and ${secret.x.password} working identically on
   both backends" (serviceaccount.go:206-208): what answers a 1Password reference
   is what the other backend would make of the same item, for this reference or one
   that prints like it, unless that names notes that are empty, which only Connect
   reports as a field. *)
BothBackendsAlike ==
  \A i \in DOMAIN served : request[i].ref.scheme = "op" =>
    LET e == served[i].from
    IN  \E t \in OpRefs :
          /\ RefString(t) = RefString(request[i].ref)
          /\ \/ e.content.notes = Empty /\ ~WholeItem(t) /\ NamesNotes(t)
             \/ \A via \in Sources :
                  \E r \in Resolve(via, t, e.content) : r.values = e.result.values

(* Account b's fetch of t may leave the entry that answers account a's fetch of s:
   a 1Password key names the account and the text of the reference, an AWS key the
   secret alone. *)
SharesEntry(a, s, b, t) ==
  /\ s.scheme = t.scheme
  /\ IF s.scheme = "op" THEN a = b /\ RefString(s) = RefString(t) ELSE Secret(s) = Secret(t)

(* Go's map order picks among members of a JSON object that have one key. *)
Clashing(ref, c) ==
  CASE ref.scheme = "op"      -> FALSE
    [] ref.scheme = "aws-ssm" -> Clashes(c.plain) \/ Clashes(c.cipher)
    [] ref.scheme = "aws-sm"  -> c.kind = "string" /\ Clashes(c.string)

(* Every answer, of the backend or of the cache, is the one answer that a reference
   sharing its entry has for something its secret may hold.  So nothing beyond the
   key decides it: it may be an AWS answer of another account (NeverShared...) or of
   other options, one for another 1Password reference that prints alike, or one of
   several for an object with clashing members - and never one for another secret,
   or for another field, file or account of 1Password.  plugin.go:238-280. *)
KeyDecidesAnswer ==
  \A i \in DOMAIN served :
    \E b \in Accounts, t \in JobRefs :
      /\ SharesEntry(served[i].account, request[i].ref, b, t)
      /\ \E c \in Contents[Object(b, t)] :
           LET answers == {r.values : r \in Resolve(Source[b], t, c)}
           IN  /\ served[i].result.values \in answers
               /\ Clashing(t, c) \/ answers = {served[i].result.values}

(* What a reference is answered with is something a resolve of that reference
   could have returned for some content of the object it names. *)
AnswersReference ==
  \A i \in DOMAIN served :
    LET a == served[i].account
    IN  \E c \in Contents[Object(a, request[i].ref)] :
          \E r \in Resolve(Source[a], request[i].ref, c) : r.values = served[i].result.values
=============================================================================
