-------------------------- MODULE FetchMergeProofs --------------------------
(***************************************************************************)
(* Proofs about FetchMerge, for every content of every secret, every set of *)
(* requests and accounts, and any Clean and Fold.  Results are Readable when *)
(* the merge can answer from them; everything a resolve returns is, and so   *)
(* is everything that comes back from the cache.                            *)
(***************************************************************************)
EXTENDS FetchMerge, SequenceTheorems, FiniteSetTheorems, WellFoundedInduction, TLAPS

Readable(r) == Expands(r) \/ Value \in DOMAIN r.values

LEMMA KeysDiffer == Value # ValueBase64
  BY DEF Value, ValueBase64

LEMMA FileHasBase64 ==
  ASSUME NEW name, NEW data
  PROVE  IsFile(FileResult(name, data).values)
  BY DEF FileResult, IsFile, Over, Single

LEMMA WithoutValue ==
  ASSUME NEW values, IsFile(values)
  PROVE  IsFile(Without(values, Value))
  BY KeysDiffer DEF IsFile, Without, Restrict

LEMMA OpReadable ==
  ASSUME NEW item, NEW ref, NEW r \in OpResolve(item, ref)
  PROVE  Readable(r)
  <1>1. ASSUME NEW files, r \in FileResults(files, ref)
        PROVE  Readable(r)
    <2>1. PICK f \in files :
            r = LET q == FileResult(f.name, f.data)
                IN  IF ref.encoding = "base64" THEN [q EXCEPT !.values = Without(@, Value)] ELSE q
      BY <1>1 DEF FileResults
    <2>2. IsFile(FileResult(f.name, f.data).values)
      BY FileHasBase64
    <2>3. IsFile(Without(FileResult(f.name, f.data).values, Value))
      BY <2>2, WithoutValue
    <2>4. IsFile(r.values)
      BY <2>1, <2>2, <2>3 DEF FileResult
    <2> QED
      BY <2>4 DEF Readable, Expands
  <1>2. ASSUME r = ItemResult(item)
        PROVE  Readable(r)
    BY <1>2 DEF ItemResult, Readable, Expands
  <1>3. ASSUME NEW f, r = FieldResult(f)
        PROVE  Readable(r)
    BY <1>3 DEF FieldResult, Readable, None, Value
  <1> QED
    BY <1>1, <1>2, <1>3 DEF OpResolve

LEMMA ScalarReadable ==
  ASSUME NEW s
  PROVE  Readable(Scalar(s))
  BY DEF Scalar, Readable, Single

LEMMA JsonReadable ==
  ASSUME NEW s, NEW r \in ExpandJSON(s)
  PROVE  Readable(r)
  <1>1. r = Scalar(s) \/ \E p : r = Expansion(s, p)
    BY DEF ExpandJSON
  <1>2. ASSUME NEW p
        PROVE  Readable(Expansion(s, p))
    BY DEF Expansion, Readable, Expands
  <1> QED
    BY <1>1, <1>2, ScalarReadable

LEMMA BinaryReadable ==
  ASSUME NEW data, NEW ref
  PROVE  Readable(BinaryResult(data, ref))
  <1>1. IsFile(FileResult("", data).values)
    BY FileHasBase64
  <1>2. ASSUME NEW g, NEW e, IsFile(g)
        PROVE  IsFile(Over(Single(Value, e), g))
    BY <1>2 DEF IsFile, Over
  <1> QED
    BY <1>1, <1>2, WithoutValue DEF BinaryResult, FileResult, Readable, Expands
LEMMA AwsReadable ==
  ASSUME NEW content, NEW ref,
         NEW r \in SsmResolve(content, ref) \cup SmResolve(content, ref)
  PROVE  Readable(r)
  BY ScalarReadable, JsonReadable, BinaryReadable DEF SsmResolve, SmResolve

LEMMA ResolveReadable ==
  ASSUME NEW ref, ref.scheme \in Schemes,
         NEW via, NEW content, NEW r \in Resolve(via, ref, content)
  PROVE  Readable(r)
  BY OpReadable, AwsReadable DEF Resolve, Schemes

LEMMA CacheReadable ==
  ASSUME NEW values
  PROVE  Readable(FromCache(values))
  BY DEF FromCache, Readable, Expands, IsObject

----------------------------------------------------------------------------
(* The inductive invariant: what has been answered, and what is in the cache,
   can be read by the merge. *)

InProgress == outcome = "busy" => request \in Requests /\ Len(served) < Len(request)

Justified(e) ==
  /\ Readable(e.from.result)
  /\ e.result = e.from.result \/ e.result = FromCache(e.from.result.values)

Sound(e) == e.values = e.result.values /\ Readable(e.result)

ServedSound == (\E S : served \in Seq(S)) /\ \A i \in DOMAIN served : Justified(served[i])
StoreSound  == \A k \in DOMAIN store : Sound(store[k])

IInv == InProgress /\ ServedSound /\ StoreSound

LEMMA CurrentScheme ==
  ASSUME IInv, outcome = "busy"
  PROVE  Current.ref.scheme \in Schemes
  <1>1. request \in Requests /\ Len(served) < Len(request)
    BY DEF IInv, InProgress
  <1>2. Len(served) \in Nat
    BY DEF IInv, ServedSound
  <1>3. Len(served) + 1 \in DOMAIN request
    BY <1>1, <1>2, RequestsAssumption
  <1> QED
    BY <1>1, <1>3, RequestsAssumption DEF Current

LEMMA AnswerAppends ==
  ASSUME IInv, NEW r, NEW e, Answer(r, e)
  PROVE  /\ \E T : served' \in Seq(T)
         /\ Len(served) \in Nat /\ Len(served') = Len(served) + 1
         /\ \A i \in DOMAIN served' : i \in DOMAIN served \/ i = Len(served) + 1
         /\ \A i \in DOMAIN served : served'[i] = served[i]
         /\ served'[Len(served) + 1] = [result |-> r, from |-> e, account |-> account]
  <1> DEFINE new == [result |-> r, from |-> e, account |-> account]
  <1>1. PICK S : served \in Seq(S)
    BY DEF IInv, ServedSound
  <1>2. served \in Seq(S \cup {new})
    BY <1>1
  <1>3. served' = Append(served, new)
    BY DEF Answer
  <1>4. served' \in Seq(S \cup {new})
    BY <1>2, <1>3
  <1> QED
    BY <1>2, <1>3, <1>4

LEMMA AnswerSound ==
  ASSUME IInv, outcome = "busy", NEW r, NEW e, Answer(r, e),
         Justified([result |-> r, from |-> e, account |-> account])
  PROVE  InProgress' /\ ServedSound'
  <1>4. Len(served) \in Nat /\ Len(served') = Len(served) + 1
    BY AnswerAppends
  <1>5. ServedSound'
    BY AnswerAppends DEF IInv, ServedSound, Justified
  <1>6. InProgress'
    <2>1. request \in Requests /\ Len(served) < Len(request) /\ request' = request
      BY DEF IInv, InProgress, Answer
    <2>2. outcome' = "busy" => Len(served') # Len(request)
      BY DEF Answer
    <2>3. Len(request) \in Nat
      BY <2>1, RequestsAssumption
    <2> QED
      BY <1>4, <2>1, <2>2, <2>3 DEF InProgress
  <1> QED
    BY <1>5, <1>6

LEMMA PutSound ==
  ASSUME StoreSound, NEW key, NEW e, Sound(e), Put(key, e) \/ UNCHANGED store
  PROVE  StoreSound'
  BY DEF StoreSound, Put, Over, Single, Sound

LEMMA Invariance == Spec => []IInv
  <1>1. Init => IInv
    <2> SUFFICES ASSUME Init PROVE IInv
      OBVIOUS
    <2>1. served = <<>> /\ store = <<>> /\ outcome = "error"
      BY DEF Init
    <2>2. served \in Seq({}) /\ DOMAIN served = {} /\ DOMAIN store = {}
      BY <2>1
    <2> QED
      BY <2>1, <2>2 DEF IInv, InProgress, ServedSound, StoreSound
  <1>2. IInv /\ [Next]_vars => IInv'
    <2> SUFFICES ASSUME IInv, [Next]_vars PROVE IInv'
      OBVIOUS
    <2>1. ASSUME NEW q \in Requests, NEW a \in Accounts, Begin(q, a)
          PROVE  IInv'
      <3>1. served' = <<>> /\ request' = q /\ store' = store
        BY <2>1 DEF Begin
      <3>2. served' \in Seq({}) /\ DOMAIN served' = {} /\ Len(served') = 0
        BY <3>1
      <3> QED
        BY <3>1, <3>2, RequestsAssumption DEF IInv, InProgress, ServedSound, StoreSound
    <2>2. CASE ServeCached
      <3>1. outcome = "busy" /\ Key \in DOMAIN store /\ store' = store
        BY <2>2 DEF ServeCached
      <3>2. Sound(store[Key])
        BY <3>1 DEF IInv, StoreSound
      <3>3. Answer(FromCache(store[Key].values), store[Key])
        BY <2>2 DEF ServeCached
      <3>4. Justified([result |-> FromCache(store[Key].values), from |-> store[Key],
                       account |-> account])
        BY <3>2 DEF Sound, Justified
      <3>5. InProgress' /\ ServedSound'
        BY <3>1, <3>3, <3>4, AnswerSound
      <3> QED
        BY <3>1, <3>5 DEF IInv, StoreSound
    <2>3. CASE ServeLive
      <3>1. outcome = "busy"
        BY <2>3 DEF ServeLive
      <3> PICK c \in Contents[Object(account, Current.ref)] :
            \E r \in Resolve(Source[account], Current.ref, c) :
              Answer(r, Entry(r, c)) /\ (Put(Key, Entry(r, c)) \/ UNCHANGED store)
        BY <2>3 DEF ServeLive
      <3>2. PICK r \in Resolve(Source[account], Current.ref, c) :
              Answer(r, Entry(r, c)) /\ (Put(Key, Entry(r, c)) \/ UNCHANGED store)
        OBVIOUS
      <3>3. Readable(r)
        BY <3>1, CurrentScheme, ResolveReadable
      <3>4. Sound(Entry(r, c))
        BY <3>3 DEF Sound, Entry
      <3>5. Justified([result |-> r, from |-> Entry(r, c), account |-> account])
        BY <3>3 DEF Justified, Entry
      <3>6. InProgress' /\ ServedSound'
        BY <3>1, <3>2, <3>5, AnswerSound
      <3>7. StoreSound'
        BY <3>2, <3>4, PutSound DEF IInv
      <3> QED
        BY <3>6, <3>7 DEF IInv
    <2>4. CASE Fail
      BY <2>4 DEF Fail, IInv, InProgress, ServedSound, StoreSound
    <2>5. CASE UNCHANGED vars
      BY <2>5 DEF vars, IInv, InProgress, ServedSound, StoreSound
    <2> QED
      BY <2>1, <2>2, <2>3, <2>4, <2>5 DEF Next
  <1> QED
    BY <1>1, <1>2, PTL DEF Spec

----------------------------------------------------------------------------
(***************************************************************************)
(* No entry is answered with an empty secret because its "value" is missing, *)
(* whatever the backends hold and whatever the cache was filled with         *)
(* (plugin.go:187-202).                                                      *)
(***************************************************************************)
THEOREM NeverSilentlyEmpty == Spec => []NoSilentEmpty
  <1>1. IInv => NoSilentEmpty
    BY CacheReadable DEF IInv, ServedSound, Justified, NoSilentEmpty, Readable
  <1> QED
    BY <1>1, Invariance, PTL

(***************************************************************************)
(* The cache, which stores values without the Object flag, answers a named   *)
(* entry as the resolve did, for every result but an object with a key       *)
(* "value" (plugin.go:270-277, 315-334).                                     *)
(***************************************************************************)
THEOREM CacheKeepsShape == Spec => []WarmLikeCold
  <1>1. ASSUME NEW name, NEW r, Readable(r), ~KeepsValue(r)
        PROVE  Contribution(name, FromCache(r.values)) = Contribution(name, r)
    <2>1. Expands(FromCache(r.values)) <=> Expands(r)
      BY <1>1 DEF Readable, KeepsValue, Expands, FromCache, IsObject
    <2>2. FromCache(r.values).values = r.values
      BY DEF FromCache
    <2> QED
      BY <2>1, <2>2 DEF Contribution
  <1>2. IInv => WarmLikeCold
    BY <1>1 DEF IInv, ServedSound, Justified, WarmLikeCold, Answered, SameAsLive
  <1> QED
    BY <1>2, Invariance, PTL
----------------------------------------------------------------------------
(* A second invariant, for accounts: a 1Password key names the account that
   filled its entry. *)

Filed(k)    == k[1] = "op" => store[k].account = k[2]
ScopedEntry(i) ==
  request[i].ref.scheme = "op" => served[i].from.account = served[i].account

ScopeInv == (\A k \in DOMAIN store : Filed(k)) /\ \A i \in DOMAIN served : ScopedEntry(i)

LEMMA KeyNamesAccount ==
  ASSUME NEW ref
  PROVE  /\ CacheKey(ref)[1] = "op" => CacheKey(ref)[2] = account
         /\ ref.scheme = "op" => CacheKey(ref)[1] = "op"
  BY DEF CacheKey

LEMMA AnswerScoped ==
  ASSUME IInv, ScopeInv, NEW r, NEW e, Answer(r, e),
         Current.ref.scheme = "op" => e.account = account
  PROVE  (\A i \in DOMAIN served : ScopedEntry(i))'
  <1>1. request' = request
    BY DEF Answer
  <1>2. ASSUME NEW i \in DOMAIN served'
        PROVE  ScopedEntry(i)'
    <2>1. CASE i \in DOMAIN served
      BY <1>1, <2>1, AnswerAppends DEF ScopeInv, ScopedEntry
    <2>2. CASE i = Len(served) + 1
      <3>1. served'[i] = [result |-> r, from |-> e, account |-> account]
        BY <2>2, AnswerAppends
      <3>2. request'[i] = Current
        BY <1>1, <2>2 DEF Current
      <3> QED
        BY <3>1, <3>2 DEF ScopedEntry
    <2> QED
      BY <1>2, <2>1, <2>2, AnswerAppends
  <1> QED
    BY <1>2

(***************************************************************************)
(* A 1Password answer never comes from a resolve with other credentials than *)
(* those of the fetch, however the node is reconfigured between fetches      *)
(* (onepassword.go:101-111).                                                 *)
(***************************************************************************)
THEOREM OpKeepsToItsAccount == Spec => []OpScoped
  <1>1. Init => ScopeInv
    <2> SUFFICES ASSUME Init PROVE ScopeInv
      OBVIOUS
    <2>1. store = <<>> /\ served = <<>>
      BY DEF Init
    <2>2. DOMAIN store = {} /\ DOMAIN served = {}
      BY <2>1
    <2> QED
      BY <2>2 DEF ScopeInv
  <1>2. IInv /\ ScopeInv /\ [Next]_vars => ScopeInv'
    <2> SUFFICES ASSUME IInv, ScopeInv, [Next]_vars PROVE ScopeInv'
      OBVIOUS
    <2>1. ASSUME NEW q \in Requests, NEW a \in Accounts, Begin(q, a)
          PROVE  ScopeInv'
      <3>1. served' = <<>> /\ store' = store
        BY <2>1 DEF Begin
      <3>2. DOMAIN served' = {}
        BY <3>1
      <3> QED
        BY <3>1, <3>2 DEF ScopeInv, Filed
    <2>2. CASE ServeCached
      <3>1. /\ Key \in DOMAIN store /\ store' = store
            /\ Answer(FromCache(store[Key].values), store[Key])
        BY <2>2 DEF ServeCached
      <3>2. Current.ref.scheme = "op" => store[Key].account = account
        BY <3>1, KeyNamesAccount DEF ScopeInv, Filed, Key
      <3> QED
        BY <3>1, <3>2, AnswerScoped DEF ScopeInv, Filed
    <2>3. CASE ServeLive
      <3> PICK c \in Contents[Object(account, Current.ref)] :
            \E r \in Resolve(Source[account], Current.ref, c) :
              Answer(r, Entry(r, c)) /\ (Put(Key, Entry(r, c)) \/ UNCHANGED store)
        BY <2>3 DEF ServeLive
      <3>1. PICK r \in Resolve(Source[account], Current.ref, c) :
              Answer(r, Entry(r, c)) /\ (Put(Key, Entry(r, c)) \/ UNCHANGED store)
        OBVIOUS
      <3>2. (\A i \in DOMAIN served : ScopedEntry(i))'
        BY <3>1, AnswerScoped DEF Entry
      <3>3. Key[1] = "op" => Entry(r, c).account = Key[2]
        BY KeyNamesAccount DEF Key, Entry
      <3>4. (\A k \in DOMAIN store : Filed(k))'
        BY <3>1, <3>3 DEF ScopeInv, Filed, Put, Over, Single
      <3> QED
        BY <3>2, <3>4 DEF ScopeInv
    <2>4. CASE Fail
      BY <2>4 DEF Fail, ScopeInv, Filed, ScopedEntry
    <2>5. CASE UNCHANGED vars
      BY <2>5 DEF vars, ScopeInv, Filed, ScopedEntry
    <2> QED
      BY <2>1, <2>2, <2>3, <2>4, <2>5 DEF Next
  <1>3. ScopeInv => OpScoped
    BY DEF ScopeInv, ScopedEntry, OpScoped
  <1> QED
    BY <1>1, <1>2, <1>3, Invariance, PTL DEF Spec

----------------------------------------------------------------------------
(* Names that do not continue one another *)

Name == Seq(STRING)

(* Two names with the same start: one continues the other. *)
LEMMA OneContinues ==
  ASSUME NEW s \in Name, NEW t \in Name, NEW f \in Name, NEW g \in Name,
         s \o f = t \o g, Len(s) <= Len(t)
  PROVE  IsPrefix(s, t)
  <1> USE DEF Name
  <1>1. Len(s) \in Nat /\ Len(t) \in Nat
    BY LenProperties
  <1>2. \A x \in 1..Len(s) : s[x] \in STRING /\ t[x] \in STRING
    BY <1>1, ElementOfSeq
  <1>3. ASSUME NEW x \in 1..Len(s)
        PROVE  s[x] = t[x]
    <2>1. x \in 1..Len(s) + Len(f) /\ x \in 1..Len(t) + Len(g) /\ x <= Len(s) /\ x <= Len(t)
      BY <1>1, LenProperties
    <2>2. (s \o f)[x] = s[x]
      BY <2>1, ConcatProperties
    <2>3. (t \o g)[x] = t[x]
      BY <2>1, ConcatProperties
    <2> QED BY <2>2, <2>3
  <1>4. SubSeq(s, 1, Len(s)) = [x \in 1..Len(s) |-> s[x]]
    BY <1>1
  <1>5. SubSeq(t, 1, Len(s)) = [x \in 1..Len(s) |-> t[x]]
    BY <1>1
  <1>6. SubSeq(s, 1, Len(s)) = SubSeq(t, 1, Len(s))
    BY <1>3, <1>4, <1>5
  <1> QED BY <1>6 DEF IsPrefix

Keyed(r) == DOMAIN r.values \subseteq Name

LEMMA EmptyName == None \in Name /\ \A s \in Name : s \o None = s
  BY EmptySeq, ConcatEmptySeq DEF Name, None

(* So entries of a fetch with separate names have no key in common. *)
LEMMA ContributionsApart ==
  ASSUME NEW s \in Name, NEW t \in Name, ~IsPrefix(s, t), ~IsPrefix(t, s),
         NEW q, NEW r, Keyed(q), Keyed(r)
  PROVE  DOMAIN Contribution(s, q) \cap DOMAIN Contribution(t, r) = {}
  <1>1. ASSUME NEW n \in Name, NEW v, Keyed(v), NEW k \in DOMAIN Contribution(n, v)
        PROVE  \E f \in Name : k = n \o f
    <2>1. CASE Expands(v)
      BY <1>1, <2>1 DEF Contribution, Keyed
    <2>2. CASE ~Expands(v)
      <3>1. k = n
        BY <1>1, <2>2 DEF Contribution, Single
      <3> QED BY <3>1, EmptyName
    <2> QED BY <2>1, <2>2
  <1> SUFFICES ASSUME NEW k \in DOMAIN Contribution(s, q), k \in DOMAIN Contribution(t, r)
               PROVE  FALSE
    OBVIOUS
  <1>2. PICK f \in Name : k = s \o f
    BY <1>1
  <1>3. PICK g \in Name : k = t \o g
    BY <1>1
  <1>4. Len(s) <= Len(t) \/ Len(t) <= Len(s)
    BY LenProperties DEF Name
  <1>5. s \o f = t \o g
    BY <1>2, <1>3
  <1> QED BY <1>4, <1>5, OneContinues

----------------------------------------------------------------------------
(* A third invariant: every key of an entry answered so far is in the response. *)

Kept(i) ==
  LET own == Contribution(request[i].name, served[i].result)
  IN  /\ DOMAIN own \subseteq DOMAIN merged
      /\ \A k \in DOMAIN own : merged[k] = own[k]

KeysNamed ==
  /\ \A i \in DOMAIN served : Keyed(served[i].result)
  /\ \A k \in DOMAIN store : Keyed(store[k])

Asked ==
  outcome # "error" =>
    /\ request \in Requests
    /\ Len(served) <= Len(request) /\ DOMAIN served = 1..Len(served) /\ Len(served) \in Nat

KeptSoFar ==
  outcome # "error" /\ Separate => \A i \in DOMAIN served : request[i].name # None => Kept(i)

MergeInv == KeysNamed /\ Asked /\ KeptSoFar

LEMMA AnswerKeeps ==
  ASSUME IInv, MergeInv, outcome = "busy", NEW r, NEW e, Answer(r, e), Keyed(r)
  PROVE  (\A i \in DOMAIN served : Keyed(served[i].result))' /\ Asked' /\ KeptSoFar'
  <1> DEFINE n == Len(served) + 1
             C == Contribution(Current.name, r)
  <1>1. /\ request' = request /\ request \in Requests /\ n \in DOMAIN request
        /\ Len(served) \in Nat /\ Len(request) \in Nat /\ Len(served) < Len(request)
        /\ DOMAIN request = 1..Len(request) /\ DOMAIN served = 1..Len(served)
    BY RequestsAssumption DEF Answer, IInv, InProgress, MergeInv, Asked
  <1>2. /\ Len(served') = n /\ DOMAIN served' = 1..n
        /\ \A i \in DOMAIN served : served'[i] = served[i]
        /\ served'[n].result = r
    <2>1. PICK T : served' \in Seq(T)
      BY AnswerAppends
    <2>2. DOMAIN served' = 1..Len(served')
      BY <2>1
    <2>3. /\ Len(served') = n
          /\ \A i \in DOMAIN served : served'[i] = served[i]
          /\ served'[n] = [result |-> r, from |-> e, account |-> account]
      BY AnswerAppends
    <2> QED BY <2>2, <2>3
  <1>3. (\A i \in DOMAIN served : Keyed(served[i].result))'
    BY <1>1, <1>2 DEF MergeInv, KeysNamed, Keyed
  <1>4. Asked'
    BY <1>1, <1>2 DEF Asked
  <1>5. ASSUME Separate, NEW i \in DOMAIN served', request[i].name # None
        PROVE  Kept(i)'
    <2>1. CASE i = n
      <3>1. Current = request[n]
        BY DEF Current
      <3>2. merged' = Over(C, merged)
        BY <1>5, <2>1, <3>1 DEF Answer
      <3>3. Contribution(request[i].name, served[i].result)' = C
        BY <1>1, <1>2, <2>1, <3>1
      <3> HIDE DEF C
      <3> QED BY <3>2, <3>3 DEF Kept, Over
    <2>2. CASE i \in DOMAIN served
      <3> DEFINE own == Contribution(request[i].name, served[i].result)
      <3>1. i # n /\ i \in DOMAIN request /\ n \in DOMAIN request
        BY <1>1, <2>2
      <3>2. /\ Current = request[n] /\ request[n].name # None
            /\ request[i].name \in Name /\ request[n].name \in Name
        BY <1>1, <3>1, RequestsAssumption DEF Current, Name
      <3>3. ~IsPrefix(request[i].name, request[n].name) /\ ~IsPrefix(request[n].name, request[i].name)
        BY <1>5, <3>1 DEF Separate
      <3>4. Keyed(served[i].result)
        BY <2>2 DEF MergeInv, KeysNamed
      <3>5. DOMAIN own \cap DOMAIN C = {}
        BY <3>2, <3>3, <3>4, ContributionsApart
      <3>6. merged' = Over(C, merged)
        BY <3>2 DEF Answer
      <3>7. DOMAIN own \subseteq DOMAIN merged /\ \A k \in DOMAIN own : merged[k] = own[k]
        BY <1>5, <2>2 DEF MergeInv, KeptSoFar, Kept
      <3>8. Contribution(request[i].name, served[i].result)' = own
        BY <1>1, <1>2, <2>2
      <3> HIDE DEF C, own
      <3> QED BY <3>5, <3>6, <3>7, <3>8 DEF Kept, Over
    <2> QED BY <1>1, <1>2, <2>1, <2>2
  <1>6. Separate' => Separate
    BY <1>1 DEF Separate
  <1>7. KeptSoFar'
    BY <1>1, <1>5, <1>6 DEF KeptSoFar
  <1> QED BY <1>3, <1>4, <1>7

LEMMA ResolveKeyed ==
  ASSUME Asked, IInv, outcome = "busy", account \in Accounts,
         NEW c \in Contents[Object(account, Current.ref)],
         NEW r \in Resolve(Source[account], Current.ref, c)
  PROVE  Keyed(r)
  <1>1. request \in Requests /\ Len(served) + 1 \in DOMAIN request
    BY RequestsAssumption DEF Asked, IInv, InProgress
  <1>2. Current.ref \in JobRefs
    BY <1>1 DEF Current, JobRefs
  <1> QED BY <1>2, KeysAssumption DEF Keyed, Name

LEMMA MergeInvariance == Spec => [](MergeInv /\ account \in Accounts)
  <1> DEFINE Inv == MergeInv /\ account \in Accounts
  <1>1. Init => Inv
    <2> SUFFICES ASSUME Init PROVE Inv
      OBVIOUS
    <2>1. DOMAIN served = {} /\ DOMAIN store = {} /\ outcome = "error" /\ account \in Accounts
      BY DEF Init
    <2> QED BY <2>1 DEF MergeInv, KeysNamed, Asked, KeptSoFar
  <1>2. IInv /\ Inv /\ [Next]_vars => Inv'
    <2> SUFFICES ASSUME IInv, MergeInv, account \in Accounts, [Next]_vars PROVE Inv'
      OBVIOUS
    <2>1. ASSUME NEW q \in Requests, NEW a \in Accounts, Begin(q, a)
          PROVE  Inv'
      <3>1. served' = <<>> /\ request' = q /\ store' = store /\ account' = a
        BY <2>1 DEF Begin
      <3>2. DOMAIN served' = {} /\ Len(served') = 0 /\ DOMAIN served' = 1..0
        BY <3>1
      <3> QED
        BY <3>1, <3>2, RequestsAssumption DEF MergeInv, KeysNamed, Asked, KeptSoFar, Keyed
    <2>2. CASE ServeCached
      <3>1. /\ outcome = "busy" /\ Key \in DOMAIN store /\ store' = store /\ account' = account
            /\ Answer(FromCache(store[Key].values), store[Key])
        BY <2>2 DEF ServeCached, Answer
      <3>2. Keyed(FromCache(store[Key].values))
        BY <3>1 DEF MergeInv, KeysNamed, Keyed, FromCache
      <3> QED
        BY <3>1, <3>2, AnswerKeeps DEF MergeInv, KeysNamed, Keyed
    <2>3. CASE ServeLive
      <3>1. outcome = "busy"
        BY <2>3 DEF ServeLive
      <3> PICK c \in Contents[Object(account, Current.ref)] :
            \E r \in Resolve(Source[account], Current.ref, c) :
              Answer(r, Entry(r, c)) /\ (Put(Key, Entry(r, c)) \/ UNCHANGED store)
        BY <2>3 DEF ServeLive
      <3>2. PICK r \in Resolve(Source[account], Current.ref, c) :
              Answer(r, Entry(r, c)) /\ (Put(Key, Entry(r, c)) \/ UNCHANGED store)
        OBVIOUS
      <3>3. Keyed(r) /\ Keyed(Entry(r, c))
        BY <3>1, ResolveKeyed DEF MergeInv, Keyed, Entry
      <3>4. (\A k \in DOMAIN store : Keyed(store[k]))'
        BY <3>2, <3>3 DEF MergeInv, KeysNamed, Keyed, Put, Over, Single
      <3>5. account' = account
        BY <3>2 DEF Answer
      <3> QED
        BY <3>1, <3>2, <3>3, <3>4, <3>5, AnswerKeeps DEF MergeInv, KeysNamed
    <2>4. CASE Fail
      BY <2>4 DEF Fail, MergeInv, KeysNamed, Keyed, Asked, KeptSoFar
    <2>5. CASE UNCHANGED vars
      BY <2>5 DEF vars, MergeInv, KeysNamed, Keyed, Asked, KeptSoFar, Separate, Kept
    <2> QED
      BY <2>1, <2>2, <2>3, <2>4, <2>5 DEF Next
  <1> QED
    BY <1>1, <1>2, Invariance, PTL DEF Spec

(***************************************************************************)
(* When no name continues another, no entry overwrites a key of another: the *)
(* response has each entry's keys and values as it would have them alone,    *)
(* whatever keys items, files and JSON members bring (plugin.go:192-201).    *)
(***************************************************************************)
THEOREM SeparateNamesStayApart == Spec => []NamesStayApart
  <1>1. MergeInv => NamesStayApart
    <2> SUFFICES ASSUME MergeInv, outcome = "ok", Separate, Answered # {},
                        NEW i \in DOMAIN served
                 PROVE  Kept(i)
      BY DEF NamesStayApart, Kept
    <2>1. PICK j \in DOMAIN served : request[j].name # None
      BY DEF Answered
    <2>2. i \in DOMAIN request /\ j \in DOMAIN request /\ request \in Requests
      BY RequestsAssumption DEF MergeInv, Asked
    <2>3. request[i].name # None
      BY <2>1, <2>2, RequestsAssumption
    <2> QED BY <2>3 DEF MergeInv, KeptSoFar
  <1> QED
    BY <1>1, MergeInvariance, PTL
----------------------------------------------------------------------------
(* The least and the greatest of a set of indexes *)

LEMMA MinInSet ==
  ASSUME NEW T, T \subseteq Nat, T # {}
  PROVE  Min(T) \in T /\ \A y \in T : Min(T) <= y
  <1> DEFINE R == OpToRel(<, Nat)
  <1>0. IsWellFoundedOn(R, Nat)
    BY NatLessThanWellFounded
  <1> HIDE DEF R
  <1>1. \E x \in T : \A y \in T : ~(<<y, x>> \in R)
    BY <1>0, WFMin
  <1>2. \A x \in T, y \in T : <<y, x>> \in R <=> y < x
    <2>1. R = {ss \in Nat \X Nat : ss[1] < ss[2]}
      BY Zenon DEF R, OpToRel
    <2>2. \A x \in T : x \in Nat
      OBVIOUS
    <2>3. \A y \in Nat, x \in Nat : <<y, x>> \in R <=> y < x
      BY <2>1
    <2> QED BY <2>2, <2>3
  <1> HIDE DEF R
  <1>3. \E x \in T : \A y \in T : x <= y
    <2>1. PICK x \in T : \A y \in T : ~(y < x)
      BY <1>1, <1>2
    <2>2. \A y \in T : x \in Nat /\ y \in Nat
      OBVIOUS
    <2> QED BY <2>1, <2>2
  <1> QED BY <1>3 DEF Min

LEMMA MaxInSet ==
  ASSUME NEW n \in Nat, NEW T, T \subseteq 1..n, T # {}
  PROVE  Max(T) \in T /\ \A y \in T : Max(T) >= y
  <1> DEFINE U == {n - y : y \in T}
  <1>1. U \subseteq Nat /\ U # {}
    <2>1. \A y \in T : n - y \in Nat
      OBVIOUS
    <2> QED BY <2>1
  <1> HIDE DEF U
  <1>2. Min(U) \in U /\ \A y \in U : Min(U) <= y
    BY <1>1, MinInSet
  <1> USE DEF U
  <1>3. PICK x \in T : Min(U) = n - x
    BY <1>2
  <1>4. ASSUME NEW y \in T PROVE x >= y
    <2>1. n - x <= n - y
      BY <1>2, <1>3
    <2>2. x \in Int /\ y \in Int
      OBVIOUS
    <2> QED BY <2>1, <2>2
  <1> QED BY <1>4 DEF Max

(* Sets of indexes move with the sequence they point into. *)
LEMMA MinMoves ==
  ASSUME NEW T, T \subseteq Nat, T # {}, NEW d \in Nat
  PROVE  Min({d + y : y \in T}) = d + Min(T)
  <1> DEFINE U == {d + y : y \in T}
  <1>1. U \subseteq Nat /\ U # {}
    <2>1. \A y \in T : d + y \in Nat
      OBVIOUS
    <2> QED BY <2>1
  <1>2. Min(T) \in T /\ \A y \in T : Min(T) <= y
    BY MinInSet
  <1> HIDE DEF U
  <1>3. Min(U) \in U /\ \A y \in U : Min(U) <= y
    BY <1>1, MinInSet
  <1>4. d + Min(T) \in U
    BY <1>2 DEF U
  <1>5. PICK x \in T : Min(U) = d + x
    BY <1>3 DEF U
  <1>6. d + x <= d + Min(T) /\ Min(T) <= x
    BY <1>2, <1>3, <1>4, <1>5
  <1>7. x \in Nat /\ Min(T) \in Nat
    BY <1>2
  <1> QED BY <1>5, <1>6, <1>7 DEF U

LEMMA MaxMoves ==
  ASSUME NEW n \in Nat, NEW T, T \subseteq 1..n, T # {}, NEW d \in Nat
  PROVE  Max({d + y : y \in T}) = d + Max(T)
  <1> DEFINE U == {d + y : y \in T}
  <1>1. U \subseteq 1..(d + n) /\ U # {} /\ d + n \in Nat
    <2>1. \A y \in T : y \in Nat /\ 1 <= y /\ y <= n
      OBVIOUS
    <2>2. \A y \in Nat : 1 <= y /\ y <= n => d + y \in 1..(d + n)
      OBVIOUS
    <2>3. \A y \in T : d + y \in 1..(d + n)
      BY <2>1, <2>2
    <2>4. U \subseteq 1..(d + n) /\ U # {}
      BY <2>3
    <2>5. d + n \in Nat
      OBVIOUS
    <2> QED BY <2>4, <2>5
  <1>2. Max(T) \in T /\ \A y \in T : Max(T) >= y
    BY MaxInSet
  <1> HIDE DEF U
  <1>3. Max(U) \in U /\ \A y \in U : Max(U) >= y
    BY <1>1, MaxInSet
  <1>4. d + Max(T) \in U
    BY <1>2 DEF U
  <1>5. PICK x \in T : Max(U) = d + x
    BY <1>3 DEF U
  <1>6. d + x >= d + Max(T) /\ Max(T) >= x
    BY <1>2, <1>3, <1>4, <1>5
  <1>7. x \in Nat /\ Max(T) \in Nat
    <2>1. \A y \in T : y \in Nat
      OBVIOUS
    <2> QED BY <1>2, <2>1
  <1> QED BY <1>5, <1>6, <1>7 DEF U

LEMMA Places ==
  ASSUME NEW m \in Nat, NEW n \in Nat, NEW i \in 1..(m + n)
  PROVE  i \in 1..m \/ \E y \in 1..n : i = m + y
  <1>1. CASE i > m
    <2>1. i - m \in 1..n /\ i = m + (i - m)
      BY <1>1
    <2> QED BY <2>1
  <1> QED BY <1>1

(* A sequence in front moves the indexes of the sequence behind. *)
LEMMA Joined ==
  ASSUME NEW s, NEW t, IsSequence(s), IsSequence(t)
  PROVE  /\ Len(s) \in Nat /\ DOMAIN s = 1..Len(s)
         /\ Len(t) \in Nat /\ DOMAIN t = 1..Len(t)
         /\ DOMAIN (s \o t) = 1..(Len(s) + Len(t))
         /\ s \o t = [i \in 1..(Len(s) + Len(t)) |-> IF i <= Len(s) THEN s[i] ELSE t[i - Len(s)]]
         /\ \A i \in 1..Len(s) : (s \o t)[i] = s[i]
         /\ \A y \in 1..Len(t) : (s \o t)[Len(s) + y] = t[y]
  <1> DEFINE S == {s[i] : i \in 1..Len(s)} \cup {t[i] : i \in 1..Len(t)}
             m == Len(s)
             n == Len(t)
  <1>1. m \in Nat /\ n \in Nat /\ s = [i \in 1..m |-> s[i]] /\ t = [i \in 1..n |-> t[i]]
    BY DEF IsSequence
  <1>2. s \in [1..m -> S] /\ t \in [1..n -> S]
    BY <1>1
  <1>3. s \in Seq(S) /\ t \in Seq(S)
    BY <1>1, <1>2, SeqDef
  <1>4. /\ s \o t \in Seq(S) /\ Len(s \o t) = m + n
        /\ \A i \in 1..(m + n) : (s \o t)[i] = IF i <= m THEN s[i] ELSE t[i - m]
    BY <1>3, ConcatProperties
  <1>5. s \o t \in [1..(m + n) -> S]
    BY <1>4, LenProperties
  <1>6. DOMAIN s = 1..m /\ DOMAIN t = 1..n
    BY <1>2
  <1> HIDE DEF m, n, S
  <1>7. \A i \in 1..m : i \in 1..(m + n) /\ i <= m
    BY <1>1
  <1>8. \A y \in 1..n : m + y \in 1..(m + n) /\ ~(m + y <= m) /\ (m + y) - m = y
    BY <1>1
  <1> QED BY <1>1, <1>4, <1>5, <1>6, <1>7, <1>8 DEF m, n

LEMMA NothingJoined ==
  ASSUME NEW s, IsSequence(s)
  PROVE  s \o <<>> = s /\ <<>> \o s = s
  <1>1. Len(s) \in Nat /\ s \in [1..Len(s) -> {s[i] : i \in 1..Len(s)}]
    BY DEF IsSequence
  <1>2. s \in Seq({s[i] : i \in 1..Len(s)})
    BY <1>1, SeqDef
  <1> QED BY <1>2, ConcatEmptySeq

LEMMA Behind ==
  ASSUME NEW s, NEW t, IsSequence(s), IsSequence(t),
         NEW A, A \subseteq DOMAIN (s \o t), A \cap DOMAIN s = {},
         NEW B, B \subseteq DOMAIN t,
         \A y \in DOMAIN t : y \in B <=> Len(s) + y \in A
  PROVE  /\ B = {} => A = {}
         /\ B # {} => Max(B) \in B /\ Max(A) = Len(s) + Max(B)
         /\ B # {} => Min(B) \in B /\ Min(A) = Len(s) + Min(B)
  <1> DEFINE m == Len(s)
             n == Len(t)
  <1>1. /\ m \in Nat /\ n \in Nat /\ DOMAIN s = 1..m /\ DOMAIN t = 1..n
        /\ DOMAIN (s \o t) = 1..(m + n)
        /\ \A y \in 1..n : (s \o t)[m + y] = t[y]
    BY Joined
  <1> HIDE DEF m, n
  <1>2. \A i \in 1..(m + n) : i \in 1..m \/ \E y \in 1..n : i = m + y
    BY <1>1, Places
  <1>3. \A i \in A : \E y \in B : i = m + y
    BY <1>1, <1>2 DEF m
  <1>4. \A y \in B : m + y \in A
    BY <1>1 DEF m
  <1>5. A = {m + y : y \in B}
    BY <1>3, <1>4
  <1>6. ASSUME B # {}
        PROVE  /\ Max(A) = m + Max(B) /\ Max(B) \in B /\ Min(A) = m + Min(B) /\ Min(B) \in B
    <2>1. B \subseteq 1..n /\ B \subseteq Nat
      BY <1>1
    <2> QED BY <1>1, <1>5, <1>6, <2>1, MaxMoves, MaxInSet, MinMoves, MinInSet
  <1> QED BY <1>3, <1>6 DEF m


----------------------------------------------------------------------------
(* One item as the two backends report it *)

Connect(c) == GetItem("connect", c)
Sdk(c)     == GetItem("sdk", c)

LEMMA Reported ==
  ASSUME NEW c
  PROVE  /\ Connect(c).sections = c.sections /\ Sdk(c).sections = c.sections
         /\ Connect(c).category = IF c.document # <<>> THEN <<"DOCUMENT">> ELSE <<"LOGIN">>
         /\ Sdk(c).category = IF c.document # <<>> THEN <<"Document">> ELSE <<"Login">>
         /\ Connect(c).files = c.document \o c.files /\ Sdk(c).files = c.files \o c.document
         /\ Connect(c).fields = [i \in DOMAIN ConnectItem(c).fields |->
                                   WithFile(c.document \o c.files, ConnectItem(c).fields[i])]
         /\ ConnectItem(c).fields =
              [i \in DOMAIN c.fields |->
                 Over(c.fields[i], [purpose |-> PurposeForFieldID(c.fields[i].id)])]
                \o <<NotesField(c.notes)>>
         /\ Sdk(c).fields = [i \in DOMAIN c.fields |-> WithPurpose([files |-> c.files], c.fields[i])]
                              \o IF c.notes = Empty THEN <<>>
                                 ELSE <<WithFile(<<>>, NotesField(c.notes))>>
  BY DEF Connect, Sdk, GetItem, FromConnect, FromSdk, ConnectItem, SdkItem, WithPurpose

(* Files in front that belong to no field back no field. *)
LEMMA FrontBacksNothing ==
  ASSUME NEW d, NEW t, IsSequence(d), IsSequence(t),
         \A i \in DOMAIN d : d[i].field = None, NEW f
  PROVE  FileOf(d \o t, f) = FileOf(t, f)
  <1> DEFINE A == {i \in DOMAIN (d \o t) : (d \o t)[i].field # None /\ (d \o t)[i].field = f.id}
             B == {i \in DOMAIN t : t[i].field # None /\ t[i].field = f.id}
  <1>1. /\ DOMAIN d = 1..Len(d) /\ DOMAIN t = 1..Len(t)
        /\ \A i \in 1..Len(d) : (d \o t)[i] = d[i]
        /\ \A y \in 1..Len(t) : (d \o t)[Len(d) + y] = t[y]
        /\ DOMAIN (d \o t) = 1..(Len(d) + Len(t)) /\ Len(d) \in Nat /\ Len(t) \in Nat
    BY Joined
  <1>2. FileOf(d \o t, f) = IF A = {} THEN None ELSE (d \o t)[Max(A)].id
    BY DEF FileOf
  <1>3. FileOf(t, f) = IF B = {} THEN None ELSE t[Max(B)].id
    BY DEF FileOf
  <1>4. A \cap DOMAIN d = {}
    BY <1>1
  <1>5. \A y \in DOMAIN t : Len(d) + y \in DOMAIN (d \o t)
    BY <1>1
  <1>6. \A y \in DOMAIN t : y \in B <=> Len(d) + y \in A
    BY <1>1, <1>5
  <1>7. A \subseteq DOMAIN (d \o t) /\ B \subseteq DOMAIN t
    OBVIOUS
  <1> HIDE DEF A, B
  <1>8. CASE B = {}
    <2>1. A = {}
      BY <1>4, <1>6, <1>7, <1>8, Behind
    <2> QED BY <1>2, <1>3, <1>8, <2>1
  <1>9. CASE B # {}
    <2>1. Max(B) \in B /\ Max(A) = Len(d) + Max(B)
      BY <1>4, <1>6, <1>7, <1>9, Behind
    <2>2. (d \o t)[Max(A)] = t[Max(B)] /\ A # {}
      BY <1>1, <1>6, <1>7, <2>1
    <2> QED BY <1>2, <1>3, <1>9, <2>2
  <1> QED BY <1>8, <1>9

(* Only the id of a field decides which file is behind it. *)
LEMMA FileOfId ==
  ASSUME NEW files, NEW f, NEW g, f.id = g.id
  PROVE  FileOf(files, f) = FileOf(files, g)
  BY DEF FileOf

(* In which order a purpose and a file are added to a field is all one. *)
LEMMA AddedEitherWay ==
  ASSUME NEW f, DOMAIN f = {"id", "label", "section", "value"}, NEW x, NEW y
  PROVE  Over(Over(f, [file |-> y]), [purpose |-> x]) = Over(Over(f, [purpose |-> x]), [file |-> y])
  BY DEF Over

(* The fields agree, but for notes that are empty: only Connect reports those. *)
Shared(c) ==
  [i \in 1..Len(c.fields) |->
     Over(Over(c.fields[i], [purpose |-> PurposeForFieldID(c.fields[i].id)]),
          [file |-> FileOf(c.files, c.fields[i])])]
Notes(c) == Over(NotesField(c.notes), [file |-> None])

LEMMA NotesHaveNoFile ==
  ASSUME NEW c, WellKept(c)
  PROVE  /\ WithFile(c.document \o c.files, NotesField(c.notes)) = Notes(c)
         /\ WithFile(<<>>, NotesField(c.notes)) = Notes(c)
  <1> DEFINE N == NotesField(c.notes)
  <1>1. N.id = <<"notesPlain">>
    BY DEF NotesField
  <1>2. FileOf(c.files, N) = None
    BY <1>1 DEF FileOf, WellKept
  <1>3. FileOf(<<>>, N) = None
    BY DEF FileOf
  <1>4. FileOf(c.document \o c.files, N) = FileOf(c.files, N)
    BY FrontBacksNothing DEF WellKept
  <1> QED BY <1>2, <1>3, <1>4 DEF WithFile, Notes

LEMMA ConnectFields ==
  ASSUME NEW c, WellKept(c)
  PROVE  /\ Len(c.fields) \in Nat
         /\ Connect(c).fields = [i \in 1..(Len(c.fields) + 1) |->
                                   IF i <= Len(c.fields) THEN Shared(c)[i] ELSE Notes(c)]
  <1> DEFINE n == Len(c.fields)
             P == [i \in 1..n |-> Over(c.fields[i], [purpose |-> PurposeForFieldID(c.fields[i].id)])]
             N == NotesField(c.notes)
             all == c.document \o c.files
             J == P \o <<N>>
  <1>1. n \in Nat /\ DOMAIN c.fields = 1..n
    BY DEF WellKept, IsSequence
  <1>2. IsSequence(P) /\ Len(P) = n /\ IsSequence(<<N>>) /\ Len(<<N>>) = 1 /\ <<N>>[1] = N
    BY <1>1 DEF IsSequence
  <1>3. Connect(c).fields = [i \in DOMAIN J |-> WithFile(all, J[i])]
    <2>1. P = [i \in DOMAIN c.fields |->
                 Over(c.fields[i], [purpose |-> PurposeForFieldID(c.fields[i].id)])]
      BY <1>1
    <2>2. ConnectItem(c).fields = J
      BY <2>1, Zenon DEF ConnectItem
    <2> HIDE DEF J
    <2> QED BY <2>2, Reported
  <1>4. /\ DOMAIN J = 1..(n + 1) /\ \A i \in 1..n : J[i] = P[i]
        /\ J[n + 1] = N
    <2> HIDE DEF P, N, n
    <2>1. DOMAIN J = 1..(Len(P) + Len(<<N>>))
      BY <1>2, Joined
    <2>2. \A i \in 1..Len(P) : J[i] = P[i]
      BY <1>2, Joined
    <2>3. \A y \in 1..Len(<<N>>) : J[Len(P) + y] = <<N>>[y]
      BY <1>2, Joined
    <2> QED BY <1>1, <1>2, <2>1, <2>2, <2>3
  <1>5. ASSUME NEW i \in 1..n
        PROVE  WithFile(all, P[i]) = Shared(c)[i]
    <2>1. DOMAIN c.fields[i] = {"id", "label", "section", "value"}
      BY <1>1 DEF WellKept
    <2>2. P[i].id = c.fields[i].id
      BY <2>1 DEF Over
    <2>3. FileOf(all, P[i]) = FileOf(c.files, P[i])
      BY FrontBacksNothing DEF WellKept
    <2>4. FileOf(c.files, P[i]) = FileOf(c.files, c.fields[i])
      BY <2>2, FileOfId
    <2> QED BY <2>3, <2>4 DEF WithFile, Shared
  <1>6. WithFile(all, N) = Notes(c)
    BY NotesHaveNoFile
  <1> HIDE DEF n, P, N, all, J
  <1>7. \A i \in 1..(n + 1) : i \in 1..n \/ (i = n + 1 /\ ~(i <= n))
    BY <1>1
  <1>8. \A i \in 1..(n + 1) : WithFile(all, J[i]) = IF i <= n THEN Shared(c)[i] ELSE Notes(c)
    BY <1>1, <1>4, <1>5, <1>6, <1>7
  <1> QED BY <1>1, <1>3, <1>4, <1>8 DEF n

LEMMA SdkFields ==
  ASSUME NEW c, WellKept(c)
  PROVE  /\ Len(c.fields) \in Nat
         /\ Sdk(c).fields = IF c.notes = Empty THEN Shared(c) ELSE Connect(c).fields
  <1> DEFINE n == Len(c.fields)
             Q == [i \in 1..n |-> WithPurpose([files |-> c.files], c.fields[i])]
             N == WithFile(<<>>, NotesField(c.notes))
  <1>1. n \in Nat /\ DOMAIN c.fields = 1..n
    BY DEF WellKept, IsSequence
  <1>2. IsSequence(Q) /\ Len(Q) = n /\ IsSequence(<<N>>) /\ Len(<<N>>) = 1 /\ <<N>>[1] = N
    BY <1>1 DEF IsSequence
  <1>3. Sdk(c).fields = Q \o IF c.notes = Empty THEN <<>> ELSE <<N>>
    BY <1>1, Reported
  <1>4. ASSUME NEW i \in 1..n
        PROVE  Q[i] = Shared(c)[i]
    <2>1. DOMAIN c.fields[i] = {"id", "label", "section", "value"}
      BY <1>1 DEF WellKept
    <2> DEFINE f == c.fields[i]
               x == PurposeForFieldID(f.id)
               y == FileOf(c.files, f)
    <2>2. Q[i] = Over(Over(f, [file |-> y]), [purpose |-> x])
      BY DEF WithPurpose, WithFile
    <2>3. Shared(c)[i] = Over(Over(f, [purpose |-> x]), [file |-> y])
      BY DEF Shared
    <2>0. DOMAIN f = {"id", "label", "section", "value"}
      BY <2>1
    <2> HIDE DEF f, x, y
    <2>4. Over(Over(f, [file |-> y]), [purpose |-> x]) = Over(Over(f, [purpose |-> x]), [file |-> y])
      BY <2>0, AddedEitherWay
    <2> QED BY <2>2, <2>3, <2>4
  <1>5. Q = Shared(c)
    BY <1>4 DEF Shared
  <1>6. CASE c.notes = Empty
    <2>1. Q \o <<>> = Q
      BY <1>2, NothingJoined
    <2> QED BY <1>1, <1>3, <1>5, <1>6, <2>1
  <1>7. CASE c.notes # Empty
    <2> HIDE DEF Q, N, n
    <2>1. Q \o <<N>> = [i \in 1..(Len(Q) + Len(<<N>>)) |->
                          IF i <= Len(Q) THEN Q[i] ELSE <<N>>[i - Len(Q)]]
      BY <1>2, Joined
    <2>2. \A i \in 1..(n + 1) : ~(i <= n) => i - n = 1
      BY <1>1
    <2>3. Q \o <<N>> = [i \in 1..(n + 1) |-> IF i <= n THEN Shared(c)[i] ELSE Notes(c)]
      BY <1>2, <1>5, <2>1, <2>2, NotesHaveNoFile DEF N
    <2> QED BY <1>1, <1>3, <1>7, <2>3, ConnectFields DEF n
  <1> QED BY <1>6, <1>7

----------------------------------------------------------------------------
(* The fields of an item that have a value decide what it expands to. *)
LEMMA ShownDecide ==
  ASSUME NEW I, NEW J, I.sections = J.sections,
         DOMAIN I.fields \subseteq Nat, DOMAIN J.fields \subseteq Nat,
         \A i \in Nat : i \in DOMAIN I.fields /\ I.fields[i].value # Empty <=>
                        i \in DOMAIN J.fields /\ J.fields[i].value # Empty,
         \A i \in DOMAIN I.fields \cap DOMAIN J.fields : I.fields[i] = J.fields[i]
  PROVE  ItemValues(I) = ItemValues(J)
  <1> DEFINE shown(X) == {i \in DOMAIN X.fields : X.fields[i].value # Empty}
             plain(X) == {i \in shown(X) : /\ X.fields[i].section = None
                                           /\ X.fields[i].purpose \in DOMAIN ConventionalKey}
             key(X, i) == ItemKey(X, X.fields[i])
             role(X, i) == ConventionalKey[X.fields[i].purpose]
             under(X, k) == {i \in shown(X) : key(X, i) = k}
             usual(X, k) == {i \in plain(X) : role(X, i) = k}
             named(X) == [k \in {key(X, i) : i \in shown(X)} \ {None} |-> X.fields[Min(under(X, k))].value]
             common(X) == [k \in {role(X, i) : i \in plain(X)} |-> X.fields[Min(usual(X, k))].value]
  <1>1. ItemValues(I) = Over(named(I), common(I)) /\ ItemValues(J) = Over(named(J), common(J))
    BY DEF ItemValues
  <1>2. shown(I) = shown(J) /\ shown(I) \subseteq Nat
    OBVIOUS
  <1>3. \A i \in shown(I) : I.fields[i] = J.fields[i] /\ key(I, i) = key(J, i)
    <2>1. \A i \in shown(I) : I.fields[i] = J.fields[i]
      BY <1>2
    <2> QED BY <2>1 DEF ItemKey, SectionLabel
  <1>4. plain(I) = plain(J) /\ plain(I) \subseteq shown(I)
    BY <1>2, <1>3
  <1>5. \A i \in plain(I) : role(I, i) = role(J, i)
    BY <1>3, <1>4
  <1>6. \A k : under(I, k) = under(J, k) /\ under(I, k) \subseteq shown(I)
    BY <1>2, <1>3
  <1>7. \A k : usual(I, k) = usual(J, k) /\ usual(I, k) \subseteq shown(I)
    BY <1>4, <1>5
  <1>8. {key(I, i) : i \in shown(I)} = {key(J, i) : i \in shown(J)}
    BY <1>2, <1>3
  <1>9. {role(I, i) : i \in plain(I)} = {role(J, i) : i \in plain(J)}
    BY <1>4, <1>5
  <1>10. ASSUME NEW k \in {key(I, i) : i \in shown(I)}
         PROVE  I.fields[Min(under(I, k))].value = J.fields[Min(under(J, k))].value
    <2>1. under(I, k) # {} /\ under(I, k) \subseteq Nat
      BY <1>2, <1>6, <1>10
    <2> HIDE DEF under
    <2>2. Min(under(I, k)) \in under(I, k)
      BY <2>1, MinInSet
    <2> QED BY <1>3, <1>6, <2>2
  <1>11. ASSUME NEW k \in {role(I, i) : i \in plain(I)}
         PROVE  I.fields[Min(usual(I, k))].value = J.fields[Min(usual(J, k))].value
    <2>1. usual(I, k) # {} /\ usual(I, k) \subseteq Nat
      BY <1>2, <1>7, <1>11
    <2> HIDE DEF usual
    <2>2. Min(usual(I, k)) \in usual(I, k)
      BY <2>1, MinInSet
    <2> QED BY <1>3, <1>7, <2>2
  <1> HIDE DEF shown, plain, key, role, under, usual
  <1>12. named(I) = named(J)
    BY <1>8, <1>10
  <1>13. common(I) = common(J)
    BY <1>9, <1>11
  <1> HIDE DEF named, common
  <1> QED BY <1>1, <1>12, <1>13

LEMMA SameValues ==
  ASSUME NEW c, WellKept(c)
  PROVE  ItemValues(Connect(c)) = ItemValues(Sdk(c))
  <1>1. Connect(c).sections = Sdk(c).sections
    BY Reported
  <1>2. /\ Len(c.fields) \in Nat /\ DOMAIN Shared(c) = 1..Len(c.fields)
        /\ Connect(c).fields = [i \in 1..(Len(c.fields) + 1) |->
                                   IF i <= Len(c.fields) THEN Shared(c)[i] ELSE Notes(c)]
    BY ConnectFields DEF Shared
  <1>3. CASE c.notes # Empty
    <2>1. Sdk(c).fields = Connect(c).fields
      BY <1>3, SdkFields
    <2>2. DOMAIN Connect(c).fields \subseteq Nat
      BY <1>2
    <2> QED BY <1>1, <2>1, <2>2, ShownDecide
  <1>4. CASE c.notes = Empty
    <2>1. Sdk(c).fields = Shared(c)
      BY <1>4, SdkFields
    <2>2. Notes(c).value = Empty
      BY <1>4 DEF Notes, NotesField, Over
    <2> DEFINE n == Len(c.fields)
               F == Connect(c).fields
               G == Sdk(c).fields
    <2>3. n \in Nat /\ F = [i \in 1..(n + 1) |-> IF i <= n THEN G[i] ELSE Notes(c)] /\ DOMAIN G = 1..n
      BY <1>2, <2>1
    <2> HIDE DEF n, F, G
    <2>4. DOMAIN F \subseteq Nat /\ DOMAIN G \subseteq Nat
      BY <2>3
    <2>5. \A i \in DOMAIN F \cap DOMAIN G : F[i] = G[i]
      BY <2>3
    <2>6. \A i \in Nat : i \in DOMAIN F /\ F[i].value # Empty <=> i \in DOMAIN G /\ G[i].value # Empty
      BY <2>2, <2>3
    <2> QED BY <1>1, <2>4, <2>5, <2>6, ShownDecide DEF F, G
  <1> QED BY <1>3, <1>4

----------------------------------------------------------------------------
(* The field that a reference names *)

LEMMA FoundIsField ==
  ASSUME NEW I, DOMAIN I.fields \subseteq Nat, NEW ref, NEW f \in FindField(I, ref)
  PROVE  \E i \in DOMAIN I.fields : f = I.fields[i]
  <1> DEFINE matches   == {i \in DOMAIN I.fields : Addresses(I, ref, I.fields[i])}
             unsection == {i \in matches : I.fields[i].section = None}
             chosen    == IF Cardinality(matches) <= 1 THEN matches
                          ELSE IF ref.section = None /\ unsection # {} THEN {Min(unsection)}
                          ELSE {}
  <1>1. PICK i \in chosen : f = I.fields[i]
    BY DEF FindField
  <1>2. matches \subseteq DOMAIN I.fields /\ unsection \subseteq matches /\ unsection \subseteq Nat
    OBVIOUS
  <1>3. unsection # {} => Min(unsection) \in unsection
    BY <1>2, MinInSet
  <1> HIDE DEF matches, unsection
  <1>4. i \in DOMAIN I.fields
    BY <1>2, <1>3
  <1> QED BY <1>1, <1>4

LEMMA NotesAside ==
  ASSUME NEW I, NEW c, NEW ref, ~NamesNotes(ref)
  PROVE  ~Addresses(I, ref, Notes(c))
  <1>1. /\ Notes(c).id = <<"notesPlain">> /\ Notes(c).label = <<"notesPlain">>
        /\ Notes(c).purpose = <<"NOTES">> /\ Notes(c).section = None
    BY DEF Notes, NotesField, Over
  <1> QED BY <1>1 DEF Addresses, NamesNotes, NotesField

(* A reference finds the same field of both, unless it names empty notes. *)
LEMMA SameField ==
  ASSUME NEW c, WellKept(c), NEW ref,
         c.notes # Empty \/ ~NamesNotes(ref)
  PROVE  FindField(Connect(c), ref) = FindField(Sdk(c), ref)
  <1> DEFINE I == Connect(c)
             J == Sdk(c)
             n == Len(c.fields)
  <1>1. I.sections = J.sections
    BY Reported
  <1>2. /\ n \in Nat /\ DOMAIN Shared(c) = 1..n
        /\ I.fields = [i \in 1..(n + 1) |-> IF i <= n THEN Shared(c)[i] ELSE Notes(c)]
        /\ J.fields = IF c.notes = Empty THEN Shared(c) ELSE I.fields
    BY ConnectFields, SdkFields DEF Shared
  <1>3. ~Addresses(I, ref, Notes(c)) \/ c.notes # Empty
    BY NotesAside
  <1> HIDE DEF I, J, n
  <1>4. \A f : Addresses(I, ref, f) <=> Addresses(J, ref, f)
    BY <1>1 DEF Addresses, SectionLabel
  <1> DEFINE match(X)  == {i \in DOMAIN X.fields : Addresses(X, ref, X.fields[i])}
             open(X)   == {i \in match(X) : X.fields[i].section = None}
             chosen(X) == IF Cardinality(match(X)) <= 1 THEN match(X)
                          ELSE IF ref.section = None /\ open(X) # {} THEN {Min(open(X))}
                          ELSE {}
  <1>5. /\ FindField(I, ref) = {I.fields[i] : i \in chosen(I)}
        /\ FindField(J, ref) = {J.fields[i] : i \in chosen(J)}
    BY DEF FindField
  <1>6. ASSUME c.notes # Empty
        PROVE  FindField(I, ref) = FindField(J, ref)
    <2>1. I.fields = J.fields
      BY <1>2, <1>6
    <2>2. match(I) = match(J)
      BY <1>4, <2>1
    <2> HIDE DEF match
    <2> HIDE DEF chosen, open
    <2>3. open(I) = open(J)
      BY <2>1, <2>2 DEF open
    <2>4. chosen(I) = chosen(J)
      BY <2>2, <2>3 DEF chosen
    <2> QED BY <1>5, <2>1, <2>4
  <1>7. ASSUME c.notes = Empty
        PROVE  FindField(I, ref) = FindField(J, ref)
    <2>1. I.fields = [i \in 1..(n + 1) |-> IF i <= n THEN J.fields[i] ELSE Notes(c)]
      BY <1>2, <1>7
    <2>2. DOMAIN J.fields = 1..n
      BY <1>2, <1>7
    <2>3. \A i \in 1..(n + 1) : i \in 1..n <=> i <= n
      BY <1>2
    <2>4. \A i \in DOMAIN J.fields : i \in DOMAIN I.fields /\ I.fields[i] = J.fields[i]
      BY <1>2, <2>1, <2>2
    <2>5. ASSUME NEW i \in DOMAIN I.fields, Addresses(I, ref, I.fields[i])
          PROVE  i \in DOMAIN J.fields
      BY <1>3, <1>7, <2>1, <2>2, <2>3, <2>5
    <2>6. match(I) = match(J) /\ match(J) \subseteq DOMAIN J.fields /\ match(J) \subseteq Nat
      BY <1>4, <2>2, <2>4, <2>5
    <2> HIDE DEF match
    <2>7. open(I) = open(J) /\ open(J) \subseteq match(J)
      BY <2>4, <2>6
    <2>8. open(J) # {} => Min(open(J)) \in open(J)
      BY <2>6, <2>7, MinInSet
    <2> HIDE DEF open
    <2>9. chosen(I) = chosen(J)
      BY <2>6, <2>7
    <2>10. \A i \in chosen(J) : I.fields[i] = J.fields[i]
      BY <2>4, <2>6, <2>7, <2>8
    <2> HIDE DEF chosen
    <2> QED BY <1>5, <2>9, <2>10
  <1> QED BY <1>6, <1>7 DEF I, J

----------------------------------------------------------------------------
(* The file behind a field, and a document *)

Backs(file, f) == IF f.file # None THEN file.id = f.file ELSE file.field = f.id

LEMMA FileInEitherOrder ==
  ASSUME NEW d, NEW t, IsSequence(d), IsSequence(t),
         NEW f, \A i \in DOMAIN d : ~Backs(d[i], f)
  PROVE  FieldFile([files |-> d \o t], f) = FieldFile([files |-> t \o d], f)
  <1> DEFINE backing(s) == {i \in DOMAIN s : Backs(s[i], f)}
             A == backing(d \o t)
             B == backing(t)
  <1>1. /\ DOMAIN d = 1..Len(d) /\ DOMAIN t = 1..Len(t) /\ Len(d) \in Nat /\ Len(t) \in Nat
        /\ DOMAIN (d \o t) = 1..(Len(d) + Len(t)) /\ DOMAIN (t \o d) = 1..(Len(t) + Len(d))
        /\ \A i \in 1..Len(d) : (d \o t)[i] = d[i] /\ (t \o d)[Len(t) + i] = d[i]
        /\ \A y \in 1..Len(t) : (d \o t)[Len(d) + y] = t[y] /\ (t \o d)[y] = t[y]
    BY Joined
  <1>2. A \cap DOMAIN d = {}
    BY <1>1
  <1>3. \A y \in DOMAIN t : Len(d) + y \in DOMAIN (d \o t)
    BY <1>1
  <1>4. \A y \in DOMAIN t : y \in B <=> Len(d) + y \in A
    BY <1>1, <1>3
  <1>5. A \subseteq DOMAIN (d \o t) /\ B \subseteq DOMAIN t
    OBVIOUS
  <1>6. backing(t \o d) = B
    <2>1. \A i \in DOMAIN (t \o d) : i \in 1..Len(t) \/ \E y \in 1..Len(d) : i = Len(t) + y
      <3> DEFINE m == Len(t)
                 n == Len(d)
      <3> SUFFICES \A i \in 1..(m + n) : i \in 1..m \/ \E y \in 1..n : i = m + y
        BY <1>1
      <3>1. m \in Nat /\ n \in Nat
        BY <1>1
      <3> HIDE DEF m, n
      <3> QED BY <3>1, Places
    <2>2. \A i \in 1..Len(t) : i \in DOMAIN (t \o d)
      BY <1>1
    <2> QED BY <1>1, <2>1, <2>2
  <1>7. /\ FieldFile([files |-> d \o t], f) = IF A = {} THEN {} ELSE {(d \o t)[Min(A)]}
        /\ FieldFile([files |-> t \o d], f) =
             IF backing(t \o d) = {} THEN {} ELSE {(t \o d)[Min(backing(t \o d))]}
    BY DEF FieldFile, Backs
  <1> HIDE DEF backing, A, B
  <1>8. CASE B = {}
    <2>1. A = {}
      BY <1>2, <1>4, <1>5, <1>8, Behind
    <2> QED BY <1>6, <1>7, <1>8, <2>1
  <1>9. CASE B # {}
    <2>1. Min(B) \in B /\ Min(A) = Len(d) + Min(B)
      BY <1>2, <1>4, <1>5, <1>9, Behind
    <2>2. (d \o t)[Min(A)] = t[Min(B)] /\ (t \o d)[Min(B)] = t[Min(B)] /\ A # {}
      BY <1>1, <1>4, <1>5, <2>1
    <2> QED BY <1>6, <1>7, <1>9, <2>2
  <1> QED BY <1>8, <1>9

LEMMA SameFile ==
  ASSUME NEW c, WellKept(c), NEW i \in DOMAIN Connect(c).fields
  PROVE  FieldFile(Connect(c), Connect(c).fields[i]) = FieldFile(Sdk(c), Connect(c).fields[i])
  <1> DEFINE f == Connect(c).fields[i]
  <1>1. f.id # None /\ (f.file = None \/ \E j \in DOMAIN c.files : f.file = c.files[j].id)
    <2>1. CASE i <= Len(c.fields)
      <3>1. i \in 1..Len(c.fields) /\ f = Shared(c)[i] /\ DOMAIN c.fields = 1..Len(c.fields)
        <4>1. i \in 1..(Len(c.fields) + 1) /\ f = Shared(c)[i] /\ Len(c.fields) \in Nat
          BY <2>1, ConnectFields
        <4>2. DOMAIN c.fields = 1..Len(c.fields)
          BY DEF WellKept, IsSequence
        <4> QED BY <2>1, <4>1, <4>2
      <3>2. DOMAIN c.fields[i] = {"id", "label", "section", "value"} /\ c.fields[i].id # None
        BY <3>1 DEF WellKept
      <3>3. f.id = c.fields[i].id /\ f.file = FileOf(c.files, c.fields[i])
        BY <3>1, <3>2 DEF Shared, Over
      <3>4. \A g : FileOf(c.files, g) = None \/ \E j \in DOMAIN c.files : FileOf(c.files, g) = c.files[j].id
        <4> SUFFICES ASSUME NEW g
                     PROVE  FileOf(c.files, g) = None \/
                            \E j \in DOMAIN c.files : FileOf(c.files, g) = c.files[j].id
          OBVIOUS
        <4> DEFINE B == {j \in DOMAIN c.files : c.files[j].field # None /\ c.files[j].field = g.id}
        <4>1. DOMAIN c.files = 1..Len(c.files) /\ Len(c.files) \in Nat
          BY DEF WellKept, IsSequence
        <4>2. FileOf(c.files, g) = IF B = {} THEN None ELSE c.files[Max(B)].id
          BY DEF FileOf
        <4>3. B \subseteq DOMAIN c.files
          OBVIOUS
        <4> HIDE DEF B
        <4>4. B # {} => Max(B) \in B
          BY <4>1, <4>3, MaxInSet
        <4> QED BY <4>2, <4>3, <4>4
      <3> QED BY <3>2, <3>3, <3>4
    <2>2. CASE ~(i <= Len(c.fields))
      <3>1. f = Notes(c)
        BY <2>2, ConnectFields
      <3> QED BY <3>1 DEF Notes, NotesField, Over, None
    <2> QED BY <2>1, <2>2
  <1> HIDE DEF f
  <1>2. \A j \in DOMAIN c.document : ~Backs(c.document[j], f)
    BY <1>1 DEF WellKept, Backs
  <1>3. Connect(c).files = c.document \o c.files /\ Sdk(c).files = c.files \o c.document
    BY Reported
  <1>4. IsSequence(c.document) /\ IsSequence(c.files)
    BY DEF WellKept
  <1>5. \A I : FieldFile(I, f) = FieldFile([files |-> I.files], f)
    BY DEF FieldFile
  <1>6. FieldFile(Connect(c), f) = FieldFile(Sdk(c), f)
    <2>1. FieldFile([files |-> c.document \o c.files], f) = FieldFile([files |-> c.files \o c.document], f)
      BY <1>2, <1>4, FileInEitherOrder
    <2> QED BY <1>3, <1>5, <2>1
  <1> QED BY <1>6 DEF f

LEMMA DocumentInEitherOrder ==
  ASSUME NEW d, NEW t, IsSequence(d), IsSequence(t), Len(d) <= 1,
         \A i \in DOMAIN d : d[i].field = None,
         \A i \in DOMAIN t : t[i].field # None
  PROVE  DocumentFile([files |-> d \o t]) = DocumentFile([files |-> t \o d])
  <1> DEFINE m == Len(d)
             n == Len(t)
             f == d \o t
             g == t \o d
             docs(s) == {i \in DOMAIN s : s[i].field = None}
             only(s) == IF docs(s) = {} THEN DOMAIN s ELSE docs(s)
             picked(s) == IF Cardinality(only(s)) = 1 THEN {s[i] : i \in only(s)} ELSE {}
  <1>1. \A s : DocumentFile([files |-> s]) = picked(s)
    BY DEF DocumentFile
  <1>2. m \in Nat /\ n \in Nat /\ m <= 1 /\ DOMAIN d = 1..m /\ DOMAIN t = 1..n
    BY Joined
  <1>3. /\ DOMAIN f = 1..(m + n)
        /\ \A i \in 1..m : f[i] = d[i]
        /\ \A y \in 1..n : f[m + y] = t[y]
        /\ \A i \in DOMAIN f : i \in 1..m \/ \E y \in 1..n : i = m + y
    <2>1. DOMAIN f = 1..(m + n)
      BY Joined
    <2>2. \A i \in 1..m : f[i] = d[i]
      BY Joined
    <2>3. \A y \in 1..n : f[m + y] = t[y]
      BY Joined
    <2>4. \A i \in DOMAIN f : i \in 1..m \/ \E y \in 1..n : i = m + y
      <3> HIDE DEF m, n, f, g
      <3> QED BY <1>2, <2>1, Places
    <2> QED BY <2>1, <2>2, <2>3, <2>4
  <1>4. /\ DOMAIN g = 1..(n + m)
        /\ \A i \in 1..n : g[i] = t[i]
        /\ \A y \in 1..m : g[n + y] = d[y]
        /\ \A i \in DOMAIN g : i \in 1..n \/ \E y \in 1..m : i = n + y
    <2>1. DOMAIN g = 1..(n + m)
      BY Joined
    <2>2. \A i \in 1..n : g[i] = t[i]
      BY Joined
    <2>3. \A y \in 1..m : g[n + y] = d[y]
      BY Joined
    <2>4. \A i \in DOMAIN g : i \in 1..n \/ \E y \in 1..m : i = n + y
      <3> HIDE DEF m, n, f, g
      <3> QED BY <1>2, <2>1, Places
    <2> QED BY <2>1, <2>2, <2>3, <2>4
  <1>5. m = 0 => f = g
    <2>1. m = 0 => d = <<>>
      BY DEF IsSequence
    <2> QED BY <2>1, NothingJoined
  <1> HIDE DEF m, n, f, g
  <1>6. CASE m = 0
    BY <1>5, <1>6 DEF f, g
  <1>7. CASE m = 1
    <2>1. 1 \in DOMAIN d /\ 1 \in DOMAIN f /\ n + 1 \in DOMAIN g
      BY <1>2, <1>3, <1>4, <1>7
    <2>2. f[1] = d[1] /\ g[n + 1] = d[1] /\ d[1].field = None
      BY <1>2, <1>3, <1>4, <1>7, <2>1
    <2>3. \A i \in DOMAIN f : i = 1 \/ f[i].field # None
      BY <1>2, <1>3, <1>7
    <2>4. \A i \in DOMAIN g : i = n + 1 \/ g[i].field # None
      BY <1>2, <1>4, <1>7
    <2>5. docs(f) = {1} /\ docs(g) = {n + 1}
      BY <2>1, <2>2, <2>3, <2>4
    <2> HIDE DEF docs
    <2>6. only(f) = {1} /\ only(g) = {n + 1}
      BY <2>5
    <2> HIDE DEF only
    <2>7. Cardinality({1}) = 1 /\ Cardinality({n + 1}) = 1
      BY FS_Singleton
    <2>8. picked(f) = {d[1]} /\ picked(g) = {d[1]}
      BY <2>2, <2>6, <2>7
    <2> HIDE DEF picked
    <2> QED BY <1>1, <2>8 DEF f, g
  <1>8. m = 0 \/ m = 1
    BY <1>2
  <1> QED BY <1>6, <1>7, <1>8

LEMMA SameDocument ==
  ASSUME NEW c, WellKept(c)
  PROVE  DocumentFile(Connect(c)) = DocumentFile(Sdk(c))
  <1>1. \A I : DocumentFile(I) = DocumentFile([files |-> I.files])
    BY DEF DocumentFile
  <1>2. DocumentFile([files |-> c.document \o c.files]) = DocumentFile([files |-> c.files \o c.document])
    BY DocumentInEitherOrder DEF WellKept
  <1> QED BY <1>1, <1>2, Reported

----------------------------------------------------------------------------
(* What a reference is answered with is the same through either backend, unless
   it names notes that are empty. *)
LEMMA BackendsAgree ==
  ASSUME NEW c, WellKept(c), NEW ref,
         c.notes # Empty \/ WholeItem(ref) \/ ~NamesNotes(ref)
  PROVE  OpResolve(Connect(c), ref) = OpResolve(Sdk(c), ref)
  <1> DEFINE I == Connect(c)
             J == Sdk(c)
             isDoc(X) == Fold(X.category) = Fold(<<"DOCUMENT">>)
  <1>1. isDoc(I) <=> isDoc(J)
    BY Reported, FoldAssumption
  <1>2. DocumentFile(I) = DocumentFile(J) /\ ItemResult(I) = ItemResult(J)
    BY SameDocument, SameValues DEF ItemResult
  <1>3. ASSUME WholeItem(ref)
        PROVE  OpResolve(I, ref) = OpResolve(J, ref)
    <2> HIDE DEF I, J
    <2> QED BY <1>1, <1>2, <1>3 DEF OpResolve
  <1>4. ASSUME ~WholeItem(ref)
        PROVE  OpResolve(I, ref) = OpResolve(J, ref)
    <2> DEFINE answer(X, f) == IF IsFileRef(ref) \/ f.file # None
                               THEN FileResults(FieldFile(X, f), ref) ELSE {FieldResult(f)}
    <2>1. FindField(I, ref) = FindField(J, ref)
      BY <1>4, SameField
    <2>2. ASSUME NEW f \in FindField(I, ref)
          PROVE  FieldFile(I, f) = FieldFile(J, f)
      <3>1. DOMAIN I.fields \subseteq Nat
        <4>1. Len(c.fields) \in Nat /\ DOMAIN I.fields = 1..(Len(c.fields) + 1)
          BY ConnectFields
        <4> QED BY <4>1
      <3>2. PICK i \in DOMAIN I.fields : f = I.fields[i]
        BY <3>1, FoundIsField
      <3> QED BY <3>2, SameFile
    <2>3. /\ OpResolve(I, ref) = UNION {answer(I, f) : f \in FindField(I, ref)}
          /\ OpResolve(J, ref) = UNION {answer(J, f) : f \in FindField(J, ref)}
      BY <1>4 DEF OpResolve
    <2> HIDE DEF I, J
    <2>4. \A f \in FindField(I, ref) : answer(I, f) = answer(J, f)
      BY <2>2
    <2> HIDE DEF answer
    <2> QED BY <2>1, <2>3, <2>4
  <1> QED BY <1>3, <1>4

----------------------------------------------------------------------------
(* What each resolve can return is one result at most, unless two members of a
   JSON object share a key. *)

LEMMA AtMostOne ==
  ASSUME NEW S, IsFiniteSet(S), Cardinality(S) <= 1, NEW x \in S, NEW y \in S
  PROVE  x = y
  <1>1. Cardinality(S) \in Nat /\ S # {}
    BY FS_CardinalityType
  <1>2. Cardinality(S) # 0
    BY <1>1, FS_EmptySet
  <1>3. Cardinality(S) = 1
    BY <1>1, <1>2
  <1> QED BY <1>3, FS_Singleton

Listed(item) ==
  /\ IsFiniteSet(DOMAIN item.fields) /\ DOMAIN item.fields \subseteq Nat
  /\ IsFiniteSet(DOMAIN item.files) /\ DOMAIN item.files \subseteq Nat

LEMMA OneField ==
  ASSUME NEW I, Listed(I), NEW ref, NEW f \in FindField(I, ref), NEW g \in FindField(I, ref)
  PROVE  f = g
  <1> DEFINE matches   == {i \in DOMAIN I.fields : Addresses(I, ref, I.fields[i])}
             unsection == {i \in matches : I.fields[i].section = None}
             chosen    == IF Cardinality(matches) <= 1 THEN matches
                          ELSE IF ref.section = None /\ unsection # {} THEN {Min(unsection)}
                          ELSE {}
  <1>1. PICK i \in chosen : f = I.fields[i]
    BY DEF FindField
  <1>2. PICK j \in chosen : g = I.fields[j]
    BY DEF FindField
  <1>3. IsFiniteSet(matches)
    BY FS_Subset DEF Listed
  <1> HIDE DEF matches, unsection
  <1>4. i = j
    BY <1>3, AtMostOne
  <1> QED BY <1>1, <1>2, <1>4

LEMMA OneFile ==
  ASSUME NEW I, Listed(I)
  PROVE  /\ \A f, g \in DocumentFile(I) : f = g
         /\ \A h : \A f, g \in FieldFile(I, h) : f = g
  <1> DEFINE docs == {i \in DOMAIN I.files : I.files[i].field = None}
             only == IF docs = {} THEN DOMAIN I.files ELSE docs
  <1>1. IsFiniteSet(only)
    BY FS_Subset DEF Listed
  <1>2. DocumentFile(I) = IF Cardinality(only) = 1 THEN {I.files[i] : i \in only} ELSE {}
    BY DEF DocumentFile
  <1> HIDE DEF docs, only
  <1>3. Cardinality(only) = 1 => \A i, j \in only : i = j
    BY <1>1, AtMostOne
  <1>4. \A f, g \in DocumentFile(I) : f = g
    BY <1>2, <1>3
  <1>5. \A h : \A f, g \in FieldFile(I, h) : f = g
    BY DEF FieldFile
  <1> QED BY <1>4, <1>5

LEMMA OpOnce ==
  ASSUME NEW I, Listed(I), NEW ref, NEW r \in OpResolve(I, ref), NEW s \in OpResolve(I, ref)
  PROVE  r = s
  <1>1. ASSUME NEW files, \A f, g \in files : f = g
        PROVE  \A q, t \in FileResults(files, ref) : q = t
    <2> DEFINE made(f) == LET q == FileResult(f.name, f.data)
                          IN  IF ref.encoding = "base64"
                              THEN [q EXCEPT !.values = Without(@, Value)] ELSE q
    <2>1. \A q \in FileResults(files, ref) : \E f \in files : q = made(f)
      BY DEF FileResults
    <2> HIDE DEF made
    <2> QED BY <1>1, <2>1
  <1>2. ASSUME WholeItem(ref)
        PROVE  r = s
    <2>1. \A q, t \in FileResults(DocumentFile(I), ref) : q = t
      BY <1>1, OneFile
    <2> QED BY <1>2, <2>1 DEF OpResolve
  <1>3. ASSUME ~WholeItem(ref)
        PROVE  r = s
    <2> DEFINE answer(f) == IF IsFileRef(ref) \/ f.file # None
                            THEN FileResults(FieldFile(I, f), ref) ELSE {FieldResult(f)}
    <2>1. OpResolve(I, ref) = UNION {answer(f) : f \in FindField(I, ref)}
      BY <1>3 DEF OpResolve
    <2>2. \A f : \A q, t \in answer(f) : q = t
      <3>1. \A f : \A q, t \in FileResults(FieldFile(I, f), ref) : q = t
        BY <1>1, OneFile
      <3> QED BY <3>1
    <2> HIDE DEF answer
    <2> QED BY <2>1, <2>2, OneField
  <1> QED BY <1>2, <1>3

(* Both backends list the fields and files of an item. *)
LEMMA ItemsAreListed ==
  ASSUME NEW c, WellKept(c)
  PROVE  Listed(Connect(c)) /\ Listed(Sdk(c))
  <1>1. \A n \in Nat : IsFiniteSet(1..n) /\ 1..n \subseteq Nat
    BY FS_Interval
  <1>2. /\ Len(c.fields) \in Nat /\ DOMAIN Shared(c) = 1..Len(c.fields)
        /\ DOMAIN Connect(c).fields = 1..(Len(c.fields) + 1)
        /\ Sdk(c).fields = IF c.notes = Empty THEN Shared(c) ELSE Connect(c).fields
    BY ConnectFields, SdkFields DEF Shared
  <1>3. /\ Len(c.document) \in Nat /\ Len(c.files) \in Nat
        /\ DOMAIN Connect(c).files = 1..(Len(c.document) + Len(c.files))
        /\ DOMAIN Sdk(c).files = 1..(Len(c.files) + Len(c.document))
    <2>1. IsSequence(c.document) /\ IsSequence(c.files)
      BY DEF WellKept
    <2>2. /\ Len(c.document) \in Nat /\ Len(c.files) \in Nat
          /\ DOMAIN (c.document \o c.files) = 1..(Len(c.document) + Len(c.files))
      BY <2>1, Joined
    <2>3. DOMAIN (c.files \o c.document) = 1..(Len(c.files) + Len(c.document))
      BY <2>1, Joined
    <2>4. Connect(c).files = c.document \o c.files /\ Sdk(c).files = c.files \o c.document
      BY Reported
    <2> QED BY <2>2, <2>3, <2>4
  <1>4. \A m, n \in Nat : m + n \in Nat
    OBVIOUS
  <1>5. /\ Len(c.fields) + 1 \in Nat /\ Len(c.document) + Len(c.files) \in Nat
        /\ Len(c.files) + Len(c.document) \in Nat
    BY <1>2, <1>3, <1>4
  <1> QED BY <1>1, <1>2, <1>3, <1>5 DEF Listed

LEMMA JsonOnce ==
  ASSUME NEW s, ~Clashes(s), NEW q \in ExpandJSON(s), NEW r \in ExpandJSON(s)
  PROVE  q = r
  <1> DEFINE keys == {Clean(m) : m \in DOMAIN s.members} \ {None, Value}
             picks == {p \in [keys -> DOMAIN s.members] : \A k \in keys : Clean(p[k]) = k}
  <1>1. CASE ~s.json
    BY <1>1 DEF ExpandJSON
  <1>2. CASE s.json
    <2>1. ExpandJSON(s) = {Expansion(s, p) : p \in picks}
      BY <1>2 DEF ExpandJSON
    <2>2. ASSUME NEW p \in picks, NEW t \in picks
          PROVE  p = t
      <3>1. \A k \in keys : p[k] = t[k]
        BY <1>2 DEF Clashes
      <3> QED BY <3>1
    <2> HIDE DEF picks
    <2> QED BY <2>1, <2>2
  <1> QED BY <1>1, <1>2

LEMMA ResolvedOnce ==
  ASSUME NEW ref, ref.scheme \in Schemes, NEW via \in Sources, NEW c,
         ref.scheme = "op" => WellKept(c), ~Clashing(ref, c),
         NEW q \in Resolve(via, ref, c), NEW r \in Resolve(via, ref, c)
  PROVE  q = r
  <1>1. CASE ref.scheme = "op"
    <2>1. Listed(GetItem(via, c))
      BY <1>1, ItemsAreListed DEF Sources, Connect, Sdk
    <2> QED BY <1>1, <2>1, OpOnce DEF Resolve
  <1>2. CASE ref.scheme = "aws-ssm"
    <2>1. ~Clashes(c.plain) /\ ~Clashes(c.cipher)
      BY <1>2 DEF Clashing
    <2>2. Resolve(via, ref, c) = SsmResolve(c, ref)
      BY <1>2 DEF Resolve
    <2> QED BY <2>1, <2>2, JsonOnce DEF SsmResolve
  <1>3. CASE ref.scheme = "aws-sm"
    <2>1. ~(c.kind = "string" /\ Clashes(c.string))
      BY <1>3 DEF Clashing
    <2>2. Resolve(via, ref, c) = SmResolve(c, ref)
      BY <1>3 DEF Resolve
    <2> QED BY <2>1, <2>2, JsonOnce DEF SmResolve
  <1> QED BY <1>1, <1>2, <1>3 DEF Schemes

----------------------------------------------------------------------------
(* Where an answer comes from: a resolve, with the credentials the entry names,
   of a reference that shares its cache entry with the one it answers. *)

Origin(e, ref) ==
  /\ ref \in JobRefs /\ e.account \in Accounts
  /\ e.content \in Contents[Object(e.account, ref)]
  /\ Source[e.account] \in Sources /\ e.result \in Resolve(Source[e.account], ref, e.content)

(* The key of ref for account a. *)
IsKeyOf(k, a, ref) ==
  CASE ref.scheme = "op"      -> k = <<"op", a, RefString(ref)>>
    [] ref.scheme = "aws-ssm" -> k = <<"aws-ssm", SsmKey(ref)>>
    [] ref.scheme = "aws-sm"  -> k = <<"aws-sm", SmKey(ref)>>

StoredFor(k) ==
  \E ref \in JobRefs : IsKeyOf(k, store[k].account, ref) /\ Origin(store[k], ref)
ServedFor(i) ==
  /\ request[i].ref \in JobRefs
  /\ \E ref \in JobRefs :
       /\ SharesEntry(served[i].account, request[i].ref, served[i].from.account, ref)
       /\ Origin(served[i].from, ref)

OriginInv == (\A k \in DOMAIN store : StoredFor(k)) /\ \A i \in DOMAIN served : ServedFor(i)

LEMMA JobSchemes == \A ref \in JobRefs : ref.scheme \in Schemes
  BY RequestsAssumption DEF JobRefs

LEMMA CurrentRequested ==
  ASSUME IInv, outcome = "busy"
  PROVE  Current.ref \in JobRefs
  <1>1. request \in Requests /\ Len(served) < Len(request)
    BY DEF IInv, InProgress
  <1>2. Len(served) \in Nat
    BY DEF IInv, ServedSound
  <1>3. Len(served) + 1 \in DOMAIN request
    BY <1>1, <1>2, RequestsAssumption
  <1> QED
    BY <1>1, <1>3 DEF Current, JobRefs

(* The references that an entry can be found by are those that share it. *)
LEMMA KeysOfEntry ==
  ASSUME NEW s, s.scheme \in Schemes
  PROVE  /\ IsKeyOf(CacheKey(s), account, s) /\ SharesEntry(account, s, account, s)
         /\ \A b, t : t.scheme \in Schemes /\ IsKeyOf(CacheKey(s), b, t)
                        => SharesEntry(account, s, b, t)
  <1>1. CASE s.scheme = "op"
    BY <1>1 DEF CacheKey, IsKeyOf, SharesEntry, Schemes
  <1>2. CASE s.scheme = "aws-ssm"
    BY <1>2 DEF CacheKey, IsKeyOf, SharesEntry, Schemes, Secret, SsmKey
  <1>3. CASE s.scheme = "aws-sm"
    BY <1>3 DEF CacheKey, IsKeyOf, SharesEntry, Schemes, Secret, SmKey
  <1> QED BY <1>1, <1>2, <1>3 DEF Schemes

LEMMA AnswerOrigin ==
  ASSUME IInv, OriginInv, outcome = "busy", NEW r, NEW e, Answer(r, e),
         NEW ref \in JobRefs, SharesEntry(account, Current.ref, e.account, ref),
         Origin(e, ref)
  PROVE  (\A i \in DOMAIN served : ServedFor(i))'
  <1>1. request' = request
    BY DEF Answer
  <1>2. ASSUME NEW i \in DOMAIN served'
        PROVE  ServedFor(i)'
    <2>1. CASE i \in DOMAIN served
      BY <1>1, <2>1, AnswerAppends DEF OriginInv, ServedFor, Origin
    <2>2. CASE i = Len(served) + 1
      <3>1. served'[i] = [result |-> r, from |-> e, account |-> account]
        <4>1. served'[Len(served) + 1] = [result |-> r, from |-> e, account |-> account]
          BY AnswerAppends
        <4> QED BY <2>2, <4>1
      <3>2. served'[i].from = e /\ served'[i].account = account
        BY <3>1
      <3>3. request'[i] = Current
        BY <1>1, <2>2 DEF Current
      <3> QED
        BY <3>2, <3>3, CurrentRequested DEF ServedFor, Origin
    <2> QED
      BY <1>2, <2>1, <2>2, AnswerAppends
  <1> QED
    BY <1>2

LEMMA NextOrigin ==
  ASSUME IInv, account \in Accounts, OriginInv, [Next]_vars
  PROVE  OriginInv'
  <1>1. ASSUME NEW q \in Requests, NEW a \in Accounts, Begin(q, a)
        PROVE  OriginInv'
    <2>1. served' = <<>> /\ store' = store
      BY <1>1 DEF Begin
    <2>2. DOMAIN served' = {}
      BY <2>1
    <2> QED
      BY <2>1, <2>2 DEF OriginInv, StoredFor, Origin
  <1>2. CASE ServeCached
    <2>1. /\ outcome = "busy" /\ Key \in DOMAIN store /\ store' = store
          /\ Answer(FromCache(store[Key].values), store[Key])
      BY <1>2 DEF ServeCached
    <2>2. PICK ref \in JobRefs :
            IsKeyOf(Key, store[Key].account, ref) /\ Origin(store[Key], ref)
      BY <2>1 DEF OriginInv, StoredFor
    <2>3. SharesEntry(account, Current.ref, store[Key].account, ref)
      BY <2>1, <2>2, CurrentScheme, JobSchemes, KeysOfEntry DEF Key
    <2>4. (\A i \in DOMAIN served : ServedFor(i))'
      BY <2>1, <2>2, <2>3, AnswerOrigin
    <2> QED
      BY <2>1, <2>4 DEF OriginInv, StoredFor, Origin
  <1>3. CASE ServeLive
    <2>1. outcome = "busy"
      BY <1>3 DEF ServeLive
    <2> PICK c \in Contents[Object(account, Current.ref)] :
          \E r \in Resolve(Source[account], Current.ref, c) :
            Answer(r, Entry(r, c)) /\ (Put(Key, Entry(r, c)) \/ UNCHANGED store)
      BY <1>3 DEF ServeLive
    <2>2. PICK r \in Resolve(Source[account], Current.ref, c) :
            Answer(r, Entry(r, c)) /\ (Put(Key, Entry(r, c)) \/ UNCHANGED store)
      OBVIOUS
    <2> DEFINE e == Entry(r, c)
    <2>3. e.content = c /\ e.result = r /\ e.account = account /\ Source[account] \in Sources
      BY SourceAssumption DEF Entry
    <2> HIDE DEF e
    <2>4. Current.ref \in JobRefs /\ Origin(e, Current.ref)
      BY <2>1, <2>3, CurrentRequested DEF Origin
    <2>5. Answer(r, e) /\ (Put(Key, e) \/ UNCHANGED store)
      BY <2>2 DEF e
    <2>6. /\ IsKeyOf(Key, account, Current.ref)
          /\ SharesEntry(account, Current.ref, account, Current.ref)
      BY <2>1, CurrentScheme, KeysOfEntry DEF Key
    <2>7. (\A i \in DOMAIN served : ServedFor(i))'
      BY <2>1, <2>3, <2>4, <2>5, <2>6, AnswerOrigin
    <2>8. \A k \in DOMAIN store' : (k = Key /\ store'[k] = e) \/ (k \in DOMAIN store /\ store'[k] = store[k])
      BY <2>5 DEF Put, Over, Single
    <2>9. (\A k \in DOMAIN store : StoredFor(k))'
      BY <2>3, <2>4, <2>6, <2>8 DEF OriginInv, StoredFor, Origin
    <2> QED
      BY <2>7, <2>9 DEF OriginInv
  <1>4. CASE Fail \/ UNCHANGED vars
    BY <1>4 DEF Fail, vars, OriginInv, StoredFor, ServedFor, Origin
  <1> QED
    BY <1>1, <1>2, <1>3, <1>4 DEF Next

LEMMA OriginInvariance == Spec => []OriginInv
  <1>1. Init => OriginInv
    <2> SUFFICES ASSUME Init PROVE OriginInv
      OBVIOUS
    <2>1. DOMAIN store = {} /\ DOMAIN served = {}
      BY DEF Init
    <2> QED
      BY <2>1 DEF OriginInv
  <1>2. IInv /\ account \in Accounts /\ OriginInv /\ [Next]_vars => OriginInv'
    BY NextOrigin
  <1> QED
    BY <1>1, <1>2, Invariance, MergeInvariance, PTL DEF Spec

(* Items in use are items an account can keep. *)
LEMMA OriginWellKept ==
  ASSUME NEW e, NEW ref, Origin(e, ref), ref.scheme = "op"
  PROVE  ref \in OpRefs /\ WellKept(e.content)
  BY ItemsAssumption DEF Origin, OpRefs

(***************************************************************************)
(* Whatever the cache holds and whoever filled it, nothing beyond the cache  *)
(* key decides an answer: it is the one answer some reference with that key  *)
(* has for something its secret may hold, in the account of the fetch for    *)
(* 1Password and in some account for AWS; one of several answers only for a  *)
(* JSON object of which two members get one key (plugin.go:238-280,          *)
(* onepassword.go:101-111, awsssm.go:121, awssm.go:133, jsonexpand.go:27).   *)
(***************************************************************************)
THEOREM KeysDecideAnswers == Spec => []KeyDecidesAnswer
  <1>1. IInv /\ OriginInv => KeyDecidesAnswer
    <2> SUFFICES ASSUME IInv, OriginInv, NEW i \in DOMAIN served
                 PROVE  \E b \in Accounts, t \in JobRefs :
                          /\ SharesEntry(served[i].account, request[i].ref, b, t)
                          /\ \E c \in Contents[Object(b, t)] :
                               LET answers == {r.values : r \in Resolve(Source[b], t, c)}
                               IN  /\ served[i].result.values \in answers
                                   /\ Clashing(t, c) \/ answers = {served[i].result.values}
      BY DEF KeyDecidesAnswer
    <2> DEFINE e == served[i].from
               answers(t) == {r.values : r \in Resolve(Source[e.account], t, e.content)}
    <2>1. PICK t \in JobRefs : /\ SharesEntry(served[i].account, request[i].ref, e.account, t)
                               /\ Origin(e, t)
      BY DEF OriginInv, ServedFor
    <2>2. served[i].result.values = e.result.values
      <3>1. Justified(served[i])
        BY DEF IInv, ServedSound
      <3>2. FromCache(e.result.values).values = e.result.values
        BY DEF FromCache
      <3> QED BY <3>1, <3>2 DEF Justified
    <2> HIDE DEF e
    <2>3. e.result.values \in answers(t)
      BY <2>1 DEF Origin
    <2>4. ASSUME ~Clashing(t, e.content)
          PROVE  answers(t) = {e.result.values}
      <3>1. t.scheme \in Schemes
        BY JobSchemes
      <3>2. \A r \in Resolve(Source[e.account], t, e.content) : r = e.result
        BY <2>1, <2>4, <3>1, OriginWellKept, ResolvedOnce DEF Origin
      <3> QED BY <2>3, <3>2
    <2>5. e.account \in Accounts /\ e.content \in Contents[Object(e.account, t)]
      BY <2>1 DEF Origin
    <2> QED BY <2>1, <2>2, <2>3, <2>4, <2>5
  <1> QED
    BY <1>1, Invariance, OriginInvariance, PTL

(***************************************************************************)
(* Whatever an item holds, what answers a 1Password reference - live, from   *)
(* the cache of today or of yesterday - is what the other backend would make *)
(* of that item, so a node may be moved from one backend to the other.  The  *)
(* exception is a reference to notes that are empty; and where references    *)
(* print alike, as CacheKey tells them not apart, the answer is that of one  *)
(* of them (serviceaccount.go:146-220, connect/client.go:162-208).           *)
(***************************************************************************)
THEOREM EitherBackendWillDo == Spec => []BothBackendsAlike
  <1>1. OriginInv => BothBackendsAlike
    <2> SUFFICES ASSUME OriginInv, NEW i \in DOMAIN served, request[i].ref.scheme = "op"
                 PROVE  \E t \in OpRefs :
                          /\ RefString(t) = RefString(request[i].ref)
                          /\ \/ /\ served[i].from.content.notes = Empty
                                /\ ~WholeItem(t) /\ NamesNotes(t)
                             \/ \A via \in Sources :
                                  \E r \in Resolve(via, t, served[i].from.content) :
                                    r.values = served[i].from.result.values
      BY DEF BothBackendsAlike
    <2> DEFINE e == served[i].from
               c == e.content
    <2>1. PICK t \in JobRefs : /\ SharesEntry(served[i].account, request[i].ref, e.account, t)
                               /\ Origin(e, t)
      BY DEF OriginInv, ServedFor
    <2>2. t \in OpRefs /\ t.scheme = "op" /\ RefString(t) = RefString(request[i].ref)
      BY <2>1 DEF SharesEntry, OpRefs
    <2> HIDE DEF e
    <2>3. ASSUME c.notes = Empty => WholeItem(t) \/ ~NamesNotes(t), NEW via \in Sources
          PROVE  \E r \in Resolve(via, t, c) : r.values = e.result.values
      <3>1. WellKept(c)
        BY <2>1, <2>2, OriginWellKept
      <3>2. \A w : Resolve(w, t, c) = OpResolve(GetItem(w, c), t)
        BY <2>2 DEF Resolve
      <3> HIDE DEF c
      <3>3. OpResolve(Connect(c), t) = OpResolve(Sdk(c), t)
        BY <2>2, <2>3, <3>1, BackendsAgree
      <3>4. \A v, w \in Sources : Resolve(v, t, c) = Resolve(w, t, c)
        BY <3>2, <3>3 DEF Sources, Connect, Sdk
      <3> QED BY <2>1, <3>4 DEF Origin, c
    <2> QED BY <2>2, <2>3 DEF e
  <1> QED
    BY <1>1, OriginInvariance, PTL
=============================================================================
