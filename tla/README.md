# A formal model of remote-secrets

`remote-secrets` is a Nomad secret provider. Nomad executes the binary once per
`secret {}` block; each execution resolves its references against 1Password or
AWS and prints one JSON response. The processes are short-lived and independent,
and meet only in the cache directory, where entries and advisory lock files
live. What is hard to get right is what happens there, at the same time, under a
deadline, with processes that Nomad may kill.

This directory holds TLA+ modules translated from the source, TLC instances that
model-check them, and theorems checked by TLAPS.

## Inventory

| Component | State it keeps | Operations | Interacts with | What makes it correct |
|---|---|---|---|---|
| Disk cache (`internal/cache/cache.go`) | entry files, temporary files | `New`, `Get`, `Stale`, `Put` | all fetch processes, through the file system | an entry is a value the backend held; its age bounds what is served; no temporary file outlives a live process |
| Lock (`internal/cache/lock.go`, `lock_other.go`) | lock files, `flock` ownership | `Lock`, the release function | all fetch processes, the kernel | exclusion per key, one lock per process, freed on any exit |
| Fetch protocol (`internal/plugin/plugin.go`) | deadline, store, merged response, the resolve goroutine's channel | `Fetch`, `fetch`, `fetchOne`, `cached`, `resolveWithin`, `newRegistry`, `sanitizeAWSEnv` | cache, providers, Nomad | a complete response or none; concurrent fetches collapse; every fetch ends in its budget; no SDK sees an `AWS_*` variable |
| Configuration (`internal/plugin/config.go`) | none | `LoadConfig`, `tokenSetting`, `durationSetting`, `parseEnvFile` | host file, environment | the host file wins per key; a half-configured backend is an error |
| Check command (`internal/plugin/check.go`) | exit code | `Check`, `hintFor` | providers, cache directory | every problem is reported, none hides another; a good check is followed by a good fetch |
| References (`internal/provider/reference.go`, `provider.go`) | registry | `SplitEntries`, `Scheme`, `Route`, `Register` | fetch, check | every entry goes to the backend its scheme names; no entry is dropped |
| Value expansion (`jsonexpand.go`, `fileresult.go`) | none | `ExpandJSON`, `FileResult`, `SanitizeKey` | providers | the same secret gives the same keys |
| 1Password (`internal/provider/onepassword/...`) | lazily authenticated SDK client | `CacheKey`, `Resolve`, `Ping`, two sources | Connect server, SDK | a reference selects the field or file it names, through either source |
| AWS (`awssm`, `awsssm`) | lazily built SDK client | `CacheKey`, `Resolve`, `Ping` | AWS SDK | as above; options of a reference are honoured |
| Command line (`main.go`) | none | dispatch | all | - |

Hard behaviours: several processes that miss one cold key at once; a lock whose
holder is slow, killed or dead; a wait that eats the budget of the work it waits
for; an answer that races the deadline; a `Put` delayed between reading the
backend and stamping the entry; a failure half way through a list of references;
flags that do not survive the cache; a wall clock that is set back and durations
that overflow; a resolve goroutine that is left behind while its process goes on;
two commands that must agree and read the world separately. `PROJECT.json` lists
each one, at its line.

## Modules

`DiskCache` is the cache directory: `cache[k]` is the entry file of key `k`,
`tmp[p]` the temporary file process `p` has created, `flock[k]` the owner the
kernel records for the lock file. Its operators are the pieces of `Get`
(`Fresh`), `Stale` (`Usable`), `Put` (`StampEntry`, `RenameEntry`, `DropEntry`)
and `Lock` (`LockFree`, `TakeLock`, `WithoutLocks`). A secret's value is
abstracted to the version number of the backend's value; version 0 is "no file".

`FetchCache` extends it with the processes. `pc[p]` says where in `fetchOne`
process `p` is: `lookup` (first `Get`), `lock` (about to poll in `Lock`), `wait`
(between two polls), `recheck` (second `Get`), `await` (in `resolveWithin`),
`rename` (in `Put`). `Refs[p]` is its list of references, `out[p]` its answers
so far, so `Len(out[p]) + 1` is the loop index of `fetch`. `deadline[p]` is its
context, `store[p]` whether `cache.New` worked, `lock[p]` how its last `Lock`
ended, `call[p]` the goroutine of `resolveWithin` and its buffered channel.
`retired[k][v]` remembers when version `v` was rotated away, which is what the
freshness properties need.

The code between two of these places only touches the process's own variables,
so it is one action; everything another process, the kernel, the backend or the
clock can get between is a separate one. In particular reading the backend,
stamping the entry and renaming it are three actions, and `select`'s choice
between a finished context and a finished resolve is nondeterministic
(`GiveUp`). `fetchOne`'s deferred release is part of the action that returns.
The environment (`Tick`, `Rotate`, `Kill`, the backend's answers, and the
failures in `Faults`) is external. All providers report every reference as
cacheable, so that flag is not modelled. Only the secrets in `Rotating` are
rotated, which keeps an instance with several keys small.

`SecretService` is what Nomad is promised, without cache, lock or deadline: a
request gets a complete reply of values the backend held recently enough, or no
reply. `FetchService` maps `FetchCache` onto it.

`Results`, `OnePassword` and `AwsSecrets` are the pure part of the providers: the
results a secret can be turned into, the selection of fields and files, cache
keys, and what the merge does with a result. A name is the sequence of its parts
between underscores, so that prefixing a key is concatenation; a segment of a
reference is the sequence of its parts between slashes, so that an escaped slash
can be told from a separator. Values are texts, plain or base64.

`FetchMerge` runs one fetch after another over them. `served[i]` is what entry
`i` was answered with and which cache entry or resolve it came from, `merged`
the response built so far, `store` the cache. It leaves out what `FetchCache`
has: processes, time and locks. Whether an entry in the cache is used, live data
fetched or the fetch fails is open at every entry, which covers fresh, stale and
expired entries alike. The credentials may be another account's at every fetch:
`Source[account]` is the 1Password backend it is reached through, and `Object` takes
the account too, because two accounts may keep different secrets under one name.

`OpSources` is what lies between a 1Password account and the item the provider
works on: `ConnectItem` and `SdkItem` are the two services' reports of one item
(external), `FromConnect` and `FromSdk` the two functions called `toOpItem`,
`FileOf` the map from a field to the file behind it.

`OpLookup` is one resolve of a 1Password reference as the sequence of requests it
is: through Connect (`VaultById`, `VaultByName`, `ItemById`, `ItemByTitle`) or
the SDK (`Authenticate`, `ListVaults`, `ListItems`), then `ReadItem` and
`ReadContent`, with edits of the account between any two and a failure of any.
Every item is a document, the longest path through `resolve`. Replacing a
document changes its size and keeps its ID; the SDK's two calls for the content
are one action.

`Durations` is `durationSetting` with the width of a `time.Duration`: the product
of a number and a second wraps, a spelled duration does not.

`Config` is `LoadConfig` as a function of a site: the host files in the order
they are tried, the environment, and what the token files hold. An error is the
empty set, a configuration a set of one, and so for each setting; `Loaded` is
then a set of records over the settings' sets, and any error empties it.
`Registered` is `newRegistry`, `SanitizeAWSEnv` the removal of `AWS_*`. A text that
ends in slashes is one of `Trimmed`, so that `/` is a host or endpoint that is not
there.

`References` is `SplitEntries`, `Scheme` and `Route`. A path is a sequence of
lines, a line a comment or the parts between its commas, a part one of four
kinds. The kind of a part stands for the regular expression that decides it.

`Invocation` composes them: in one world, an operator's `check` and then Nomad's
`fetch`. `pc` is the place in `Check` or `fetch`, `env`, `cfg` and `ctx` its
environment, configuration and context, `entries` and `answers` its loop,
`cached` the cache directory. `work[i]` is the goroutine that `resolveWithin`
starts for entry `i`, with the steps that matter to the clients the providers
build on first use (`ensure`, `build`, `request`); `abandoned` are the goroutines
nobody waits for, `builder` the goroutine whose client a provider keeps. A
goroutine that reads a client stored by an abandoned one, or an abandoned one that
reads a client stored later, reads it without synchronisation: `Seen` leaves open whether it finds nothing, the client, or the
pointer before what it points to, and the last one ends in a crash. The
processes of `FetchCache` are not here, nor the values of `FetchMerge`. `check`
and `fetch` see the same world, because a secret that changes in between is no
fault of either.

`NodeCache` is the age of a cache entry on a node whose clock is set. An entry
is stamped with `wall` and read back from JSON, so its age is a difference of
wall clocks; `real`, `back` and `ahead` know better. `text` is what the operator
has written, `conf` what the fetch in progress has read of it. One reference and
one fetch at a time: the interleavings are in `FetchCache`, with a clock that
only advances.

The modules whose names begin with `MC` give the constants values for TLC.

Definitions marked "slip" are mistakes the code could have made; each property
is known to fail when a slip replaces the definition it stands next to.

## What the runs check

| Run | Instance | What it shows |
|---|---|---|
| `FetchCache_faults` | 2 processes, 1 key, all 7 faults, 3 versions, TTL 1, MaxStale 2, clock to 5 | `TypeOK`; `ServedWithinWindow`: whatever fails, an answer was the backend's value within the age the cache tolerates plus one kill window; `TempFilesRemoved` |
| `FetchCache_collapse` | 3 processes, 1 key, working locks, writers that fail or die, 2 versions, clock to 4 | `OneResolverPerKey`, `NoResolveWhileFresh`, `CacheNeverRegresses` |
| `FetchService_refines` | 2 processes, references k1 k2 and k2 k1 k3 with k3 rejected, TTL 0, MaxStale 1, outages and kills, 2 versions of k1, clock to 4 | `LockFollowsReference`, `MutualExclusion`, `HoldersNeverWait`, `NeverBlockedPastDeadline`, `EveryStepCounts`, and under fairness `EveryFetchEnds`; `ImplementsService`: every step of the protocol is a step of the service or none |
| `FetchMerge_mixed` | 2 accounts, one on Connect and one on the SDK, with different secrets; three bare references and three blocks of two entries, over a login, a document, a parameter and a secret that change content | `WarmLikeCold`, `NoSilentEmpty`, `NamesStayApart`, `OpScoped`, `BothBackendsAlike`; `KeyDecidesAnswer`: nothing beyond the cache key decides an answer, whatever was cached before |
| `OpLookup_edits` | 2 vaults, 2 documents, names that are IDs or differ in case, 2 edits, any failure | `AnswersWhatItNames`, `FileWithinLimit` |
| `Invocation_worlds` | 7,200 worlds: 10 host file set-ups, 4 environments, 10 paths, 6 sets of failures, 3 states of the cache | `TypeOK`; `CheckPredictsFetch`, `CheckReportsAll`, `HostFileDecides`, `DescribesRegistered`, `SdkSeesOnlyConfig`, `BuildsWhenNeeded` |
| `NodeCache_clock` | durations of 4 bits, clock set by 2 each way, 5 units of time | `TypeOK`; `HitWithinTTL`, `StaleWithinMaxAge`: no answer is older than the operator asked for, plus what the clock was set back; `OffMeansOff` |
| `FetchCache_lock_wait` | no fault at all | violated: a wait for the lock does make a fetch fail |
| `FetchMerge_object` | as `FetchMerge_mixed` | violated: a cached JSON object is merged as a scalar |
| `FetchMerge_options` | one account, one parameter with and without decryption | violated: one is answered with the other's value |
| `FetchMerge_accounts` | two accounts, the same parameter | violated: one account is answered with the other's |
| `Invocation_abandoned` | as `Invocation_worlds` | violated: a process goes on beside a goroutine it abandoned |

Bounds. Two processes are enough for every pairwise race of the protocol; the
third in `FetchCache_collapse` lets two waiters compete after the holder leaves
or dies. `Timeout` is 1 tick and `KillWindow` 2 (1 in the refinement run), so a
process can be late by as much as its budget. `MaxTime` leaves room for an entry
to be put late, to expire and to be served by a process that starts afterwards;
`Start` only allows processes whose kill window fits before `MaxTime`, so the end
of the clock never cuts a fetch short. `MaxVer` 3 allows a value to be two
rotations behind. Deadlock is not checked because the system does stop: its
processes are one-shot.

In `FetchMerge_mixed` the contents are chosen so that each kind of result occurs:
a login with and without a field named `value`, a document, a parameter that is a
scalar, a secret that is binary or a JSON object with two members that clean to one
key. The parameter is asked for with and without decryption, and two references to
the login print alike; the accounts differ in what the login and the parameter hold.
To keep the states few, the second account has one content of each. The login has a section and notes,
which the two backends report differently. Blocks of two entries are enough for
one to overwrite a key of the other; one block mixes names where one continues
the other, which `NamesStayApart` excludes (the last entry then wins silently).
`KeyDecidesAnswer` excepts nothing, and says for what the code leaves open how far it
goes (`SharesEntry`, `Clashing`): a 1Password answer may be that of a reference that
prints alike, an AWS answer that of other options or of another account, and a JSON
object with two members for one key has several. All four occur in the instance.
`OpLookup_edits` has two of each object, so that there is always a decoy; two
edits let one object leave and another take its name.

In `Invocation_worlds` the host files are absent, unreadable, malformed, complete
for either backend, half complete, with an empty or lost token file, or with a
key assigned twice; the paths are empty, bare, without a scheme, with comments,
duplicate or missing names, or with a reference that its provider rejects. A
second is one unit and a Duration has 18 bits, so that 200000 seconds wrap to a
negative one. Up to three entries let two goroutines of one provider meet, with
another provider beside them.

In `NodeCache_clock` a second is two units of a four-bit Duration: "5" wraps to a
negative Duration and "9" to one second. `MaxReal` 5 lets an entry of the longest
Duration among the texts, three units, expire; `MaxSet` 2 lets an entry come from
the future.

Fairness (`FairSpec`): a process that can move eventually does, and time
passes. The operating system's scheduler and the polling loop of `Lock` justify
the first: a poll is only sure to find the lock if it stays free, which is what
weak fairness says. Nothing is assumed of the backend, which may never answer,
nor of locks being granted in turn. Weak fairness does not say that a process
runs before Nomad's kill window is over, so `EveryFetchEnds` counts a killed
process as ended; `NeverBlockedPastDeadline` adds that a process past its
deadline always has a step of its own to take.

### The violated statements

`LockNeverFailsFetch` (`docs/user-guide.md:572`, `lock.go:29`). `Lock` waits
until the context of the whole fetch is done; the unlocked resolve that follows
gets that same context and gives up at once. A process queued behind a slow
holder fails, although the documentation says the lock never fails a fetch.

`CacheTransparent` (`plugin.go:320`, `docs/user-guide.md:262`). The cache stores
no `Object` flag, and `isObject` takes whatever has a key `value` for a scalar.
JSON objects always have it. `creds = aws-sm:...` yields `creds_username` and so
on the first time and the single key `creds` from the cache. `WarmLikeCold` is
what holds: every result without that key is merged alike.

`AnswersReference` (`docs/user-guide.md:283`, `:542`). The cache keys of the AWS
providers leave the options of a reference out. The first of two references that
differ in `?decrypt` to be fetched decides what both are answered with until the
entry expires.

`NeverSharedAcrossAccounts` (`docs/user-guide.md:542-543`). Entries are said to be
"keyed by backend + token digest + reference", and never shared across accounts or
tokens. That holds for 1Password, whose key has a digest of the token (`OpScoped`).
The AWS keys are region, endpoint and name (`awsssm.go:121`, `awssm.go:133`): when the
profile or the access key of a node is changed, entries of the former account answer
until they expire, and after an error until they are too stale.

`AbandonsAtExit` (`plugin.go:290-291`, `:251-257`, `:307`). "Acceptable precisely
once: the process is a one-shot fetch that exits as soon as this call returns" -
but when a stale entry answers the reference, the loop goes on to the next one.
Its resolve then runs beside the abandoned goroutine on the same provider, whose
client is stored without synchronisation (`onepassword.go:133-143`,
`awssm.go:211-238`, `awsssm.go:169-196`). By then the context of the fetch is
done, so the second resolve seldom gets far.

Met on the way and not the subject of a run:

* `Put` stamps the entry with its own time, not that of the backend read
  (`cache.go:81`), so a rotation may stay hidden for the TTL plus the time of a
  fetch, where `docs/user-guide.md:584` says the TTL. `ServedWithinWindow` is the
  bound that holds.
* Any error of a resolve leads to the stale entry, also an answer that the secret
  is gone or the token invalid (`plugin.go:251`); `plugin.go:207` and
  `docs/user-guide.md:539` speak of a backend that is unreachable.
* Only a line that begins with `#` is a comment (`reference.go:57`). In the block that
  `docs/user-guide.md:260-263` shows, the comment after a reference is part of it and
  the comma in the comment starts an entry that has no name, so the whole path is
  rejected. `Invocation_worlds` has this block among its paths.
* The cache key of a 1Password reference is a rendering that does not escape
  slashes (`opref.go:34`): two references that print alike share an entry.
* The SDK source compares names ignoring case (`serviceaccount.go:62`, `:91`)
  where `docs/user-guide.md:183` says they must match exactly.
* The notes of an item that are empty are answered as an empty text through
  Connect; through the SDK the field does not exist.
* `?binary=true` on a secret string ends in an error (`awssm.go:161-190`) where
  `docs/user-guide.md:286` promises `value_base64`.
* A token in the environment is preferred to a token file that the host file
  names, because each of the two keys is looked up on its own.
* `OP_REQUEST_TIMEOUT` of zero, or so large that it wraps to a negative Duration,
  finishes the context of every fetch before it begins; a check fails alike.
* A cluster with AWS alone registers two schemes, so a reference without one is
  rejected there, although `plugin.go:42-44` keeps the fallback for a single
  backend.

## What is proved

`FetchCacheProofs` proves for every set of processes, keys, reference lists,
ages, time-outs and faults:

* `TypeCorrect`: `TypeOK` together with `OutBounded` (a working process has
  fewer answers than references), without which `Key(p)` need not be a key.
* `LocksFollowReferences` and `LocksExclude`. `LockFollowsReference` is not
  inductive: a step that starts a resolve must know whether the lock was held.
  `LockPlace` adds where a process that holds a lock can be. The returning and
  exiting actions share one lemma each.
* `TempsAreRemoved`: a process has a temporary file only while it is about to
  rename it, or if it died there.
* `WaitsNeverChain`: whoever holds the lock another process waits for is past its
  own wait. It follows from `LockPlace` and `LockFollowsReference`; no order of
  the references is assumed.
* `FetchesAreFinite`: `StepsLeft(p)`, seven for each reference not yet answered and
  one for the start, decreases with every change of `p`, also with an answer that
  arrives and with a kill. It needs no more than the types.
* `NobodyIsBlocked` says with the guards of the steps (`CanStep`) what
  `NeverBlockedPastDeadline` says with `ENABLED`, and more: before the deadline a
  live process waits only for a lock that another one holds or for its own
  goroutine. `Prepared` is the invariant it needs: a process under a lock has a
  store, one that awaits has a goroutine.

Together the last three are the safety half of `EveryFetchEnds`: past its
deadline a process can always move, and it can move finitely often. What is left
to TLC is the appeal to weak fairness.

`FetchWindowProofs` proves `AnswersWithinWindow`. The invariant follows a value
along its way: in the channel it was read after the process started
(`ChannelRecent`), in a temporary file or an entry it was read at most a kill
window before its stamp (`TempRecent`, `CacheRecent`), in an answer it is within
the window of its source (`AnswersRecent`). It rests on `InItsWindow`: a running
process started at most a kill window ago, because Nomad kills it.

`FetchCollapseProofs` proves `FetchesCollapse`, `ResolvesAreNeeded` and
`CacheMovesForward` under `Reliable`: locks can be taken and entries read.
`CachersHoldLock` says that only a lock holder with an unfinished context is on
its way to the backend for the cache, and that it holds the lock until its `Put`
is over; a process whose wait expired has a finished context and never gets a
value to put. `ChannelAhead` says that a value found under the lock is no older
than the entry it will replace.

`FetchServiceProofs` proves `FetchesImplementService`: `FetchCache` implements
`SecretService`. Taking the last answer is the service's reply, an exit without a
complete response its refusal; a rotation and a tick are themselves; every other
step, whether it polls a lock, resolves, renames an entry or answers a reference
that is not the last, changes nothing a job can see. Each of these is a lemma. The
one that takes an argument is the age of a reply: every answer of the reply was
given since the process started (`AnswersSinceStart`), so at most a kill window
ago, and was then within the window of its source, so the value the job gets is
older than `OldestAge` by two kill windows at most. `WindowInv` of
`FetchWindowProofs` is the other part of the invariant.

`FetchMergeProofs` proves `NeverSilentlyEmpty`, `CacheKeepsShape` and
`OpKeepsToItsAccount` for every content, reference, account and every `Clean` and
`Fold`. The invariant says that each result a provider returns is `Readable`
(expanded, or with a `value`), that cached entries hold the values of such a
result, and that an answer is the result it comes from or its reconstruction.
For accounts: a 1Password key in the cache names the account that wrote it.
`SeparateNamesStayApart` adds that keys are names (`KeysNamed`), that the
response holds the contribution of every entry answered so far (`KeptSoFar`), and
a fact about sequences (`ContributionsApart`): two names of which neither
continues the other have no key in common, whatever is appended to them.

`EitherBackendWillDo` has two parts. `BackendsAgree` is about one item: what Connect
and the SDK report of it differs in a field for empty notes, which a reference to
another field passes over (`FrontBacksNothing`), in where a document stands among the
files, which no reference to a field sees, and in the spelling of the category, which
is folded. The lookup goes by first and last positions, hence the lemmas on how `Min`
and `Max` of a set of positions move when the sequence does. The other part is about the
cache. `OriginInv` says that an entry under the key of a reference, and so every
answer, came from a resolve, with the account the entry names, of a reference that
has the same key. For 1Password the key is a text, so the answer may be that of
another reference that prints alike, and the theorem says no more than that.

`KeysDecideAnswers` follows from the same `OriginInv`, for all three schemes. The
1Password part of a key also names the account (`IsKeyOf`); the AWS part does not, so
of an AWS entry it only says that it is of some account.
The rest of it is that a resolve has one result: a reference selects one field
or file by a first or last position (`OpOnce`), and of a JSON object each key is
filled by one member unless two of them clean to it (`JsonOnce`); `ResolvedOnce` puts
these together.

`OpLookupProofs` proves `StandingItemAnswered` for any number of vaults, items
and edits. `Narrowed` says what each step has ruled out for the items that the
reference has named so far: not in the vault whose ID was not found, in the vault
that was found, not the item whose ID was not found, no other than the one found.
`AnswersWithinLimit` needs only that every way to an answer with content goes
through the step that compares its size.

`NodeCacheProofs` proves `HitsAreYoung`, `StaleAnswersAreYoung` and `OffIsOff` for
every width of a Duration, every text and every setting of the clock. The
arithmetic is in `WithinAsked`: a Duration that wrapped is at most the number it
came from, so an overflow can make the cache shorter, never longer. `TrueAge`
relates the wall clock to the time that passed: the age the code sees is at least
the true age less what the clock was set back since the `Put`. `NodeCacheTypes`
is the type invariant these rest on.

`InvocationProofs` proves for every host file, environment, path, set of failures
and cache:

* `ClearedPathsAreFetched` and `ClientsSeeNoAwsVariable`. The invariant says that
  a loaded configuration is the one of the untouched environment (`ConfigRead`),
  that clients are built afterwards (`BuiltAfterwards`), that the entries are
  those of the path (`PathSplit`), that a check that goes on has reached every
  entry it did not report (`CheckedSoFar`), and that in a world a check has
  cleared only the end of the budget makes a goroutine fail (`OnlyTime`). The last
  rests on a check and a fetch loading the same configuration, although they do it
  at different places in their sequence.
* `InvocationTypes`, with `Bookkeeping`: a goroutine is that of an entry, answers
  never outnumber entries, a client is remembered with the entry it was built for.
* `ChecksReportAll`: `CheckedSoFar` is half of it (no failing entry is passed
  over); `ReportedSoFar` is the other (no entry is reported that can be answered
  while the budget lasts).
* `ClientsAreBuiltOnce`: `BuildsCovered` says that a client is built by the
  goroutine of an entry that missed the cache; `BuiltOnce` that, when nobody has
  been abandoned, the one goroutine at work finds the client that was built.
* `DescriptionsAreTrue` and `HostFileWins`, which follow from what `LoadConfig`
  computes: of both host files at most one is read (`OneHostFile`), and a setting
  it has is not looked up elsewhere (`LookupDecides`).

The assumptions are those of the modules: `Nobody` is not a process, ages and
times are natural numbers, every process and request has at least one reference,
names of a block differ and schemes are known (what `SplitEntries` and `Route`
let through), vaults and items are finitely many and their IDs are shaped like
IDs, an account is reached through one backend, numbers written as seconds are not
below the smallest Duration, the plugin looks up the `AWS_*` variables it
honours. `ItemsAssumption` says what an account can keep (`WellKept`): a field has an
ID, a document is the one file that belongs to no field, and no file belongs to the
notes. Three are about operators, and TLC evaluates them for
every input of the runs. `FoldAssumption` says that folding case takes the backends'
two names of a category for one, and a login for no document.
`PathsAssumption` says that `SplitEntries` yields non-empty sequences; it joins
lines with the recursive definitions of the library, which the provers cannot
expand. `KeysAssumption` says that the keys of a result are names: `Values` is a
`map[string]string` in the code, and `Clean` is a parameter of the model.

Only model-checked: `EveryFetchEnds` and `NeverBlockedPastDeadline`, because
liveness and `ENABLED` are out of the prover's reach. `FetchesAreFinite` and
`NobodyIsBlocked` are what can be proved of them.

## Not modelled

* Parsing a reference into its segments and options (`opref.go`, the `Parse`
  functions of `awssm` and `awsssm`) and matching a part of a path against
  "name = reference": work on characters, which the models replace by records and
  kinds. Whether a provider accepts a text is an input (`Malformed`).
* Sending requests and decoding responses (`connect/client.go`), and the SDKs:
  one step each that succeeds or fails.
* What is printed: responses, the report of `check` and its hints, error texts.
* The quoting and trimming of values in the host file, and the encoding of cache
  entries and of keys into file names.
* `check`'s report on the cache directory, which has no influence on its exit
  code.
* The dispatch in `main.go`, which keeps no state.
* The fake Connect server, a test double, and `terraform/`, `ansible/`, `packer/`,
  `e2e/` and `examples/`, which install or test the plugin.
* Two fetches under one another's clock changes: `NodeCache` has one fetch at a
  time, and `FetchCache` a clock that only advances.
