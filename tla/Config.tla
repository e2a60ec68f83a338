------------------------------- MODULE Config -------------------------------
(***************************************************************************)
(* The configuration of an invocation (internal/plugin/config.go) and the   *)
(* backends it enables (newRegistry).                                      *)
(*                                                                         *)
(*   site   [files, env, tokens]                                           *)
(*   files  the host files in the order they are tried, each               *)
(*          [state : "absent", "unreadable" or "text", lines]              *)
(*   line   [kind : "assign", "skip" or "garbage", key, value]             *)
(*   env    the environment: variable -> value                             *)
(*   tokens path -> the content of that token file, when it can be read    *)
(***************************************************************************)
EXTENDS Durations, Sequences, FiniteSetsExt

CONSTANTS
  Settings,      \* the keys that LoadConfig looks up
  Trimmed,       \* texts that end in "/" -> what is before the slashes
  AwsVariables   \* environment variables that begin with AWS_

Honoured == {"AWS_REGION", "AWS_PROFILE", "AWS_ENDPOINT_URL", "AWS_ACCESS_KEY_ID",
             "AWS_SECRET_ACCESS_KEY", "AWS_SESSION_TOKEN", "AWS_SSM_DECRYPT"}

ASSUME SettingsAssumption == Honoured \subseteq AwsVariables \cap Settings

DefaultCacheDir == "/var/cache/remote-secrets"
MiB             == 1048576

----------------------------------------------------------------------------
(* The host file *)

(* parseEnvFile: a key assigned twice has its last value. *)
ParseEnvFile(file) ==
  LET assigned == {i \in DOMAIN file.lines : file.lines[i].kind = "assign"}
      of(key)  == {i \in assigned : file.lines[i].key = key}
  IN  IF file.state = "unreadable" \/ \E i \in DOMAIN file.lines : file.lines[i].kind = "garbage"
      THEN {}
      ELSE {[key \in {file.lines[i].key : i \in assigned} |-> file.lines[Max(of(key))].value]}

(* The first file that exists is the only one read; from 0 is the environment. *)
HostFile(files) ==
  LET present == {i \in DOMAIN files : files[i].state # "absent"}
  IN  IF present = {} THEN {[vals |-> <<>>, from |-> 0]}
      ELSE {[vals |-> v, from |-> Min(present)] : v \in ParseEnvFile(files[Min(present)])}

Getenv(env, k) == IF k \in DOMAIN env THEN env[k] ELSE ""

EnvironmentFirst(vals, env) ==  \* slip: the environment wins
  [k \in Settings |-> IF k \in DOMAIN vals \ DOMAIN env THEN vals[k] ELSE Getenv(env, k)]
Lookup(vals, env) ==
  [k \in Settings |-> IF k \in DOMAIN vals THEN vals[k] ELSE Getenv(env, k)]

----------------------------------------------------------------------------
(* Settings; each operator returns {} for an error. *)

TokenSetting(look, tokens, key, fileKey) ==
  IF look[key] # "" THEN {look[key]}
  ELSE IF look[fileKey] = "" THEN {""}
  ELSE {tokens[f] : f \in {look[fileKey]} \cap DOMAIN tokens}

ByteCount(raw) ==
  IF raw = "" THEN {MiB} ELSE {Bare[r] : r \in {s \in {raw} \cap DOMAIN Bare : Bare[s] >= 0}}

CacheDir(dir, ttl, maxStale) ==
  IF ttl <= 0 /\ maxStale <= 0 THEN "" ELSE IF dir = "" THEN DefaultCacheDir ELSE dir

----------------------------------------------------------------------------
(* Backends *)

OPEnabled(c)  == c.sa # "" \/ (c.host # "" /\ c.token # "")
AWSEnabled(c) == c.aws["AWS_REGION"] # "" \/ c.aws["AWS_ENDPOINT_URL"] # ""

(* The switch in LoadConfig: a Connect host without a token is an error. *)
AnyBackend(c) == OPEnabled(c) \/ AWSEnabled(c)  \* slip: half a backend is ignored
Selected(c)   == c.sa # "" \/ (AnyBackend(c) /\ ~(c.host # "" /\ c.token = ""))

Op       == <<"op">>
Ssm      == <<"aws-ssm">>
Sm       == <<"aws-sm">>

Registered(c) ==
  (IF OPEnabled(c) THEN {Op} ELSE {}) \cup (IF AWSEnabled(c) THEN {Ssm, Sm} ELSE {})

(* Config.Describe, as the set of backends it names. *)
Describe(c) ==
  (IF c.sa # "" \/ c.host # "" THEN {"1Password"} ELSE {})
    \cup (IF AWSEnabled(c) THEN {"AWS"} ELSE {})

----------------------------------------------------------------------------
Minute == 60 * Second

WithoutSlash(text) == IF text \in DOMAIN Trimmed THEN Trimmed[text] ELSE text

Loaded(look, tokens, from) ==
  {[sa |-> sa, token |-> token, host |-> WithoutSlash(look["OP_CONNECT_HOST"]),
    aws |-> [[k \in Honoured |-> look[k]]
               EXCEPT !["AWS_ENDPOINT_URL"] = WithoutSlash(@)],
    timeout |-> timeout, ttl |-> ttl, maxStale |-> maxStale, maxFileBytes |-> bytes,
    cacheDir |-> CacheDir(look["OP_CACHE_DIR"], ttl, maxStale), source |-> from] :
      sa       \in TokenSetting(look, tokens, "OP_SERVICE_ACCOUNT_TOKEN",
                                "OP_SERVICE_ACCOUNT_TOKEN_FILE"),
      token    \in TokenSetting(look, tokens, "OP_CONNECT_TOKEN", "OP_CONNECT_TOKEN_FILE"),
      timeout  \in DurationSetting(look["OP_REQUEST_TIMEOUT"], 45 * Second),
      ttl      \in DurationSetting(look["OP_CACHE_TTL"], 5 * Minute),
      maxStale \in DurationSetting(look["OP_CACHE_MAX_STALE"], 1440 * Minute),
      bytes    \in ByteCount(look["SECRET_MAX_FILE_BYTES"])}

(* LoadConfig: the configuration, {} when it returns an error. *)
LoadConfig(site) ==
  UNION {{c \in Loaded(Lookup(h.vals, site.env), site.tokens, h.from) : Selected(c)}
         : h \in HostFile(site.files)}

(* sanitizeAWSEnv, on the environment of the process. *)
SanitizeAWSEnv(env) == [k \in DOMAIN env \ AwsVariables |-> env[k]]
=============================================================================
