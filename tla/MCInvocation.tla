---------------------------- MODULE MCInvocation ----------------------------
(* Instances of Invocation for TLC: host files, environments, paths, and what
   does not work. *)
EXTENDS Invocation

MCAwsVariables == Honoured \cup {"AWS_CA_BUNDLE"}
MCSettings == Honoured \cup
  {"OP_SERVICE_ACCOUNT_TOKEN", "OP_SERVICE_ACCOUNT_TOKEN_FILE", "OP_CONNECT_HOST",
   "OP_CONNECT_TOKEN", "OP_CONNECT_TOKEN_FILE", "OP_REQUEST_TIMEOUT", "OP_CACHE_TTL",
   "OP_CACHE_MAX_STALE", "OP_CACHE_DIR", "SECRET_MAX_FILE_BYTES"}

(* A second is one unit, and a Duration has 18 bits. *)
MCBare    == ("0" :> 0) @@ ("30" :> 30) @@ ("200000" :> 200000) @@ ("-1" :> -1)
MCSpelled == "5m" :> 300

----------------------------------------------------------------------------
(* Environments and host files *)

AwsEnv == ("AWS_REGION" :> "r1") @@ ("AWS_CA_BUNDLE" :> "b")
OpEnv  == ("OP_CONNECT_HOST" :> "h2") @@ ("OP_CONNECT_TOKEN" :> "t2") @@ ("OP_CACHE_TTL" :> "0")
MixEnv == ("AWS_ENDPOINT_URL" :> "e2/") @@ ("OP_SERVICE_ACCOUNT_TOKEN" :> "ops2")
            @@ ("OP_CONNECT_TOKEN_FILE" :> "/t")
MCEnvironments == ("none" :> <<>>) @@ ("aws" :> AwsEnv) @@ ("op" :> OpEnv) @@ ("mixed" :> MixEnv)

Set(key, value) == [kind |-> "assign", key |-> key, value |-> value]
Note            == [kind |-> "skip"]
Garbage         == [kind |-> "garbage"]

Absent      == [state |-> "absent", lines |-> <<>>]
Unreadable  == [state |-> "unreadable", lines |-> <<>>]
Text(lines) == [state |-> "text", lines |-> lines]

Connect  == <<Set("OP_CONNECT_HOST", "h1"), Set("OP_CONNECT_TOKEN_FILE", "/t")>>
Account  == <<Note, Set("OP_SERVICE_ACCOUNT_TOKEN_FILE", "/ops")>>
NoToken  == <<Set("OP_CONNECT_HOST", "h1"), Set("OP_SERVICE_ACCOUNT_TOKEN_FILE", "/empty")>>
LostFile == <<Set("OP_SERVICE_ACCOUNT_TOKEN_FILE", "/lost")>>
Twice    == <<Set("AWS_REGION", "r2"), Set("AWS_REGION", ""), Set("AWS_ENDPOINT_URL", "/")>>
Uncached == <<Set("OP_CACHE_TTL", "0"), Set("OP_CACHE_MAX_STALE", "200000")>>
NoTime   == <<Set("OP_REQUEST_TIMEOUT", "0")>>
Limits   == <<Set("SECRET_MAX_FILE_BYTES", "-1")>>

MCHostFiles ==
  ("none" :> <<Absent, Absent>>)
  @@ ("unreadable" :> <<Unreadable, Text(Connect)>>)
  @@ ("connect" :> <<Text(Connect \o Uncached), Unreadable>>)
  @@ ("account" :> <<Absent, Text(Account)>>)
  @@ ("both" :> <<Text(Connect \o Account \o NoTime), Absent>>)
  @@ ("noToken" :> <<Text(NoToken), Text(Connect)>>)
  @@ ("lostFile" :> <<Text(LostFile), Absent>>)
  @@ ("twice" :> <<Text(Twice), Absent>>)
  @@ ("garbage" :> <<Text(<<Garbage>>), Absent>>)
  @@ ("limits" :> <<Text(Connect \o Limits), Absent>>)

MCTrimmed == ("/" :> "") @@ ("e2/" :> "e2")
MCTokens == ("/t" :> "t1") @@ ("/ops" :> "ops1") @@ ("/empty" :> "")

----------------------------------------------------------------------------
(* Paths *)

OpText   == <<"op", "://", "v/i">>
BadText  == <<"op", "://", "v">>
BareText == <<"v/i">>
SsmText  == <<"aws-ssm", ":", "/p">>
SmText   == <<"aws-sm", ":", "prod/db/creds">>
Noted    == <<"aws-sm", ":", "prod/db/creds  # JSON">>
Texts    == {OpText, BadText, BareText, SsmText, SmText, Noted}

Part(name, text) == [kind |-> "named", name |-> name, text |-> text]
Bare1(text)      == [kind |-> "bare", name |-> Unnamed, text |-> text]
Blank            == [kind |-> "blank", name |-> Unnamed, text |-> <<>>]
Dangling(name)   == [kind |-> "dangling", name |-> name, text |-> <<>>]

Line(parts)   == [comment |-> FALSE, text |-> parts[1].text, parts |-> parts]
Comment       == [comment |-> TRUE, text |-> <<>>, parts |-> <<Bare1(<<"#">>)>>]

(* docs/user-guide.md:260-263 *)
Example == <<Line(<<Part("password", SsmText)>>),
             Line(<<Part("creds", Noted), Bare1(<<"creds_password">>)>>), Line(<<Blank>>)>>

MCPaths ==
  ("none" :> <<>>)
  @@ ("bare" :> <<Line(<<Bare1(OpText)>>)>>)
  @@ ("noScheme" :> <<Line(<<Bare1(BareText)>>), Line(<<Blank>>)>>)
  @@ ("unnamed" :> <<Line(<<Bare1(OpText)>>), Line(<<Part("b", SsmText)>>)>>)
  @@ ("lines" :> <<Comment, Line(<<Part("a", OpText)>>), Comment, Line(<<Part("b", SsmText)>>)>>)
  @@ ("same" :> <<Line(<<Part("a", OpText), Blank, Part("b", OpText)>>)>>)
  @@ ("bad" :> <<Line(<<Part("a", BadText), Part("b", SsmText), Part("c", SmText)>>)>>)
  @@ ("twice" :> <<Line(<<Part("a", SsmText), Part("b", SmText)>>), Line(<<Part("a", OpText)>>)>>)
  @@ ("dangling" :> <<Line(<<Dangling("a"), Part("b", OpText)>>)>>)
  @@ ("example" :> Example)

----------------------------------------------------------------------------
(* Worlds *)

Downs  == {{}, {<<"ping", Sm>>}, {<<"client", Ssm>>}, {<<"client", Op>>},
           {<<"secret", OpText>>}, {<<"secret", SsmText>>}}
Caches == {[t \in Texts |-> "none"], [t \in Texts |-> "stale"],
           [t \in Texts |-> IF t = OpText THEN "fresh" ELSE "none"]}

World(f, e, p, d, c) == [files |-> f, env |-> e, path |-> p, down |-> d, cached |-> c]

MCWorlds ==
  {World(f, e, p, d, c) : f \in DOMAIN MCHostFiles, e \in DOMAIN MCEnvironments,
                          p \in DOMAIN MCPaths, d \in Downs, c \in Caches}
MCMalformed == {BadText}
=============================================================================
