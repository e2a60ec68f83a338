---------------------------- MODULE MCFetchMerge ----------------------------
(* Instances of FetchMerge for TLC: the secrets, what they may hold, the jobs. *)
EXTENDS FetchMerge

CONSTANTS a1, a2

MCSource == [a \in Accounts |-> IF a = a1 THEN "connect" ELSE "sdk"]

(* What is kept under one name differs between the accounts. *)
Own(a) == IF a = a1 THEN "first" ELSE "second"

(* The conversions, on the names below: "host name" and "host_name" clean to
   one key, and purposes differ from labels in case only. *)
MCClean(n) == IF n = <<"host name">> THEN <<"host", "name">> ELSE n
MCFold(n)  == CASE n = <<"USERNAME">> -> <<"username">>
                [] n = <<"PASSWORD">> -> <<"password">>
                [] n = <<"Document">> -> <<"DOCUMENT">>
                [] OTHER -> n

(* 1Password items *)
Login    == <<"op", <<"v">>, <<"login">>>>
Document == <<"op", <<"v">>, <<"tls">>>>

Field(id, label, section, text) ==
  [id |-> id, label |-> label, section |-> section, value |-> Text(text)]

LoginItem(a, extra, notes) ==
  [sections |-> (<<"s1">> :> <<"replica">>), files |-> <<>>, document |-> <<>>,
   notes |-> Text(notes),
   fields |-> <<Field(<<"password">>, <<"password">>, None, Own(a)),
                Field(<<"f2">>, <<"password">>, <<"s1">>, "replica")>> \o extra]

PlainLogin(a)  == LoginItem(a, <<Field(<<"username">>, <<"mail">>, None, "user")>>, "remember")
ValuedLogin(a) == LoginItem(a, <<Field(<<"f3">>, <<"value">>, None, "custom"),
                                 Field(<<"f4">>, <<"filename">>, None, "key.pem"),
                                 Field(<<"f5">>, <<"replica", "password">>, None, "slash")>>, "")

DocumentItem ==
  [sections |-> <<>>, fields |-> <<>>, notes |-> Empty, files |-> <<>>,
   document |-> <<[id |-> <<"d1">>, name |-> "tls.p12", size |-> 1, field |-> None,
                   data |-> [body |-> "bytes", utf8 |-> TRUE]]>>]

OpRef(item, section, field, encoding) ==
  [section |-> section, field |-> field, item |-> item, encoding |-> encoding,
   scheme |-> "op", vault |-> <<"v">>, attribute |-> ""]

WholeLogin     == OpRef(<<"login">>, None, None, "")
ReplicaSecret  == OpRef(<<"login">>, <<"replica">>, <<"password">>, "")
(* Prints like ReplicaSecret: its slash is escaped when it is written. *)
EscapedSlash   == OpRef(<<"login">>, None, <<"replica", "password">>, "")
DocumentBase64 == OpRef(<<"tls">>, None, None, "base64")

(* AWS secrets *)
Parameter  == <<"aws-ssm", <<"p">>>>
StoredInSM == <<"aws-sm", <<"s">>, "", "">>

Plain(text) == [body |-> text, json |-> FALSE, members |-> <<>>]
Json == [body |-> "{}", json |-> TRUE,
         members |-> (<<"user">> :> Text("u")) @@ (<<"host name">> :> Text("h1"))
                     @@ (<<"host", "name">> :> Text("h2"))]

Secure(s) == [secure |-> TRUE, plain |-> s, cipher |-> Plain("ciphertext")]
StringSecret(s) == [kind |-> "string", string |-> s]
BinarySecret == [kind |-> "binary", size |-> 1, data |-> [body |-> "bytes", utf8 |-> FALSE]]

SsmRef(decrypt, raw) ==
  [name |-> <<"p">>, scheme |-> "aws-ssm", decrypt |-> decrypt, raw |-> raw]
SmRef(raw, base64) ==
  [name |-> <<"s">>, scheme |-> "aws-sm", raw |-> raw, base64 |-> base64,
   version |-> "", stage |-> "", binary |-> FALSE]

(* What each secret may hold, and the jobs. *)
KeptBy(a) ==
  (Login :> {ValuedLogin(a)} \cup IF a = a1 THEN {PlainLogin(a)} ELSE {})
    @@ (Document :> {DocumentItem})
    @@ (Parameter :> {Secure(Plain(Own(a)))})
    @@ (StoredInSM :> {BinarySecret} \cup IF a = a1 THEN {StringSecret(Json)} ELSE {})
MCContents ==
  [o \in Accounts \X {Login, Document, Parameter, StoredInSM} |-> KeptBy(o[1])[o[2]]]

Named(name, ref) == [name |-> name, ref |-> ref]

MixedRequests ==
  {<<Named(None, ReplicaSecret)>>, <<Named(None, EscapedSlash)>>,
   <<Named(None, SsmRef(FALSE, FALSE))>>,
   <<Named(<<"db">>, WholeLogin), Named(<<"cert">>, DocumentBase64)>>,
   <<Named(<<"db">>, WholeLogin), Named(<<"db", "password">>, ReplicaSecret)>>,
   <<Named(<<"cfg">>, SsmRef(TRUE, FALSE)), Named(<<"creds">>, SmRef(FALSE, FALSE))>>}
OptionRequests == {<<Named(None, SsmRef(TRUE, FALSE))>>, <<Named(None, SsmRef(FALSE, FALSE))>>}
=============================================================================
