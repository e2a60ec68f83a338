----------------------------- MODULE AwsSecrets -----------------------------
(***************************************************************************)
(* How aws-ssm: and aws-sm: references are answered from what the AWS       *)
(* services return (internal/provider/awsssm and awssm).                   *)
(*                                                                         *)
(*   parameter  [secure, plain, cipher : strings]                           *)
(*   secret     [kind : "string" or "binary", string, data, size]           *)
(*   string     [body, json, members : JSON member name -> value]           *)
(***************************************************************************)
EXTENDS Results

(* Parameter Store *)
SsmKey(ref) == ref.name

SsmResolve(parameter, ref) ==
  LET s == IF parameter.secure /\ ~ref.decrypt THEN parameter.cipher ELSE parameter.plain
  IN  IF ref.raw THEN {Scalar(s)} ELSE ExpandJSON(s)

(* Secrets Manager *)
SmKey(ref) == <<ref.name, ref.version, ref.stage>>

BinaryResult(data, ref) ==
  LET r == FileResult("", data)
  IN  [r EXCEPT !.values = IF ref.base64 THEN Without(@, Value)
                                         ELSE Over(Single(Value, Encoded(data.body)), @)]

SmResolve(secret, ref) ==
  IF secret.kind = "string"
  THEN IF ref.binary THEN {}
       ELSE IF ref.raw THEN {Scalar(secret.string)} ELSE ExpandJSON(secret.string)
  ELSE IF MaxFileBytes > 0 /\ secret.size > MaxFileBytes THEN {}
       ELSE {BinaryResult(secret.data, ref)}
=============================================================================
