------------------------------ MODULE Results ------------------------------
(***************************************************************************)
(* What a provider makes of a secret: a map from interpolation keys to      *)
(* values (internal/provider), and what the fetch loop makes of that map.   *)
(*                                                                         *)
(* A name or key is the sequence of its parts between underscores, so that  *)
(* joining two of them with "_" is \o; <<>> is the empty string.  A value   *)
(* is a text, tagged by whether it is plain or base64.                      *)
(***************************************************************************)
EXTENDS SequencesExt

CONSTANTS
  Clean(_),     \* SanitizeKey: the key a label or JSON member name becomes
  MaxFileBytes  \* SECRET_MAX_FILE_BYTES; 0 disables

None        == <<>>
Value       == <<"value">>
ValueBase64 == <<"value", "base64">>
Filename    == <<"filename">>

Text(x)    == <<"text", x>>
Encoded(x) == <<"base64", x>>
Empty      == Text("")

(* Maps; where both have a key, Over keeps the value of f. *)
Single(k, v)  == [x \in {k} |-> v]
Over(f, g)    == [k \in DOMAIN f \cup DOMAIN g |-> IF k \in DOMAIN f THEN f[k] ELSE g[k]]
Without(f, k) == Restrict(f, DOMAIN f \ {k})

----------------------------------------------------------------------------
(* Results *)

(* data is a file's content: its body and whether that is valid UTF-8. *)
FileResult(name, data) ==
  LET text == IF data.utf8 THEN Single(Value, Text(data.body)) ELSE <<>>
      file == IF name # "" THEN Single(Filename, Text(name)) ELSE <<>>
  IN  [values |-> Over(Single(ValueBase64, Encoded(data.body)), Over(text, file)),
       object |-> FALSE]

Scalar(s) == [values |-> Single(Value, Text(s.body)), object |-> FALSE]

(* A JSON object's members under their cleaned keys, p telling which member is
   kept under each. *)
Expansion(s, p) ==
  [values |-> Over(Single(Value, Text(s.body)), [k \in DOMAIN p |-> s.members[p[k]]]),
   object |-> TRUE]

(* The results a secret string can expand to.  Of several members that clean
   to one key, the first that Go's map iteration yields is kept: any of them. *)
ExpandJSON(s) ==
  LET keys == {Clean(m) : m \in DOMAIN s.members} \ {None, Value}
  IN  IF s.json
      THEN {Expansion(s, p) : p \in {q \in [keys -> DOMAIN s.members] :
                                        \A k \in keys : Clean(q[k]) = k}}
      ELSE {Scalar(s)}

(* Two members that would both be kept, under one key. *)
Clashes(s) ==
  s.json /\ \E m, n \in DOMAIN s.members :
              m # n /\ Clean(m) = Clean(n) /\ Clean(m) \notin {None, Value}

----------------------------------------------------------------------------
(* What the fetch loop does with a result *)

IsFile(values)   == ValueBase64 \in DOMAIN values
IsObject(values) == Value \notin DOMAIN values /\ ~IsFile(values)

(* The cache stores the values alone; Object is reconstructed from them. *)
ForgetObject(values) == [values |-> values, object |-> FALSE]  \* slip: not reconstructed
FromCache(values)    == [values |-> values, object |-> IsObject(values)]

ExpandsOnlyObjects(r) == r.object  \* slip: files not expanded
Expands(r)            == r.object \/ IsFile(r.values)

(* The part of the response a named entry is answered with. *)
Unprefixed(name, r) == IF Expands(r) THEN r.values ELSE Single(name, r.values[Value])  \* slip
Contribution(name, r) ==
  IF Expands(r)
  THEN [k \in {name \o f : f \in DOMAIN r.values} |->
          r.values[SubSeq(k, Len(name) + 1, Len(k))]]
  ELSE Single(name, IF Value \in DOMAIN r.values THEN r.values[Value] ELSE Empty)
=============================================================================
