---------------------------- MODULE OnePassword ----------------------------
(***************************************************************************)
(* How an op:// reference is answered from an item that has been read       *)
(* (internal/provider/onepassword).                                        *)
(*                                                                         *)
(*   reference  [vault, item, section, field : names, <<>> when absent;     *)
(*               attribute : "" or "file"; encoding : "" or "base64"]       *)
(*   item       [category, sections : section id -> label,                  *)
(*               fields : Seq([id, label, purpose, value, section, file]),  *)
(*               files  : Seq([id, name, size, field, data])]               *)
(*                                                                         *)
(* The segments of a reference are sequences too, of what "/" separates:    *)
(* an escaped slash makes one segment of two parts.                         *)
(***************************************************************************)
EXTENDS Results

CONSTANT Fold(_)  \* strings.EqualFold compares these

----------------------------------------------------------------------------
(* References *)

WholeItem(ref) == ref.field = None
IsFileRef(ref) == ref.attribute = "file"

(* Ref.String, which CacheKey uses: the segments joined, not escaped again. *)
RefString(ref) ==
  <<ref.vault \o ref.item \o ref.section \o ref.field, ref.attribute, ref.encoding>>

----------------------------------------------------------------------------
(* Fields *)

FieldKey(f) == IF f.label # None THEN f.label ELSE f.id

SectionLabel(item, f) ==
  IF f.section \in DOMAIN item.sections THEN item.sections[f.section] ELSE None

ItemKey(item, f) == Clean(SectionLabel(item, f) \o FieldKey(f))

ConventionalKey ==
  Over(Single(<<"USERNAME">>, <<"username">>),
       Over(Single(<<"PASSWORD">>, <<"password">>), Single(<<"NOTES">>, <<"notes">>)))

(* Every non-empty field under its key, the first field winning, and then the
   conventional keys of a login that no field has taken. *)
ItemValues(item) ==
  LET field(i)  == item.fields[i]
      shown     == {i \in DOMAIN item.fields : field(i).value # Empty}
      purposed  == {i \in shown : /\ field(i).section = None
                                  /\ field(i).purpose \in DOMAIN ConventionalKey}
      key(i)    == ItemKey(item, field(i))
      role(i)   == ConventionalKey[field(i).purpose]
      first(S)  == field(Min(S)).value
  IN  Over([k \in {key(i) : i \in shown} \ {None} |-> first({i \in shown : key(i) = k})],
           [k \in {role(i) : i \in purposed} |-> first({i \in purposed : role(i) = k})])

Addresses(item, ref, f) ==
  /\ ref.section # None =>
       /\ f.section # None
       /\ \/ f.section = ref.section
          \/ Fold(SectionLabel(item, f)) = Fold(ref.section)
  /\ \/ f.id = ref.field
     \/ Fold(f.label) = Fold(ref.field)
     \/ Fold(f.purpose) = Fold(ref.field)

(* The field of a reference, as a set with at most one member: none when there
   is no such field or it is ambiguous. *)
FindField(item, ref) ==
  LET matches   == {i \in DOMAIN item.fields : Addresses(item, ref, item.fields[i])}
      unsection == {i \in matches : item.fields[i].section = None}
      chosen    == IF Cardinality(matches) <= 1 THEN matches
                   ELSE IF ref.section = None /\ unsection # {} THEN {Min(unsection)}
                   ELSE {}
  IN  {item.fields[i] : i \in chosen}

----------------------------------------------------------------------------
(* Files *)

DocumentFile(item) ==
  LET docs == {i \in DOMAIN item.files : item.files[i].field = None}
      only == IF docs = {} THEN DOMAIN item.files ELSE docs
  IN  IF Cardinality(only) = 1 THEN {item.files[i] : i \in only} ELSE {}

FieldFile(item, f) ==
  LET backing == {i \in DOMAIN item.files :
                    IF f.file # None THEN item.files[i].id = f.file
                                     ELSE item.files[i].field = f.id}
  IN  IF backing = {} THEN {} ELSE {item.files[Min(backing)]}

FileResults(files, ref) ==
  {LET r == FileResult(f.name, f.data)
   IN  IF ref.encoding = "base64" THEN [r EXCEPT !.values = Without(@, Value)] ELSE r
   : f \in {g \in files : MaxFileBytes = 0 \/ g.size <= MaxFileBytes}}

----------------------------------------------------------------------------
(* "value" is always there; the cleaned label is an alias for it. *)
FieldResult(f) ==
  [values |-> [k \in {Value, Clean(FieldKey(f))} \ {None} |-> f.value], object |-> FALSE]

ItemResult(item) == [values |-> ItemValues(item), object |-> TRUE]

(* resolve, once the item has been read: {} when it returns an error. *)
OpResolve(item, ref) ==
  IF WholeItem(ref)
  THEN IF IsFileRef(ref) \/ Fold(item.category) = Fold(<<"DOCUMENT">>)
       THEN FileResults(DocumentFile(item), ref)
       ELSE {ItemResult(item)}
  ELSE UNION {IF IsFileRef(ref) \/ f.file # None
              THEN FileResults(FieldFile(item, f), ref)
              ELSE {FieldResult(f)} : f \in FindField(item, ref)}
=============================================================================
