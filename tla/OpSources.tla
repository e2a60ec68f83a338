------------------------------ MODULE OpSources ------------------------------
(***************************************************************************)
(* How each 1Password backend turns what it reads into the item of module   *)
(* OnePassword (connect and serviceaccount, both called toOpItem).          *)
(*                                                                         *)
(* An item as the account keeps it:                                         *)
(*   [sections, fields : Seq([id, label, value, section]), notes,           *)
(*    files : Seq([id, name, size, field, data]),                           *)
(*    document : Seq of at most one file without a field]                   *)
(* A login's own fields have the ids "username" and "password", whatever    *)
(* their labels.  The two services report it each in its way.               *)
(***************************************************************************)
EXTENDS OnePassword

Sources == {"connect", "sdk"}

(* Folding case takes the two services' names of a category for one, and a
   login for no document. *)
ASSUME FoldAssumption ==
  /\ Fold(<<"Document">>) = Fold(<<"DOCUMENT">>)
  /\ {Fold(<<"LOGIN">>), Fold(<<"Login">>)} \cap {Fold(<<"DOCUMENT">>)} = {}

(* What an account keeps: fields have ids, files belong to a field other than
   the notes, and a document is a file of its own that belongs to none. *)
IsSequence(s) == Len(s) \in Nat /\ s = [i \in 1..Len(s) |-> s[i]]

WellKept(kept) ==
  /\ IsSequence(kept.fields) /\ IsSequence(kept.files)
  /\ IsSequence(kept.document) /\ Len(kept.document) <= 1
  /\ \A i \in DOMAIN kept.fields :
       /\ DOMAIN kept.fields[i] = {"id", "label", "section", "value"}
       /\ kept.fields[i].id # None
  /\ \A i \in DOMAIN kept.files : kept.files[i].field \notin {None, <<"notesPlain">>}
  /\ \A i \in DOMAIN kept.document :
       /\ kept.document[i].field = None
       /\ \A j \in DOMAIN kept.files : kept.files[j].id # kept.document[i].id

----------------------------------------------------------------------------
Builtin ==
  Over(Single(<<"username">>, <<"USERNAME">>),
       Over(Single(<<"password">>, <<"PASSWORD">>), Single(<<"notesPlain">>, <<"NOTES">>)))

PurposeForFieldID(id) == IF id \in DOMAIN Builtin THEN Builtin[id] ELSE None

NotesField(text) ==
  [id |-> <<"notesPlain">>, label |-> <<"notesPlain">>, purpose |-> <<"NOTES">>,
   value |-> text, section |-> None]

(* The Connect server's item: every field with its purpose, the notes among
   them, and a document among the files. *)
ConnectItem(kept) ==
  [category |-> IF kept.document # <<>> THEN <<"DOCUMENT">> ELSE <<"LOGIN">>,
   sections |-> kept.sections, files |-> kept.document \o kept.files,
   fields   |-> [i \in DOMAIN kept.fields |->
                   Over(kept.fields[i], [purpose |-> PurposeForFieldID(kept.fields[i].id)])]
                  \o <<NotesField(kept.notes)>>]

(* The SDK's item: fields without a purpose, notes and document apart. *)
SdkItem(kept) ==
  [category |-> IF kept.document # <<>> THEN <<"Document">> ELSE <<"Login">>,
   sections |-> kept.sections, files |-> kept.files, document |-> kept.document,
   fields   |-> kept.fields, notes |-> kept.notes]

----------------------------------------------------------------------------
(* The file behind a field; of several, the last one listed. *)
FileOf(files, f) ==
  LET backing == {i \in DOMAIN files : files[i].field # None /\ files[i].field = f.id}
  IN  IF backing = {} THEN None ELSE files[Max(backing)].id

WithFile(files, f) == Over(f, [file |-> FileOf(files, f)])

FromConnect(item) ==
  [category |-> item.category, sections |-> item.sections, files |-> item.files,
   fields   |-> [i \in DOMAIN item.fields |-> WithFile(item.files, item.fields[i])]]

(* The purposes and the notes field are put back. *)
NoPurpose(item, f) == Over(WithFile(item.files, f), [purpose |-> None])  \* slip
WithPurpose(item, f) ==
  Over(WithFile(item.files, f), [purpose |-> PurposeForFieldID(f.id)])

FromSdk(item) ==
  [category |-> item.category, sections |-> item.sections,
   files    |-> item.files \o item.document,
   fields   |-> [i \in DOMAIN item.fields |-> WithPurpose(item, item.fields[i])]
                  \o IF item.notes = Empty THEN <<>>
                     ELSE <<WithFile(<<>>, NotesField(item.notes))>>]

(* GetItem, once the item has been read. *)
GetItem(via, kept) ==
  IF via = "connect" THEN FromConnect(ConnectItem(kept)) ELSE FromSdk(SdkItem(kept))
=============================================================================
