------------------------------ MODULE OpLookup ------------------------------
(***************************************************************************)
(* One resolve of a 1Password reference to a file: the requests it makes,   *)
(* through a Connect server or the service-account SDK, while people edit   *)
(* the account between them (internal/provider/onepassword, connect,        *)
(* serviceaccount).  Which field or file of an item a reference selects is   *)
(* in OnePassword; here every item is a document.                          *)
(***************************************************************************)
EXTENDS Integers, FiniteSets

CONSTANTS
  VaultIds, ItemIds,
  Names,         \* what vaults and items may be called
  Gone,          \* the name of a vault or item that does not exist
  IdShaped,      \* IDs, and names that match idPattern
  Fold(_),       \* strings.EqualFold compares these
  Sizes,         \* sizes a document may have
  MaxFileBytes,  \* SECRET_MAX_FILE_BYTES; 0 disables
  Sources,       \* subset of {"connect", "sdk"}
  Refs,          \* references [vault, item], each a name or an ID
  MaxEdits       \* bound on the edits during the resolve

ASSUME LookupAssumption ==
  /\ IsFiniteSet(VaultIds) /\ IsFiniteSet(ItemIds)
  /\ Gone \notin Names \cup VaultIds \cup ItemIds
  /\ VaultIds \cup ItemIds \subseteq IdShaped
  /\ Sizes \subseteq Nat /\ MaxFileBytes \in Nat

VARIABLES
  vaultName,  \* name of each vault
  document,   \* each item: [title, vault, size]
  edits,      \* edits so far
  source, ref,
  pc,         \* the next request; "done" or "error" at the end
  found,      \* IDs of the vault and the item found so far
  answer,     \* size of the document returned
  standing,   \* history: items the reference has named all along
  missed      \* history: an object that was there was not found by its ID

account == <<vaultName, document, edits>>
resolve == <<source, ref, pc, found, answer>>
vars    == <<account, resolve, standing, missed>>

----------------------------------------------------------------------------
(* The account as it is listed *)

LiveVaults   == {v \in VaultIds : vaultName[v] # Gone}
LiveItems(v) == {i \in ItemIds : /\ v \in LiveVaults
                                 /\ document[i].vault = v
                                 /\ document[i].title # Gone}

title == [i \in ItemIds |-> document[i].title]

(* What a reference names, were the account to stand still: an ID wins over a
   name, and names match exactly (docs/user-guide.md:183-184). *)
Named(objects, name, wanted) ==
  IF wanted \in objects THEN {wanted} ELSE {o \in objects : name[o] = wanted}

NamedItems ==
  UNION {Named(LiveItems(v), title, ref.item) : v \in Named(LiveVaults, vaultName, ref.vault)}

----------------------------------------------------------------------------
Init ==
  /\ vaultName \in [VaultIds -> Names]
  /\ document \in [ItemIds -> [title : Names, vault : VaultIds, size : Sizes]]
  /\ edits = 0
  /\ source \in Sources /\ ref \in Refs
  /\ pc = IF source = "sdk" THEN "authenticate" ELSE "vault"
  /\ found = [vault |-> Gone, item |-> Gone] /\ answer = 0
  /\ standing = NamedItems /\ missed = FALSE

Goto(next) == pc' = next /\ UNCHANGED <<source, ref, found, answer>>

(* One match is taken; none or several are an error. *)
TakeVault(matches) ==
  IF Cardinality(matches) # 1 THEN Goto("error")
  ELSE /\ \E v \in matches : found' = [found EXCEPT !.vault = v]
       /\ pc' = "item" /\ UNCHANGED <<source, ref, answer>>

TakeItem(matches, next) ==
  IF Cardinality(matches) # 1 THEN Goto("error")
  ELSE /\ \E i \in matches : found' = [found EXCEPT !.item = i]
       /\ pc' = next /\ UNCHANGED <<source, ref, answer>>

TooBig(i) == MaxFileBytes > 0 /\ document[i].size > MaxFileBytes

(* A full item comes with the size of its document. *)
AfterRead(i) == IF TooBig(i) THEN "error" ELSE "content"

----------------------------------------------------------------------------
(* Connect: by ID if it is shaped like one, and then by name. *)

ByVaultId == source = "connect" /\ pc = "vault" /\ ref.vault \in IdShaped
ByItemId  == source = "connect" /\ pc = "item" /\ ref.item \in IdShaped

VaultById ==
  /\ ByVaultId
  /\ IF ref.vault \in LiveVaults THEN TakeVault({ref.vault}) ELSE Goto("vaultByName")

VaultByName ==
  /\ source = "connect"
  /\ \/ pc = "vaultByName"
     \/ pc = "vault" /\ ref.vault \notin IdShaped
  /\ TakeVault({v \in LiveVaults : vaultName[v] = ref.vault})

ItemById ==
  /\ ByItemId
  /\ IF ref.item \in LiveItems(found.vault)
     THEN TakeItem({ref.item}, AfterRead(ref.item))
     ELSE Goto("itemByTitle")

ItemByTitle ==
  /\ source = "connect"
  /\ \/ pc = "itemByTitle"
     \/ pc = "item" /\ ref.item \notin IdShaped
  /\ TakeItem({i \in LiveItems(found.vault) : title[i] = ref.item}, "read")

----------------------------------------------------------------------------
(* Service account: a client is built, then lists are searched for the ID, and
   for names that differ in case at most. *)

TitleFirst(objects, name, wanted) ==  \* slip: names are compared before IDs
  LET alike == {o \in objects : Fold(name[o]) = Fold(wanted)}
  IN  IF alike # {} THEN alike ELSE objects \cap {wanted}
Listed(objects, name, wanted) ==
  IF wanted \in objects THEN {wanted}
  ELSE {o \in objects : Fold(name[o]) = Fold(wanted)}

Authenticate == source = "sdk" /\ pc = "authenticate" /\ Goto("vault")

ListVaults ==
  /\ source = "sdk" /\ pc = "vault"
  /\ TakeVault(Listed(LiveVaults, vaultName, ref.vault))

ListItems ==
  /\ source = "sdk" /\ pc = "item"
  /\ TakeItem(Listed(LiveItems(found.vault), title, ref.item), "read")

----------------------------------------------------------------------------
(* Both *)

(* The item a list has led to is read in full. *)
ReadItem ==
  /\ pc = "read"
  /\ Goto(IF found.item \in LiveItems(found.vault) THEN AfterRead(found.item) ELSE "error")

(* The document may have been replaced since its size was read. *)
DeliverListed ==  \* slip: the limit is compared with the listed size only
  /\ pc' = "done" /\ answer' = document[found.item].size
  /\ UNCHANGED <<source, ref, found>>
Deliver ==
  IF TooBig(found.item) THEN Goto("error")
  ELSE /\ pc' = "done" /\ answer' = document[found.item].size
       /\ UNCHANGED <<source, ref, found>>

ReadContent ==
  /\ pc = "content"
  /\ IF found.item \in LiveItems(found.vault) THEN Deliver ELSE Goto("error")

Request ==
  /\ \/ VaultById \/ VaultByName \/ ItemById \/ ItemByTitle
     \/ Authenticate \/ ListVaults \/ ListItems
     \/ ReadItem \/ ReadContent
  /\ UNCHANGED <<account, standing, missed>>

Running == pc \notin {"done", "error"}

(* A request may fail whatever the account holds.  That ends the resolve,
   except in Connect's lookups by ID, which go on to the name. *)
RequestFails ==
  /\ Running
  /\ IF ByVaultId THEN Goto("vaultByName")
     ELSE IF ByItemId THEN Goto("itemByTitle")
     ELSE Goto("error")
  /\ missed' = (missed \/ (ByVaultId /\ ref.vault \in LiveVaults)
                       \/ (ByItemId /\ ref.item \in LiveItems(found.vault)))
  /\ UNCHANGED <<account, standing>>

----------------------------------------------------------------------------
(* People *)

RenameVault(v, n) == vaultName' = [vaultName EXCEPT ![v] = n] /\ UNCHANGED document
EditItem(i, n, s) ==
  /\ document' = [document EXCEPT ![i].title = n, ![i].size = s]
  /\ UNCHANGED vaultName

Edit ==
  /\ Running /\ edits < MaxEdits /\ edits' = edits + 1
  /\ \/ \E v \in VaultIds, n \in Names \cup {Gone} : RenameVault(v, n)
     \/ \E i \in ItemIds, n \in Names \cup {Gone}, s \in Sizes : EditItem(i, n, s)
  /\ UNCHANGED <<resolve, missed>>
  /\ standing' = standing \cap NamedItems'

Next == Request \/ RequestFails \/ Edit

Spec == Init /\ [][Next]_vars

----------------------------------------------------------------------------
(* Properties *)

(* No answer is longer than the limit, although its bytes are read after its
   size was checked.  onepassword.go:257-276. *)
FileWithinLimit == pc = "done" /\ MaxFileBytes > 0 => answer <= MaxFileBytes

(* Whatever is edited meanwhile, an item that the reference names all along is
   the one answered: not a namesake, not one whose name is its ID, and never one
   of several.  The exception is a lookup by ID that failed though the object
   was there.  client.go:105-160, serviceaccount.go:49-111. *)
AnswersWhatItNames == pc = "done" /\ ~missed => standing \subseteq {found.item}
=============================================================================
