--------------------------- MODULE OpLookupProofs ---------------------------
(***************************************************************************)
(* Proofs about OpLookup, for every account, reference, bound on the edits   *)
(* and number of vaults and items.                                          *)
(***************************************************************************)
EXTENDS OpLookup, FiniteSetTheorems, TLAPS

TypeOK ==
  /\ vaultName \in [VaultIds -> Names \cup {Gone}]
  /\ document \in [ItemIds -> [title : Names \cup {Gone}, vault : VaultIds, size : Sizes]]
  /\ found \in [vault : VaultIds \cup {Gone}, item : ItemIds \cup {Gone}]

(* What the resolve has learnt rules out every standing item but those it can
   still reach: an ID that was not found is not the vault of one, nor one. *)
StandingNamed == standing \subseteq NamedItems
NotInVaultId  == pc = "vaultByName" => \A i \in standing : document[i].vault # ref.vault
InFoundVault  ==
  pc \in {"item", "itemByTitle"} => \A i \in standing : document[i].vault = found.vault
NotItemId     == pc = "itemByTitle" => ref.item \notin standing
OnlyFound     == pc \in {"read", "content", "done"} => standing \subseteq {found.item}

Narrowed == NotInVaultId /\ InFoundVault /\ NotItemId /\ OnlyFound

IInv == TypeOK /\ StandingNamed /\ (~missed => Narrowed)

----------------------------------------------------------------------------
(* One match is the only match. *)
LEMMA OnlyMatch ==
  ASSUME NEW S, IsFiniteSet(S), Cardinality(S) = 1, NEW x \in S, NEW y \in S
  PROVE  x = y
  BY FS_Singleton

LEMMA FiniteLists ==
  /\ \A S : S \subseteq VaultIds => IsFiniteSet(S)
  /\ \A S : S \subseteq ItemIds => IsFiniteSet(S)
  BY LookupAssumption, FS_Subset

(* What it takes to be named by the reference. *)
LEMMA NamedFacts ==
  ASSUME TypeOK, NEW i \in NamedItems
  PROVE  LET v == document[i].vault
         IN  /\ i \in ItemIds /\ i \in LiveItems(v) /\ v \in LiveVaults
             /\ v = ref.vault \/ (ref.vault \notin LiveVaults /\ vaultName[v] = ref.vault)
             /\ i = ref.item \/ (ref.item \notin LiveItems(v) /\ document[i].title = ref.item)
  <1>1. PICK v \in Named(LiveVaults, vaultName, ref.vault) :
          i \in Named(LiveItems(v), title, ref.item)
    BY DEF NamedItems
  <1>2. v \in LiveVaults /\ i \in LiveItems(v)
    BY <1>1 DEF Named
  <1>3. document[i].vault = v /\ i \in ItemIds
    BY <1>2 DEF LiveItems
  <1>4. title[i] = document[i].title
    BY <1>3 DEF title
  <1> QED BY <1>1, <1>2, <1>3, <1>4 DEF Named

----------------------------------------------------------------------------
LEMMA Initially == Init => IInv
  <1> SUFFICES ASSUME Init PROVE IInv
    OBVIOUS
  <1>1. TypeOK
    BY DEF Init, TypeOK
  <1>2. StandingNamed
    BY DEF Init, StandingNamed
  <1>3. pc \in {"authenticate", "vault"}
    BY DEF Init
  <1>4. Narrowed
    BY <1>3 DEF Narrowed, NotInVaultId, InFoundVault, NotItemId, OnlyFound
  <1> QED BY <1>1, <1>2, <1>4 DEF IInv

(* An edit only takes items away from those that stand; it moves none. *)
LEMMA EditKeeps == IInv /\ Edit => IInv'
  <1> SUFFICES ASSUME IInv, Edit PROVE IInv'
    OBVIOUS
  <1> USE DEF IInv
  <1>a. found' = found
    BY DEF Edit, resolve
  <1>1. TypeOK' /\ \A i \in ItemIds : document'[i].vault = document[i].vault
    <2>1. CASE \E v \in VaultIds, n \in Names \cup {Gone} : RenameVault(v, n)
      BY <2>1, <1>a DEF TypeOK, RenameVault
    <2>2. ASSUME NEW i \in ItemIds, NEW n \in Names \cup {Gone}, NEW s \in Sizes,
                 EditItem(i, n, s)
          PROVE  TypeOK' /\ \A j \in ItemIds : document'[j].vault = document[j].vault
      <3>1. document' = [document EXCEPT ![i] = [document[i] EXCEPT !.title = n, !.size = s]]
        BY <2>2 DEF EditItem, TypeOK
      <3>2. document' \in [ItemIds -> [title : Names \cup {Gone}, vault : VaultIds, size : Sizes]]
        BY <3>1 DEF TypeOK
      <3>3. \A j \in ItemIds : document'[j].vault = document[j].vault
        BY <3>1 DEF TypeOK
      <3> QED BY <2>2, <3>2, <3>3, <1>a DEF EditItem, TypeOK
    <2> QED BY <2>1, <2>2 DEF Edit
  <1>3. StandingNamed' /\ standing' \subseteq standing
    BY DEF StandingNamed, Edit
  <1>4. standing \subseteq ItemIds
    BY NamedFacts DEF StandingNamed
  <1>5. Narrowed => Narrowed'
    BY <1>1, <1>3, <1>4
    DEF Narrowed, NotInVaultId, InFoundVault, NotItemId, OnlyFound, Edit, resolve
  <1> QED BY <1>1, <1>3, <1>5 DEF Edit

----------------------------------------------------------------------------
(* A step of the resolve itself. *)

LEMMA StandStill ==
  ASSUME UNCHANGED <<account, ref, standing>>, StandingNamed
  PROVE  StandingNamed'
  BY DEF account, StandingNamed, NamedItems, Named, LiveItems, LiveVaults, title

(* Ending, or going on to where nothing has been narrowed. *)
LEMMA GotoKeeps ==
  ASSUME IInv, NEW next, Goto(next), UNCHANGED <<account, standing>>, missed => missed',
         ~missed' /\ next # "error" => Narrowed'
  PROVE  IInv'
  <1>1. TypeOK'
    BY DEF IInv, TypeOK, Goto, account
  <1>2. StandingNamed'
    BY StandStill DEF IInv, Goto
  <1>3. CASE next = "error"
    <2>1. Narrowed'
      BY <1>3 DEF Narrowed, NotInVaultId, InFoundVault, NotItemId, OnlyFound, Goto
    <2> QED BY <1>1, <1>2, <2>1 DEF IInv
  <1>4. CASE next # "error"
    BY <1>1, <1>2, <1>4 DEF IInv
  <1> QED BY <1>3, <1>4

(* A vault is taken that holds every item that stands. *)
LEMMA TakeVaultKeeps ==
  ASSUME IInv, NEW S, S \subseteq VaultIds, TakeVault(S),
         UNCHANGED <<account, standing, missed>>,
         ~missed => \A i \in standing : document[i].vault \in S
  PROVE  IInv'
  <1>1. CASE Cardinality(S) # 1
    BY <1>1, GotoKeeps DEF TakeVault
  <1>2. CASE Cardinality(S) = 1
    <2>1. PICK v \in S : found' = [found EXCEPT !.vault = v]
      BY <1>2 DEF TakeVault
    <2>2. pc' = "item" /\ ref' = ref
      BY <1>2 DEF TakeVault
    <2>3. found'.vault = v
      BY <2>1 DEF IInv, TypeOK
    <2>4. TypeOK'
      BY <2>1 DEF IInv, TypeOK, account
    <2>5. ~missed => \A i \in standing : document[i].vault = v
      BY <1>2, FiniteLists, OnlyMatch
    <2>6. ~missed' => Narrowed'
      BY <2>2, <2>3, <2>5 DEF Narrowed, NotInVaultId, InFoundVault, NotItemId, OnlyFound, account
    <2> QED BY <2>2, <2>4, <2>6, StandStill DEF IInv
  <1> QED BY <1>1, <1>2

(* An item is taken; no other stands. *)
LEMMA TakeItemKeeps ==
  ASSUME IInv, NEW S, S \subseteq ItemIds, NEW next \in {"read", "content", "error"},
         TakeItem(S, next), UNCHANGED <<account, standing, missed>>,
         ~missed => standing \subseteq S
  PROVE  IInv'
  <1>1. CASE Cardinality(S) # 1
    BY <1>1, GotoKeeps DEF TakeItem
  <1>2. CASE Cardinality(S) = 1
    <2>1. PICK i \in S : found' = [found EXCEPT !.item = i]
      BY <1>2 DEF TakeItem
    <2>2. pc' = next /\ ref' = ref
      BY <1>2 DEF TakeItem
    <2>3. found'.item = i
      BY <2>1 DEF IInv, TypeOK
    <2>4. TypeOK'
      BY <2>1 DEF IInv, TypeOK, account
    <2>5. ~missed => standing \subseteq {i}
      BY <1>2, FiniteLists, OnlyMatch
    <2>6. ~missed' => Narrowed'
      BY <2>2, <2>3, <2>5 DEF Narrowed, NotInVaultId, InFoundVault, NotItemId, OnlyFound
    <2> QED BY <2>2, <2>4, <2>6, StandStill DEF IInv
  <1> QED BY <1>1, <1>2

----------------------------------------------------------------------------
(* The vault is there although its ID was not found, or not asked for. *)
LEMMA NotFoundById ==
  ASSUME IInv, ~missed, ref.vault \notin LiveVaults
  PROVE  \A i \in standing : document[i].vault # ref.vault
  BY NamedFacts DEF IInv, StandingNamed

LEMMA VaultKeeps ==
  ASSUME IInv, VaultById \/ VaultByName \/ ListVaults, UNCHANGED <<account, standing, missed>>
  PROVE  IInv'
  <1> DEFINE exact == {v \in LiveVaults : vaultName[v] = ref.vault}
  <1>1. LiveVaults \subseteq VaultIds /\ exact \subseteq VaultIds
    BY DEF LiveVaults
  <1>2. standing \subseteq NamedItems
    BY DEF IInv, StandingNamed
  <1>3. CASE VaultById
    <2>1. CASE ref.vault \in LiveVaults
      <3>1. TakeVault({ref.vault})
        BY <1>3, <2>1 DEF VaultById
      <3>2. \A i \in standing : document[i].vault = ref.vault
        BY <1>2, <2>1, NamedFacts DEF IInv
      <3> QED BY <1>1, <2>1, <3>1, <3>2, TakeVaultKeeps
    <2>2. CASE ref.vault \notin LiveVaults
      <3>1. Goto("vaultByName")
        BY <1>3, <2>2 DEF VaultById
      <3>2. ~missed' => Narrowed'
        BY <2>2, <3>1, NotFoundById
        DEF Narrowed, NotInVaultId, InFoundVault, NotItemId, OnlyFound, Goto, account
      <3> QED BY <3>1, <3>2, GotoKeeps
    <2> QED BY <2>1, <2>2
  <1>4. CASE VaultByName
    <2>1. TakeVault(exact)
      BY <1>4 DEF VaultByName
    <2>2. ASSUME ~missed, NEW i \in standing
          PROVE  document[i].vault \in exact
      <3>1. document[i].vault # ref.vault
        <4>1. CASE pc = "vaultByName"
          BY <2>2, <4>1 DEF IInv, Narrowed, NotInVaultId
        <4>2. CASE ref.vault \notin IdShaped
          BY <1>2, <2>2, <4>2, LookupAssumption, NamedFacts DEF IInv, LiveVaults
        <4> QED BY <1>4, <4>1, <4>2 DEF VaultByName
      <3> QED BY <1>2, <3>1, NamedFacts DEF IInv
    <2> QED BY <1>1, <2>1, <2>2, TakeVaultKeeps
  <1>5. CASE ListVaults
    <2> DEFINE S == Listed(LiveVaults, vaultName, ref.vault)
    <2>1. S \subseteq VaultIds
      BY <1>1 DEF Listed
    <2>2. \A i \in standing : document[i].vault \in S
      BY <1>2, NamedFacts DEF IInv, Listed
    <2> HIDE DEF S
    <2> QED BY <1>5, <2>1, <2>2, TakeVaultKeeps DEF ListVaults, S
  <1> QED BY <1>3, <1>4, <1>5

LEMMA ItemKeeps ==
  ASSUME IInv, ItemById \/ ItemByTitle \/ ListItems, UNCHANGED <<account, standing, missed>>
  PROVE  IInv'
  <1> DEFINE exact == {i \in LiveItems(found.vault) : title[i] = ref.item}
  <1>1. LiveItems(found.vault) \subseteq ItemIds /\ exact \subseteq ItemIds
    BY DEF LiveItems
  <1>2. \A i \in ItemIds : title[i] = document[i].title
    BY DEF title
  <1>3. ASSUME ~missed, NEW i \in standing
        PROVE  /\ i \in LiveItems(found.vault)
               /\ i = ref.item \/ (ref.item \notin LiveItems(found.vault) /\ title[i] = ref.item)
    <2>1. document[i].vault = found.vault
      BY <1>3 DEF IInv, Narrowed, InFoundVault, ItemById, ItemByTitle, ListItems, ByItemId
    <2>2. i \in NamedItems
      BY <1>3 DEF IInv, StandingNamed
    <2> QED BY <1>2, <2>1, <2>2, NamedFacts DEF IInv
  <1>4. CASE ItemById
    <2>1. CASE ref.item \in LiveItems(found.vault)
      <3>1. TakeItem({ref.item}, AfterRead(ref.item)) /\ AfterRead(ref.item) \in {"content", "error"}
        BY <1>4, <2>1 DEF ItemById, AfterRead
      <3>2. ~missed => standing \subseteq {ref.item}
        BY <1>3, <2>1
      <3> QED BY <1>1, <2>1, <3>1, <3>2, TakeItemKeeps
    <2>2. CASE ref.item \notin LiveItems(found.vault)
      <3>1. Goto("itemByTitle") /\ pc = "item"
        BY <1>4, <2>2 DEF ItemById, ByItemId
      <3>2. ~missed => ref.item \notin standing
        BY <1>3, <2>2
      <3>3. ~missed' => Narrowed'
        BY <3>1, <3>2
        DEF IInv, Narrowed, NotInVaultId, InFoundVault, NotItemId, OnlyFound, Goto, account
      <3> QED BY <3>1, <3>3, GotoKeeps
    <2> QED BY <2>1, <2>2
  <1>5. CASE ItemByTitle
    <2>1. TakeItem(exact, "read")
      BY <1>5 DEF ItemByTitle
    <2>2. ASSUME ~missed, NEW i \in standing
          PROVE  i \in exact
      <3>1. i # ref.item
        <4>1. CASE pc = "itemByTitle"
          BY <2>2, <4>1 DEF IInv, Narrowed, NotItemId
        <4>2. CASE ref.item \notin IdShaped
          BY <1>1, <1>3, <2>2, <4>2, LookupAssumption
        <4> QED BY <1>5, <4>1, <4>2 DEF ItemByTitle
      <3> QED BY <1>3, <2>2, <3>1
    <2> QED BY <1>1, <2>1, <2>2, TakeItemKeeps
  <1>6. CASE ListItems
    <2> DEFINE S == Listed(LiveItems(found.vault), title, ref.item)
    <2>1. S \subseteq ItemIds
      BY <1>1 DEF Listed
    <2>2. ~missed => standing \subseteq S
      BY <1>3 DEF Listed
    <2> HIDE DEF S
    <2> QED BY <1>6, <2>1, <2>2, TakeItemKeeps DEF ListItems, S
  <1> QED BY <1>4, <1>5, <1>6

LEMMA ReadKeeps ==
  ASSUME IInv, ReadItem \/ ReadContent, UNCHANGED <<account, standing, missed>>
  PROVE  IInv'
  <1>1. CASE \E next \in {"content", "error"} : Goto(next) /\ pc \in {"read", "content"}
    <2>1. PICK next \in {"content", "error"} : Goto(next) /\ pc \in {"read", "content"}
      BY <1>1
    <2>2. ~missed' /\ next # "error" => Narrowed'
      BY <2>1 DEF IInv, Narrowed, NotInVaultId, InFoundVault, NotItemId, OnlyFound, Goto
    <2> QED BY <2>1, <2>2, GotoKeeps
  <1>2. CASE pc = "content" /\ pc' = "done" /\ UNCHANGED <<source, ref, found>>
    <2>1. TypeOK' /\ StandingNamed'
      BY <1>2, StandStill DEF IInv, TypeOK, account
    <2>2. ~missed' => Narrowed'
      BY <1>2 DEF IInv, Narrowed, NotInVaultId, InFoundVault, NotItemId, OnlyFound
    <2> QED BY <2>1, <2>2 DEF IInv
  <1> QED BY <1>1, <1>2 DEF ReadItem, AfterRead, ReadContent, Deliver

(* Only a lookup by ID survives a failure, and what it missed is remembered. *)
LEMMA FailureKeeps == IInv /\ RequestFails => IInv'
  <1> SUFFICES ASSUME IInv, RequestFails PROVE IInv'
    OBVIOUS
  <1>1. missed => missed'
    BY DEF RequestFails
  <1>2. UNCHANGED <<account, standing>>
    BY DEF RequestFails
  <1>3. CASE ByVaultId
    <2>1. Goto("vaultByName")
      BY <1>3 DEF RequestFails
    <2>2. ~missed' => ~missed /\ ref.vault \notin LiveVaults
      BY <1>3 DEF RequestFails
    <2>3. ~missed' => Narrowed'
      BY <1>2, <2>1, <2>2, NotFoundById
      DEF Narrowed, NotInVaultId, InFoundVault, NotItemId, OnlyFound, Goto, account
    <2> QED BY <1>1, <1>2, <2>1, <2>3, GotoKeeps
  <1>4. CASE ~ByVaultId /\ ByItemId
    <2>1. Goto("itemByTitle") /\ pc = "item"
      BY <1>4 DEF RequestFails, ByItemId
    <2>2. ~missed' => ~missed /\ ref.item \notin LiveItems(found.vault)
      BY <1>4 DEF RequestFails
    <2>3. ASSUME ~missed'
          PROVE  ref.item \notin standing
      <3>1. \A i \in standing : i \in LiveItems(document[i].vault)
        BY NamedFacts DEF IInv, StandingNamed
      <3>2. \A i \in standing : document[i].vault = found.vault
        BY <2>1, <2>2, <2>3 DEF IInv, Narrowed, InFoundVault
      <3> QED BY <2>2, <2>3, <3>1, <3>2
    <2>4. ~missed' => Narrowed'
      BY <1>2, <2>1, <2>2, <2>3
      DEF IInv, Narrowed, NotInVaultId, InFoundVault, NotItemId, OnlyFound, Goto, account
    <2> QED BY <1>1, <1>2, <2>1, <2>4, GotoKeeps
  <1>5. CASE ~ByVaultId /\ ~ByItemId
    <2>1. Goto("error")
      BY <1>5 DEF RequestFails
    <2> QED BY <1>1, <1>2, <2>1, GotoKeeps
  <1> QED BY <1>3, <1>4, <1>5

LEMMA Invariance == Spec => []IInv
  <1>1. IInv /\ [Next]_vars => IInv'
    <2> SUFFICES ASSUME IInv, [Next]_vars PROVE IInv'
      OBVIOUS
    <2>1. CASE Request
      <3>1. UNCHANGED <<account, standing, missed>>
        BY <2>1 DEF Request
      <3>2. CASE Authenticate
        <4>1. Goto("vault")
          BY <3>2 DEF Authenticate
        <4>2. Narrowed'
          BY <4>1 DEF Narrowed, NotInVaultId, InFoundVault, NotItemId, OnlyFound, Goto
        <4> QED BY <3>1, <4>1, <4>2, GotoKeeps
      <3> QED BY <2>1, <3>1, <3>2, VaultKeeps, ItemKeeps, ReadKeeps DEF Request
    <2>2. CASE UNCHANGED vars
      BY <2>2, StandStill
      DEF vars, account, resolve, IInv, TypeOK, Narrowed, NotInVaultId, InFoundVault,
          NotItemId, OnlyFound
    <2> QED BY <2>1, <2>2, EditKeeps, FailureKeeps DEF Next
  <1> QED BY <1>1, Initially, PTL DEF Spec

(***************************************************************************)
(* An item that the reference names from the first request to the last is    *)
(* the one answered, in any account and with any edits, through either       *)
(* source, unless a lookup by ID failed on an object that was there          *)
(* (client.go:105-160, serviceaccount.go:49-111).                            *)
(***************************************************************************)
THEOREM StandingItemAnswered == Spec => []AnswersWhatItNames
  <1>1. IInv => AnswersWhatItNames
    BY DEF IInv, Narrowed, OnlyFound, AnswersWhatItNames
  <1> QED BY <1>1, Invariance, PTL

----------------------------------------------------------------------------
(* Only the last read ends a resolve with an answer. *)
LEMMA OnlyContentAnswers ==
  ASSUME Request, ~ReadContent
  PROVE  pc' # "done"
  <1>1. ASSUME NEW S, TakeVault(S) PROVE pc' # "done"
    BY <1>1 DEF TakeVault, Goto
  <1>2. ASSUME NEW S, NEW next, next # "done", TakeItem(S, next) PROVE pc' # "done"
    BY <1>2 DEF TakeItem, Goto
  <1>3. \A i : AfterRead(i) # "done"
    BY DEF AfterRead
  <1>4. CASE VaultById \/ VaultByName \/ ListVaults
    BY <1>1, <1>4 DEF VaultById, VaultByName, ListVaults, Goto
  <1>5. CASE ItemById \/ ItemByTitle \/ ListItems
    BY <1>2, <1>3, <1>5 DEF ItemById, ItemByTitle, ListItems, Goto
  <1>6. CASE Authenticate \/ ReadItem
    BY <1>3, <1>6 DEF Authenticate, ReadItem, Goto
  <1> QED BY <1>4, <1>5, <1>6 DEF Request

(***************************************************************************)
(* No answer exceeds SECRET_MAX_FILE_BYTES, however often the document is    *)
(* replaced between the check of its size and the read of its bytes          *)
(* (onepassword.go:257-276).                                                *)
(***************************************************************************)
THEOREM AnswersWithinLimit == Spec => []FileWithinLimit
  <1>1. Init => FileWithinLimit
    BY DEF Init, FileWithinLimit
  <1>2. IInv /\ FileWithinLimit /\ [Next]_vars => FileWithinLimit'
    <2> SUFFICES ASSUME IInv, FileWithinLimit, [Next]_vars PROVE FileWithinLimit'
      OBVIOUS
    <2>1. CASE ReadContent
      <3>1. CASE pc' = "done"
        <4>1. Deliver /\ found.item \in ItemIds /\ ~TooBig(found.item)
          BY <2>1, <3>1 DEF ReadContent, Deliver, Goto, LiveItems
        <4>2. document[found.item].size \in Nat /\ MaxFileBytes \in Nat
          BY <4>1, LookupAssumption DEF IInv, TypeOK
        <4>3. answer' = document[found.item].size
          BY <4>1 DEF Deliver
        <4> QED BY <4>1, <4>2, <4>3 DEF TooBig, FileWithinLimit
      <3>2. CASE pc' # "done"
        BY <3>2 DEF FileWithinLimit
      <3> QED BY <3>1, <3>2
    <2>2. CASE Request /\ ~ReadContent
      BY <2>2, OnlyContentAnswers DEF FileWithinLimit
    <2>3. CASE RequestFails
      BY <2>3 DEF RequestFails, Goto, FileWithinLimit
    <2>4. CASE Edit
      BY <2>4 DEF Edit, resolve, FileWithinLimit
    <2>5. CASE UNCHANGED vars
      BY <2>5 DEF vars, resolve, FileWithinLimit
    <2> QED BY <2>1, <2>2, <2>3, <2>4, <2>5 DEF Next
  <1> QED BY <1>1, <1>2, Invariance, PTL DEF Spec
=============================================================================
