------------------------ MODULE AccountRows_proofs ------------------------
(***************************************************************************)
(* Proofs about the rows of an account: UserAddresses, and then            *)
(* PendingVerification.  AddressInv adds to the property what each         *)
(* request may rely on: the rows it has locked, the place it takes under   *)
(* the limit, and, as long as nobody has overtaken it, what it has read.   *)
(* LinkInv adds that an opened link is live and its own, and that a        *)
(* request that has aimed knows every older link that it replaces.         *)
(***************************************************************************)
EXTENDS UserAddresses, PendingVerification, FiniteSetTheorems, TLAPS

Commands ==
    {NoCommand}
    \cup [at : {"counted"}, wish : BOOLEAN]
    \cup [at : {"decided"}, op : {"create"}, default : BOOLEAN]
    \cup [at : {"decided"}, op : {"set", "delete"}, id : AddressIds, default : BOOLEAN]
    \cup [at : {"begun"}, op : {"create", "set", "delete"}, rows : SUBSET AddressIds,
          default : BOOLEAN, id : {{}} \cup {{a} : a \in AddressIds}]

AddressTypeOK ==
    /\ address \in [AddressIds -> {"none", "plain", "default", "gone"}]
    /\ pending \in [AddressCalls -> Commands]
    /\ overlapped \in BOOLEAN

\* What the unique index keeps.
OneDefault == \A a, b \in Defaults : a = b

Begun(r) == pending[r].at = "begun"

\* The rows of a transaction are there and nobody else's; a new address that
\* is not the default leaves the others alone.
RowsLocked ==
    /\ \A r \in AddressCalls : Begun(r) =>
        /\ pending[r].rows \subseteq Addresses
        /\ pending[r].op = "create" /\ ~pending[r].default => pending[r].rows = {}
    /\ \A r, q \in AddressCalls : Begun(r) /\ Begun(q) /\ r # q => pending[r].rows \cap pending[q].rows = {}

\* The requests that have counted and may still insert.
Creators ==
    {r \in AddressCalls :
        \/ pending[r].at = "counted"
        \/ pending[r].at \in {"decided", "begun"} /\ pending[r].op = "create"}

WithinLimit ==
    /\ IsFiniteSet(Addresses)
    /\ Cardinality(Addresses) + Cardinality(Creators) <= MaxAddresses - 1 + Cardinality(AddressCalls)

\* What a request that was not overtaken has read is still so.
Current(ask) ==
    /\ ask.at \in {"decided", "begun"} /\ ask.op = "create" => ask.default \/ Addresses # {}
    /\ ask.at = "decided" /\ ask.op # "create" => ask.id \in Addresses /\ ask.default = (ask.id \in Defaults)
    /\ ask.at = "begun" /\ ask.op # "create" => \E a \in Addresses :
        /\ ask.id = {a}
        /\ ask.op = "delete" => ask.rows = {a} /\ ask.default = (a \in Defaults)

UpToDate == ~overlapped => \A r \in AddressCalls : Current(pending[r])

DefaultRemains == ~overlapped /\ Addresses # {} => Defaults # {}

AddressInv ==
    /\ AddressTypeOK
    /\ OneDefault
    /\ RowsLocked
    /\ WithinLimit
    /\ UpToDate
    /\ DefaultRemains

-----------------------------------------------------------------------------

LEMMA AddressInit == InitAddresses => AddressInv
PROOF
<1> SUFFICES ASSUME InitAddresses PROVE AddressInv
  OBVIOUS
<1>1. Addresses = {} /\ Defaults = {}
  BY DEF InitAddresses, Addresses, Defaults
<1>2. Creators = {}
  BY DEF InitAddresses, Creators, NoCommand
<1>3. AddressTypeOK
  BY DEF InitAddresses, AddressTypeOK, Commands
<1>4. OneDefault /\ DefaultRemains
  BY <1>1 DEF OneDefault, DefaultRemains
<1>5. RowsLocked
  BY DEF InitAddresses, RowsLocked, Begun, NoCommand
<1>6. UpToDate
  BY DEF InitAddresses, UpToDate, Current, NoCommand
<1>7. WithinLimit
  <2>1. Cardinality(AddressCalls) \in Nat /\ Cardinality(AddressCalls) # 0
    BY AddressAssumption, FS_CardinalityType, FS_EmptySet
  <2> QED BY <1>1, <1>2, <2>1, FS_EmptySet, AddressAssumption DEF WithinLimit
<1> QED BY <1>3, <1>4, <1>5, <1>6, <1>7 DEF AddressInv

\* Sets of requests are finite, and so counted by numbers.
LEMMA CallsCounted ==
    ASSUME NEW S \in SUBSET AddressCalls
    PROVE  IsFiniteSet(S) /\ Cardinality(S) \in Nat /\ Cardinality(S) <= Cardinality(AddressCalls)
           /\ Cardinality(AddressCalls) \in Nat
BY AddressAssumption, FS_Subset, FS_CardinalityType

\* A step that adds no address and no creator keeps the limit.
LEMMA LimitKept ==
    ASSUME WithinLimit, Addresses' \subseteq Addresses, Creators' \subseteq Creators
    PROVE  WithinLimit'
PROOF
<1>1. IsFiniteSet(Addresses') /\ Cardinality(Addresses') <= Cardinality(Addresses)
  BY FS_Subset DEF WithinLimit
<1>2. Cardinality(Addresses) \in Nat /\ Cardinality(Addresses') \in Nat
  BY <1>1, FS_CardinalityType DEF WithinLimit
<1>3. Creators \in SUBSET AddressCalls
  BY DEF Creators
<1>4. IsFiniteSet(Creators) /\ Cardinality(Creators) \in Nat /\ Cardinality(AddressCalls) \in Nat
  BY <1>3, CallsCounted
<1>5. Cardinality(Creators') <= Cardinality(Creators) /\ Cardinality(Creators') \in Nat
  BY <1>4, FS_Subset, FS_CardinalityType
<1> QED BY <1>1, <1>2, <1>4, <1>5, AddressAssumption DEF WithinLimit

\* A step that leaves the rows alone keeps what depends on them.
LEMMA RowsAlone ==
    ASSUME AddressInv, address' = address, overlapped' = overlapped
    PROVE  Addresses' = Addresses /\ Defaults' = Defaults /\ OneDefault' /\ DefaultRemains'
BY DEF AddressInv, Addresses, Defaults, OneDefault, DefaultRemains

LEMMA CountStep ==
    ASSUME AddressInv, NEW r \in AddressCalls, Count(r)
    PROVE  AddressInv'
PROOF
<1> USE DEF AddressInv
<1>1. Addresses' = Addresses /\ Defaults' = Defaults /\ OneDefault' /\ DefaultRemains'
  BY RowsAlone DEF Count
<1>2. PICK wish \in BOOLEAN : pending' = [pending EXCEPT ![r] = [at |-> "counted", wish |-> wish]]
  BY DEF Count
<1>3. AddressTypeOK'
  BY <1>2 DEF Count, AddressTypeOK, Commands
<1>4. RowsLocked'
  BY <1>1, <1>2 DEF AddressTypeOK, RowsLocked, Begun
<1>5. UpToDate'
  BY <1>1, <1>2 DEF Count, AddressTypeOK, UpToDate, Current
<1>6. WithinLimit'
  <2>1. Creators' \in SUBSET AddressCalls
    BY DEF Creators
  <2>2. Cardinality(Creators') <= Cardinality(AddressCalls) /\ Cardinality(Creators') \in Nat
        /\ Cardinality(AddressCalls) \in Nat
    BY <2>1, CallsCounted
  <2>3. Cardinality(Addresses) \in Nat /\ Cardinality(Addresses) < MaxAddresses
    BY FS_CardinalityType DEF WithinLimit, Count
  <2> QED BY <1>1, <2>2, <2>3, AddressAssumption DEF WithinLimit
<1> QED BY <1>1, <1>3, <1>4, <1>5, <1>6

LEMMA FindDefaultStep ==
    ASSUME AddressInv, NEW r \in AddressCalls, LookForFirst(r)
    PROVE  AddressInv'
PROOF
<1> USE DEF AddressInv
<1>1. Addresses' = Addresses /\ Defaults' = Defaults /\ OneDefault' /\ DefaultRemains'
  BY RowsAlone DEF LookForFirst
<1> DEFINE default == pending[r].wish \/ Addresses = {}
<1>2. default \in BOOLEAN /\ pending[r].at = "counted"
  BY DEF LookForFirst, AddressTypeOK, Commands
<1>3. pending' = [pending EXCEPT ![r] = [at |-> "decided", op |-> "create", default |-> default]]
  BY DEF LookForFirst
<1>4. AddressTypeOK'
  BY <1>2, <1>3 DEF LookForFirst, AddressTypeOK, Commands
<1>5. RowsLocked'
  BY <1>1, <1>3 DEF AddressTypeOK, RowsLocked, Begun
<1>6. UpToDate'
  <2> SUFFICES ASSUME ~overlapped, NEW q \in AddressCalls PROVE Current(pending[q])'
    BY DEF LookForFirst, UpToDate
  <2>1. CASE q # r
    BY <1>1, <1>3, <2>1 DEF AddressTypeOK, UpToDate, Current
  <2>2. CASE q = r
    <3>1. pending'[q] = [at |-> "decided", op |-> "create", default |-> default]
      BY <1>3, <2>2 DEF AddressTypeOK
    <3>2. default \/ Addresses # {}
      OBVIOUS
    <3> HIDE DEF default
    <3>3. /\ pending'[q].at = "decided" /\ pending'[q].op = "create"
          /\ pending'[q].default = default
      BY <3>1
    <3> QED BY <1>1, <3>2, <3>3 DEF Current
  <2> QED BY <2>1, <2>2
<1>7. Creators' \subseteq Creators
  BY <1>2, <1>3 DEF Creators, AddressTypeOK
<1>8. WithinLimit'
  BY <1>1, <1>7, LimitKept
<1> QED BY <1>1, <1>4, <1>5, <1>6, <1>8

LEMMA ReadStep ==
    ASSUME AddressInv, NEW r \in AddressCalls, ReadAddress(r)
    PROVE  AddressInv'
PROOF
<1> USE DEF AddressInv
<1>1. Addresses' = Addresses /\ Defaults' = Defaults /\ OneDefault' /\ DefaultRemains'
  BY RowsAlone DEF ReadAddress
<1>2. PICK a \in Addresses, op \in {"set", "delete"} :
        pending' = [pending EXCEPT ![r] = [at |-> "decided", op |-> op, id |-> a, default |-> address[a] = "default"]]
  BY DEF ReadAddress
<1>3. a \in AddressIds /\ (address[a] = "default") \in BOOLEAN /\ (address[a] = "default") = (a \in Defaults)
  BY DEF Addresses, Defaults
<1>4. AddressTypeOK'
  BY <1>2, <1>3 DEF ReadAddress, AddressTypeOK, Commands
<1>5. RowsLocked'
  BY <1>1, <1>2 DEF AddressTypeOK, RowsLocked, Begun
<1>6. UpToDate'
  BY <1>1, <1>2, <1>3 DEF ReadAddress, AddressTypeOK, UpToDate, Current
<1>7. Creators' \subseteq Creators
  BY <1>2 DEF Creators, AddressTypeOK
<1>8. WithinLimit'
  BY <1>1, <1>7, LimitKept
<1> QED BY <1>1, <1>4, <1>5, <1>6, <1>8

LEMMA BeginStep ==
    ASSUME AddressInv, NEW r \in AddressCalls, Begin(r)
    PROVE  AddressInv'
PROOF
<1> USE DEF AddressInv
<1>1. Addresses' = Addresses /\ Defaults' = Defaults /\ OneDefault' /\ DefaultRemains'
  BY RowsAlone DEF Begin
<1> DEFINE ask == pending[r]
           rows == CASE ask.op = "delete" -> {ask.id} \cap Addresses
                     [] ask.op = "set" \/ (ask.op = "create" /\ ask.default) -> Addresses
                     [] OTHER -> {}
           id == IF ask.op = "create" THEN {} ELSE {ask.id}
<1>2. /\ ask.at = "decided" /\ rows \cap LockedByOthers(r) = {}
      /\ pending' = [pending EXCEPT ![r] = [at |-> "begun", op |-> ask.op, rows |-> rows, default |-> ask.default, id |-> id]]
  BY DEF Begin
<1>3. /\ ask.op \in {"create", "set", "delete"} /\ ask.default \in BOOLEAN
      /\ ask.op # "create" => ask.id \in AddressIds
  BY <1>2 DEF AddressTypeOK, Commands, NoCommand
<1>4. rows \subseteq Addresses /\ Addresses \subseteq AddressIds
  BY <1>3 DEF Addresses
<1>5. id \in {{}} \cup {{a} : a \in AddressIds}
  BY <1>3
<1> HIDE DEF id
<1>6. AddressTypeOK'
  <2> HIDE DEF rows
  <2> QED BY <1>2, <1>3, <1>4, <1>5 DEF Begin, AddressTypeOK, Commands
<1>7. \A q \in AddressCalls \ {r} : Begun(q) => pending[q].rows \cap rows = {}
  <2> HIDE DEF rows
  <2> QED BY <1>2 DEF LockedByOthers, Begun
<1>8. ask.op = "create" /\ ~ask.default => rows = {}
  BY <1>3
<1>9. RowsLocked'
  <2> HIDE DEF rows
  <2> QED BY <1>1, <1>2, <1>4, <1>7, <1>8 DEF AddressTypeOK, RowsLocked, Begun
<1>10. UpToDate'
  <2> SUFFICES ASSUME ~overlapped, NEW q \in AddressCalls PROVE Current(pending[q])'
    BY DEF Begin, UpToDate
  <2>1. Current(pending[q])
    BY DEF UpToDate
  <2>2. CASE q # r
    BY <1>1, <1>2, <2>1, <2>2 DEF AddressTypeOK, Current
  <2>3. CASE q = r
    <3>1. pending'[q] = [at |-> "begun", op |-> ask.op, rows |-> rows, default |-> ask.default, id |-> id]
      BY <1>2, <2>3 DEF AddressTypeOK
    <3>2. ask.op = "create" => ask.default \/ Addresses # {}
      BY <1>2, <2>1, <2>3 DEF Current
    <3>3. ask.op # "create" => ask.id \in Addresses /\ ask.default = (ask.id \in Defaults)
      BY <1>2, <2>1, <2>3 DEF Current
    <3>4. ask.op = "delete" => ask.id \in Addresses /\ rows = {ask.id}
      BY <3>3
    <3>5. ask.op # "create" => id = {ask.id}
      BY DEF id
    <3> HIDE DEF rows
    <3> QED BY <1>1, <3>1, <3>2, <3>3, <3>4, <3>5 DEF Current
  <2> QED BY <2>2, <2>3
<1>11. Creators' \subseteq Creators
  <2> HIDE DEF rows
  <2> QED BY <1>2 DEF Creators, AddressTypeOK
<1>12. WithinLimit'
  BY <1>1, <1>11, LimitKept
<1> QED BY <1>1, <1>6, <1>9, <1>10, <1>12

LEMMA GiveUpStep ==
    ASSUME AddressInv, NEW r \in AddressCalls, GiveUp(r)
    PROVE  AddressInv'
PROOF
<1> USE DEF AddressInv
<1>1. Addresses' = Addresses /\ Defaults' = Defaults /\ OneDefault' /\ DefaultRemains'
  BY RowsAlone DEF GiveUp
<1>2. pending' = [pending EXCEPT ![r] = NoCommand]
  BY DEF GiveUp
<1>3. AddressTypeOK'
  BY <1>2 DEF GiveUp, AddressTypeOK, Commands
<1>4. RowsLocked'
  BY <1>1, <1>2 DEF AddressTypeOK, RowsLocked, Begun, NoCommand
<1>5. UpToDate'
  BY <1>1, <1>2 DEF GiveUp, AddressTypeOK, UpToDate, Current, NoCommand
<1>6. Creators' \subseteq Creators
  BY <1>2 DEF Creators, AddressTypeOK, NoCommand
<1>7. WithinLimit'
  BY <1>1, <1>6, LimitKept
<1> QED BY <1>1, <1>3, <1>4, <1>5, <1>7

-----------------------------------------------------------------------------
(* The commits.                                                            *)

\* What every commit does to the requests.
LEMMA CommitStep ==
    ASSUME AddressInv, NEW r \in AddressCalls, Begun(r), Commit(r),
           address' \in [AddressIds -> {"none", "plain", "default", "gone"}],
           \A a \in Addresses : a \in pending[r].rows \/ a \in Addresses'
    PROVE  /\ AddressTypeOK' /\ RowsLocked' /\ UpToDate'
           /\ Creators' = Creators \ {r}
           /\ ~overlapped' => Defaults' # {} \/ (~overlapped /\ Current(pending[r]))
PROOF
<1> USE DEF AddressInv
<1>1. pending' = [pending EXCEPT ![r] = NoCommand]
  BY DEF Commit
<1>2. overlapped' \in BOOLEAN /\ overlapped' = (Busy(r) \/ (overlapped /\ \A a \in AddressIds : address'[a] # "default"))
  BY DEF Commit, Busy
<1>3. AddressTypeOK'
  BY <1>1, <1>2 DEF AddressTypeOK, Commands
<1>4. RowsLocked'
  <2>1. ASSUME NEW q \in AddressCalls, Begun(q)' PROVE q # r /\ Begun(q) /\ pending'[q] = pending[q]
    BY <1>1, <2>1 DEF AddressTypeOK, Begun, NoCommand
  <2>2. ASSUME NEW q \in AddressCalls, Begun(q)' PROVE pending[q].rows \subseteq Addresses'
    <3>1. pending[q].rows \subseteq Addresses /\ pending[q].rows \cap pending[r].rows = {}
      BY <2>1, <2>2 DEF RowsLocked
    <3> QED BY <3>1
  <2> QED BY <2>1, <2>2 DEF RowsLocked, Begun
<1>5. UpToDate'
  <2> SUFFICES ASSUME ~overlapped', NEW q \in AddressCalls PROVE Current(pending[q])'
    BY DEF UpToDate
  <2>1. pending'[q] = NoCommand
    BY <1>1, <1>2 DEF Busy, AddressTypeOK
  <2> QED BY <2>1 DEF Current, NoCommand
<1>6. Creators' = Creators \ {r}
  BY <1>1 DEF Creators, AddressTypeOK, NoCommand
<1>7. ~overlapped' => Defaults' # {} \/ (~overlapped /\ Current(pending[r]))
  <2>1. ~overlapped => Current(pending[r])
    BY DEF UpToDate
  <2>2. (\E a \in AddressIds : address'[a] = "default") => Defaults' # {}
    BY DEF Defaults
  <2> QED BY <1>2, <2>1, <2>2
<1> QED BY <1>3, <1>4, <1>5, <1>6, <1>7

LEMMA InsertStep ==
    ASSUME AddressInv, NEW r \in AddressCalls, Insert(r)
    PROVE  AddressInv'
PROOF
<1> USE DEF AddressInv
<1> DEFINE ask == pending[r]
<1>1. Begun(r) /\ ask.op = "create" /\ ask.default \in BOOLEAN /\ ask.rows \subseteq Addresses
  BY DEF Insert, Begun, AddressTypeOK, Commands, NoCommand, RowsLocked
<1>2. PICK a \in AddressIds :
        /\ address[a] = "none"
        /\ address' = [b \in AddressIds |->
                IF b = a THEN (IF ask.default THEN "default" ELSE "plain")
                ELSE IF b \in ask.rows THEN "plain" ELSE address[b]]
  BY DEF Insert
<1>3. Commit(r) /\ (ask.default => DefaultFree(ask.rows))
  BY DEF Insert
<1>4. ~ask.default => ask.rows = {}
  BY <1>1 DEF RowsLocked
<1>5. Addresses' = Addresses \cup {a} /\ a \notin Addresses
  BY <1>1, <1>2 DEF Addresses, AddressTypeOK
<1>6. Defaults' = IF ask.default THEN {a} ELSE Defaults
  BY <1>1, <1>2, <1>3, <1>4 DEF Defaults, DefaultFree
<1>7. address' \in [AddressIds -> {"none", "plain", "default", "gone"}]
  BY <1>2 DEF AddressTypeOK
<1>8. /\ AddressTypeOK' /\ RowsLocked' /\ UpToDate'
      /\ Creators' = Creators \ {r}
      /\ ~overlapped' => Defaults' # {} \/ (~overlapped /\ Current(ask))
  BY <1>1, <1>3, <1>5, <1>7, CommitStep
<1>9. OneDefault'
  BY <1>1, <1>6 DEF OneDefault
<1>10. DefaultRemains'
  BY <1>1, <1>6, <1>8 DEF DefaultRemains, Current, Begun
<1>11. WithinLimit'
  <2>1. r \in Creators /\ Creators \in SUBSET AddressCalls
    BY <1>1 DEF Creators, Begun
  <2>2. IsFiniteSet(Creators) /\ Cardinality(Creators) \in Nat /\ Cardinality(AddressCalls) \in Nat
    BY <2>1, CallsCounted
  <2>3. Cardinality(Creators') = Cardinality(Creators) - 1
    BY <1>8, <2>1, <2>2, FS_RemoveElement
  <2>4. IsFiniteSet(Addresses') /\ Cardinality(Addresses') = Cardinality(Addresses) + 1
    BY <1>5, FS_AddElement DEF WithinLimit
  <2>5. Cardinality(Addresses) \in Nat
    BY FS_CardinalityType DEF WithinLimit
  <2> QED BY <2>2, <2>3, <2>4, <2>5, AddressAssumption DEF WithinLimit
<1> QED BY <1>8, <1>9, <1>10, <1>11

LEMMA SetDefaultStep ==
    ASSUME AddressInv, NEW r \in AddressCalls, SetDefault(r)
    PROVE  AddressInv'
PROOF
<1> USE DEF AddressInv
<1> DEFINE ask == pending[r]
           rows == ask.rows
           id == ask.id \cap Addresses
<1>1. Begun(r) /\ ask.op = "set" /\ rows \subseteq Addresses
  BY DEF SetDefault, Begun, RowsLocked
<1>2. ask.id = {} \/ \E a \in AddressIds : ask.id = {a}
  BY <1>1 DEF Begun, AddressTypeOK, Commands, NoCommand
<1>3. /\ Commit(r) /\ (id # {} => DefaultFree(rows))
      /\ address' = [b \in AddressIds |-> IF b \in id THEN "default" ELSE IF b \in rows THEN "plain" ELSE address[b]]
  BY DEF SetDefault
<1>4. Addresses' = Addresses
  BY <1>1, <1>3 DEF Addresses, AddressTypeOK
<1>5. Defaults' = IF id # {} THEN id ELSE Defaults \ rows
  BY <1>1, <1>2, <1>3 DEF Defaults, DefaultFree, Addresses
<1>6. address' \in [AddressIds -> {"none", "plain", "default", "gone"}]
  BY <1>3 DEF AddressTypeOK
<1>7. /\ AddressTypeOK' /\ RowsLocked' /\ UpToDate'
      /\ Creators' = Creators \ {r}
      /\ ~overlapped' => Defaults' # {} \/ (~overlapped /\ Current(ask))
  BY <1>1, <1>3, <1>4, <1>6, CommitStep
<1>8. OneDefault'
  BY <1>2, <1>5 DEF OneDefault
<1>9. DefaultRemains'
  <2>1. Current(ask) => id # {}
    BY <1>1 DEF Current, Begun
  <2> QED BY <1>5, <1>7, <2>1 DEF DefaultRemains
<1>10. WithinLimit'
  BY <1>4, <1>7, LimitKept
<1> QED BY <1>7, <1>8, <1>9, <1>10

LEMMA DeleteStep ==
    ASSUME AddressInv, NEW r \in AddressCalls, DeleteAddress(r)
    PROVE  AddressInv'
PROOF
<1> USE DEF AddressInv
<1> DEFINE ask == pending[r]
           rows == ask.rows
           others == IF ask.default THEN Addresses \ ask.id ELSE {}
<1>1. Begun(r) /\ ask.op = "delete" /\ ask.default \in BOOLEAN /\ rows \subseteq Addresses
  BY DEF DeleteAddress, Begun, AddressTypeOK, Commands, NoCommand, RowsLocked
<1>2. Commit(r)
  BY DEF DeleteAddress
<1>3. PICK another \in {{a} : a \in others} \cup (IF others = {} THEN {{}} ELSE {}) :
        /\ another # {} => DefaultFree(rows \cup another)
        /\ address' = [b \in AddressIds |-> IF b \in rows THEN "gone" ELSE IF b \in another THEN "default" ELSE address[b]]
  BY DEF DeleteAddress
<1>4. /\ others \subseteq Addresses
      /\ another = {} => others = {}
      /\ another # {} => \E a \in others : another = {a}
  BY <1>1, <1>3
<1> HIDE DEF others
<1>5. Addresses' = Addresses \ rows
  BY <1>1, <1>3, <1>4 DEF Addresses, AddressTypeOK
<1>6. Defaults' = IF another # {} THEN another \ rows ELSE Defaults \ rows
  BY <1>1, <1>3, <1>4 DEF Defaults, DefaultFree, Addresses
<1>7. address' \in [AddressIds -> {"none", "plain", "default", "gone"}]
  BY <1>3 DEF AddressTypeOK
<1>8. /\ AddressTypeOK' /\ RowsLocked' /\ UpToDate'
      /\ Creators' = Creators \ {r}
      /\ ~overlapped' => Defaults' # {} \/ (~overlapped /\ Current(ask))
  BY <1>1, <1>2, <1>5, <1>7, CommitStep
<1>9. OneDefault'
  BY <1>4, <1>6 DEF OneDefault
<1>10. DefaultRemains'
  <2> SUFFICES ASSUME ~overlapped', Addresses' # {}, Defaults' = {} PROVE FALSE
    BY DEF DefaultRemains
  <2>1. ~overlapped /\ Current(ask)
    BY <1>8
  <2>2. PICK a \in Addresses : ask.id = {a} /\ rows = {a} /\ ask.default = (a \in Defaults)
    BY <1>1, <2>1 DEF Current, Begun
  <2>3. CASE ask.default
    BY <1>3, <1>4, <1>5, <1>6, <2>2, <2>3 DEF others
  <2>4. CASE ~ask.default
    <3>1. another = {}
      BY <1>4, <2>4 DEF others
    <3>2. Defaults # {}
      BY <2>1, <2>2 DEF DefaultRemains
    <3> QED BY <1>6, <2>2, <2>4, <3>1, <3>2
  <2> QED BY <1>1, <2>3, <2>4
<1>11. WithinLimit'
  BY <1>5, <1>8, LimitKept
<1> QED BY <1>8, <1>9, <1>10, <1>11

-----------------------------------------------------------------------------

LEMMA AddressStep == AddressInv /\ [NextAddresses]_addressVars => AddressInv'
PROOF
<1> SUFFICES ASSUME AddressInv, [NextAddresses]_addressVars PROVE AddressInv'
  OBVIOUS
<1>1. CASE UNCHANGED addressVars
  <2>1. address' = address /\ pending' = pending /\ overlapped' = overlapped
    BY <1>1 DEF addressVars
  <2> QED BY <2>1 DEF AddressInv, AddressTypeOK, OneDefault, RowsLocked, Begun, WithinLimit, Creators, UpToDate,
                      Current, DefaultRemains, Addresses, Defaults
<1>2. CASE NextAddresses
  BY <1>2, CountStep, FindDefaultStep, ReadStep, BeginStep, InsertStep, SetDefaultStep, DeleteStep, GiveUpStep
  DEF NextAddresses
<1> QED BY <1>1, <1>2

\* Two defaults never; one as long as there is an address that no overlapping
\* requests have left alone; and as many addresses as the limit allows, and
\* one more for each request beyond the first (user.service.ts:43).
THEOREM OneDefaultHolds == AddressSpec => []OneDefaultAddress
PROOF
<1>1. AddressInv => OneDefaultAddress
  <2> SUFFICES ASSUME AddressInv PROVE OneDefaultAddress
    OBVIOUS
  <2> USE DEF AddressInv
  <2>1. Cardinality(Defaults) <= 1
    <3>1. CASE Defaults = {}
      BY <3>1, FS_EmptySet
    <3>2. CASE Defaults # {}
      <4>1. PICK d : Defaults = {d}
        BY <3>2 DEF OneDefault
      <4> QED BY <4>1, FS_Singleton
    <3> QED BY <3>1, <3>2
  <2>2. Cardinality(Addresses) < MaxAddresses + Cardinality(AddressCalls)
    <3>1. Creators \in SUBSET AddressCalls
      BY DEF Creators
    <3>2. Cardinality(Creators) \in Nat /\ Cardinality(AddressCalls) \in Nat
      BY <3>1, CallsCounted
    <3>3. Cardinality(Addresses) \in Nat
      BY FS_CardinalityType DEF WithinLimit
    <3> QED BY <3>2, <3>3, AddressAssumption DEF WithinLimit
  <2> QED BY <2>1, <2>2 DEF DefaultRemains, OneDefaultAddress
<1> QED BY <1>1, AddressInit, AddressStep, PTL DEF AddressSpec

-----------------------------------------------------------------------------
(* Links.                                                                  *)

LinkTypes == {"REGISTER", "INVITE", "RESET_PASSWORD", "CHANGE_EMAIL"}

Accounts == [email : Mailboxes, admin : BOOLEAN, password : BOOLEAN, google : SUBSET Mailboxes]

Links == [type : LinkTypes, email : Mailboxes, user : Nat, at : {"live", "used", "gone"},
          expired : BOOLEAN, acted : Nat, after : Nat]

Errands ==
    {NoErrand}
    \cup [at : {"looked"}, type : LinkTypes, email : Mailboxes, user : Nat]
    \cup [at : {"aimed"}, type : LinkTypes, email : Mailboxes, user : Nat, after : Nat, old : SUBSET Nat]
    \cup [at : {"opened"}, link : Nat, user : Nat]

LinkTypeOK ==
    /\ account \in Seq(Accounts)
    /\ link \in Seq(Links)
    /\ errand \in [LinkCalls -> Errands]

Opens(w, i) == errand[w].at = "opened" /\ errand[w].link = i

\* The row lock: an opened link is live, and nobody else has it.
OpenedIsOwn ==
    \A w \in LinkCalls : errand[w].at = "opened" =>
        /\ errand[w].link \in DOMAIN link /\ Live(errand[w].link)
        /\ link[errand[w].link].type # "INVITE" => errand[w].user = link[errand[w].link].user
        /\ \A v \in LinkCalls : Opens(v, errand[w].link) => v = w

\* What the DELETE has seen: every link it replaces that is not gone since.
AimedKnowsOld ==
    \A w \in LinkCalls : errand[w].at = "aimed" =>
        /\ errand[w].after <= Len(link)
        /\ \A i \in DOMAIN link : i <= errand[w].after /\ Live(i) /\ Replaced(errand[w], link[i]) => i \in errand[w].old

\* An account's address is one that was shown to be somebody's.
Proved(u) ==
    \/ account[u].email \in account[u].google
    \/ \E i \in DOMAIN link :
        /\ link[i].at = "used" /\ link[i].email = account[u].email
        /\ \/ link[i].type \in {"REGISTER", "INVITE"}
           \/ link[i].type = "CHANGE_EMAIL" /\ link[i].user = u

LinkInv ==
    /\ LinkTypeOK
    /\ OpenedIsOwn
    /\ AimedKnowsOld
    /\ ActsOnce
    /\ NewestLinkOnly
    /\ AddressesProved

-----------------------------------------------------------------------------

LEMMA LinkInit == InitLinks => LinkInv
PROOF
<1> SUFFICES ASSUME InitLinks PROVE LinkInv
  OBVIOUS
<1>1. DOMAIN account = {} /\ DOMAIN link = {}
  BY DEF InitLinks
<1>2. \A w \in LinkCalls : errand[w] = NoErrand /\ errand[w].at = "idle"
  BY DEF InitLinks, NoErrand
<1>3. LinkTypeOK
  BY <1>2 DEF InitLinks, LinkTypeOK, Errands
<1>4. OpenedIsOwn /\ AimedKnowsOld
  BY <1>2 DEF OpenedIsOwn, AimedKnowsOld
<1>5. ActsOnce /\ NewestLinkOnly /\ AddressesProved
  BY <1>1 DEF ActsOnce, NewestLinkOnly, AddressesProved
<1> QED BY <1>3, <1>4, <1>5 DEF LinkInv

\* A step of requests alone.
LEMMA TablesAlone ==
    ASSUME LinkInv, UNCHANGED <<account, link>>
    PROVE  ActsOnce' /\ NewestLinkOnly' /\ AddressesProved'
BY DEF LinkInv, ActsOnce, NewestLinkOnly, AddressesProved, Live

\* Nobody has an address that ByEmail does not find.
LEMMA FoundByEmail ==
    ASSUME NEW e, EmailFree(e), account \in Seq(Accounts)
    PROVE  \A u \in DOMAIN account : account[u].email # e
PROOF
<1>1. \A u \in DOMAIN account : u \in Nat \ {0}
  OBVIOUS
<1> QED BY <1>1 DEF EmailFree, ByEmail, NoUser

LEMMA LookStep ==
    ASSUME LinkInv, NEW w \in LinkCalls, LookAtAccount(w)
    PROVE  LinkInv'
PROOF
<1> USE DEF LinkInv
<1>1. PICK type \in LinkTypes, e \in Mailboxes, u \in DOMAIN account \cup {NoUser} :
        errand' = [errand EXCEPT ![w] = [at |-> "looked", type |-> type, email |-> e, user |-> u]]
  BY DEF LookAtAccount, LinkTypes
<1>2. UNCHANGED <<account, link>>
  BY DEF LookAtAccount
<1>3. u \in Nat
  BY DEF LinkTypeOK, NoUser
<1>4. LinkTypeOK'
  BY <1>1, <1>2, <1>3 DEF LinkTypeOK, Errands
<1>5. OpenedIsOwn'
  BY <1>1, <1>2 DEF LinkTypeOK, OpenedIsOwn, Opens, Live
<1>6. AimedKnowsOld'
  BY <1>1, <1>2 DEF LinkTypeOK, AimedKnowsOld, Replaced, Live
<1> QED BY <1>2, <1>4, <1>5, <1>6, TablesAlone

LEMMA AimStep ==
    ASSUME LinkInv, NEW w \in LinkCalls, AimAtOld(w)
    PROVE  LinkInv'
PROOF
<1> USE DEF LinkInv
<1> DEFINE ask == errand[w]
           old == {i \in DOMAIN link : Live(i) /\ Replaced(ask, link[i])}
           aimed == [at |-> "aimed", type |-> ask.type, email |-> ask.email, user |-> ask.user,
                     after |-> Len(link), old |-> old]
<1>1. errand' = [errand EXCEPT ![w] = aimed] /\ UNCHANGED <<account, link>> /\ ask.at = "looked"
  BY DEF AimAtOld
<1>2. ask.type \in LinkTypes /\ ask.email \in Mailboxes /\ ask.user \in Nat /\ Len(link) \in Nat /\ old \subseteq Nat
  BY <1>1 DEF LinkTypeOK, Errands, NoErrand
<1>3. LinkTypeOK'
  <2> HIDE DEF old
  <2> QED BY <1>1, <1>2 DEF LinkTypeOK, Errands
<1>4. OpenedIsOwn'
  <2> HIDE DEF old
  <2> QED BY <1>1 DEF LinkTypeOK, OpenedIsOwn, Opens, Live
<1>5. AimedKnowsOld'
  <2>1. \A i \in DOMAIN link : Live(i) /\ Replaced(aimed, link[i]) => i \in old
    BY DEF Replaced
  <2> HIDE DEF old
  <2> QED BY <1>1, <1>2, <2>1 DEF LinkTypeOK, AimedKnowsOld, Replaced, Live
<1> QED BY <1>1, <1>3, <1>4, <1>5, TablesAlone

LEMMA OpenStep ==
    ASSUME LinkInv, NEW w \in LinkCalls, OpenLink(w)
    PROVE  LinkInv'
PROOF
<1> USE DEF LinkInv
<1>1. PICK i \in DOMAIN link :
        LET u == IF link[i].type = "INVITE" /\ link[i].user = NoUser THEN ByEmail(link[i].email) ELSE link[i].user
        IN  /\ Live(i) /\ ~OpenedByOthers(i, w)
            /\ errand' = [errand EXCEPT ![w] = [at |-> "opened", link |-> i, user |-> u]]
  BY DEF OpenLink
<1> DEFINE u == IF link[i].type = "INVITE" /\ link[i].user = NoUser THEN ByEmail(link[i].email) ELSE link[i].user
<1>2. UNCHANGED <<account, link>>
  BY DEF OpenLink
<1>3. i \in Nat /\ u \in Nat /\ (link[i].type # "INVITE" => u = link[i].user)
  <2>1. link[i] \in Links /\ i \in Nat
    BY DEF LinkTypeOK
  <2>2. ByEmail(link[i].email) \in Nat
    <3>1. \A v \in DOMAIN account : v \in Nat
      BY DEF LinkTypeOK
    <3> QED BY <3>1 DEF ByEmail, NoUser
  <2> QED BY <2>1, <2>2 DEF Links
<1>4. errand' = [errand EXCEPT ![w] = [at |-> "opened", link |-> i, user |-> u]]
  BY <1>1
<1> HIDE DEF u
<1>5. LinkTypeOK'
  BY <1>2, <1>3, <1>4 DEF LinkTypeOK, Errands
<1>6. OpenedIsOwn'
  <2>1. \A v \in LinkCalls \ {w} : ~Opens(v, i)
    BY <1>1 DEF OpenedByOthers, Opens
  <2> QED BY <1>1, <1>2, <1>3, <1>4, <2>1 DEF LinkTypeOK, OpenedIsOwn, Opens, Live
<1>7. AimedKnowsOld'
  BY <1>2, <1>4 DEF LinkTypeOK, AimedKnowsOld, Replaced, Live
<1> QED BY <1>2, <1>5, <1>6, <1>7, TablesAlone

LEMMA FailStep ==
    ASSUME LinkInv, NEW w \in LinkCalls, FailErrand(w)
    PROVE  LinkInv'
PROOF
<1> USE DEF LinkInv
<1>1. errand' = [errand EXCEPT ![w] = NoErrand] /\ UNCHANGED <<account, link>>
  BY DEF FailErrand
<1>2. LinkTypeOK'
  BY <1>1 DEF LinkTypeOK, Errands
<1>3. OpenedIsOwn'
  BY <1>1 DEF LinkTypeOK, OpenedIsOwn, Opens, Live, NoErrand
<1>4. AimedKnowsOld'
  BY <1>1 DEF LinkTypeOK, AimedKnowsOld, Replaced, Live, NoErrand
<1> QED BY <1>1, <1>2, <1>3, <1>4, TablesAlone

-----------------------------------------------------------------------------
(* Links that are inserted, expire or are deleted.                         *)

\* Links that were used stay, and an account's address stays proved.
LEMMA StillProved ==
    ASSUME LinkInv, UNCHANGED account, DOMAIN link \subseteq DOMAIN link',
           \A i \in DOMAIN link : link[i].at = "used" => link'[i] = link[i]
    PROVE  AddressesProved'
BY DEF LinkInv, AddressesProved

LEMMA IssueStep ==
    ASSUME LinkInv, NEW w \in LinkCalls, IssueLink(w)
    PROVE  LinkInv'
PROOF
<1> USE DEF LinkInv
<1> DEFINE ask == errand[w]
           n == Len(link) + 1
           kept == [i \in DOMAIN link |-> IF i \in ask.old /\ Live(i) THEN [link[i] EXCEPT !.at = "gone"] ELSE link[i]]
           new == [type |-> ask.type, email |-> ask.email, user |-> ask.user,
                   at |-> "live", expired |-> FALSE, acted |-> 0, after |-> ask.after]
<1>1. /\ ask.at = "aimed" /\ \A i \in ask.old : ~OpenedByOthers(i, w)
      /\ link' = Append(kept, new)
      /\ errand' = [errand EXCEPT ![w] = NoErrand] /\ UNCHANGED account
  BY DEF IssueLink
<1>2. ask.type \in LinkTypes /\ ask.email \in Mailboxes /\ ask.user \in Nat /\ ask.after \in Nat
  BY <1>1 DEF LinkTypeOK, Errands, NoErrand
<1>3. new \in Links
  BY <1>2 DEF Links
<1>4. Len(link) \in Nat /\ DOMAIN link = 1 .. Len(link) /\ \A i \in DOMAIN link : link[i] \in Links
  BY DEF LinkTypeOK
<1>5. \A i \in DOMAIN link : kept[i] \in Links
  BY <1>4 DEF Links
<1>6. kept \in Seq(Links) /\ Len(kept) = Len(link)
  <2> HIDE DEF kept
  <2>1. DOMAIN kept = 1 .. Len(link)
    BY <1>4 DEF kept
  <2>2. kept \in [1 .. Len(link) -> Links]
    BY <1>4, <1>5, <2>1 DEF kept
  <2> QED BY <1>4, <2>2
<1>7. /\ link' \in Seq(Links) /\ Len(link') = n /\ DOMAIN link' = 1 .. n
      /\ link'[n] = new /\ \A i \in DOMAIN link : link'[i] = kept[i]
  <2> HIDE DEF kept, new
  <2> QED BY <1>1, <1>3, <1>4, <1>6
<1>8. \A i \in DOMAIN link :
        /\ link'[i].type = link[i].type /\ link'[i].email = link[i].email /\ link'[i].user = link[i].user
        /\ link'[i].acted = link[i].acted /\ link'[i].after = link[i].after
        /\ link'[i].at = IF i \in ask.old /\ Live(i) THEN "gone" ELSE link[i].at
  BY <1>4, <1>7 DEF Links
<1>9. new.at = "live" /\ new.acted = 0 /\ new.type = ask.type /\ new.email = ask.email /\ new.user = ask.user
      /\ new.after = ask.after
  OBVIOUS
<1> HIDE DEF kept, new
<1>10. LinkTypeOK'
  BY <1>1, <1>7 DEF LinkTypeOK, Errands
<1>11. OpenedIsOwn'
  <2> SUFFICES ASSUME NEW v \in LinkCalls, errand'[v].at = "opened"
               PROVE  /\ errand'[v].link \in DOMAIN link' /\ Live(errand[v].link)'
                      /\ link'[errand'[v].link].type # "INVITE" => errand'[v].user = link'[errand'[v].link].user
                      /\ \A x \in LinkCalls : Opens(x, errand[v].link)' => x = v
    BY DEF OpenedIsOwn
  <2>1. v # w /\ errand'[v] = errand[v] /\ \A x \in LinkCalls : errand'[x].at = "opened" => errand'[x] = errand[x]
    BY <1>1 DEF LinkTypeOK, NoErrand
  <2>2. errand[v].link \in DOMAIN link /\ Live(errand[v].link) /\ errand[v].link \notin ask.old
    BY <1>1, <2>1 DEF OpenedIsOwn, OpenedByOthers
  <2> QED BY <1>4, <1>7, <1>8, <2>1, <2>2 DEF OpenedIsOwn, Live, Opens
<1>12. AimedKnowsOld'
  <2> SUFFICES ASSUME NEW v \in LinkCalls, errand'[v].at = "aimed"
               PROVE  /\ errand'[v].after <= Len(link')
                      /\ \A i \in DOMAIN link' : i <= errand'[v].after /\ Live(i)' /\ Replaced(errand'[v], link'[i])
                            => i \in errand'[v].old
    BY DEF AimedKnowsOld
  <2>1. errand'[v] = errand[v]
    BY <1>1 DEF LinkTypeOK, NoErrand
  <2>2. errand[v].after \in Nat
    BY <2>1 DEF LinkTypeOK, Errands, NoErrand
  <2>3. errand[v].after <= Len(link)
    BY <2>1 DEF AimedKnowsOld
  <2>4. \A i \in DOMAIN link : Live(i)' => Live(i)
    BY <1>8 DEF Live
  <2> QED BY <1>4, <1>7, <1>8, <2>1, <2>2, <2>3, <2>4 DEF AimedKnowsOld, Replaced
<1>13. ActsOnce'
  BY <1>4, <1>7, <1>8, <1>9 DEF ActsOnce, Live
<1>14. NewestLinkOnly'
  <2> SUFFICES ASSUME NEW i \in DOMAIN link', NEW j \in DOMAIN link', i < j, Live(i)', Live(j)',
                      link'[i].type = link'[j].type,
                      IF link'[i].type = "CHANGE_EMAIL" THEN link'[i].user = link'[j].user
                                                        ELSE link'[i].email = link'[j].email
               PROVE  link'[j].after < i
    BY DEF NewestLinkOnly
  <2>1. i \in DOMAIN link /\ Live(i) /\ i \notin ask.old
    BY <1>4, <1>7, <1>8 DEF Live
  <2>2. CASE j = n
    <3>1. Replaced(ask, link[i])
      BY <1>7, <1>8, <1>9, <2>1, <2>2 DEF Replaced
    <3>2. ~(i <= ask.after)
      BY <1>1, <2>1, <3>1 DEF AimedKnowsOld
    <3> QED BY <1>2, <1>4, <1>7, <1>9, <2>1, <2>2, <3>2
  <2>3. CASE j # n
    <3>1. j \in DOMAIN link
      BY <1>4, <1>7, <2>3
    <3> QED BY <1>8, <2>1, <3>1 DEF NewestLinkOnly, Live
  <2> QED BY <2>2, <2>3
<1>15. AddressesProved'
  <2>1. \A i \in DOMAIN link : link[i].at = "used" => link'[i] = link[i]
    BY <1>7 DEF kept, Live
  <2> QED BY <1>1, <1>4, <1>7, <2>1, StillProved
<1> QED BY <1>10, <1>11, <1>12, <1>13, <1>14, <1>15

\* A link that nobody has open expires or is deleted; nothing else changes.
LEMMA LinkEnds ==
    ASSUME LinkInv, UNCHANGED <<account, errand>>, NEW i \in DOMAIN link, Live(i),
           NEW it \in Links, link' = [link EXCEPT ![i] = it],
           it.at = "live" \/ (it.at = "gone" /\ \A w \in LinkCalls : ~Opens(w, i)),
           it.type = link[i].type, it.email = link[i].email, it.user = link[i].user,
           it.acted = link[i].acted, it.after = link[i].after
    PROVE  LinkInv'
PROOF
<1> USE DEF LinkInv
<1>1. DOMAIN link' = DOMAIN link /\ Len(link') = Len(link)
  BY DEF LinkTypeOK
<1>2. \A j \in DOMAIN link : link'[j] = IF j = i THEN it ELSE link[j]
  BY DEF LinkTypeOK
<1>3. \A j \in DOMAIN link : Live(j)' => Live(j)
  BY <1>2 DEF Live
<1>4. LinkTypeOK'
  BY DEF LinkTypeOK
<1>5. OpenedIsOwn'
  BY <1>1, <1>2 DEF OpenedIsOwn, Opens, Live
<1>6. AimedKnowsOld'
  BY <1>1, <1>2, <1>3 DEF AimedKnowsOld, Replaced
<1>7. ActsOnce'
  BY <1>1, <1>2 DEF ActsOnce, Live
<1>8. NewestLinkOnly'
  BY <1>1, <1>2, <1>3 DEF NewestLinkOnly
<1>9. AddressesProved'
  BY <1>1, <1>2, StillProved DEF Live
<1> QED BY <1>4, <1>5, <1>6, <1>7, <1>8, <1>9

LEMMA EndStep ==
    ASSUME LinkInv, NEW i \in DOMAIN link, ExpireLink(i) \/ CleanupPendingVerifications(i)
    PROVE  LinkInv'
PROOF
<1>1. link[i] \in Links
  BY DEF LinkInv, LinkTypeOK
<1>2. CASE ExpireLink(i)
  <2> DEFINE it == [link[i] EXCEPT !.expired = TRUE]
  <2>1. /\ it \in Links /\ it.at = link[i].at /\ it.type = link[i].type /\ it.email = link[i].email
        /\ it.user = link[i].user /\ it.acted = link[i].acted /\ it.after = link[i].after
    BY <1>1 DEF Links
  <2>2. link' = [link EXCEPT ![i] = it] /\ UNCHANGED <<account, errand>> /\ Live(i)
    BY <1>2 DEF ExpireLink
  <2>3. it.at = "live"
    BY <2>1, <2>2 DEF Live
  <2> HIDE DEF it
  <2> QED BY <2>1, <2>2, <2>3, LinkEnds
<1>3. CASE CleanupPendingVerifications(i)
  <2> DEFINE it == [link[i] EXCEPT !.at = "gone"]
  <2>1. /\ it \in Links /\ it.at = "gone" /\ it.type = link[i].type /\ it.email = link[i].email
        /\ it.user = link[i].user /\ it.acted = link[i].acted /\ it.after = link[i].after
    BY <1>1 DEF Links
  <2>2. /\ link' = [link EXCEPT ![i] = it] /\ UNCHANGED <<account, errand>> /\ Live(i)
        /\ \A w \in LinkCalls : ~Opens(w, i)
    BY <1>3 DEF CleanupPendingVerifications, Opens
  <2> HIDE DEF it
  <2> QED BY <2>1, <2>2, LinkEnds
<1> QED BY <1>2, <1>3

-----------------------------------------------------------------------------
(* Accounts that are created and changed.                                  *)

\* An account whose fields are changed is one still.
LEMMA ChangedTyped ==
    ASSUME account \in Seq(Accounts), NEW u, NEW it, account' = [account EXCEPT ![u] = it],
           u \in DOMAIN account => it \in Accounts
    PROVE  /\ account' \in Seq(Accounts) /\ DOMAIN account' = DOMAIN account
           /\ \A v \in DOMAIN account : account'[v] = IF v = u THEN it ELSE account[v]
PROOF
<1>1. Len(account) \in Nat /\ DOMAIN account = 1 .. Len(account) /\ \A v \in DOMAIN account : account[v] \in Accounts
  OBVIOUS
<1>2. DOMAIN account' = DOMAIN account /\ account' = [v \in DOMAIN account |-> account'[v]]
  OBVIOUS
<1>3. \A v \in DOMAIN account : account'[v] = IF v = u THEN it ELSE account[v]
  OBVIOUS
<1>4. account' \in [1 .. Len(account) -> Accounts]
  BY <1>1, <1>2, <1>3
<1> QED BY <1>1, <1>2, <1>3, <1>4

\* What Use does to the link it was called for, and to nothing else.
Used(w) ==
    /\ LinkTypeOK' /\ OpenedIsOwn' /\ AimedKnowsOld' /\ ActsOnce' /\ NewestLinkOnly'
    /\ DOMAIN link' = DOMAIN link
    /\ \A i \in DOMAIN link :
        /\ link'[i].type = link[i].type /\ link'[i].email = link[i].email /\ link'[i].user = link[i].user
        /\ link[i].at = "used" \/ i = errand[w].link => link'[i].at = "used"

LEMMA UseStep ==
    ASSUME LinkInv, NEW w \in LinkCalls, errand[w].at = "opened", Use(w), account' \in Seq(Accounts)
    PROVE  Used(w)
PROOF
<1> USE DEF LinkInv
<1> DEFINE i == errand[w].link
<1>1. i \in DOMAIN link /\ Live(i) /\ \A v \in LinkCalls : Opens(v, i) => v = w
  BY DEF OpenedIsOwn
<1>2. link[i] \in Links /\ link[i].acted = 0
  BY <1>1 DEF LinkTypeOK, ActsOnce, Live
<1>3. link' = [link EXCEPT ![i].at = "used", ![i].acted = @ + 1] /\ errand' = [errand EXCEPT ![w] = NoErrand]
  BY DEF Use
<1> DEFINE it == [link[i] EXCEPT !.at = "used", !.acted = 1]
<1>4. /\ it \in Links /\ it.at = "used" /\ it.acted = 1
      /\ it.type = link[i].type /\ it.email = link[i].email /\ it.user = link[i].user /\ it.after = link[i].after
  BY <1>2 DEF Links
<1>5. \A j \in DOMAIN link : link'[j] = IF j = i THEN it ELSE link[j]
  BY <1>1, <1>2, <1>3, SMTT(30) DEF LinkTypeOK, Links
<1>6. DOMAIN link' = DOMAIN link /\ link' \in Seq(Links) /\ Len(link') = Len(link)
  <2>1. DOMAIN link' = DOMAIN link /\ link' = [j \in DOMAIN link |-> link'[j]]
    BY <1>3 DEF LinkTypeOK
  <2>2. \A j \in DOMAIN link : link'[j] \in Links
    BY <1>4, <1>5 DEF LinkTypeOK
  <2>3. Len(link) \in Nat /\ DOMAIN link = 1 .. Len(link)
    BY DEF LinkTypeOK
  <2> QED BY <2>1, <2>2, <2>3
<1> HIDE DEF it
<1>7. LinkTypeOK'
  BY <1>3, <1>6 DEF LinkTypeOK, Errands
<1>8. OpenedIsOwn'
  <2> SUFFICES ASSUME NEW v \in LinkCalls, errand'[v].at = "opened"
               PROVE  /\ errand'[v].link \in DOMAIN link' /\ Live(errand[v].link)'
                      /\ link'[errand'[v].link].type # "INVITE" => errand'[v].user = link'[errand'[v].link].user
                      /\ \A x \in LinkCalls : Opens(x, errand[v].link)' => x = v
    BY DEF OpenedIsOwn
  <2>1. v # w /\ errand'[v] = errand[v] /\ \A x \in LinkCalls : errand'[x].at = "opened" => errand'[x] = errand[x]
    BY <1>3 DEF LinkTypeOK, NoErrand
  <2>2. errand[v].link \in DOMAIN link /\ Live(errand[v].link) /\ errand[v].link # i
    BY <1>1, <2>1 DEF OpenedIsOwn, Opens
  <2> QED BY <1>5, <1>6, <2>1, <2>2 DEF OpenedIsOwn, Live, Opens
<1>9. \A j \in DOMAIN link : Live(j)' => Live(j) /\ j # i
  BY <1>4, <1>5 DEF Live
<1>10. AimedKnowsOld'
  <2> SUFFICES ASSUME NEW v \in LinkCalls, errand'[v].at = "aimed"
               PROVE  /\ errand'[v].after <= Len(link')
                      /\ \A j \in DOMAIN link' : j <= errand'[v].after /\ Live(j)' /\ Replaced(errand'[v], link'[j])
                            => j \in errand'[v].old
    BY DEF AimedKnowsOld
  <2>1. errand'[v] = errand[v]
    BY <1>3 DEF LinkTypeOK, NoErrand
  <2> QED BY <1>5, <1>6, <1>9, <2>1 DEF AimedKnowsOld, Replaced
<1>11. ActsOnce'
  BY <1>4, <1>5, <1>6 DEF ActsOnce
<1>12. NewestLinkOnly'
  BY <1>5, <1>6, <1>9 DEF NewestLinkOnly
<1> QED BY <1>4, <1>5, <1>6, <1>7, <1>8, <1>10, <1>11, <1>12 DEF Used

\* A new account has an address of its own that was just proved.
LEMMA AccountAdded ==
    ASSUME LinkInv, NEW new \in Accounts, account' = Append(account, new),
           EmailFree(new.email), new.admin => new.password,
           DOMAIN link' = DOMAIN link,
           \A i \in DOMAIN link :
                /\ link'[i].type = link[i].type /\ link'[i].email = link[i].email /\ link'[i].user = link[i].user
                /\ link[i].at = "used" => link'[i].at = "used",
           \/ new.email \in new.google
           \/ \E i \in DOMAIN link :
                link'[i].at = "used" /\ link'[i].email = new.email /\ link'[i].type \in {"REGISTER", "INVITE"}
    PROVE  account' \in Seq(Accounts) /\ AddressesProved'
PROOF
<1> USE DEF LinkInv
<1>1. account \in Seq(Accounts)
  BY DEF LinkTypeOK
<1> PICK n \in Nat : n = Len(account) + 1
  BY <1>1
<1>2. /\ account' \in Seq(Accounts) /\ DOMAIN account' = DOMAIN account \cup {n} /\ account'[n] = new
      /\ \A u \in DOMAIN account : account'[u] = account[u] /\ u # n
  BY <1>1
<1>3. \A u \in DOMAIN account : account[u].email # new.email
  BY <1>1, FoundByEmail
<1>4. \A u, v \in DOMAIN account' : account'[u].email = account'[v].email => u = v
  BY <1>2, <1>3 DEF AddressesProved
<1>5. \A u \in DOMAIN account' : Proved(u)'
  <2>1. \A u \in DOMAIN account : Proved(u)
    BY DEF AddressesProved, Proved
  <2>2. \A u \in DOMAIN account : Proved(u)'
    BY <1>2, <2>1 DEF Proved
  <2>3. Proved(n)'
    <3>1. CASE new.email \in new.google
      BY <1>2, <3>1 DEF Proved
    <3>2. CASE \E i \in DOMAIN link : link'[i].at = "used" /\ link'[i].email = new.email
                                        /\ link'[i].type \in {"REGISTER", "INVITE"}
      BY <1>2, <3>2 DEF Proved
    <3> QED BY <3>1, <3>2
  <2> QED BY <1>2, <2>2, <2>3
<1>6. \A u \in DOMAIN account' : account'[u].admin => account'[u].password
  BY <1>2 DEF AddressesProved
<1> QED BY <1>2, <1>4, <1>5, <1>6 DEF AddressesProved, Proved

\* What an account keeps of its address when only the rest is written.
LEMMA AccountKeepsAddress ==
    ASSUME LinkInv, DOMAIN account' = DOMAIN account, DOMAIN link' = DOMAIN link,
           \A v \in DOMAIN account :
                /\ account'[v].email = account[v].email /\ account'[v].google = account[v].google
                /\ account'[v].admin => account'[v].password,
           \A i \in DOMAIN link :
                /\ link'[i].type = link[i].type /\ link'[i].email = link[i].email /\ link'[i].user = link[i].user
                /\ link[i].at = "used" => link'[i].at = "used"
    PROVE  AddressesProved'
PROOF
<1>1. \A x, y \in DOMAIN account' : account'[x].email = account'[y].email => x = y
  BY DEF LinkInv, AddressesProved
<1>2. \A v \in DOMAIN account' : Proved(v)'
  <2>1. \A v \in DOMAIN account : Proved(v)
    BY DEF LinkInv, AddressesProved, Proved
  <2> QED BY <2>1 DEF Proved
<1> QED BY <1>1, <1>2 DEF AddressesProved, Proved

LEMMA RegistrationStep ==
    ASSUME LinkInv, NEW w \in LinkCalls, RedeemRegistration(w)
    PROVE  LinkInv'
PROOF
<1> DEFINE i == errand[w].link
           new == [email |-> link[i].email, admin |-> FALSE, password |-> TRUE, google |-> {}]
<1>1. /\ errand[w].at = "opened" /\ link[i].type = "REGISTER" /\ EmailFree(link[i].email) /\ Use(w)
      /\ account' = Append(account, new)
  BY DEF RedeemRegistration, Redeems, NewAccount
<1>2. i \in DOMAIN link /\ link[i].email \in Mailboxes
  <2>1. i \in DOMAIN link
    BY <1>1 DEF LinkInv, OpenedIsOwn
  <2>2. link[i] \in Links
    BY <2>1 DEF LinkInv, LinkTypeOK
  <2> QED BY <2>1, <2>2 DEF Links
<1>3. new \in Accounts /\ new.email = link[i].email /\ (new.admin => new.password)
  BY <1>2 DEF Accounts
<1> HIDE DEF new
<1>4. account' \in Seq(Accounts)
  <2>1. account \in Seq(Accounts)
    BY DEF LinkInv, LinkTypeOK
  <2> QED BY <1>1, <1>3, <2>1
<1>5. Used(w)
  BY <1>1, <1>4, UseStep
<1>6. AddressesProved'
  <2>1. link'[i].at = "used" /\ link'[i].email = new.email /\ link'[i].type = "REGISTER"
    BY <1>1, <1>2, <1>3, <1>5 DEF Used
  <2>2. EmailFree(new.email)
    BY <1>1, <1>3
  <2> QED BY <1>1, <1>2, <1>3, <1>5, <2>1, <2>2, AccountAdded DEF Used
<1> QED BY <1>5, <1>6 DEF LinkInv, Used

LEMMA InviteStep ==
    ASSUME LinkInv, NEW w \in LinkCalls, RedeemInvite(w)
    PROVE  LinkInv'
PROOF
<1> DEFINE i == errand[w].link
           u == errand[w].user
<1>1. errand[w].at = "opened" /\ link[i].type = "INVITE" /\ Use(w)
  BY DEF RedeemInvite, Redeems
<1>2. i \in DOMAIN link /\ link[i].email \in Mailboxes
  <2>1. i \in DOMAIN link
    BY <1>1 DEF LinkInv, OpenedIsOwn
  <2>2. link[i] \in Links
    BY <2>1 DEF LinkInv, LinkTypeOK
  <2> QED BY <2>1, <2>2 DEF Links
<1>3. account \in Seq(Accounts)
  BY DEF LinkInv, LinkTypeOK
<1>4. CASE u = NoUser
  <2> DEFINE new == [email |-> link[i].email, admin |-> TRUE, password |-> TRUE, google |-> {}]
  <2>1. EmailFree(link[i].email) /\ account' = Append(account, new)
    BY <1>4 DEF RedeemInvite, NewAccount
  <2>2. new \in Accounts /\ new.email = link[i].email /\ (new.admin => new.password)
    BY <1>2 DEF Accounts
  <2> HIDE DEF new
  <2>3. account' \in Seq(Accounts)
    BY <1>3, <2>1, <2>2
  <2>4. Used(w)
    BY <1>1, <2>3, UseStep
  <2>5. AddressesProved'
    <3>1. link'[i].at = "used" /\ link'[i].email = new.email /\ link'[i].type = "INVITE"
      BY <1>1, <1>2, <2>2, <2>4 DEF Used
    <3>2. EmailFree(new.email)
      BY <2>1, <2>2
    <3> QED BY <1>2, <2>1, <2>2, <2>4, <3>1, <3>2, AccountAdded DEF Used
  <2> QED BY <2>4, <2>5 DEF LinkInv, Used
<1>5. CASE u # NoUser
  <2> DEFINE it == [account[u] EXCEPT !.admin = TRUE, !.password = TRUE]
  <2>1. account' = [account EXCEPT ![u] = it]
    BY <1>5 DEF RedeemInvite
  <2>2. u \in DOMAIN account =>
            /\ it \in Accounts /\ it.email = account[u].email /\ it.google = account[u].google /\ it.password
    <3>1. u \in DOMAIN account => account[u] \in Accounts
      BY <1>3
    <3> QED BY <3>1 DEF Accounts
  <2> HIDE DEF it
  <2>3. /\ account' \in Seq(Accounts) /\ DOMAIN account' = DOMAIN account
        /\ \A v \in DOMAIN account : account'[v] = IF v = u THEN it ELSE account[v]
    BY <1>3, <2>1, <2>2, ChangedTyped
  <2>4. Used(w)
    BY <1>1, <2>3, UseStep
  <2>5. AddressesProved'
    <3>1. \A v \in DOMAIN account : account[v].admin => account[v].password
      BY DEF LinkInv, AddressesProved
    <3> QED BY <2>2, <2>3, <2>4, <3>1, AccountKeepsAddress DEF Used
  <2> QED BY <2>4, <2>5 DEF LinkInv, Used
<1> QED BY <1>4, <1>5

LEMMA ResetStep ==
    ASSUME LinkInv, NEW w \in LinkCalls, RedeemReset(w)
    PROVE  LinkInv'
PROOF
<1> DEFINE u == errand[w].user
           it == [account[u] EXCEPT !.password = TRUE]
<1>1. errand[w].at = "opened" /\ Use(w) /\ account' = [account EXCEPT ![u] = it]
  BY DEF RedeemReset, Redeems
<1>2. account \in Seq(Accounts)
  BY DEF LinkInv, LinkTypeOK
<1>3. u \in DOMAIN account =>
        /\ it \in Accounts /\ it.email = account[u].email /\ it.google = account[u].google /\ it.password
  <2>1. u \in DOMAIN account => account[u] \in Accounts
    BY <1>2
  <2> QED BY <2>1 DEF Accounts
<1> HIDE DEF it
<1>4. /\ account' \in Seq(Accounts) /\ DOMAIN account' = DOMAIN account
      /\ \A v \in DOMAIN account : account'[v] = IF v = u THEN it ELSE account[v]
  BY <1>1, <1>2, <1>3, ChangedTyped
<1>5. Used(w)
  BY <1>1, <1>4, UseStep
<1>6. AddressesProved'
  <2>1. \A v \in DOMAIN account : account[v].admin => account[v].password
    BY DEF LinkInv, AddressesProved
  <2> QED BY <1>3, <1>4, <1>5, <2>1, AccountKeepsAddress DEF Used
<1> QED BY <1>5, <1>6 DEF LinkInv, Used

LEMMA EmailChangeStep ==
    ASSUME LinkInv, NEW w \in LinkCalls, RedeemEmailChange(w)
    PROVE  LinkInv'
PROOF
<1> DEFINE i == errand[w].link
           u == errand[w].user
           e == link[i].email
           it == [account[u] EXCEPT !.email = e]
<1>1. /\ errand[w].at = "opened" /\ link[i].type = "CHANGE_EMAIL" /\ Use(w)
      /\ ByEmail(e) \in {NoUser, u} /\ account' = [account EXCEPT ![u] = it]
  BY DEF RedeemEmailChange, Redeems
<1>2. i \in DOMAIN link /\ u = link[i].user /\ e \in Mailboxes
  <2>1. i \in DOMAIN link /\ u = link[i].user
    BY <1>1 DEF LinkInv, OpenedIsOwn
  <2>2. link[i] \in Links
    BY <2>1 DEF LinkInv, LinkTypeOK
  <2> QED BY <2>1, <2>2 DEF Links
<1>3. account \in Seq(Accounts)
  BY DEF LinkInv, LinkTypeOK
<1>4. u \in DOMAIN account =>
        /\ it \in Accounts /\ it.email = e /\ it.google = account[u].google
        /\ it.admin = account[u].admin /\ it.password = account[u].password
  <2>1. u \in DOMAIN account => account[u] \in Accounts
    BY <1>3
  <2> QED BY <1>2, <2>1 DEF Accounts
<1> HIDE DEF it
<1>5. /\ account' \in Seq(Accounts) /\ DOMAIN account' = DOMAIN account
      /\ \A v \in DOMAIN account : account'[v] = IF v = u THEN it ELSE account[v]
  BY <1>1, <1>3, <1>4, ChangedTyped
<1>6. Used(w)
  BY <1>1, <1>5, UseStep
<1>7. \A x, y \in DOMAIN account : account[x].email = account[y].email => x = y
  BY DEF LinkInv, AddressesProved
<1>8. \A v \in DOMAIN account : v # u => account[v].email # e
  <2> HIDE DEF e, u
  <2> SUFFICES ASSUME NEW v \in DOMAIN account, v # u, account[v].email = e PROVE FALSE
    OBVIOUS
  <2>1. v \in Nat \ {0}
    BY <1>3
  <2>2. ByEmail(e) \in DOMAIN account /\ account[ByEmail(e)].email = e
    BY DEF ByEmail
  <2>3. ByEmail(e) = v
    BY <1>7, <2>2
  <2> QED BY <1>1, <2>1, <2>3 DEF NoUser
<1>9. \A v \in DOMAIN account : Proved(v)'
  <2> SUFFICES ASSUME NEW v \in DOMAIN account PROVE Proved(v)'
    OBVIOUS
  <2>1. CASE v = u
    <3>1. /\ i \in DOMAIN link' /\ link'[i].at = "used" /\ link'[i].email = account'[v].email
          /\ link'[i].type = "CHANGE_EMAIL" /\ link'[i].user = v
      BY <1>1, <1>2, <1>4, <1>5, <1>6, <2>1 DEF Used
    <3> QED BY <3>1 DEF Proved
  <2>2. CASE v # u
    <3>1. Proved(v) /\ account'[v] = account[v]
      BY <1>5, <2>2 DEF LinkInv, AddressesProved, Proved
    <3> QED BY <1>6, <3>1 DEF Proved, Used
  <2> QED BY <2>1, <2>2
<1>10. AddressesProved'
  <2>1. \A x, y \in DOMAIN account' : account'[x].email = account'[y].email => x = y
    BY <1>4, <1>5, <1>7, <1>8
  <2>2. \A v \in DOMAIN account' : account'[v].admin => account'[v].password
    BY <1>4, <1>5 DEF LinkInv, AddressesProved
  <2> QED BY <1>5, <1>9, <2>1, <2>2 DEF AddressesProved, Proved
<1> QED BY <1>6, <1>10 DEF LinkInv, Used

LEMMA GoogleStep ==
    ASSUME LinkInv, NEW e \in GoogleMailboxes, GoogleSignIn(e)
    PROVE  LinkInv'
PROOF
<1>1. UNCHANGED <<link, errand>> /\ e \in Mailboxes
  BY LinkAssumption DEF GoogleSignIn
<1>2. account \in Seq(Accounts)
  BY DEF LinkInv, LinkTypeOK
<1>3. account' \in Seq(Accounts) /\ AddressesProved'
  <2>1. CASE EmailFree(e)
    <3> DEFINE new == [email |-> e, admin |-> FALSE, password |-> FALSE, google |-> {e}]
    <3>1. account' = Append(account, new)
      BY <2>1 DEF GoogleSignIn, NewAccount
    <3>2. new \in Accounts /\ new.email = e /\ (new.admin => new.password) /\ e \in new.google
      BY <1>1 DEF Accounts
    <3> HIDE DEF new
    <3> QED BY <1>1, <2>1, <3>1, <3>2, AccountAdded
  <2>2. CASE ~EmailFree(e)
    <3> DEFINE u == ByEmail(e)
               it == [account[u] EXCEPT !.google = {e}]
    <3>1. u \in DOMAIN account /\ account[u].email = e
      BY <2>2 DEF EmailFree, ByEmail, NoUser
    <3>2. account' = [account EXCEPT ![u] = it]
      BY <2>2 DEF GoogleSignIn
    <3> HIDE DEF u
    <3>3. /\ it \in Accounts /\ it.email = e /\ it.google = {e}
          /\ it.admin = account[u].admin /\ it.password = account[u].password
      <4>1. account[u] \in Accounts
        BY <1>2, <3>1
      <4> QED BY <1>1, <3>1, <4>1 DEF Accounts
    <3> HIDE DEF it
    <3>4. /\ account' \in Seq(Accounts) /\ DOMAIN account' = DOMAIN account
          /\ \A v \in DOMAIN account : account'[v] = IF v = u THEN it ELSE account[v]
      BY <1>2, <3>2, <3>3, ChangedTyped
    <3>5. \A v \in DOMAIN account : Proved(v)'
      <4>1. \A v \in DOMAIN account : Proved(v)
        BY DEF LinkInv, AddressesProved, Proved
      <4> QED BY <1>1, <3>3, <3>4, <4>1 DEF Proved
    <3>6. \A x, y \in DOMAIN account' : account'[x].email = account'[y].email => x = y
      BY <3>1, <3>3, <3>4 DEF LinkInv, AddressesProved
    <3>7. \A v \in DOMAIN account' : account'[v].admin => account'[v].password
      BY <3>3, <3>4, <3>1 DEF LinkInv, AddressesProved
    <3> QED BY <3>4, <3>5, <3>6, <3>7 DEF AddressesProved, Proved
  <2> QED BY <2>1, <2>2
<1>4. LinkTypeOK' /\ OpenedIsOwn' /\ AimedKnowsOld' /\ ActsOnce' /\ NewestLinkOnly'
  BY <1>1, <1>3 DEF LinkInv, LinkTypeOK, OpenedIsOwn, Opens, Live, AimedKnowsOld, Replaced, ActsOnce, NewestLinkOnly
<1> QED BY <1>3, <1>4 DEF LinkInv

-----------------------------------------------------------------------------

LEMMA LinkStep == LinkInv /\ [NextLinks]_linkVars => LinkInv'
PROOF
<1> SUFFICES ASSUME LinkInv, [NextLinks]_linkVars PROVE LinkInv'
  OBVIOUS
<1>1. CASE UNCHANGED linkVars
  <2>1. UNCHANGED <<account, link>> /\ errand' = errand
    BY <1>1 DEF linkVars
  <2>2. LinkTypeOK' /\ OpenedIsOwn' /\ AimedKnowsOld'
    BY <2>1 DEF LinkInv, LinkTypeOK, OpenedIsOwn, Opens, Live, AimedKnowsOld, Replaced
  <2> QED BY <2>1, <2>2, TablesAlone DEF LinkInv
<1>2. CASE NextLinks
  BY <1>2, LookStep, AimStep, IssueStep, OpenStep, RegistrationStep, InviteStep, ResetStep, EmailChangeStep,
     FailStep, GoogleStep, EndStep DEF NextLinks
<1> QED BY <1>1, <1>2

\* A link acts once, the newest alone unless it was inserted behind the
\* other's back, and an account's address was shown to be somebody's
\* (auth.repo.ts:250, :278; auth.service.ts:32 to :341, :488, :653 to :768).
THEOREM LinksAlwaysHold == LinkSpec => []LinksHold
PROOF
<1>1. LinkInv => LinksHold
  BY DEF LinkInv, LinksHold
<1> QED BY <1>1, LinkInit, LinkStep, PTL DEF LinkSpec
=============================================================================
