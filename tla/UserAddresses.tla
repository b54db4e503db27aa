--------------------------- MODULE UserAddresses ---------------------------
(***************************************************************************)
(* The addresses of one user.  Every command reads before its transaction, *)
(* decides, and writes in it; nothing but the unique index on the default  *)
(* address stands between two commands that overlap.                       *)
(***************************************************************************)
EXTENDS Integers, FiniteSets

CONSTANTS
    AddressIds,     \* ids of the rows, each used once
    AddressCalls,   \* requests that are handled at a time
    MaxAddresses    \* MAX_USER_ADDRESSES

ASSUME AddressAssumption == MaxAddresses \in Nat \ {0} /\ IsFiniteSet(AddressCalls) /\ AddressCalls # {}

VARIABLES
    address,        \* the rows: none yet, plain, default, gone
    pending,        \* what each request has read, and the rows it has written
    overlapped      \* history: a request has committed between another's read and its end,
                    \* and no default address has been left alone since

addressVars == <<address, pending, overlapped>>

NoCommand == [at |-> "idle"]
Addresses == {a \in AddressIds : address[a] \in {"plain", "default"}}
Defaults == {a \in AddressIds : address[a] = "default"}

InitAddresses ==
    /\ address = [a \in AddressIds |-> "none"]
    /\ pending = [r \in AddressCalls |-> NoCommand]
    /\ overlapped = FALSE

\* Rows that the transaction of another request has written.
LockedByOthers(r) == UNION {IF pending[q].at = "begun" THEN pending[q].rows ELSE {} : q \in AddressCalls \ {r}}

\* A request commits: those that have read before know no better.
Busy(r) == \E q \in AddressCalls \ {r} : pending[q] # NoCommand
Commit(r) ==
    /\ pending' = [pending EXCEPT ![r] = NoCommand]
    /\ overlapped' = (Busy(r) \/ (overlapped /\ \A a \in AddressIds : address'[a] # "default"))

-----------------------------------------------------------------------------
(* createAddress.                                                          *)

\* countUserAddresses, then the regions are asked for over the network.
Count(r) ==
    /\ pending[r] = NoCommand
    /\ Cardinality(Addresses) < MaxAddresses
    /\ \E wish \in BOOLEAN : pending' = [pending EXCEPT ![r] = [at |-> "counted", wish |-> wish]]
    /\ UNCHANGED <<address, overlapped>>

\* Slip: an address is the default only when the form says so.
AsWished(r) ==
    /\ pending[r].at = "counted"
    /\ pending' = [pending EXCEPT ![r] = [at |-> "decided", op |-> "create", default |-> pending[r].wish]]
    /\ UNCHANGED <<address, overlapped>>

\* getUserAddress: the first address is the default one.
LookForFirst(r) ==
    /\ pending[r].at = "counted"
    /\ pending' = [pending EXCEPT ![r] =
            [at |-> "decided", op |-> "create", default |-> pending[r].wish \/ Addresses = {}]]
    /\ UNCHANGED <<address, overlapped>>

-----------------------------------------------------------------------------
(* setDefaultAddress and deleteAddress.                                    *)

\* getAddressById, with its is_default.
ReadAddress(r) ==
    /\ pending[r] = NoCommand
    /\ \E a \in Addresses, op \in {"set", "delete"} :
        pending' = [pending EXCEPT ![r] = [at |-> "decided", op |-> op, id |-> a, default |-> address[a] = "default"]]
    /\ UNCHANGED <<address, overlapped>>

-----------------------------------------------------------------------------
(* The transactions.                                                       *)

\* The first statement: clearDefaultAddress writes every row of the user,
\* deleteAddress its own; it waits for whoever has one of them.
Begin(r) ==
    LET ask == pending[r]
        rows == CASE ask.op = "delete" -> {ask.id} \cap Addresses
                  [] ask.op = "set" \/ (ask.op = "create" /\ ask.default) -> Addresses
                  [] OTHER -> {}
    IN
    /\ ask.at = "decided"
    /\ rows \cap LockedByOthers(r) = {}
    /\ pending' = [pending EXCEPT ![r] =
            [at |-> "begun", op |-> ask.op, rows |-> rows, default |-> ask.default,
             id |-> IF ask.op = "create" THEN {} ELSE {ask.id}]]
    /\ UNCHANGED <<address, overlapped>>

\* uq_user_addresses_default: one default among the rows that are not cleared.
DefaultFree(rows) == Defaults \subseteq rows

Insert(r) ==
    LET ask == pending[r] IN
    /\ ask.at = "begun" /\ ask.op = "create"
    /\ ask.default => DefaultFree(ask.rows)
    /\ \E a \in AddressIds :
        /\ address[a] = "none"
        /\ address' = [b \in AddressIds |->
                IF b = a THEN (IF ask.default THEN "default" ELSE "plain")
                ELSE IF b \in ask.rows THEN "plain" ELSE address[b]]
    /\ Commit(r)

\* The row may be gone: then the UPDATE finds none, and the transaction ends
\* with the old default cleared.
SetDefault(r) ==
    LET ask == pending[r] IN
    /\ ask.at = "begun" /\ ask.op = "set"
    /\ ask.id \cap Addresses # {} => DefaultFree(ask.rows)
    /\ ask.id \cap Addresses \cap LockedByOthers(r) = {}
    /\ address' = [b \in AddressIds |->
            IF b \in ask.id \cap Addresses THEN "default"
            ELSE IF b \in ask.rows THEN "plain" ELSE address[b]]
    /\ Commit(r)

\* Slip: no address takes its place.
DropAddress(r) ==
    LET ask == pending[r] IN
    /\ ask.at = "begun" /\ ask.op = "delete"
    /\ address' = [b \in AddressIds |-> IF b \in ask.rows THEN "gone" ELSE address[b]]
    /\ Commit(r)

\* With what is_default said when it was read; getAnotherAddress takes any.  The two
\* statements, of one transaction, are one step here.
DeleteAddress(r) ==
    LET ask == pending[r]
        others == IF ask.default THEN Addresses \ ask.id ELSE {}
    IN
    /\ ask.at = "begun" /\ ask.op = "delete"
    /\ \E another \in {{a} : a \in others} \cup (IF others = {} THEN {{}} ELSE {}) :
        /\ another \cap LockedByOthers(r) = {}
        /\ another # {} => DefaultFree(ask.rows \cup another)
        /\ address' = [b \in AddressIds |->
                IF b \in ask.rows THEN "gone" ELSE IF b \in another THEN "default" ELSE address[b]]
    /\ Commit(r)

\* The index refuses a second default, PostgreSQL ends a deadlock, or a
\* connection breaks: nothing is written.
GiveUp(r) ==
    /\ pending[r] # NoCommand
    /\ pending' = [pending EXCEPT ![r] = NoCommand]
    /\ UNCHANGED <<address, overlapped>>

NextAddresses ==
    \E r \in AddressCalls :
        \/ Count(r) \/ LookForFirst(r) \/ ReadAddress(r)
        \/ Begin(r) \/ Insert(r) \/ SetDefault(r) \/ DeleteAddress(r) \/ GiveUp(r)

AddressSpec == InitAddresses /\ [][NextAddresses]_addressVars

-----------------------------------------------------------------------------
(* Properties.                                                             *)

\* A checkout finds one address to begin with: never two defaults, and one as
\* long as there is an address at all, unless two requests have overlapped;
\* each request beyond the first can exceed the limit by one address.
OneDefaultAddress ==
    /\ Cardinality(Defaults) <= 1
    /\ Cardinality(Addresses) < MaxAddresses + Cardinality(AddressCalls)
    /\ ~overlapped /\ Addresses # {} => Defaults # {}
=============================================================================
