-------------------------------- MODULE Cart --------------------------------
(***************************************************************************)
(* The cart of a signed-in customer: the rows of cart_items.  A command is *)
(* one statement on one row, or a DELETE of all of them, and is one        *)
(* action; the cart row itself is created on first use and never removed.  *)
(***************************************************************************)
EXTENDS Naturals

CONSTANTS
    Users,          \* the customers
    CartVariants,   \* the product variants
    MaxCartQty      \* MAX_CART_ITEM_QTY

ASSUME MaxCartQtyAssumption == MaxCartQty \in Nat \ {0}

VARIABLES
    cart,           \* cart[u][v]: cart_items.quantity, 0: no row
    onSale          \* the variants whose own and product's status is ACTIVE

\* The lines of a cart, a checkout session or an order.
Items == [CartVariants -> 0 .. MaxCartQty]
NoItems == [v \in CartVariants |-> 0]

\* LEAST(quantity + EXCLUDED.quantity, :maxQty).
AtMostMaxQty(q) == IF q < MaxCartQty THEN q ELSE MaxCartQty

\* addItem: the upsert adds to the row; the schema accepts 1 .. MaxCartQty.
\* The variant's status is read by an earlier statement of its own, in no
\* transaction, and the product's not at all: onSale, which holds both at the
\* moment of the upsert, does not decide here.
AddItem(u, v, q) ==
    /\ cart' = [cart EXCEPT ![u][v] = AtMostMaxQty(@ + q)]
    /\ UNCHANGED onSale

\* updateItem with a positive quantity: the row must exist.
UpdateItem(u, v, q) ==
    /\ cart[u][v] > 0
    /\ cart' = [cart EXCEPT ![u][v] = q]
    /\ UNCHANGED onSale

\* deleteItem, and updateItem with quantity 0.
DeleteItem(u, v) ==
    /\ cart' = [cart EXCEPT ![u][v] = 0]
    /\ UNCHANGED onSale

\* clearCartByUserId.
ClearCart(u) == cart' = [cart EXCEPT ![u] = NoItems]

\* The admin puts a variant, or its product, on sale or takes it off.
SetVariantStatus(v) ==
    /\ onSale' = IF v \in onSale THEN onSale \ {v} ELSE onSale \cup {v}
    /\ UNCHANGED cart

CartInit ==
    /\ cart = [u \in Users |-> NoItems]
    /\ onSale = CartVariants

EditCart(u) ==
    \E v \in CartVariants :
        \/ \E q \in 1 .. MaxCartQty : AddItem(u, v, q) \/ UpdateItem(u, v, q)
        \/ DeleteItem(u, v)

CartTypeOK ==
    /\ cart \in [Users -> Items]
    /\ onSale \subseteq CartVariants
=============================================================================
