-------------------------- MODULE MCCheckoutQueue --------------------------
(* CheckoutQueue for TLC: prices, metadata and bounds. *)
EXTENDS CheckoutQueue, TLC

OnePrice == [k \in Packs |-> 1]

(* Metadata that loses the purchase, names a device or a purchase, or is malformed. *)
SomeEdits == {[purchase |-> None, pack |-> k, device |-> d, invalid |-> FALSE] : k \in Packs, d \in Devices}
             \cup {[purchase |-> p, pack |-> k, device |-> None, invalid |-> b] :
                p \in Purchases, k \in Packs, b \in BOOLEAN}

Bound(n, e, s, v) == [checkouts |-> n, edits |-> e, slips |-> s, visits |-> v]

(* One Checkout with failures and the owner, or two Checkouts that may name one purchase. *)
OneOrTwo == {Bound(1, 1, 2, 1), Bound(2, 1, 0, 1)}
OneFailing == {Bound(1, 1, 1, 0)}

WorkerSymmetry == Permutations(Workers)

Symmetries == {p @@ q @@ r : p \in Permutations(Workers), q \in Permutations(Devices), r \in Permutations(Checkouts)}
=============================================================================
