------------------------------ MODULE PaidGrants ------------------------------
(***************************************************************************)
(* What the payment side promises about questions that were paid for: one  *)
(* payment grants one pack to one device, once, and a purchase made in the *)
(* app is granted by one payment only.  A grant is never changed; all that *)
(* may be learned later is which purchase it belongs to.                   *)
(***************************************************************************)
CONSTANTS Payments, Purchases, Devices, Packs, None

VARIABLES
  paid,    \* payments the provider has collected
  grants,  \* what each payment granted
  closed   \* purchases that were granted

vars == <<paid, grants, closed>>

Grant == [device : Devices, pack : Packs, purchase : Purchases \cup {None}]

Init ==
  /\ paid = {}
  /\ grants = [c \in Payments |-> None]
  /\ closed = {}

Collect(c) ==
  /\ paid' = paid \cup {c}
  /\ UNCHANGED <<grants, closed>>

Closes(g) == IF g.purchase = None THEN {} ELSE {g.purchase}

(* The first grant of a payment; its purchase, if it has one, is still open. *)
GrantOnce(c, g) ==
  /\ c \in paid /\ grants[c] = None
  /\ g.purchase \notin closed
  /\ grants' = [grants EXCEPT ![c] = g]
  /\ closed' = closed \cup Closes(g)
  /\ UNCHANGED paid

(* A payment granted earlier turns out to belong to a purchase of its device. *)
Attribute(c, p) ==
  /\ grants[c] # None /\ grants[c].purchase = None
  /\ p \notin closed
  /\ grants' = [grants EXCEPT ![c].purchase = p]
  /\ closed' = closed \cup {p}
  /\ UNCHANGED paid

Next ==
  \E c \in Payments :
    \/ Collect(c)
    \/ \E g \in Grant : GrantOnce(c, g)
    \/ \E p \in Purchases : Attribute(c, p)

Spec == Init /\ [][Next]_vars
=============================================================================
