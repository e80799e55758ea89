------------------------------- MODULE Delivery -------------------------------
(***************************************************************************)
(* What an aggregator promises of the items it is given, whatever it       *)
(* caches, merges and buffers on the way, and however many threads use it: *)
(* an item it has accepted is pending until it is given to the transport,  *)
(* exactly once and in a request of at most Limit items; only when the     *)
(* client is gone may what is pending be dropped.                          *)
(***************************************************************************)
EXTENDS Naturals, FiniteSets

CONSTANTS
  Items,  \* what the aggregator is given
  Limit   \* items that one request may carry

VARIABLES
  fresh,    \* items not accepted yet
  pending,  \* items accepted, and neither given to the transport nor dropped
  given,    \* per item, how often the transport was given it
  dropped,  \* items given up
  open      \* there is a client to give requests to

vars == <<fresh, pending, given, dropped, open>>

Init ==
  /\ fresh = Items
  /\ pending = {}
  /\ given = [i \in Items |-> 0]
  /\ dropped = {}
  /\ open = TRUE

Accept(i) ==
  /\ open
  /\ i \in fresh
  /\ fresh' = fresh \ {i}
  /\ pending' = pending \cup {i}
  /\ UNCHANGED <<given, dropped, open>>

Give(request) ==
  /\ open
  /\ request \subseteq pending
  /\ Cardinality(request) \in 1 .. Limit
  /\ pending' = pending \ request
  /\ given' = [i \in Items |-> given[i] + (IF i \in request THEN 1 ELSE 0)]
  /\ UNCHANGED <<fresh, dropped, open>>

Close ==
  /\ open
  /\ open' = FALSE
  /\ UNCHANGED <<fresh, pending, given, dropped>>

Drop(request) ==
  /\ ~open
  /\ request \subseteq pending
  /\ pending' = pending \ request
  /\ dropped' = dropped \cup request
  /\ UNCHANGED <<fresh, given, open>>

Next ==
  \/ \E i \in Items : Accept(i)
  \/ \E request \in SUBSET Items : Give(request) \/ Drop(request)
  \/ Close

Spec == Init /\ [][Next]_vars
=============================================================================
