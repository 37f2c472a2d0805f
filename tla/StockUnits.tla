------------------------------ MODULE StockUnits ------------------------------
(***************************************************************************)
(* The units that orders of a product hold, against which products.stock is *)
(* accounted.                                                              *)
(***************************************************************************)
EXTENDS OrderStore, FiniteSetsExt

\* The quantities of a set of orders, added up
Units(S) == MapThenSumSet(LAMBDA o : o.quantity, S)

\* The live orders of a product, normal or of an activity, and the units they hold
OrdersOf(p) == {o \in orders : o.product = p /\ o.status # "CANCELLED"}
LiveUnits(p) == Units(OrdersOf(p))

=============================================================================
