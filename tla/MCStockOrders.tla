----------------------------- MODULE MCStockOrders -----------------------------
EXTENDS StockOrders, TLC

\* One stocked product and one without a balance row.
HalfStocked == {1}
HalfStock   == (1 :> 1 @@ 2 :> 0)
HalfReorder == (1 :> 1 @@ 2 :> 0)

\* Two stocked products, one of them scarce.
AllStocked == {1, 2}
AllStock   == (1 :> 2 @@ 2 :> 1)
AllReorder == (1 :> 1 @@ 2 :> 0)

Symmetry == Permutations(Workers) \cup Permutations(Orders)
=============================================================================
