--------------------------- MODULE MCDealWatcher ---------------------------
(* Model-checking instance of DealWatcher: two deals of this hub with the  *)
(* same buyer, one with the requested hash (d1) and one without (d2), and  *)
(* a third deal of another supplier with the requested hash (d3).          *)
EXTENDS DealWatcher, TLC

CONSTANTS d1, d2, d3, hub, buyer, other, h1, h2

MCDeals    == {d1, d2, d3}
MCAddr     == {hub, buyer, other}
MCHashes   == {h1, h2}
MCSupplier == (d1 :> hub) @@ (d2 :> hub) @@ (d3 :> other)
MCBuyer    == (d1 :> buyer) @@ (d2 :> buyer) @@ (d3 :> buyer)
MCSpecHash == (d1 :> h1) @@ (d2 :> h2) @@ (d3 :> h1)

\* For liveness of WaitForDealClosed: the awaited deal d2 and another deal
\* d1 of the same buyer, either of which the closed index may list.
MCDeals2    == {d1, d2}
MCSupplier2 == (d1 :> hub) @@ (d2 :> hub)
MCBuyer2    == (d1 :> buyer) @@ (d2 :> buyer)
MCSpecHash2 == (d1 :> h1) @@ (d2 :> h2)
=============================================================================
