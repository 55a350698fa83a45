----------------------------- MODULE MCLocator -----------------------------
(* Model-checking instance of Locator: two peers, two IP lists, two        *)
(* concurrent Announce handlers.                                           *)
EXTENDS Locator

CONSTANTS a1, a2, i1, i2, c1, c2

MCAddr  == {a1, a2}
MCIPs   == {i1, i2}
MCCalls == {c1, c2}

\* No guard reads reply and no property of this run mentions it, so states
\* that differ only in the last RPC's reply are merged.
MCView == <<db, calls, sinceTick, tickPending, jan, lag, seen>>
=============================================================================
