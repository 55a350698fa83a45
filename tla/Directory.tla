----------------------------- MODULE Directory -----------------------------
(***************************************************************************)
(* What the node directory promises (spec sections 4.2, 4.3, 5 and 8),     *)
(* independent of locks, tickers and goroutines: a map from identity to    *)
(* its endpoints and the age of its last announce.                         *)
(*                                                                         *)
(*  - Announce overwrites the entry of one identity, atomically, with age  *)
(*    zero: the last announce to take effect determines what Resolve sees  *)
(*    (last-write-wins, no merge).                                         *)
(*  - Time ages every entry by the same amount.                            *)
(*  - Entries are only ever removed once older than NodeTTL, and any       *)
(*    number of stale entries may go in one step (one sweep).              *)
(*  - A stale entry is eventually removed unless re-announced.             *)
(*                                                                         *)
(* Resolve reads the map and changes nothing, so it is a stuttering step.  *)
(* Ages saturate at Horizon, as in the detailed model; Horizon exceeds     *)
(* NodeTTL, so a saturated entry is stale.                                 *)
(***************************************************************************)
EXTENDS Naturals

CONSTANTS Addr, IPs, NodeTTL, Horizon, NoNode

VARIABLE dir

Older(n) == IF n < Horizon THEN n + 1 ELSE Horizon

\* Identities whose entry is older than NodeTTL.
Stale == {a \in Addr : dir[a] # NoNode /\ dir[a].age > NodeTTL}

Init == dir = [a \in Addr |-> NoNode]

Announce(a, i) == dir' = [dir EXCEPT ![a] = [ip |-> i, age |-> 0]]

Tick == dir' = [a \in Addr |-> IF dir[a] = NoNode THEN NoNode
                               ELSE [dir[a] EXCEPT !.age = Older(@)]]

Evict(S) ==
    /\ S \subseteq Stale
    /\ dir' = [a \in Addr |-> IF a \in S THEN NoNode ELSE dir[a]]

Next ==
    \/ \E a \in Addr, i \in IPs : Announce(a, i)
    \/ Tick
    \/ \E S \in SUBSET Addr : Evict(S)

SafetySpec == Init /\ [][Next]_dir

\* A stale entry does not stay forever: the sweep that removes it (alone or
\* with others) eventually happens.
Spec == SafetySpec /\ \A a \in Addr : WF_dir(Evict({a}))
=============================================================================
