-------------------------- MODULE DealWatcherProofs --------------------------
(***************************************************************************)
(* Proofs about the deal watcher, for every set of deals, addresses and    *)
(* hashes, every timeout and ticker period.                                *)
(***************************************************************************)
EXTENDS DealWatcher, TLAPS

USE DealsAssumption, TimeAssumption DEF DealsAssumption, TimeAssumption

\* The ledger only moves a status forward, and never back to NONE.
LEMMA NextStatusType ==
    ASSUME NEW s \in Status
    PROVE  NextStatus[s] \in Status \ {"NONE"}
BY DEF NextStatus, Status

-----------------------------------------------------------------------------
(* Type correctness.  The caller's context is only ever cancelled, never   *)
(* timed out, so WaitForDealClosed can only return "Canceled" from it:     *)
(* the type carries that fact along.                                       *)

TypeInv == TypeOK /\ wcCtxErr \in {"none", "Canceled"}

LEMMA TypeInit == Init => TypeInv
<1> SUFFICES ASSUME Init PROVE TypeInv
  OBVIOUS
<1>1. status \in [Deals -> Status]
  BY DEF Init, Status
<1>2. fd \in [pc : FdPcs, todo : SUBSET Deals, failed : BOOLEAN]
      /\ wc \in [pc : WcPcs, todo : SUBSET Deals]
  BY DEF Init, FdPcs, WcPcs
<1>3. /\ fdElapsed \in 0..DealTimeout /\ fdSince \in 0..(FindTick - 1)
      /\ wcSince \in 0..(CloseTick - 1)
  BY DEF Init
<1>4. fdTick \in BOOLEAN /\ wcTick \in BOOLEAN
  BY Zenon DEF Init
<1>5. /\ fdCtxErr \in CtxErrs /\ fdResult \in Deals \cup CtxErrs
      /\ wcCtxErr \in {"none", "Canceled"}
      /\ wcResult \in {"none", "ok", "ledgerErr", "Canceled"}
      /\ rpcResult \in RpcResults
  BY DEF Init, CtxErrs, RpcResults
<1>6. QED
  BY <1>1, <1>2, <1>3, <1>4, <1>5 DEF TypeInv, TypeOK, CtxErrs

LEMMA TypeStep == TypeInv /\ [Next]_vars => TypeInv'
<1> SUFFICES ASSUME TypeInv, [Next]_vars PROVE TypeInv'
  OBVIOUS
<1> USE DEF TypeInv, TypeOK, CtxErrs, FdPcs, WcPcs, RpcResults, fdStatic,
           wcStatic
<1>1. ASSUME NEW d \in Deals, LedgerAdvance(d) PROVE TypeInv'
  BY <1>1, NextStatusType DEF LedgerAdvance
<1>2. CASE FdList
  <2>1. fd' \in [pc : FdPcs, todo : SUBSET Deals, failed : BOOLEAN]
    <3>1. OpenedIndex(ReqBuyer) \subseteq Deals
      BY DEF OpenedIndex
    <3>2. CASE \E ids \in SUBSET OpenedIndex(ReqBuyer) :
                 fd' = [pc |-> "info", todo |-> ids, failed |-> FALSE]
      BY <3>1, <3>2
    <3>3. CASE fd' = [pc |-> "wait", todo |-> {}, failed |-> TRUE]
      BY <3>3
    <3>4. QED
      BY <1>2, <3>2, <3>3 DEF FdList
  <2>2. QED
    BY <1>2, <2>1 DEF FdList
<1>3. CASE FdInfo
  BY <1>3 DEF FdInfo
<1>4. CASE FdOnTick
  BY <1>4 DEF FdOnTick
<1>5. CASE FdOnDone
  BY <1>5 DEF FdOnDone
<1>6. CASE RootCancel
  BY <1>6 DEF RootCancel
<1>7. CASE WcOnTick
  <2>1. ClosedIndex(WaitBuyer) \subseteq Deals
    BY DEF ClosedIndex
  <2>2. wc' \in [pc : WcPcs, todo : SUBSET Deals]
        /\ wcResult' \in {"none", "ok", "ledgerErr", "Canceled"}
    BY <1>7, <2>1 DEF WcOnTick
  <2>3. wcTick' \in BOOLEAN
    BY <1>7, Zenon DEF WcOnTick
  <2>4. QED
    BY <1>7, <2>2, <2>3 DEF WcOnTick
<1>8. CASE WcInfo
  BY <1>8 DEF WcInfo
<1>9. CASE WcOnDone
  BY <1>9 DEF WcOnDone
<1>10. CASE WcCancel
  BY <1>10 DEF WcCancel
<1>11. ASSUME NEW id \in Deals \cup {BadID}, GetDeal(id) PROVE TypeInv'
  BY <1>11 DEF GetDeal
<1>12. ASSUME NEW id \in Deals \cup {BadID}, AcceptDeal(id) PROVE TypeInv'
  BY <1>12 DEF AcceptDeal, Status
<1>13. CASE AdvanceTime
  BY <1>13 DEF AdvanceTime, FdDeadline
<1>14. CASE UNCHANGED vars
  BY <1>14 DEF vars
<1>15. QED
  BY <1>1, <1>2, <1>3, <1>4, <1>5, <1>6, <1>7, <1>8, <1>9, <1>10, <1>11,
     <1>12, <1>13, <1>14 DEF Next

\* Every state of the deal watcher is well typed: the two polling calls are
\* at one of their suspension points, their results are deals or errors,
\* and the ledger's statuses are statuses.
THEOREM TypeCorrect == Spec => []TypeOK
<1>1. Spec => []TypeInv
  BY TypeInit, TypeStep, PTL DEF Spec
<1>2. QED
  BY <1>1, PTL DEF TypeInv

-----------------------------------------------------------------------------
(* Safety.  The two invariants hold because what a call hands back was    *)
(* checked on an authoritative read, and the ledger only moves a deal      *)
(* forward, so the checked facts stay true.  FoundDealMatches needs one    *)
(* more fact: the ids a probe still has to read were listed by             *)
(* GetOpenedDeal, so they are this hub's deals with the requested buyer.   *)

Candidates ==
    \A d \in fd.todo :
        Supplier[d] = Self /\ Buyer[d] = ReqBuyer /\ status[d] # "NONE"

DealInv == TypeInv /\ Candidates /\ ClosedMeansClosed /\ GetDealOwned

\* A ledger step never takes a deal back: opened stays opened, accepted
\* stays accepted or closed, closed stays closed.
LEMMA StatusForward ==
    ASSUME TypeInv,
           \/ \E d \in Deals : LedgerAdvance(d)
           \/ \E id \in Deals \cup {BadID} : AcceptDeal(id)
           \/ UNCHANGED status,
           NEW x \in Deals
    PROVE  /\ status[x] # "NONE" => status'[x] # "NONE"
           /\ status[x] \in {"ACCEPTED", "CLOSED"}
                  => status'[x] \in {"ACCEPTED", "CLOSED"}
           /\ status[x] = "CLOSED" => status'[x] = "CLOSED"
<1>1. CASE \E d \in Deals : LedgerAdvance(d)
  BY <1>1 DEF LedgerAdvance, NextStatus, TypeInv, TypeOK, Status
<1>2. CASE \E id \in Deals \cup {BadID} : AcceptDeal(id)
  BY <1>2 DEF AcceptDeal, TypeInv, TypeOK
<1>3. CASE UNCHANGED status
  BY <1>3
<1>4. QED
  BY <1>1, <1>2, <1>3

LEMMA DealInvInit == Init => DealInv
<1> SUFFICES ASSUME Init PROVE DealInv
  OBVIOUS
<1>1. TypeInv
  BY TypeInit
<1>2. Candidates /\ ClosedMeansClosed /\ GetDealOwned
  BY DEF Init, Candidates, ClosedMeansClosed, GetDealOwned
<1>3. QED
  BY <1>1, <1>2 DEF DealInv

LEMMA DealInvStep == DealInv /\ [Next]_vars => DealInv'
<1> SUFFICES ASSUME DealInv, [Next]_vars PROVE DealInv'
  OBVIOUS
<1>0. TypeInv'
  BY TypeStep DEF DealInv
<1> DEFINE Fwd == \A x \in Deals :
                   /\ status[x] # "NONE" => status'[x] # "NONE"
                   /\ status[x] \in {"ACCEPTED", "CLOSED"}
                          => status'[x] \in {"ACCEPTED", "CLOSED"}
                   /\ status[x] = "CLOSED" => status'[x] = "CLOSED"
<1> USE DEF DealInv, Candidates, ClosedMeansClosed, GetDealOwned, fdStatic,
           wcStatic
<1> DEFINE Kept == Candidates' /\ ClosedMeansClosed' /\ GetDealOwned'
<1>1. ASSUME NEW d \in Deals, LedgerAdvance(d) PROVE DealInv'
  <2>1. Fwd
    BY <1>1, StatusForward
  <2>2. UNCHANGED <<fd, fdResult, wcResult, rpcResult>>
    BY <1>1 DEF LedgerAdvance
  <2>3. Kept
    BY <1>0, <2>1, <2>2 DEF TypeInv, TypeOK, Status
  <2>4. QED
    BY <1>0, <2>3
<1>2. CASE FdList
  BY <1>0, <1>2 DEF FdList, OpenedIndex
<1>3. CASE FdInfo
  <2>1. UNCHANGED <<status, wcResult, rpcResult>>
    BY <1>3 DEF FdInfo
  <2>2. CASE fd' = [fd EXCEPT !.pc = "wait"] /\ UNCHANGED fdResult
    BY <1>0, <2>1, <2>2
  <2>3. ASSUME NEW d \in fd.todo,
               fd' = [fd EXCEPT !.todo = @ \ {d}], UNCHANGED fdResult
        PROVE  DealInv'
    BY <1>0, <2>1, <2>3
  <2>4. ASSUME NEW d \in fd.todo, ProbeMatch(d),
               fd' = [fd EXCEPT !.pc = "done"], fdResult' = d
        PROVE  DealInv'
    BY <1>0, <2>1, <2>4 DEF ProbeMatch
  <2>5. QED
    BY <1>3, <2>2, <2>3, <2>4 DEF FdInfo
<1>4. CASE FdOnTick
  BY <1>0, <1>4 DEF FdOnTick
<1>5. CASE FdOnDone
  BY <1>0, <1>5 DEF FdOnDone, TypeInv, TypeOK, CtxErrs
<1>6. CASE RootCancel
  BY <1>0, <1>6 DEF RootCancel
<1>7. CASE WcOnTick
  BY <1>0, <1>7 DEF WcOnTick
<1>8. CASE WcInfo
  BY <1>0, <1>8 DEF WcInfo, ClosedMatch
<1>9. CASE WcOnDone
  BY <1>0, <1>9 DEF WcOnDone, TypeInv
<1>10. CASE WcCancel
  BY <1>0, <1>10 DEF WcCancel
<1>11. ASSUME NEW id \in Deals \cup {BadID}, GetDeal(id) PROVE DealInv'
  BY <1>0, <1>11 DEF GetDeal, DealOK
<1>12. ASSUME NEW id \in Deals \cup {BadID}, AcceptDeal(id) PROVE DealInv'
  <2>1. Fwd
    BY <1>12, StatusForward DEF DealInv
  <2>2. rpcResult' \notin Deals
    BY <1>12 DEF AcceptDeal
  <2>3. UNCHANGED <<fd, fdResult, wcResult>>
    BY <1>12 DEF AcceptDeal
  <2>4. Kept
    BY <1>0, <2>1, <2>2, <2>3 DEF TypeInv, TypeOK, Status
  <2>5. QED
    BY <1>0, <2>4
<1>13. CASE AdvanceTime
  BY <1>0, <1>13 DEF AdvanceTime
<1>14. CASE UNCHANGED vars
  BY <1>0, <1>14 DEF vars
<1>15. QED
  BY <1>1, <1>2, <1>3, <1>4, <1>5, <1>6, <1>7, <1>8, <1>9, <1>10, <1>11,
     <1>12, <1>13, <1>14 DEF Next

\* The inductive invariant holds in every state.
LEMMA DealInvHolds == Spec => []DealInv
BY DealInvInit, DealInvStep, PTL DEF Spec

\* For every ledger behaviour, whatever the lagging closed index lists:
\* WaitForDealClosed reports success only when the deal it awaits is
\* CLOSED on the ledger.
THEOREM ClosedMeansClosedHolds == Spec => []ClosedMeansClosed
BY DealInvHolds, PTL DEF DealInv

\* For every ledger behaviour: GetDeal returns only deals this hub is the
\* supplier of and that have been accepted (and perhaps closed since).
THEOREM GetDealOwnedHolds == Spec => []GetDealOwned
BY DealInvHolds, PTL DEF DealInv

-----------------------------------------------------------------------------
(* A found deal matches when it is returned.  The step that returns it is  *)
(* FdInfo's match, whose ProbeMatch gives the status and the hash, and     *)
(* Candidates gives the supplier and the buyer of the id being read.       *)

FoundStep ==
    fdResult' \in Deals /\ fdResult' # fdResult =>
        /\ status[fdResult'] = "PENDING" /\ SpecHash[fdResult'] = ReqHash
        /\ Supplier[fdResult'] = Self /\ Buyer[fdResult'] = ReqBuyer

LEMMA FoundStepHolds == DealInv /\ [Next]_vars => [FoundStep]_vars
<1> SUFFICES ASSUME DealInv, [Next]_vars PROVE [FoundStep]_vars
  OBVIOUS
<1> USE DEF FoundStep, fdStatic, wcStatic
<1>1. ASSUME NEW d \in fd.todo, ProbeMatch(d), fdResult' = d
      PROVE  FoundStep
  BY <1>1 DEF DealInv, Candidates, ProbeMatch
<1>2. CASE FdInfo
  <2>1. CASE fd' = [fd EXCEPT !.pc = "wait"] /\ UNCHANGED fdResult
    BY <2>1
  <2>2. ASSUME NEW d \in fd.todo,
               fd' = [fd EXCEPT !.todo = @ \ {d}], UNCHANGED fdResult
        PROVE  FoundStep
    BY <2>2
  <2>3. ASSUME NEW d \in fd.todo, ProbeMatch(d),
               fd' = [fd EXCEPT !.pc = "done"], fdResult' = d
        PROVE  FoundStep
    BY <1>1, <2>3
  <2>4. QED
    BY <1>2, <2>1, <2>2, <2>3 DEF FdInfo
<1>3. CASE FdOnDone
  BY <1>3 DEF FdOnDone, DealInv, TypeInv, TypeOK, CtxErrs
<1>4. CASE ~FdInfo /\ ~FdOnDone
  <2>1. UNCHANGED fdResult
    BY <1>4 DEF Next, vars, LedgerAdvance, FdList, FdOnTick, RootCancel,
                WcOnTick, WcInfo, WcOnDone, WcCancel, GetDeal, AcceptDeal,
                AdvanceTime
  <2>2. QED
    BY <2>1
<1>5. QED
  BY <1>2, <1>3, <1>4

\* For every ledger behaviour and every constant: WaitForDealCreated hands
\* back a deal only in a step where it is this hub's deal with the
\* requesting buyer, PENDING with the requested hash, however the ledger
\* moved between GetOpenedDeal and GetDealInfo.
THEOREM FoundDealPending == Spec => FoundDealMatches
<1>1. Spec => []DealInv
  BY DealInvHolds
<1>2. QED
  BY <1>1, FoundStepHolds, PTL DEF Spec, FoundDealMatches, FoundStep
=============================================================================
