---------------------------- MODULE DealWatcher ----------------------------
(***************************************************************************)
(* The hub's deal watcher (type eth of package hub, the second file held   *)
(* in src/insonmnia/hardware/gpu/device.go): WaitForDealCreated, which     *)
(* runs findDeals/findDealOnce, WaitForDealClosed, GetDeal and AcceptDeal, *)
(* against a ledger that moves deals PENDING -> ACCEPTED -> CLOSED.        *)
(*                                                                         *)
(* One WaitForDealCreated call (fd) and one WaitForDealClosed call (wc)    *)
(* run concurrently with GetDeal/AcceptDeal RPCs and with the ledger.  A   *)
(* ledger call is one atomic step and may fail.  The ledger's deal index   *)
(* (GetOpenedDeal, GetClosedDeal) is eventually consistent: it lists some  *)
(* of the deals it should, never one it should not; GetDealInfo reads the  *)
(* authoritative status.  Time passes in units of one; each ticker has a   *)
(* one-slot channel, as time.Ticker does.                                  *)
(***************************************************************************)
EXTENDS Naturals, FiniteSets

CONSTANTS
    Deals,         \* deal ids on the ledger (model values)
    Addr,          \* ledger addresses
    Hashes,        \* specification hashes
    Supplier,      \* Deals -> Addr, fixed when the deal is opened
    Buyer,         \* Deals -> Addr
    SpecHash,      \* Deals -> Hashes
    Self,          \* util.PubKeyToAddr(e.key.PublicKey)
    ReqBuyer,      \* request.Order.ByuerID of the WaitForDealCreated call
    ReqHash,       \* request.SpecHash
    WaitID,        \* dealID of the WaitForDealClosed call
    WaitBuyer,     \* buyerID of the WaitForDealClosed call
    DealTimeout,   \* e.timeout, in time units
    FindTick,      \* findDeals ticker period (3s)
    CloseTick,     \* WaitForDealClosed ticker period (5s)
    BadID          \* an id string util.ParseBigInt rejects

ASSUME DealsAssumption ==
    /\ Supplier \in [Deals -> Addr] /\ Buyer \in [Deals -> Addr]
    /\ SpecHash \in [Deals -> Hashes]
    /\ {Self, ReqBuyer, WaitBuyer} \subseteq Addr /\ ReqHash \in Hashes
    /\ WaitID \in Deals /\ BadID \notin Deals
    /\ Deals \cap {"none", "ok", "parseErr", "ledgerErr", "notFound",
                   "Canceled", "DeadlineExceeded"} = {}
ASSUME TimeAssumption ==
    /\ DealTimeout \in Nat \ {0}
    /\ FindTick \in Nat \ {0} /\ CloseTick \in Nat \ {0}

Status == {"NONE", "PENDING", "ACCEPTED", "CLOSED"}

VARIABLES
    status,      \* the ledger: status of every deal ("NONE": not opened yet)
    fd,          \* findDeals: [pc, todo, failed]
    fdElapsed,   \* time since context.WithTimeout(e.ctx, e.timeout)
    fdSince,     \* time since the findDeals ticker last fired
    fdTick,      \* tk.C holds a tick
    fdCtxErr,    \* ctx.Err() of findDeals' context
    fdResult,    \* what WaitForDealCreated returned
    wc,          \* WaitForDealClosed: [pc, todo]
    wcSince,     \* time since its ticker last fired
    wcTick,      \* timer.C holds a tick
    wcCtxErr,    \* ctx.Err() of the caller's context
    wcResult,    \* what WaitForDealClosed returned
    rpcResult    \* what the last GetDeal / AcceptDeal returned

vars == <<status, fd, fdElapsed, fdSince, fdTick, fdCtxErr, fdResult,
          wc, wcSince, wcTick, wcCtxErr, wcResult, rpcResult>>

FdPcs == {"probe", "info", "wait", "done"}
WcPcs == {"wait", "info", "done"}
CtxErrs == {"none", "Canceled", "DeadlineExceeded"}
RpcResults == Deals \cup {"none", "ok", "parseErr", "ledgerErr", "notFound"}

-----------------------------------------------------------------------------
(* The ledger collaborator (spec section 6; its code is not in src/).      *)

\* Deals between self and a counterparty that GetOpenedDeal may list.
OpenedIndex(buyer) == {d \in Deals : Supplier[d] = Self /\ Buyer[d] = buyer
                                     /\ status[d] # "NONE"}

\* Deals between self and a counterparty that GetClosedDeal may list.
ClosedIndex(buyer) == {d \in Deals : Supplier[d] = Self /\ Buyer[d] = buyer
                                     /\ status[d] = "CLOSED"}

\* The ledger moves a deal one status forward.
NextStatus == [s \in Status |-> CASE s = "NONE"     -> "PENDING"
                                  [] s = "PENDING"  -> "ACCEPTED"
                                  [] OTHER          -> "CLOSED"]

LedgerAdvance(d) ==
    /\ status[d] # "CLOSED"
    /\ status' = [status EXCEPT ![d] = NextStatus[@]]
    /\ UNCHANGED <<fd, fdElapsed, fdSince, fdTick, fdCtxErr, fdResult,
                   wc, wcSince, wcTick, wcCtxErr, wcResult, rpcResult>>

-----------------------------------------------------------------------------
(* Predicates of the code.                                                 *)

\* Mutant: the status comparison left out.
ProbeMatchAnyStatus(d) == SpecHash[d] = ReqHash

\* findDealOnce: deal.GetStatus() == PENDING && hash equal.
ProbeMatch(d) == status[d] = "PENDING" /\ SpecHash[d] = ReqHash

\* Mutant: the status constant of an accepted deal compared against.
ClosedMatchWrongStatus(d) == d = WaitID /\ status[d] = "ACCEPTED"

\* Mutant: the id comparison left out.
ClosedMatchAnyId(d) == status[d] = "CLOSED"

\* WaitForDealClosed: dealInfo.GetId() == dealID && status == CLOSED.
ClosedMatch(d) == d = WaitID /\ status[d] = "CLOSED"

\* Mutant: idOK || statusOK.
DealOKEither(d) == Supplier[d] = Self \/ status[d] = "ACCEPTED"

\* GetDeal: idOK && statusOK.
DealOK(d) == Supplier[d] = Self /\ status[d] = "ACCEPTED"

\* Mutant: context.WithCancel in place of context.WithTimeout.
FdNoDeadline(elapsed) == FALSE

\* The context of findDeals expires when e.timeout has elapsed.
FdDeadline(elapsed) == elapsed >= DealTimeout

-----------------------------------------------------------------------------
Init ==
    /\ status = [d \in Deals |-> "NONE"]
    /\ fd = [pc |-> "probe", todo |-> {}, failed |-> FALSE]
    /\ fdElapsed = 0 /\ fdSince = 0 /\ fdTick = FALSE
    /\ fdCtxErr = "none" /\ fdResult = "none"
    /\ wc = [pc |-> "wait", todo |-> {}]
    /\ wcSince = 0 /\ wcTick = FALSE
    /\ wcCtxErr = "none" /\ wcResult = "none"
    /\ rpcResult = "none"

fdStatic == <<fdElapsed, fdSince, fdTick, fdCtxErr>>
wcStatic == <<wc, wcSince, wcTick, wcCtxErr, wcResult>>

\* findDealOnce: GetOpenedDeal(self, addr); an error makes the probe
\* return nil, which findDeals treats as "no deal yet".
FdList ==
    /\ fd.pc = "probe"
    /\ \/ \E ids \in SUBSET OpenedIndex(ReqBuyer) :
            fd' = [pc |-> "info", todo |-> ids, failed |-> FALSE]
       \/ fd' = [pc |-> "wait", todo |-> {}, failed |-> TRUE]
    /\ UNCHANGED <<status, fdStatic, fdResult, wcStatic, rpcResult>>

\* findDealOnce, one iteration of the loop over IDs: GetDealInfo(id); an
\* error skips the id, a PENDING deal with the request's hash is returned.
\* When the list is exhausted the probe returns nil.
FdInfo ==
    /\ fd.pc = "info"
    /\ \/ /\ fd.todo = {}
          /\ fd' = [fd EXCEPT !.pc = "wait"]
          /\ UNCHANGED fdResult
       \/ \E d \in fd.todo :
            \* GetDealInfo failed, or the deal does not match
            \/ /\ fd' = [fd EXCEPT !.todo = @ \ {d}]
               /\ UNCHANGED fdResult
            \/ /\ ProbeMatch(d)
               /\ fd' = [fd EXCEPT !.pc = "done"]
               /\ fdResult' = d
    /\ UNCHANGED <<status, fdStatic, wcStatic, rpcResult>>

\* findDeals' select: a tick runs another probe ...
FdOnTick ==
    /\ fd.pc = "wait"
    /\ fdTick
    /\ fdTick' = FALSE
    /\ fd' = [fd EXCEPT !.pc = "probe"]
    /\ UNCHANGED <<status, fdElapsed, fdSince, fdCtxErr, fdResult, wcStatic,
                   rpcResult>>

\* ... and ctx.Done() returns ctx.Err(); Go picks either case when both are
\* ready.
FdOnDone ==
    /\ fd.pc = "wait"
    /\ fdCtxErr # "none"
    /\ fd' = [fd EXCEPT !.pc = "done"]
    /\ fdResult' = fdCtxErr
    /\ UNCHANGED <<status, fdStatic, wcStatic, rpcResult>>

\* e.ctx, the parent of findDeals' context, is cancelled.
RootCancel ==
    /\ fdCtxErr = "none"
    /\ fdCtxErr' = "Canceled"
    /\ UNCHANGED <<status, fd, fdElapsed, fdSince, fdTick, fdResult, wcStatic,
                   rpcResult>>

\* WaitForDealClosed's select: a tick calls GetClosedDeal; its error is
\* returned at once.
WcOnTick ==
    /\ wc.pc = "wait"
    /\ wcTick
    /\ wcTick' = FALSE
    /\ \/ \E ids \in SUBSET ClosedIndex(WaitBuyer) :
            /\ wc' = [pc |-> "info", todo |-> ids]
            /\ UNCHANGED wcResult
       \/ /\ wc' = [wc EXCEPT !.pc = "done"]
          /\ wcResult' = "ledgerErr"
    /\ UNCHANGED <<status, fd, fdElapsed, fdSince, fdTick, fdCtxErr, fdResult,
                   wcSince, wcCtxErr, rpcResult>>

\* One iteration over the closed ids: GetDealInfo(id); an error skips it.
WcInfo ==
    /\ wc.pc = "info"
    /\ \/ /\ wc.todo = {}
          /\ wc' = [wc EXCEPT !.pc = "wait"]
          /\ UNCHANGED wcResult
       \/ \E d \in wc.todo :
            \* GetDealInfo failed, or the deal is not the one awaited
            \/ /\ wc' = [wc EXCEPT !.todo = @ \ {d}]
               /\ UNCHANGED wcResult
            \/ /\ ClosedMatch(d)
               /\ wc' = [wc EXCEPT !.pc = "done"]
               /\ wcResult' = "ok"
    /\ UNCHANGED <<status, fd, fdElapsed, fdSince, fdTick, fdCtxErr, fdResult,
                   wcSince, wcTick, wcCtxErr, rpcResult>>

\* case <-ctx.Done(): return ctx.Err().
WcOnDone ==
    /\ wc.pc = "wait"
    /\ wcCtxErr # "none"
    /\ wc' = [wc EXCEPT !.pc = "done"]
    /\ wcResult' = wcCtxErr
    /\ UNCHANGED <<status, fd, fdElapsed, fdSince, fdTick, fdCtxErr, fdResult,
                   wcSince, wcTick, wcCtxErr, rpcResult>>

\* The caller cancels the context of a WaitForDealClosed still running.
WcCancel ==
    /\ wc.pc # "done"
    /\ wcCtxErr = "none"
    /\ wcCtxErr' = "Canceled"
    /\ UNCHANGED <<status, fd, fdElapsed, fdSince, fdTick, fdCtxErr, fdResult,
                   wc, wcSince, wcTick, wcResult, rpcResult>>

\* GetDeal(id): ParseBigInt, GetDealInfo, then the ownership check.
GetDeal(id) ==
    /\ rpcResult' \in
        IF id = BadID THEN {"parseErr"}
        ELSE {"ledgerErr", IF DealOK(id) THEN id ELSE "notFound"}
    /\ UNCHANGED <<status, fd, fdStatic, fdResult, wcStatic>>

\* AcceptDeal(id): ParseBigInt, then the ledger's accept under e.key, which
\* the ledger only honours for a PENDING deal whose supplier signs.
AcceptDeal(id) ==
    \/ /\ id = BadID
       /\ rpcResult' = "parseErr"
       /\ UNCHANGED status
    \/ /\ id # BadID
       /\ rpcResult' = "ledgerErr"
       /\ UNCHANGED status
    \/ /\ id # BadID
       /\ status[id] = "PENDING" /\ Supplier[id] = Self
       /\ status' = [status EXCEPT ![id] = "ACCEPTED"]
       /\ rpcResult' = "ok"
    /\ UNCHANGED <<fd, fdStatic, fdResult, wcStatic>>

\* Mutant: findDeals waits on a one-shot time.NewTimer, not a ticker.
AdvanceTimeOneShot ==
    /\ fdElapsed' = IF fdElapsed < DealTimeout THEN fdElapsed + 1 ELSE fdElapsed
    /\ fdCtxErr' = IF fdCtxErr = "none" /\ FdDeadline(fdElapsed')
                   THEN "DeadlineExceeded" ELSE fdCtxErr
    /\ fdSince' = fdSince + 1
    /\ fdTick' = (fdTick \/ fdSince' = FindTick)
    /\ wcSince' = (wcSince + 1) % CloseTick
    /\ wcTick' = (wcTick \/ wcSince' = 0)
    /\ UNCHANGED <<status, fd, fdResult, wc, wcCtxErr, wcResult, rpcResult>>

\* One unit of time: both tickers advance (a tick is dropped when the
\* channel is full) and findDeals' context expires at e.timeout.
AdvanceTime ==
    /\ fdElapsed' = IF fdElapsed < DealTimeout THEN fdElapsed + 1 ELSE fdElapsed
    /\ fdCtxErr' = IF fdCtxErr = "none" /\ FdDeadline(fdElapsed')
                   THEN "DeadlineExceeded" ELSE fdCtxErr
    /\ fdSince' = (fdSince + 1) % FindTick
    /\ fdTick' = (fdTick \/ fdSince' = 0)
    /\ wcSince' = (wcSince + 1) % CloseTick
    /\ wcTick' = (wcTick \/ wcSince' = 0)
    /\ UNCHANGED <<status, fd, fdResult, wc, wcCtxErr, wcResult, rpcResult>>

Next ==
    \/ \E d \in Deals : LedgerAdvance(d)
    \/ FdList \/ FdInfo \/ FdOnTick \/ FdOnDone \/ RootCancel
    \/ WcOnTick \/ WcInfo \/ WcOnDone \/ WcCancel
    \/ \E id \in Deals \cup {BadID} : GetDeal(id) \/ AcceptDeal(id)
    \/ AdvanceTime

\* The two polling goroutines are scheduled and time passes; the ledger,
\* the callers' cancellations and the RPC clients are not obliged to act.
\* A select with a tick and ctx.Done() both ready picks one uniformly at
\* random, so a done case that is ready at infinitely many selects is taken
\* with probability one: strong fairness.
Fairness ==
    /\ WF_vars(AdvanceTime)
    /\ WF_vars(FdList) /\ WF_vars(FdInfo) /\ WF_vars(FdOnTick)
    /\ SF_vars(FdOnDone)
    /\ WF_vars(WcOnTick) /\ WF_vars(WcInfo) /\ SF_vars(WcOnDone)

Spec == Init /\ [][Next]_vars /\ Fairness

\* An assumption about the ledger, not about this code: its eventually
\* consistent index does list a closed deal at some tick, and GetDealInfo
\* of it does succeed, each if it can infinitely often.  The code relies
\* on it: WaitForDealClosed has no deadline of its own (spec section 4.5).
LedgerRecovers ==
    /\ SF_vars(WcOnTick /\ WaitID \in wc'.todo)
    /\ SF_vars(WcInfo /\ wcResult' = "ok")

FairLedgerSpec == Spec /\ LedgerRecovers

-----------------------------------------------------------------------------
(* Properties.                                                             *)

TypeOK ==
    /\ status \in [Deals -> Status]
    /\ fd \in [pc : FdPcs, todo : SUBSET Deals, failed : BOOLEAN]
    /\ fdElapsed \in 0..DealTimeout /\ fdSince \in 0..(FindTick - 1)
    /\ fdTick \in BOOLEAN /\ fdCtxErr \in CtxErrs
    /\ fdResult \in Deals \cup CtxErrs
    /\ wc \in [pc : WcPcs, todo : SUBSET Deals]
    /\ wcSince \in 0..(CloseTick - 1) /\ wcTick \in BOOLEAN
    /\ wcCtxErr \in CtxErrs /\ wcResult \in {"none", "ok", "ledgerErr", "Canceled"}
    /\ rpcResult \in RpcResults

\* WaitForDealCreated hands back a deal only in a step where that deal is
\* PENDING on the ledger with the requested specification hash (the checks
\* findDealOnce makes on its GetDealInfo read), and is a deal between this
\* hub (as supplier) and the requesting buyer (what GetOpenedDeal lists),
\* however the ledger moved between the list call and the info read.
FoundDealMatches ==
    [][fdResult' \in Deals /\ fdResult' # fdResult =>
          /\ status[fdResult'] = "PENDING" /\ SpecHash[fdResult'] = ReqHash
          /\ Supplier[fdResult'] = Self /\ Buyer[fdResult'] = ReqBuyer]_vars

\* WaitForDealClosed reports success only when the awaited deal itself is
\* CLOSED on the ledger, not some other deal closed with the same buyer.
ClosedMeansClosed ==
    wcResult = "ok" => status[WaitID] = "CLOSED"

\* GetDeal returns a deal only if this hub is its supplier and it has been
\* accepted (it may have been closed since the read).
GetDealOwned ==
    rpcResult \in Deals =>
        /\ Supplier[rpcResult] = Self
        /\ status[rpcResult] \in {"ACCEPTED", "CLOSED"}

\* WaitForDealCreated always returns: a deal, the deadline or cancellation.
DiscoveryTerminates == <>(fd.pc = "done")

\* Once the awaited deal is CLOSED on a ledger that recovers,
\* WaitForDealClosed returns: it keeps polling on its ticker, skips the
\* ledger's failed reads and recognises the deal (or returns an error or
\* the cancellation first).
WaitClosedTerminates ==
    (status[WaitID] = "CLOSED") ~> (wc.pc = "done")

\* Spec section 5: cancellation takes priority over a pending timer tick, so
\* a WaitForDealClosed whose context was cancelled while it waited reports
\* the cancellation.
CancelWins ==
    wcResult = "ok" => wcCtxErr = "none"

\* Spec section 4.4: when the deadline passes, the last ledger error of the
\* probes propagates instead of a bare timeout.
TimeoutReportsLedgerError ==
    fdResult = "DeadlineExceeded" => ~fd.failed
=============================================================================
