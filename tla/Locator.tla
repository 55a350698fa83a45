------------------------------ MODULE Locator ------------------------------
(***************************************************************************)
(* The node directory of src/insonmnia/locator/server.go: the map          *)
(* l.db from an Ethereum address to the node's IP list and the time it was *)
(* last announced, the Announce and Resolve gRPC handlers, and the         *)
(* janitor goroutine cleanExpiredNodes that evicts entries older than      *)
(* NodeTTL on every tick of a CleanupPeriod ticker.                        *)
(*                                                                         *)
(* Every critical section under l.mx (putAnnounce, getResolve, the body of *)
(* traverseAndClean after Lock) is one atomic action, so the mutex needs   *)
(* no variable.  What runs outside the mutex is a separate action: an      *)
(* Announce handler between extractEthAddr and putAnnounce, and the        *)
(* janitor between computing its deadline and taking the lock.             *)
(*                                                                         *)
(* Time.  Absolute timestamps are replaced by ages: db[a].age is           *)
(* now - node.ts in CleanupPeriod-independent time units.  The janitor's   *)
(* deadline (now_d - NodeTTL) is represented by lag, the time elapsed      *)
(* since it was computed, so node.ts.Before(deadline) is                   *)
(* age > NodeTTL + lag.  Ages saturate at AgeCap, above every threshold    *)
(* they are compared with, which keeps the state space finite while       *)
(* behaviours stay infinite.                                               *)
(***************************************************************************)
EXTENDS Naturals

CONSTANTS
    Addr,           \* Ethereum addresses of peers (model values)
    IPs,            \* the IP lists a peer may announce (model values)
    Calls,          \* concurrent Announce handler goroutines
    NodeTTL,        \* conf.NodeTTL, in time units
    CleanupPeriod,  \* conf.CleanupPeriod, in time units
    MaxLag,         \* bound: time that may pass while the janitor waits for l.mx
    NoNode,         \* "no entry in l.db"
    Malformed       \* a Resolve argument that is not a hex address

ASSUME TTLAssumption    == NodeTTL \in Nat
ASSUME PeriodAssumption == CleanupPeriod \in Nat \ {0}
ASSUME LagAssumption    == MaxLag \in Nat
ASSUME NoNodeAssumption == NoNode \notin [ip : IPs, age : Nat]
ASSUME MalformedAssumption == Malformed \notin Addr
ASSUME NonEmptyAssumption == Addr # {} /\ IPs # {}

VARIABLES
    db,          \* l.db: address -> [ip, age] or NoNode
    calls,       \* Announce handlers between extractEthAddr and putAnnounce
    sinceTick,   \* time since the ticker last fired
    tickPending, \* the ticker channel t.C holds a tick (buffer of one)
    jan,         \* janitor: "idle" at the select, "locking" after the deadline
    lag,         \* time since the janitor computed its deadline
    seen,        \* ghost: age of the last completed Announce per address
    reply        \* the reply of the last completed RPC

vars == <<db, calls, sinceTick, tickPending, jan, lag, seen, reply>>

AgeCap == NodeTTL + MaxLag + 1

Ages == 0..AgeCap

Node == [ip : IPs, age : Ages]

\* Time passing for an age: saturates at AgeCap.
AgeOf(n) == IF n < AgeCap THEN n ELSE AgeCap

\* An idle Announce slot.
IdleCall == [st |-> "idle", addr |-> CHOOSE a \in Addr : TRUE,
             ip |-> CHOOSE i \in IPs : TRUE, since |-> 0]

CallState == [st : {"idle", "locking"}, addr : Addr, ip : IPs, since : Ages]

\* What the authenticated channel carries: an EthAuthInfo with the peer's
\* wallet (an address), another AuthInfo type, or no peer in the context.
Auths == Addr \cup {"other", "none"}

Codes == {"OK", "DataLoss", "Unauthenticated", "Unknown", "InvalidArgument",
          "NotFound"}

NoIP == "noip"

Replies == [op : {"none", "announce", "resolve"}, arg : Addr \cup {Malformed},
            code : Codes, ip : IPs \cup {NoIP}]

-----------------------------------------------------------------------------
(* Helpers translated from the code.                                       *)

\* extractEthAddr: the gRPC status of a rejected AuthInfo.
ExtractErr(auth) == IF auth = "none" THEN "DataLoss" ELSE "Unauthenticated"

\* Mutant: the handler stamps the node when the request arrives, before it
\* waits for l.mx.
PutAgeAtCallStart(c) == calls[c].since

\* The timestamp putAnnounce gives a node: time.Now() under l.mx, age 0.
PutAge(c) == 0

\* Mutant: !node.ts.After(deadline), evicting at the deadline itself.
ExpiredInclusive(age, l) == age >= NodeTTL + l

\* node.ts.Before(deadline) with deadline = now_d - NodeTTL and
\* now - now_d = lag.
Expired(age, l) == age > NodeTTL + l

\* getResolve: l.db[ethAddr] under l.mx (NoNode stands for !ok).
Lookup(x) == db[x]

\* The gRPC code of a plain Go error returned by a handler.
PlainErrorCode == "Unknown"

-----------------------------------------------------------------------------
Init ==
    /\ db = [a \in Addr |-> NoNode]
    /\ calls = [c \in Calls |-> IdleCall]
    /\ sinceTick = 0
    /\ tickPending = FALSE
    /\ jan = "idle"
    /\ lag = 0
    /\ seen = [a \in Addr |-> AgeCap]
    /\ reply = [op |-> "none", arg |-> Malformed, code |-> "OK", ip |-> NoIP]

\* Announce with an authenticated wallet: extractEthAddr succeeds and the
\* handler is about to call putAnnounce (it may wait for l.mx).
AnnounceBegin(c, a, i) ==
    /\ calls[c].st = "idle"
    /\ calls' = [calls EXCEPT ![c] = [st |-> "locking", addr |-> a, ip |-> i,
                                      since |-> 0]]
    /\ UNCHANGED <<db, sinceTick, tickPending, jan, lag, seen, reply>>

\* Announce whose context has no peer or a foreign AuthInfo type: it returns
\* the extractEthAddr error and touches nothing.
AnnounceRejected(auth) ==
    /\ auth \in {"other", "none"}
    /\ reply' = [op |-> "announce", arg |-> Malformed,
                 code |-> ExtractErr(auth), ip |-> NoIP]
    /\ UNCHANGED <<db, calls, sinceTick, tickPending, jan, lag, seen>>

\* putAnnounce: under l.mx, stamp the node and overwrite l.db[addr].
AnnouncePut(c) ==
    LET a == calls[c].addr IN
    /\ calls[c].st = "locking"
    /\ db' = [db EXCEPT ![a] = [ip |-> calls[c].ip, age |-> PutAge(c)]]
    /\ seen' = [seen EXCEPT ![a] = 0]
    /\ calls' = [calls EXCEPT ![c] = IdleCall]
    /\ reply' = [op |-> "announce", arg |-> a, code |-> "OK", ip |-> NoIP]
    /\ UNCHANGED <<sinceTick, tickPending, jan, lag>>

\* Resolve: reject a malformed address, else getResolve under l.mx.
Resolve(x) ==
    /\ reply' =
        IF x = Malformed
        THEN [op |-> "resolve", arg |-> x, code |-> PlainErrorCode, ip |-> NoIP]
        ELSE IF Lookup(x) = NoNode
             THEN [op |-> "resolve", arg |-> x, code |-> PlainErrorCode,
                   ip |-> NoIP]
             ELSE [op |-> "resolve", arg |-> x, code |-> "OK",
                   ip |-> Lookup(x).ip]
    /\ UNCHANGED <<db, calls, sinceTick, tickPending, jan, lag, seen>>

\* Mutant: a one-shot timer (time.After) in place of the ticker: the
\* counter is never wrapped.
AdvanceTimeOneShot ==
    /\ jan = "locking" => lag < MaxLag
    /\ db' = [a \in Addr |-> IF db[a] = NoNode THEN NoNode
                             ELSE [db[a] EXCEPT !.age = AgeOf(@ + 1)]]
    /\ seen' = [a \in Addr |-> AgeOf(seen[a] + 1)]
    /\ calls' = [c \in Calls |-> IF calls[c].st = "idle" THEN calls[c]
                                 ELSE [calls[c] EXCEPT !.since = AgeOf(@ + 1)]]
    /\ sinceTick' = sinceTick + 1
    /\ tickPending' = (tickPending \/ sinceTick' = CleanupPeriod)
    /\ lag' = IF jan = "locking" THEN lag + 1 ELSE lag
    /\ UNCHANGED <<jan, reply>>

\* One unit of time passes: every age grows, the ticker may fire (a tick is
\* dropped when t.C is already full), and a janitor waiting for the lock
\* falls one unit further behind its deadline.
AdvanceTime ==
    /\ jan = "locking" => lag < MaxLag
    /\ db' = [a \in Addr |-> IF db[a] = NoNode THEN NoNode
                             ELSE [db[a] EXCEPT !.age = AgeOf(@ + 1)]]
    /\ seen' = [a \in Addr |-> AgeOf(seen[a] + 1)]
    /\ calls' = [c \in Calls |-> IF calls[c].st = "idle" THEN calls[c]
                                 ELSE [calls[c] EXCEPT !.since = AgeOf(@ + 1)]]
    /\ sinceTick' = (sinceTick + 1) % CleanupPeriod
    /\ tickPending' = (tickPending \/ sinceTick' = 0)
    /\ lag' = IF jan = "locking" THEN lag + 1 ELSE lag
    /\ UNCHANGED <<jan, reply>>

\* Mutant: NewLocator never starts the janitor goroutine.
JanitorNotStarted == FALSE

\* cleanExpiredNodes receives from t.C; traverseAndClean computes
\* deadline := time.Now() - NodeTTL before it takes l.mx.
JanitorTick ==
    /\ jan = "idle"
    /\ tickPending
    /\ tickPending' = FALSE
    /\ jan' = "locking"
    /\ lag' = 0
    /\ UNCHANGED <<db, calls, sinceTick, seen, reply>>

\* traverseAndClean under l.mx: delete every node stamped before deadline.
JanitorSweep ==
    /\ jan = "locking"
    /\ db' = [a \in Addr |-> IF db[a] # NoNode /\ Expired(db[a].age, lag)
                             THEN NoNode ELSE db[a]]
    /\ jan' = "idle"
    /\ lag' = 0
    /\ UNCHANGED <<calls, sinceTick, tickPending, seen, reply>>

Next ==
    \/ \E c \in Calls, a \in Addr, i \in IPs : AnnounceBegin(c, a, i)
    \/ \E auth \in Auths : AnnounceRejected(auth)
    \/ \E c \in Calls : AnnouncePut(c)
    \/ \E x \in Addr \cup {Malformed} : Resolve(x)
    \/ AdvanceTime
    \/ JanitorTick
    \/ JanitorSweep

\* The janitor goroutine and handler goroutines holding a request are
\* scheduled eventually (Go's mutex hands the lock over after starvation),
\* and time passes.  Peers are not obliged to call anything.
Fairness ==
    /\ WF_vars(AdvanceTime)
    /\ WF_vars(JanitorTick)
    /\ WF_vars(JanitorSweep)
    /\ \A c \in Calls : WF_vars(AnnouncePut(c))

Spec == Init /\ [][Next]_vars /\ Fairness

-----------------------------------------------------------------------------
(* Properties.                                                             *)

TypeOK ==
    /\ db \in [Addr -> Node \cup {NoNode}]
    /\ calls \in [Calls -> CallState]
    /\ sinceTick \in 0..(CleanupPeriod - 1)
    /\ tickPending \in BOOLEAN
    /\ jan \in {"idle", "locking"}
    /\ lag \in 0..MaxLag
    /\ seen \in [Addr -> Ages]
    /\ reply \in Replies

\* No premature eviction: a peer whose last completed Announce is at most
\* NodeTTL old is in l.db, whatever the janitor's stale deadline and the
\* handlers waiting on l.mx did.
Freshness ==
    \A a \in Addr : seen[a] <= NodeTTL => db[a] # NoNode

\* Spec section 2: a peer's last-seen time never moves backwards across
\* successive announces.  When two Announce handlers of one peer race for
\* l.mx, the one that takes the lock last must not install a stamp older
\* than the entry it overwrites: a step leaves an entry at most one unit of
\* time older (AdvanceTime), never more.
LastSeenMonotonic ==
    [][\A a \in Addr :
          db[a] # NoNode /\ db'[a] # NoNode =>
              db'[a].age \in 0..db[a].age \cup {AgeOf(db[a].age + 1)}]_vars

\* A stale entry is eventually evicted by the janitor unless its peer
\* announces again.
EventuallyEvicted ==
    \A a \in Addr :
        (db[a] # NoNode /\ db[a].age > NodeTTL)
            ~> (db[a] = NoNode \/ db[a].age <= NodeTTL)

-----------------------------------------------------------------------------
(* Refinement: l.db, seen through the mapping dir <- db, behaves as the    *)
(* abstract directory of Directory.tla.  Handlers waiting for l.mx, the    *)
(* ticker, the janitor's deadline and Resolve are invisible to it.         *)

Dir == INSTANCE Directory WITH dir <- db, Horizon <- AgeCap

\* The directory the code keeps is the one spec sections 4.2, 4.3 and 5
\* describe: an Announce installs the peer's endpoints stamped "now" and
\* is the last write for that peer, time ages all entries alike, the
\* janitor's sweeps (with their stale deadline) remove only entries older
\* than NodeTTL, and every stale entry is eventually removed.
ImplementsDirectory == Dir!Spec

\* Resolve errors are told apart (spec section 6): a malformed address is
\* InvalidArgument, an unknown one NotFound.
ResolveErrorsDistinct ==
    (reply.op = "resolve" /\ reply.code # "OK") =>
        reply.code = IF reply.arg = Malformed THEN "InvalidArgument"
                     ELSE "NotFound"
=============================================================================
