--------------------------- MODULE LocatorProofs ---------------------------
(***************************************************************************)
(* Proofs about the node directory (Locator), for every NodeTTL,           *)
(* CleanupPeriod, MaxLag and every set of peers, IP lists and handlers.    *)
(***************************************************************************)
EXTENDS Locator, TLAPS

USE TTLAssumption, PeriodAssumption, LagAssumption, NoNodeAssumption,
    MalformedAssumption, NonEmptyAssumption
    DEF TTLAssumption, PeriodAssumption, LagAssumption, NoNodeAssumption,
        MalformedAssumption, NonEmptyAssumption

\* AgeOf keeps an age in 0..AgeCap and is the identity below the cap.
LEMMA AgeOfType ==
    ASSUME NEW n \in Nat
    PROVE  /\ AgeOf(n) \in Ages
           /\ AgeOf(n) <= NodeTTL => n <= NodeTTL
BY DEF AgeOf, Ages, AgeCap

\* The idle handler slot is a handler state.
LEMMA IdleCallType == IdleCall \in CallState
<1>1. (CHOOSE a \in Addr : TRUE) \in Addr /\ (CHOOSE i \in IPs : TRUE) \in IPs
  BY Zenon
<1>2. 0 \in Ages
  BY DEF Ages, AgeCap
<1>3. QED
  BY <1>1, <1>2 DEF IdleCall, CallState

-----------------------------------------------------------------------------
(* Type correctness.                                                       *)

\* Every step keeps the type.
LEMMA TypeStep == TypeOK /\ [Next]_vars => TypeOK'
<1> SUFFICES ASSUME TypeOK, [Next]_vars PROVE TypeOK'
  OBVIOUS
<1>1. ASSUME NEW c \in Calls, NEW a \in Addr, NEW i \in IPs,
             AnnounceBegin(c, a, i)
      PROVE  TypeOK'
  BY <1>1 DEF AnnounceBegin, TypeOK, CallState, Ages, AgeCap
<1>2. ASSUME NEW auth \in Auths, AnnounceRejected(auth)
      PROVE  TypeOK'
  BY <1>2 DEF AnnounceRejected, ExtractErr, TypeOK, Replies, Codes
<1>3. ASSUME NEW c \in Calls, AnnouncePut(c)
      PROVE  TypeOK'
  BY <1>3, IdleCallType DEF AnnouncePut, PutAge, TypeOK, Node, Ages,
                            AgeCap, CallState, Replies, Codes
<1>4. ASSUME NEW x \in Addr \cup {Malformed}, Resolve(x)
      PROVE  TypeOK'
  BY <1>4 DEF Resolve, Lookup, PlainErrorCode, TypeOK, Node, Replies, Codes
<1>5. CASE AdvanceTime
  <2>1. db' \in [Addr -> Node \cup {NoNode}]
    BY <1>5, AgeOfType DEF AdvanceTime, TypeOK, Node, Ages
  <2>2. seen' \in [Addr -> Ages]
    BY <1>5, AgeOfType DEF AdvanceTime, TypeOK, Ages
  <2>3. calls' \in [Calls -> CallState]
    BY <1>5, AgeOfType DEF AdvanceTime, TypeOK, CallState, Ages
  <2>4. sinceTick' \in 0..(CleanupPeriod - 1) /\ tickPending' \in BOOLEAN
    BY <1>5 DEF AdvanceTime, TypeOK
  <2>5. lag' \in 0..MaxLag
    BY <1>5 DEF AdvanceTime, TypeOK
  <2>6. QED
    BY <1>5, <2>1, <2>2, <2>3, <2>4, <2>5 DEF AdvanceTime, TypeOK
<1>6. CASE JanitorTick
  <2>1. tickPending' \in BOOLEAN /\ jan' \in {"idle", "locking"}
    BY <1>6, Zenon DEF JanitorTick
  <2>2. lag' \in 0..MaxLag
    BY <1>6 DEF JanitorTick
  <2>3. QED
    BY <1>6, <2>1, <2>2 DEF JanitorTick, TypeOK
<1>7. CASE JanitorSweep
  BY <1>7 DEF JanitorSweep, TypeOK, Node
<1>8. CASE UNCHANGED vars
  BY <1>8 DEF vars, TypeOK
<1>9. QED
  BY <1>1, <1>2, <1>3, <1>4, <1>5, <1>6, <1>7, <1>8 DEF Next

\* The initial state has the type.
LEMMA TypeInit == Init => TypeOK
<1> SUFFICES ASSUME Init PROVE TypeOK
  OBVIOUS
<1>1. db \in [Addr -> Node \cup {NoNode}] /\ calls \in [Calls -> CallState]
  BY IdleCallType DEF Init
<1>2. seen \in [Addr -> Ages]
  BY DEF Init, Ages, AgeCap
<1>3. reply \in Replies
  BY DEF Init, Replies, Codes
<1>4. tickPending \in BOOLEAN /\ jan \in {"idle", "locking"}
  BY Zenon DEF Init
<1>5. sinceTick \in 0..(CleanupPeriod - 1) /\ lag \in 0..MaxLag
  BY DEF Init
<1>6. QED
  BY <1>1, <1>2, <1>3, <1>4, <1>5 DEF TypeOK

\* Every state the directory reaches is well typed: l.db maps addresses to
\* nodes or nothing, handlers and the janitor are in one of their states.
THEOREM TypeCorrect == Spec => []TypeOK
<1>1. Init => TypeOK
  BY TypeInit
<1>2. TypeOK /\ [Next]_vars => TypeOK'
  BY TypeStep
<1>3. QED
  BY <1>1, <1>2, PTL DEF Spec

-----------------------------------------------------------------------------
(* No premature eviction.  Freshness alone is not inductive: the janitor   *)
(* keeps an entry only because its stamp is as young as the peer's last    *)
(* announce, so the induction carries StampIsLastAnnounce along.           *)

\* The strengthening: an entry's age is the age of its peer's last completed
\* Announce (the ghost seen), because putAnnounce stamps under l.mx.
StampIsLastAnnounce ==
    \A a \in Addr : db[a] # NoNode => db[a].age = seen[a]

IInv == TypeOK /\ StampIsLastAnnounce /\ Freshness

\* A record whose age field is replaced is still not NoNode.
LEMMA AgedRecord ==
    ASSUME NEW r \in Node, NEW n \in Ages
    PROVE  /\ [r EXCEPT !.age = n] \in Node
           /\ [r EXCEPT !.age = n] # NoNode
           /\ [r EXCEPT !.age = n].age = n
BY DEF Node, Ages, AgeCap

LEMMA IInvInit == Init => IInv
<1> SUFFICES ASSUME Init PROVE IInv
  OBVIOUS
<1>1. TypeOK
  BY TypeInit
<1>2. StampIsLastAnnounce /\ Freshness
  BY DEF Init, StampIsLastAnnounce, Freshness, AgeCap
<1>3. QED
  BY <1>1, <1>2 DEF IInv

LEMMA IInvStep == IInv /\ [Next]_vars => IInv'
<1> SUFFICES ASSUME IInv, [Next]_vars PROVE IInv'
  OBVIOUS
<1>0. TypeOK'
  BY TypeStep DEF IInv
<1> USE DEF IInv
<1>1. ASSUME NEW c \in Calls, NEW a \in Addr, NEW i \in IPs,
             AnnounceBegin(c, a, i)
      PROVE  IInv'
  BY <1>0, <1>1 DEF AnnounceBegin, StampIsLastAnnounce, Freshness
<1>2. ASSUME NEW auth \in Auths, AnnounceRejected(auth)
      PROVE  IInv'
  BY <1>0, <1>2 DEF AnnounceRejected, StampIsLastAnnounce, Freshness
<1>3. ASSUME NEW c \in Calls, AnnouncePut(c)
      PROVE  IInv'
  BY <1>0, <1>3, NoNodeAssumption
     DEF AnnouncePut, PutAge, TypeOK, CallState, StampIsLastAnnounce,
         Freshness, Node, Ages, AgeCap
<1>4. ASSUME NEW x \in Addr \cup {Malformed}, Resolve(x)
      PROVE  IInv'
  BY <1>0, <1>4 DEF Resolve, StampIsLastAnnounce, Freshness
<1>5. CASE AdvanceTime
  <2>1. SUFFICES ASSUME NEW b \in Addr
                 PROVE  /\ db'[b] # NoNode => db'[b].age = seen'[b]
                        /\ seen'[b] <= NodeTTL => db'[b] # NoNode
    BY <1>0 DEF StampIsLastAnnounce, Freshness
  <2>2. seen'[b] = AgeOf(seen[b] + 1) /\ seen[b] \in Ages
    BY <1>5 DEF AdvanceTime, TypeOK
  <2>3. CASE db[b] = NoNode
    <3>1. db'[b] = NoNode
      BY <1>5, <2>3 DEF AdvanceTime
    <3>2. seen[b] > NodeTTL
      BY <2>3 DEF Freshness, TypeOK, Ages
    <3>3. seen'[b] > NodeTTL
      BY <2>2, <3>2 DEF AgeOf, Ages, AgeCap
    <3>4. seen'[b] \in Nat
      BY <2>2, AgeOfType DEF Ages
    <3>5. QED
      BY <3>1, <3>3, <3>4
  <2>4. CASE db[b] # NoNode
    <3>1. db[b] \in Node /\ db[b].age = seen[b]
      BY <2>4 DEF TypeOK, StampIsLastAnnounce
    <3>2. AgeOf(seen[b] + 1) \in Ages
      BY <2>2, AgeOfType DEF Ages, AgeCap
    <3>3. db'[b] = [db[b] EXCEPT !.age = AgeOf(seen[b] + 1)]
      BY <1>5, <2>4, <3>1 DEF AdvanceTime
    <3>4. QED
      BY <2>2, <3>2, <3>3, <3>1, AgedRecord
  <2>5. QED
    BY <2>3, <2>4
<1>6. CASE JanitorTick
  BY <1>0, <1>6 DEF JanitorTick, StampIsLastAnnounce, Freshness
<1>7. CASE JanitorSweep
  <2>1. SUFFICES ASSUME NEW b \in Addr
                 PROVE  /\ db'[b] # NoNode => db'[b].age = seen'[b]
                        /\ seen'[b] <= NodeTTL => db'[b] # NoNode
    BY <1>0 DEF StampIsLastAnnounce, Freshness
  <2>2. seen' = seen /\ lag \in Nat
    BY <1>7 DEF JanitorSweep, TypeOK
  <2>3. db'[b] = IF db[b] # NoNode /\ Expired(db[b].age, lag)
                 THEN NoNode ELSE db[b]
    BY <1>7 DEF JanitorSweep
  <2>4. seen[b] <= NodeTTL => db[b] # NoNode /\ ~Expired(db[b].age, lag)
    BY <2>2 DEF Freshness, StampIsLastAnnounce, Expired, TypeOK, Ages
  <2>5. QED
    BY <2>2, <2>3, <2>4 DEF StampIsLastAnnounce
<1>8. CASE UNCHANGED vars
  BY <1>0, <1>8 DEF vars, StampIsLastAnnounce, Freshness
<1>9. QED
  BY <1>1, <1>2, <1>3, <1>4, <1>5, <1>6, <1>7, <1>8 DEF Next

\* The directory never evicts a peer that announced within NodeTTL
\* (Announce stamps the node under l.mx; traverseAndClean compares with a
\* deadline taken before the lock), for every NodeTTL, CleanupPeriod and
\* MaxLag.
THEOREM NoPrematureEviction == Spec => []Freshness
<1>1. Spec => []IInv
  BY IInvInit, IInvStep, PTL DEF Spec
<1>2. QED
  BY <1>1, PTL DEF IInv

-----------------------------------------------------------------------------
(* Refinement.  Under dir <- db the directory's steps are abstract steps:  *)
(* putAnnounce is Announce, a time unit is Tick, a sweep is Evict of the   *)
(* entries it deletes, and every other step leaves db alone.  Only the     *)
(* type invariant is needed: a sweep's entries are stale because its lag   *)
(* is a natural, and AgeOf(n + 1) is the abstract Older(n) below the cap.  *)

\* Aging in the code and in the abstract directory agree on every age.
LEMMA AgingAgrees ==
    ASSUME NEW n \in Ages
    PROVE  AgeOf(n + 1) = Dir!Older(n)
BY DEF AgeOf, Ages, AgeCap, Dir!Older

\* A step of the code is a step of the abstract directory or leaves db
\* unchanged.
LEMMA RefinementStep == TypeOK /\ [Next]_vars => [Dir!Next]_db
<1> SUFFICES ASSUME TypeOK, [Next]_vars PROVE [Dir!Next]_db
  OBVIOUS
<1>1. ASSUME NEW c \in Calls, NEW a \in Addr, NEW i \in IPs,
             AnnounceBegin(c, a, i)
      PROVE  UNCHANGED db
  BY <1>1 DEF AnnounceBegin
<1>2. ASSUME NEW auth \in Auths, AnnounceRejected(auth)
      PROVE  UNCHANGED db
  BY <1>2 DEF AnnounceRejected
<1>3. ASSUME NEW c \in Calls, AnnouncePut(c)
      PROVE  Dir!Next
  <2>1. calls[c].addr \in Addr /\ calls[c].ip \in IPs
    BY DEF TypeOK, CallState
  <2>2. Dir!Announce(calls[c].addr, calls[c].ip)
    BY <1>3 DEF AnnouncePut, PutAge, Dir!Announce
  <2>3. QED
    BY <2>1, <2>2 DEF Dir!Next
<1>4. ASSUME NEW x \in Addr \cup {Malformed}, Resolve(x)
      PROVE  UNCHANGED db
  BY <1>4 DEF Resolve
<1>5. CASE AdvanceTime
  <2>1. \A a \in Addr : db[a] # NoNode => db[a].age \in Ages
    BY DEF TypeOK, Node
  <2>2. Dir!Tick
    BY <1>5, <2>1, AgingAgrees DEF AdvanceTime, Dir!Tick
  <2>3. QED
    BY <2>2 DEF Dir!Next
<1>6. CASE JanitorTick
  BY <1>6 DEF JanitorTick
<1>7. CASE JanitorSweep
  <2> DEFINE S == {a \in Addr : db[a] # NoNode /\ Expired(db[a].age, lag)}
  <2>1. S \subseteq Dir!Stale
    BY DEF TypeOK, Node, Ages, Expired, Dir!Stale
  <2>2. db' = [a \in Addr |-> IF a \in S THEN NoNode ELSE db[a]]
    BY <1>7 DEF JanitorSweep
  <2>3. Dir!Evict(S)
    BY <2>1, <2>2 DEF Dir!Evict
  <2>4. QED
    BY <2>3 DEF Dir!Next
<1>8. CASE UNCHANGED vars
  BY <1>8 DEF vars
<1>9. QED
  BY <1>1, <1>2, <1>3, <1>4, <1>5, <1>6, <1>7, <1>8 DEF Next

\* The directory the code keeps implements the safety part of the abstract
\* directory, for every NodeTTL, CleanupPeriod and MaxLag: Announce is the
\* last write of its peer, time ages entries alike, and the janitor's
\* sweeps, whatever their stale deadline, delete only stale entries.
THEOREM Refinement == Spec => Dir!SafetySpec
<1>1. Init => Dir!Init
  BY DEF Init, Dir!Init
<1>2. TypeOK /\ [Next]_vars => [Dir!Next]_db
  BY RefinementStep
<1>3. QED
  BY <1>1, <1>2, TypeCorrect, PTL DEF Spec, Dir!SafetySpec

-----------------------------------------------------------------------------
(* Last-seen is monotonic.  It follows from the refinement step: every     *)
(* abstract step stamps an entry "now", ages it by one, or removes it.     *)

LastSeenStep ==
    \A a \in Addr :
        db[a] # NoNode /\ db'[a] # NoNode =>
            db'[a].age \in 0..db[a].age \cup {AgeOf(db[a].age + 1)}

\* No step of the abstract directory makes an entry older than one unit of
\* time does.
LEMMA DirStepMonotonic == TypeOK /\ [Dir!Next]_db => LastSeenStep
<1> SUFFICES ASSUME TypeOK, [Dir!Next]_db,
                    NEW a \in Addr, db[a] # NoNode, db'[a] # NoNode
             PROVE  db'[a].age \in 0..db[a].age \cup {AgeOf(db[a].age + 1)}
  BY DEF LastSeenStep
<1>1. db[a].age \in Ages
  BY DEF TypeOK, Node
<1>2. ASSUME NEW x \in Addr, NEW i \in IPs, Dir!Announce(x, i)
      PROVE  db'[a].age \in 0..db[a].age
  <2>1. CASE a = x
    BY <1>1, <1>2, <2>1 DEF Dir!Announce, TypeOK, Ages
  <2>2. CASE a # x
    BY <1>1, <1>2, <2>2 DEF Dir!Announce, TypeOK, Ages
  <2>3. QED
    BY <2>1, <2>2
<1>3. CASE Dir!Tick
  <2>1. db'[a] = [db[a] EXCEPT !.age = Dir!Older(db[a].age)]
    BY <1>3 DEF Dir!Tick
  <2>2. db'[a].age = AgeOf(db[a].age + 1)
    BY <1>1, <2>1, AgingAgrees DEF TypeOK, Node
  <2>3. QED
    BY <2>2
<1>4. ASSUME NEW S \in SUBSET Addr, Dir!Evict(S)
      PROVE  db'[a] = db[a]
  BY <1>4 DEF Dir!Evict
<1>5. CASE UNCHANGED db
  BY <1>1, <1>5 DEF Ages
<1>6. QED
  BY <1>1, <1>2, <1>3, <1>4, <1>5 DEF Dir!Next, Ages

\* For every NodeTTL, CleanupPeriod, MaxLag and number of handlers: however
\* Announce handlers of one peer interleave on l.mx, no step makes the
\* peer's last-seen time older than the time that step takes (spec
\* section 2), because putAnnounce takes its stamp under the lock.
THEOREM LastSeenMonotonicHolds == Spec => LastSeenMonotonic
<1>1. TypeOK /\ [Next]_vars => [LastSeenStep]_vars
  BY RefinementStep, DirStepMonotonic
<1>2. QED
  BY <1>1, TypeCorrect, PTL DEF Spec, LastSeenMonotonic, LastSeenStep
=============================================================================
