--------------------------- MODULE GpuDeviceProofs ---------------------------
(***************************************************************************)
(* Proofs about NewDevice's option loop, for every option list of every    *)
(* length and every set of version numerals.                               *)
(***************************************************************************)
EXTENDS GpuDevice, TLAPS

USE OptionsAssumption DEF OptionsAssumption

\* A version string WithOpenClDeviceVersion rejects.
Malformed(o) == o.kind = "clString" /\ ~WellFormed(o.str)

\* The index of the last version option among the first k options, 0 if
\* there is none, and the version it names.
LastVersionAt(os, k) ==
    LET I == {j \in 1..k : SetsVersion(os[j])}
    IN  IF I # {} THEN Max(I) ELSE 0

VersionAt(os, k) ==
    IF LastVersionAt(os, k) = 0 THEN <<0, 0>>
    ELSE VersionOf(os[LastVersionAt(os, k)])

(* The loop invariant of NewDevice: while the loop runs, none of the       *)
(* options run so far failed, and d carries the version of the last       *)
(* version option among them (zero if none).  A failed option's partial   *)
(* write into d is never visible, because the loop returns right after.   *)
LoopInv ==
    /\ TypeOK
    /\ pc = "loop" => /\ result = NoResult
                      /\ \A j \in 1..i : ~Malformed(opts[j])
                      /\ <<d.major, d.minor>> = VersionAt(opts, i)
    /\ pc = "done" => FailsExactlyOnMalformed /\ VersionOfLastOption

-----------------------------------------------------------------------------
(* One option.                                                             *)

\* What one option does to the device: it fails exactly on a malformed
\* version string, with errMalformedOpenCLVersion; when it succeeds it
\* leaves d well typed, with the version it names, or the version d had.
LEMMA ApplyOptionEffect ==
    ASSUME NEW o \in Options, NEW dv \in GPUDevice
    PROVE  LET r == Apply(o, dv)
           IN  /\ r.dev \in GPUDevice
               /\ r.err \in {"nil", "malformed"}
               /\ r.err = "malformed" <=> Malformed(o)
               /\ r.err = "nil" =>
                      <<r.dev.major, r.dev.minor>> =
                          IF SetsVersion(o) THEN VersionOf(o)
                          ELSE <<dv.major, dv.minor>>
<1> USE DEF Malformed, SetsVersion, VersionOf, GPUDevice
<1>1. CASE o.kind = "vendorId"
  <2>1. Apply(o, dv) = WithVendorId(o.id, dv)
    BY <1>1, Zenon DEF Apply
  <2>2. o \in [kind : {"vendorId"}, id : VendorIds]
    BY <1>1 DEF Options
  <2>3. ~SetsVersion(o) /\ ~Malformed(o)
    BY <1>1
  <2>4. QED
    BY <2>1, <2>2, <2>3 DEF WithVendorId
<1>2. CASE o.kind = "clString"
  <2>1. o.str \in VersionStrings
    BY <1>2 DEF Options
  <2> DEFINE n == ScanCount(o.str)
  <2>2. n \in {0, 1, 2, 3} /\ (n >= 2 <=> WellFormed(o.str))
    BY <2>1 DEF ScanCount, WellFormed, FitsInt32, VersionStrings
  <2>3. n >= 1 => o.str.major \in Numerals
    BY DEF ScanCount, FitsInt32
  <2>4. n >= 2 => o.str.minor \in Numerals
    BY DEF ScanCount, FitsInt32
  <2> DEFINE nd == [dv EXCEPT !.major = IF n >= 1 THEN o.str.major ELSE @,
                              !.minor = IF n >= 2 THEN o.str.minor ELSE @]
  <2>0. Apply(o, dv) = WithOpenClDeviceVersion(o.str, dv)
    BY <1>2, Zenon DEF Apply
  <2>5. Apply(o, dv) = [err |-> IF n < 2 THEN "malformed" ELSE "nil", dev |-> nd]
    BY <2>0 DEF WithOpenClDeviceVersion, Sscanf
  <2>6. nd \in GPUDevice
    BY <2>2, <2>3, <2>4
  <2>6a. /\ nd.major = IF n >= 1 THEN o.str.major ELSE dv.major
         /\ nd.minor = IF n >= 2 THEN o.str.minor ELSE dv.minor
    BY Zenon
  <2> HIDE DEF nd
  <2>7. n >= 2 => /\ Apply(o, dv).dev.major = o.str.major
                   /\ Apply(o, dv).dev.minor = o.str.minor
    BY <2>2, <2>5, <2>6a
  <2>8. Malformed(o) <=> ~WellFormed(o.str)
    BY <1>2
  <2>9. SetsVersion(o) /\ VersionOf(o) = <<o.str.major, o.str.minor>>
    BY <1>2
  <2>10. Apply(o, dv).dev \in GPUDevice
    BY <2>5, <2>6
  <2>11. Apply(o, dv).err \in {"nil", "malformed"}
    BY <2>5
  <2>12. Apply(o, dv).err = "malformed" <=> Malformed(o)
    BY <2>2, <2>5, <2>8
  <2>13. Apply(o, dv).err = "nil" =>
             <<Apply(o, dv).dev.major, Apply(o, dv).dev.minor>> = VersionOf(o)
    BY <2>2, <2>5, <2>7, <2>9
  <2>14. QED
    BY <2>9, <2>10, <2>11, <2>12, <2>13
<1>3. CASE o.kind = "clSpec"
  <2>1. o \in [kind : {"clSpec"}, major : Versions, minor : Versions]
    BY <1>3 DEF Options
  <2>2. Apply(o, dv) = WithOpenClDeviceVersionSpec(o.major, o.minor, dv)
    BY <1>3, Zenon DEF Apply
  <2> DEFINE nd == [dv EXCEPT !.major = o.major, !.minor = o.minor]
  <2>3. Apply(o, dv) = [err |-> "nil", dev |-> nd]
    BY <2>2 DEF WithOpenClDeviceVersionSpec
  <2>4. SetsVersion(o) /\ VersionOf(o) = <<o.major, o.minor>>
    BY <1>3
  <2>5. nd \in GPUDevice
    BY <2>1
  <2>6. nd.major = o.major /\ nd.minor = o.minor
    BY Zenon
  <2> HIDE DEF nd
  <2>7. QED
    BY <1>3, <2>3, <2>4, <2>5, <2>6
<1>4. QED
  BY <1>1, <1>2, <1>3 DEF Options

-----------------------------------------------------------------------------
(* The last version option of a growing prefix.                            *)

LEMMA VersionAtZero == VersionAt(opts, 0) = <<0, 0>>
BY DEF VersionAt, LastVersionAt

\* Extending the prefix by one option: a version option becomes the last
\* one, any other option leaves the last one where it was.
LEMMA VersionAtStep ==
    ASSUME NEW k \in Nat, k + 1 <= Len(opts)
    PROVE  VersionAt(opts, k + 1) =
               IF SetsVersion(opts[k + 1]) THEN VersionOf(opts[k + 1])
               ELSE VersionAt(opts, k)
<1> DEFINE I(m) == {j \in 1..m : SetsVersion(opts[j])}
<1>1. CASE SetsVersion(opts[k + 1])
  <2>1. I(k + 1) = I(k) \cup {k + 1}
    BY <1>1
  <2>2. Max(I(k + 1)) = k + 1
    <3>1. \A y \in I(k + 1) : k + 1 >= y
      BY <2>1
    <3>2. \A x \in I(k + 1) : (\A y \in I(k + 1) : x >= y) => x = k + 1
      BY <2>1
    <3>3. QED
      BY <3>1, <3>2, <2>1 DEF Max
  <2>3. QED
    BY <1>1, <2>2 DEF VersionAt, LastVersionAt
<1>2. CASE ~SetsVersion(opts[k + 1])
  <2>1. I(k + 1) = I(k)
    BY <1>2
  <2>2. QED
    BY <1>2, <2>1 DEF VersionAt, LastVersionAt
<1>3. QED
  BY <1>1, <1>2

\* The reference version of the whole list is the last version option's.
LEMMA RefVersionIsVersionAt == RefVersion(opts) = VersionAt(opts, Len(opts))
BY DEF RefVersion, SelectLastInSeq, VersionAt, LastVersionAt

-----------------------------------------------------------------------------
(* The loop invariant.                                                     *)

LEMMA LoopInvInit == Init => LoopInv
<1> SUFFICES ASSUME Init PROVE LoopInv
  OBVIOUS
<1>1. opts \in Seq(Options) /\ Len(opts) <= MaxOptions
  <2>1. PICK m \in 0..MaxOptions : opts \in [1..m -> Options]
    BY DEF Init, SeqOf
  <2>2. QED
    BY <2>1
<1>2. d \in GPUDevice /\ result.dev \in GPUDevice
  BY DEF Init, ZeroDevice, NoResult, GPUDevice
<1>3. QED
  BY <1>1, <1>2, VersionAtZero
     DEF Init, LoopInv, TypeOK, NoResult, ZeroDevice

LEMMA LoopInvStep == LoopInv /\ [Next]_vars => LoopInv'
<1> SUFFICES ASSUME LoopInv, [Next]_vars PROVE LoopInv'
  OBVIOUS
<1> USE DEF LoopInv, TypeOK
<1>1. CASE RunOption
  <2> DEFINE o == opts[i + 1]
             r == Apply(o, d)
  <2>1. i + 1 \in 1..Len(opts) /\ o \in Options
    BY <1>1 DEF RunOption
  <2>2. /\ r.dev \in GPUDevice
        /\ r.err \in {"nil", "malformed"}
        /\ r.err = "malformed" <=> Malformed(o)
        /\ r.err = "nil" =>
               <<r.dev.major, r.dev.minor>> =
                   IF SetsVersion(o) THEN VersionOf(o) ELSE <<d.major, d.minor>>
    BY <2>1, ApplyOptionEffect
  <2>3. /\ d' = r.dev /\ i' = i + 1 /\ opts' = opts
        /\ \/ r.err = "nil" /\ UNCHANGED <<pc, result>>
           \/ r.err # "nil" /\ pc' = "done"
              /\ result' = [err |-> r.err, dev |-> ZeroDevice]
    BY <1>1 DEF RunOption
  <2>0. pc = "loop"
    BY <1>1 DEF RunOption
  <2> HIDE DEF o, r
  <2>4. CASE r.err = "nil"
    <3>1. VersionAt(opts, i + 1) =
              IF SetsVersion(o) THEN VersionOf(o) ELSE VersionAt(opts, i)
      BY <2>1, VersionAtStep DEF o
    <3>2. VersionAt(opts', i') = VersionAt(opts, i + 1)
      BY <2>3
    <3>3. <<d'.major, d'.minor>> = VersionAt(opts', i')
      BY <2>0, <2>2, <2>3, <2>4, <3>1, <3>2
    <3>4. \A j \in 1..i' : ~Malformed(opts'[j])
      BY <2>0, <2>2, <2>3, <2>4 DEF o
    <3>5. TypeOK'
      BY <2>0, <2>1, <2>2, <2>3, <2>4
    <3>6. pc' = "loop" /\ result' = NoResult
      BY <2>0, <2>3, <2>4
    <3>7. QED
      BY <3>3, <3>4, <3>5, <3>6
  <2>7. CASE r.err # "nil"
    <3>1. result' = [err |-> "malformed", dev |-> ZeroDevice]
      BY <2>2, <2>3, <2>7
    <3>2. ZeroDevice \in GPUDevice
      BY DEF ZeroDevice, GPUDevice
    <3>3. \E k \in 1..Len(opts) : opts[k].kind = "clString"
                                    /\ ~WellFormed(opts[k].str)
      BY <2>1, <2>2, <2>7 DEF o, Malformed
    <3>4. QED
      BY <2>1, <2>2, <2>3, <2>7, <3>1, <3>2, <3>3
         DEF FailsExactlyOnMalformed, VersionOfLastOption
  <2>5. QED
    BY <2>4, <2>7
<1>2. CASE ReturnDevice
  <2>1. i = Len(opts) /\ pc = "loop"
    BY <1>2 DEF ReturnDevice
  <2>2. <<d.major, d.minor>> = RefVersion(opts)
    BY <2>1, RefVersionIsVersionAt
  <2>3. \A k \in 1..Len(opts) : ~Malformed(opts[k])
    BY <2>1
  <2>4. QED
    BY <1>2, <2>2, <2>3
       DEF ReturnDevice, FailsExactlyOnMalformed, VersionOfLastOption, Malformed
<1>3. CASE UNCHANGED vars
  <2>1. VersionAt(opts', i') = VersionAt(opts, i)
    BY <1>3 DEF vars
  <2>2. QED
    BY <1>3, <2>1 DEF vars, FailsExactlyOnMalformed, VersionOfLastOption,
                      RefVersion, SelectLastInSeq
<1>4. QED
  BY <1>1, <1>2, <1>3 DEF Next

\* Every state of NewDevice is well typed: in particular it only ever
\* fails with errMalformedOpenCLVersion, never with a scan error.
THEOREM TypeCorrect == Spec => []TypeOK
<1>1. Spec => []LoopInv
  BY LoopInvInit, LoopInvStep, PTL DEF Spec
<1>2. QED
  BY <1>1, PTL DEF LoopInv

\* For option lists of every length: NewDevice fails exactly when one of
\* its version strings is malformed or out of int32 range, whatever
\* options come after it.
THEOREM FailsIffMalformed == Spec => []FailsExactlyOnMalformed
<1>1. LoopInv => FailsExactlyOnMalformed
  BY DEF LoopInv, FailsExactlyOnMalformed
<1>2. QED
  BY <1>1, LoopInvInit, LoopInvStep, PTL DEF Spec

\* For option lists of every length: a device NewDevice returns carries
\* the version of its last version option, never a half-written one.
THEOREM LastVersionWins == Spec => []VersionOfLastOption
<1>1. LoopInv => VersionOfLastOption
  BY DEF LoopInv, VersionOfLastOption
<1>2. QED
  BY <1>1, LoopInvInit, LoopInvStep, PTL DEF Spec
=============================================================================
