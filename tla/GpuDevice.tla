------------------------------ MODULE GpuDevice ------------------------------
(***************************************************************************)
(* gpu.NewDevice (src/insonmnia/hardware/gpu/device.go): a device record   *)
(* built by applying functional options in order, the first failing option *)
(* aborting the construction.  WithOpenClDeviceVersion parses its string   *)
(* with fmt.Sscanf(version, "OpenCL %d.%d %s", ...).                       *)
(*                                                                         *)
(* A version string is abstracted to the pieces Sscanf consumes, in order: *)
(* the literal "OpenCL " prefix, the token read by the first %d, the "."   *)
(* separator, the token of the second %d and a vendor word for %s.  A %d   *)
(* token is an int32 numeral, OutOfRange (a decimal integer that does not  *)
(* fit the int32 field %d stores into) or NotANumber.                      *)
(***************************************************************************)
EXTENDS Integers, SequencesExt

CONSTANTS
    VendorIds,     \* values given to WithVendorId
    Versions,      \* int32 values given to WithOpenClDeviceVersionSpec
    Numerals,      \* int32 values a %d token may denote
    OutOfRange,    \* a decimal integer beyond the int32 range
    NotANumber,    \* a token that is not a decimal integer
    MaxOptions     \* the longest option list passed to NewDevice

ASSUME OptionsAssumption ==
    /\ MaxOptions \in Nat
    /\ Versions \subseteq Numerals
    /\ Numerals \subseteq Int
    /\ {OutOfRange, NotANumber} \cap Int = {}
    /\ OutOfRange # NotANumber

VARIABLES
    opts,     \* the options ... passed to NewDevice
    d,        \* the sonm.GPUDevice being built
    i,        \* how many options the loop has run
    pc,       \* "loop" while NewDevice runs, "done" once it returned
    result    \* NewDevice's (Device, error), or NoResult before it returns

vars == <<opts, d, i, pc, result>>

\* What Sscanf can store into an int32 field: scanning OutOfRange fails
\* with an overflow error before anything is stored.
FitsInt32(x) == x \in Numerals

Tokens == Numerals \cup {OutOfRange, NotANumber}

VersionStrings ==
    [prefix : BOOLEAN, major : Tokens, dot : BOOLEAN, minor : Tokens,
     vendor : BOOLEAN]

Options ==
         [kind : {"vendorId"}, id : VendorIds]
    \cup [kind : {"clString"}, str : VersionStrings]
    \cup [kind : {"clSpec"}, major : Versions, minor : Versions]

\* sonm.GPUDevice, reduced to the fields the options set.
GPUDevice == [vendorId : VendorIds \cup {0}, major : Numerals \cup {0},
              minor : Numerals \cup {0}]

\* The literal built by NewDevice: the options' fields are zero.
ZeroDevice == [vendorId |-> 0, major |-> 0, minor |-> 0]

NoResult == [err |-> "none", dev |-> ZeroDevice]

\* The number of items fmt.Sscanf stores: it stops at the first piece of
\* the input that does not match the format.
ScanCount(s) ==
    IF ~s.prefix \/ ~FitsInt32(s.major) THEN 0
    ELSE IF ~s.dot \/ ~FitsInt32(s.minor) THEN 1
    ELSE IF ~s.vendor THEN 2
    ELSE 3

\* Sscanf stores each item as it reads it, so a failed scan may have
\* overwritten the major version already.
Sscanf(s, dv) ==
    LET n == ScanCount(s)
    IN  [n |-> n,
         dev |-> [dv EXCEPT !.major = IF n >= 1 THEN s.major ELSE @,
                         !.minor = IF n >= 2 THEN s.minor ELSE @]]

WithVendorId(id, dv) == [err |-> "nil", dev |-> [dv EXCEPT !.vendorId = id]]

\* Mutants of the option: returning Sscanf's EOF when the vendor word is
\* missing, and accepting a scan that read the major version only.
WithOpenClDeviceVersionReturnsScanError(s, dv) ==
    LET sc == Sscanf(s, dv)
    IN  [err |-> CASE sc.n < 2 -> "malformed" [] sc.n = 2 -> "EOF" [] OTHER -> "nil",
         dev |-> sc.dev]

WithOpenClDeviceVersionAcceptsMajorOnly(s, dv) ==
    LET sc == Sscanf(s, dv)
    IN  [err |-> IF sc.n < 1 THEN "malformed" ELSE "nil", dev |-> sc.dev]

\* A scan that reads both versions accepts: the missing vendor word (n = 2
\* with an error) is not an error.
WithOpenClDeviceVersion(s, dv) ==
    LET sc == Sscanf(s, dv)
    IN  [err |-> IF sc.n < 2 THEN "malformed" ELSE "nil", dev |-> sc.dev]

\* Mutant: a copy-paste slip storing the major version twice.
WithOpenClDeviceVersionSpecMajorTwice(major, minor, dv) ==
    [err |-> "nil", dev |-> [dv EXCEPT !.major = major, !.minor = major]]

WithOpenClDeviceVersionSpec(major, minor, dv) ==
    [err |-> "nil", dev |-> [dv EXCEPT !.major = major, !.minor = minor]]

Apply(o, dv) ==
    CASE o.kind = "vendorId" -> WithVendorId(o.id, dv)
      [] o.kind = "clString" -> WithOpenClDeviceVersion(o.str, dv)
      [] o.kind = "clSpec"   -> WithOpenClDeviceVersionSpec(o.major, o.minor, dv)

Init ==
    /\ opts \in SeqOf(Options, MaxOptions)
    /\ d = ZeroDevice
    /\ i = 0
    /\ pc = "loop"
    /\ result = NoResult

\* Mutant: the loop without its early return.
RunOptionIgnoringError ==
    /\ pc = "loop" /\ i < Len(opts)
    /\ d' = Apply(opts[i + 1], d).dev
    /\ i' = i + 1
    /\ UNCHANGED <<opts, pc, result>>

\* One iteration of NewDevice's loop: the option writes into d; if it
\* fails, NewDevice returns (nil, err) and no later option runs.
RunOption ==
    /\ pc = "loop" /\ i < Len(opts)
    /\ LET r == Apply(opts[i + 1], d)
       IN  /\ d' = r.dev
           /\ i' = i + 1
           /\ \/ /\ r.err = "nil"
                 /\ UNCHANGED <<pc, result>>
              \/ /\ r.err # "nil"
                 /\ pc' = "done"
                 /\ result' = [err |-> r.err, dev |-> ZeroDevice]
    /\ UNCHANGED opts

\* Every option ran without error: NewDevice returns &device{d: d}.
ReturnDevice ==
    /\ pc = "loop" /\ i = Len(opts)
    /\ pc' = "done"
    /\ result' = [err |-> "nil", dev |-> d]
    /\ UNCHANGED <<opts, d, i>>

Next == RunOption \/ ReturnDevice

Spec == Init /\ [][Next]_vars

-----------------------------------------------------------------------------
(* Reference definitions, from the documented format                       *)
(* "OpenCL <major.minor> <vendor-specific information>".                   *)

WellFormed(s) == s.prefix /\ s.dot /\ FitsInt32(s.major) /\ FitsInt32(s.minor)

SetsVersion(o) == o.kind \in {"clString", "clSpec"}

VersionOf(o) == IF o.kind = "clString" THEN <<o.str.major, o.str.minor>>
                ELSE <<o.major, o.minor>>

\* The version the last version option of the list names.
RefVersion(os) ==
    LET k == SelectLastInSeq(os, SetsVersion)
    IN  IF k = 0 THEN <<0, 0>> ELSE VersionOf(os[k])

\* Type invariant.  Its error set also says that NewDevice fails only with
\* errMalformedOpenCLVersion: the scan error of a string without a vendor
\* word never escapes WithOpenClDeviceVersion.
TypeOK ==
    /\ opts \in Seq(Options) /\ Len(opts) <= MaxOptions
    /\ result.err \in {"none", "nil", "malformed"}
    /\ d \in GPUDevice /\ i \in 0..Len(opts) /\ pc \in {"loop", "done"}
    /\ result.dev \in GPUDevice

\* NewDevice fails exactly when one of its version strings does not have
\* the form "OpenCL <major>.<minor>" with int32 versions, whatever options
\* come after it.
FailsExactlyOnMalformed ==
    pc = "done" =>
        ((result.err = "malformed") <=>
            \E k \in 1..Len(opts) :
                opts[k].kind = "clString" /\ ~WellFormed(opts[k].str))

\* A device NewDevice returns carries the version of its last version
\* option: no option leaves a half-written version behind.
VersionOfLastOption ==
    (pc = "done" /\ result.err = "nil") =>
        <<result.dev.major, result.dev.minor>> = RefVersion(opts)
=============================================================================
