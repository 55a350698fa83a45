---------------------------- MODULE LocatorCtor ----------------------------
(***************************************************************************)
(* NewLocator (src/insonmnia/locator/server.go): the constructor's result  *)
(* for every key and certificate-rotator outcome.  errors.Wrap of          *)
(* github.com/pkg/errors returns nil when the error it wraps is nil.       *)
(***************************************************************************)
VARIABLE result   \* [locator, err]: whether each returned value is non-nil

vars == <<result>>

\* errors.Wrap(err, msg): nil when err is nil.
Wrap(errNonNil) == errNonNil

Init == result = [locator |-> FALSE, err |-> FALSE, called |-> FALSE]

\* NewLocator(ctx, conf, key): the nil-key check wraps the named result err,
\* still nil at that point; otherwise the rotator may fail; otherwise the
\* locator is built and its janitor started.
NewLocator(keyGiven, rotatorOK) ==
    /\ ~result.called
    /\ result' =
        IF ~keyGiven THEN [locator |-> FALSE, err |-> Wrap(FALSE), called |-> TRUE]
        ELSE IF ~rotatorOK THEN [locator |-> FALSE, err |-> TRUE, called |-> TRUE]
        ELSE [locator |-> TRUE, err |-> FALSE, called |-> TRUE]

Next == \E k, r \in BOOLEAN : NewLocator(k, r)

Spec == Init /\ [][Next]_vars

\* The constructor returns either a locator or an error: a caller checking
\* only err never gets a nil *Locator (the code's own message says the
\* private key should be provided).
LocatorOrError ==
    result.called => (result.locator \/ result.err)
=============================================================================
