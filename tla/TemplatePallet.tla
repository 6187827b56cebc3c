--------------------------- MODULE TemplatePallet ---------------------------
(***************************************************************************)
(* pallets/template: one optional u32 that signed extrinsics set           *)
(* (do_something) or increment (cause_error), with the errors of the two   *)
(* dispatchables.  A dispatchable that fails changes nothing.              *)
(***************************************************************************)
EXTENDS Integers, Sequences

CONSTANTS
    Accounts,       \* signers
    NoAccount,      \* origin of a bare extrinsic
    NoValue,        \* Something is None
    U32Max,         \* the largest u32
    MaxCalls        \* bound: successful calls

ASSUME TemplateAssumption ==
    /\ NoAccount \notin Accounts
    /\ U32Max \in Nat
    /\ NoValue \notin 0 .. U32Max
    /\ MaxCalls \in Nat

VARIABLES
    something,      \* storage Something
    result,         \* DispatchResult of the last extrinsic
    calls           \* history: successful calls, oldest first

vars == <<something, result, calls>>

U32 == 0 .. U32Max

Origin == Accounts \cup {NoAccount}

Error == {"BadOrigin", "NoneValue", "StorageOverflow"}

SuccessfulCall == [fn : {"do_something"}, value : U32] \cup [fn : {"cause_error"}]

Init ==
    /\ something = NoValue
    /\ result = "Ok"
    /\ calls = << >>

Fail(error) ==
    /\ result' = error
    /\ UNCHANGED <<something, calls>>

Succeed(call, value) ==
    /\ Len(calls) < MaxCalls
    /\ something' = value
    /\ result' = "Ok"
    /\ calls' = Append(calls, call)

do_something(origin, value) ==
    \/ origin = NoAccount /\ Fail("BadOrigin")
    \/ origin # NoAccount /\ Succeed([fn |-> "do_something", value |-> value], value)

\* Slip: + instead of checked_add.
cause_error_unchecked(origin) ==
    \/ origin = NoAccount /\ Fail("BadOrigin")
    \/ origin # NoAccount /\ something = NoValue /\ Fail("NoneValue")
    \/ /\ origin # NoAccount /\ something # NoValue
       /\ Succeed([fn |-> "cause_error"], something + 1)

\* Slip: saturating_add instead of checked_add.
cause_error_saturating(origin) ==
    \/ origin = NoAccount /\ Fail("BadOrigin")
    \/ origin # NoAccount /\ something = NoValue /\ Fail("NoneValue")
    \/ /\ origin # NoAccount /\ something # NoValue
       /\ Succeed([fn |-> "cause_error"], IF something = U32Max THEN U32Max ELSE something + 1)

cause_error(origin) ==
    \/ origin = NoAccount /\ Fail("BadOrigin")
    \/ origin # NoAccount /\ something = NoValue /\ Fail("NoneValue")
    \/ origin # NoAccount /\ something = U32Max /\ Fail("StorageOverflow")
    \/ /\ origin # NoAccount /\ something \notin {NoValue, U32Max}
       /\ Succeed([fn |-> "cause_error"], something + 1)

Next ==
    \E origin \in Origin :
        \/ \E value \in U32 : do_something(origin, value)
        \/ cause_error(origin)

Spec == Init /\ [][Next]_vars

-----------------------------------------------------------------------------
(* Properties. *)

\* Something is None or a u32, also at the edge of overflow (cause_error).
TypeOK ==
    /\ something \in U32 \cup {NoValue}
    /\ result \in Error \cup {"Ok"}
    /\ calls \in Seq(SuccessfulCall)

\* The calls that set a value.
Stores == {i \in 1 .. Len(calls) : calls[i].fn = "do_something"}

\* Something is None until do_something has succeeded; from then on it is the
\* value last set plus one for every cause_error that has reported success
\* since, however many of them failed in between.
ValueIsAccountedFor ==
    \/ Stores = {} /\ something = NoValue /\ calls = << >>
    \/ \E i \in Stores :
          /\ \A j \in Stores : j <= i
          /\ something = calls[i].value + (Len(calls) - i)
=============================================================================
