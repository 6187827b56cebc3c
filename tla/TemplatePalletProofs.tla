------------------------ MODULE TemplatePalletProofs ------------------------
(* Proofs about TemplatePallet, for every width of the stored integer and    *)
(* every sequence of calls.                                                  *)
EXTENDS TemplatePallet, TLAPS

\* The inductive invariant: a call that is recorded as an increment needs a
\* value, so the history determines the value.
Inv == TypeOK /\ ValueIsAccountedFor

\* The value that history h leaves behind is v.
Leaves(h, v) ==
    \/ h = << >> /\ v = NoValue
    \/ \E i \in 1 .. Len(h) :
          /\ h[i].fn = "do_something"
          /\ \A j \in 1 .. Len(h) : h[j].fn = "do_something" => j <= i
          /\ v = h[i].value + (Len(h) - i)

\* ValueIsAccountedFor in terms of the history alone.
LEMMA AccountedFor ==
    ASSUME calls \in Seq(SuccessfulCall)
    PROVE  ValueIsAccountedFor <=> Leaves(calls, something)
<1>1. \A i : i \in Stores <=> i \in 1 .. Len(calls) /\ calls[i].fn = "do_something"
  BY DEF Stores
<1>2. ASSUME calls = << >> PROVE Stores = {}
  BY <1>2, <1>1
<1> QED
  BY <1>1, <1>2 DEF ValueIsAccountedFor, Leaves

\* The value of a recorded do_something.
LEMMA StoredValue ==
    ASSUME NEW c \in SuccessfulCall, c.fn = "do_something"
    PROVE  c.value \in U32
BY DEF SuccessfulCall

\* Setting a value makes it the one the history leaves behind.
LEMMA StoreLeaves ==
    ASSUME NEW h \in Seq(SuccessfulCall), NEW x \in U32
    PROVE  Leaves(Append(h, [fn |-> "do_something", value |-> x]), x)
<1> DEFINE c == [fn |-> "do_something", value |-> x]
           g == Append(h, c)
<1>1. c \in SuccessfulCall /\ c.fn = "do_something" /\ c.value = x
  BY DEF SuccessfulCall
<1> HIDE DEF c
<1>2. /\ Len(g) = Len(h) + 1 /\ Len(h) \in Nat /\ g[Len(h) + 1] = c
      /\ Len(h) + 1 \in 1 .. Len(g) /\ \A j \in 1 .. Len(g) : j <= Len(h) + 1
  BY <1>1
<1>3. x = x + (Len(g) - (Len(h) + 1))
  BY <1>2, TemplateAssumption DEF U32
<1> HIDE DEF g
<1>4. Leaves(g, x)
  BY <1>1, <1>2, <1>3 DEF Leaves
<1> QED
  BY <1>4 DEF g, c

\* An increment adds one to what the history leaves behind.
LEMMA IncrementLeaves ==
    ASSUME NEW h \in Seq(SuccessfulCall), NEW v \in U32, Leaves(h, v)
    PROVE  Leaves(Append(h, [fn |-> "cause_error"]), v + 1)
<1> DEFINE c == [fn |-> "cause_error"]
           g == Append(h, c)
<1>1. c \in SuccessfulCall /\ c.fn # "do_something"
  BY DEF SuccessfulCall
<1> HIDE DEF c
<1>2. /\ Len(g) = Len(h) + 1 /\ Len(h) \in Nat /\ g[Len(h) + 1] = c
      /\ \A j \in 1 .. Len(h) : g[j] = h[j] /\ j \in 1 .. Len(g)
      /\ \A j \in 1 .. Len(g) : j \in 1 .. Len(h) \/ j = Len(h) + 1
  BY <1>1
<1> HIDE DEF g
<1>3. v # NoValue
  BY TemplateAssumption DEF U32
<1>4. PICK i \in 1 .. Len(h) :
          /\ h[i].fn = "do_something"
          /\ \A j \in 1 .. Len(h) : h[j].fn = "do_something" => j <= i
          /\ v = h[i].value + (Len(h) - i)
  BY <1>3 DEF Leaves
<1>5. h[i].value \in U32
  BY <1>4, StoredValue
<1>6. v + 1 = h[i].value + (Len(g) - i)
  BY <1>2, <1>4, <1>5, TemplateAssumption DEF U32
<1>7. \A j \in 1 .. Len(g) : g[j].fn = "do_something" => j <= i
  BY <1>1, <1>2, <1>4
<1>8. Leaves(g, v + 1)
  BY <1>2, <1>4, <1>6, <1>7 DEF Leaves
<1> QED
  BY <1>8 DEF g, c

\* The empty storage satisfies the invariant.
LEMMA InitInv == Init => Inv
BY DEF Init, Inv, TypeOK, ValueIsAccountedFor, Stores

\* A successful call keeps the invariant if its history leaves its value.
LEMMA SucceedInv ==
    ASSUME Inv, NEW c \in SuccessfulCall, NEW v \in U32, Succeed(c, v),
           Leaves(Append(calls, c), v)
    PROVE  Inv'
<1>1. TypeOK'
  BY DEF Inv, TypeOK, Succeed
<1>2. Leaves(calls', something')
  BY DEF Succeed
<1>3. ValueIsAccountedFor'
  <2>1. calls' \in Seq(SuccessfulCall)
    BY <1>1 DEF TypeOK
  <2>2. \A i : i \in Stores' <=> i \in 1 .. Len(calls') /\ calls'[i].fn = "do_something"
    BY DEF Stores
  <2>3. ASSUME calls' = << >> PROVE Stores' = {}
    BY <2>2, <2>3
  <2> QED
    BY <1>2, <2>2, <2>3 DEF ValueIsAccountedFor, Leaves
<1> QED
  BY <1>1, <1>3 DEF Inv

\* A failing call changes neither value nor history.
LEMMA FailInv ==
    ASSUME Inv, NEW error \in Error, Fail(error)
    PROVE  Inv'
BY DEF Inv, TypeOK, ValueIsAccountedFor, Stores, Fail

\* Every call keeps the invariant.
LEMMA NextInv == Inv /\ [Next]_vars => Inv'
<1> SUFFICES ASSUME Inv, [Next]_vars PROVE Inv'
  OBVIOUS
<1>0. calls \in Seq(SuccessfulCall) /\ Leaves(calls, something) /\ something \in U32 \cup {NoValue}
  BY AccountedFor DEF Inv, TypeOK
<1>1. ASSUME NEW origin \in Origin, NEW value \in U32, do_something(origin, value)
      PROVE  Inv'
  <2>1. CASE Fail("BadOrigin")
    BY <2>1, FailInv DEF Error
  <2>2. CASE Succeed([fn |-> "do_something", value |-> value], value)
    <3>1. [fn |-> "do_something", value |-> value] \in SuccessfulCall
      BY DEF SuccessfulCall
    <3> QED
      BY <1>0, <2>2, <3>1, StoreLeaves, SucceedInv
  <2> QED
    BY <1>1, <2>1, <2>2 DEF do_something
<1>2. ASSUME NEW origin \in Origin, cause_error(origin) PROVE Inv'
  <2>1. ASSUME NEW error \in Error, Fail(error) PROVE Inv'
    BY <2>1, FailInv
  <2>2. CASE /\ something \notin {NoValue, U32Max}
             /\ Succeed([fn |-> "cause_error"], something + 1)
    <3>1. [fn |-> "cause_error"] \in SuccessfulCall
      BY DEF SuccessfulCall
    <3>2. something \in U32 /\ something + 1 \in U32
      BY <1>0, <2>2, TemplateAssumption DEF U32
    <3> QED
      BY <1>0, <2>2, <3>1, <3>2, IncrementLeaves, SucceedInv
  <2> QED
    BY <1>2, <2>1, <2>2 DEF cause_error, Error
<1>3. CASE UNCHANGED vars
  BY <1>3 DEF vars, Inv, TypeOK, ValueIsAccountedFor, Stores
<1> QED
  BY <1>1, <1>2, <1>3 DEF Next

\* The invariant holds in every reachable state.
THEOREM Invariance == Spec => []Inv
BY InitInv, NextInv, PTL DEF Spec

\* The stored value is None or fits its width, whatever is called.
THEOREM TypeCorrect == Spec => []TypeOK
<1>1. Inv => TypeOK
  BY DEF Inv
<1> QED
  BY <1>1, Invariance, PTL

\* No increment that reports success is lost, and none that fails counts.
THEOREM ValueAccounted == Spec => []ValueIsAccountedFor
<1>1. Inv => ValueIsAccountedFor
  BY DEF Inv
<1> QED
  BY <1>1, Invariance, PTL
=============================================================================
