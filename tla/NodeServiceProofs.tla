-------------------------- MODULE NodeServiceProofs --------------------------
(***************************************************************************)
(* Proofs about NodeService.  The argument has two halves: what the        *)
(* programs are (every task spawned once, the network started last and by  *)
(* nodes only, keys before the workers that need them), put together part  *)
(* by part in the order of the code; and that a process has done exactly   *)
(* the steps before its pc, whatever fails, ends or crashes meanwhile.     *)
(***************************************************************************)
EXTENDS NodeService, SequenceTheorems, TLAPS

StepRecord ==
    [may : SUBSET {"ok", "err"}, spawn : SUBSET Tasks, essential : BOOLEAN,
     keys : SUBSET (KeyTypes \X Seeds), start : BOOLEAN]

\* What the steps of s before the n-th leave behind.
SpawnedBefore(s, n) == {t \in Tasks : \E i \in 1 .. (n - 1) : t \in s[i].spawn}

KeysBefore(s, n) == {k \in KeyTypes \X Seeds : \E i \in 1 .. (n - 1) : k \in s[i].keys}

\* No task is spawned twice.
OnceEach(s) ==
    \A i, j \in 1 .. Len(s) : i # j => s[i].spawn \cap s[j].spawn = {}

\* The keys of insert_keys.
WorkerKeys == {<<p, "Alice">> : p \in KeyTypes}

\* The off-chain workers are spawned after all of them.
KeysFirst(s) ==
    \A i \in 1 .. Len(s) :
        "offchain-workers" \in s[i].spawn => WorkerKeys \subseteq KeysBefore(s, i)

\* A part of a program that does not start the network, with the tasks it
\* spawns, each once, and the keys it inserts.
Part(s, T, K) ==
    /\ s \in Seq(StepRecord)
    /\ OnceEach(s)
    /\ SpawnedBefore(s, Len(s) + 1) = T
    /\ KeysBefore(s, Len(s) + 1) = K
    /\ \A i \in 1 .. Len(s) : ~ s[i].start

-----------------------------------------------------------------------------
(* Parts put together. *)

LEMMA StepField ==
    ASSUME NEW x \in StepRecord
    PROVE  /\ x.spawn \subseteq Tasks
           /\ x.keys \subseteq KeyTypes \X Seeds
           /\ x.start \in BOOLEAN
BY DEF StepRecord

LEMMA EmptyPart == Part(<< >>, {}, {})
BY DEF Part, OnceEach, SpawnedBefore, KeysBefore

LEMMA OneStep ==
    ASSUME NEW x \in StepRecord, ~ x.start
    PROVE  Part(<<x>>, x.spawn, x.keys)
<1>1. <<x>> \in Seq(StepRecord) /\ Len(<<x>>) = 1 /\ <<x>>[1] = x
  OBVIOUS
<1>2. SpawnedBefore(<<x>>, 2) = x.spawn
  BY <1>1, StepField DEF SpawnedBefore
<1>3. KeysBefore(<<x>>, 2) = x.keys
  BY <1>1, StepField DEF KeysBefore
<1> QED
  BY <1>1, <1>2, <1>3 DEF Part, OnceEach

\* The steps of a concatenation, at their places.
LEMMA Places ==
    ASSUME NEW s \in Seq(StepRecord), NEW t \in Seq(StepRecord)
    PROVE  /\ s \o t \in Seq(StepRecord)
           /\ Len(s) \in Nat /\ Len(t) \in Nat /\ Len(s \o t) = Len(s) + Len(t)
           /\ \A i \in 1 .. Len(s) : (s \o t)[i] = s[i]
           /\ \A i \in 1 .. Len(t) : (s \o t)[Len(s) + i] = t[i]
           /\ \A i \in 1 .. Len(s \o t) :
                i \in 1 .. Len(s) \/ \E j \in 1 .. Len(t) : i = Len(s) + j
<1>1. /\ s \o t \in Seq(StepRecord) /\ Len(s) \in Nat /\ Len(t) \in Nat
      /\ Len(s \o t) = Len(s) + Len(t)
  OBVIOUS
<1>2. \A i \in 1 .. Len(s) + Len(t) :
        (s \o t)[i] = IF i <= Len(s) THEN s[i] ELSE t[i - Len(s)]
  BY ConcatProperties
<1>3. \A i \in 1 .. Len(s) : (s \o t)[i] = s[i]
  BY <1>1, <1>2
<1>4. ASSUME NEW i \in 1 .. Len(t)
      PROVE  (s \o t)[Len(s) + i] = t[i]
  <2>1. Len(s) + i \in 1 .. Len(s) + Len(t) /\ ~ (Len(s) + i <= Len(s)) /\ (Len(s) + i) - Len(s) = i
    BY <1>1
  <2> QED
    BY <1>2, <2>1
<1>5. ASSUME NEW i \in 1 .. Len(s \o t), i \notin 1 .. Len(s)
      PROVE  \E j \in 1 .. Len(t) : i = Len(s) + j
  <2>1. i - Len(s) \in 1 .. Len(t) /\ i = Len(s) + (i - Len(s))
    BY <1>1, <1>5
  <2> QED
    BY <2>1
<1> QED
  BY <1>1, <1>3, <1>4, <1>5

\* What a concatenation leaves behind.
LEMMA SpawnedByBoth ==
    ASSUME NEW s \in Seq(StepRecord), NEW t \in Seq(StepRecord)
    PROVE  SpawnedBefore(s \o t, Len(s \o t) + 1)
             = SpawnedBefore(s, Len(s) + 1) \cup SpawnedBefore(t, Len(t) + 1)
<1> DEFINE u == s \o t
<1>1. \A p \in Seq(StepRecord) : \A x : 
        x \in SpawnedBefore(p, Len(p) + 1)
          <=> x \in Tasks /\ \E i \in 1 .. Len(p) : x \in p[i].spawn
  BY DEF SpawnedBefore
<1>2. ASSUME NEW x, NEW i \in 1 .. Len(u), x \in u[i].spawn
      PROVE  (\E j \in 1 .. Len(s) : x \in s[j].spawn) \/ (\E j \in 1 .. Len(t) : x \in t[j].spawn)
  BY <1>2, Places
<1>3. ASSUME NEW x, NEW i \in 1 .. Len(s), x \in s[i].spawn
      PROVE  \E j \in 1 .. Len(u) : x \in u[j].spawn
  <2>1. i \in 1 .. Len(u) /\ u[i] = s[i]
    BY Places
  <2> QED
    BY <1>3, <2>1
<1>4. ASSUME NEW x, NEW i \in 1 .. Len(t), x \in t[i].spawn
      PROVE  \E j \in 1 .. Len(u) : x \in u[j].spawn
  <2>1. Len(s) + i \in 1 .. Len(u) /\ u[Len(s) + i] = t[i]
    BY Places
  <2> QED
    BY <1>4, <2>1
<1>5. u \in Seq(StepRecord)
  BY Places
<1> HIDE DEF u
<1>6. SpawnedBefore(u, Len(u) + 1) = SpawnedBefore(s, Len(s) + 1) \cup SpawnedBefore(t, Len(t) + 1)
  BY <1>1, <1>2, <1>3, <1>4, <1>5
<1> QED
  BY <1>6 DEF u

LEMMA KeysOfBoth ==
    ASSUME NEW s \in Seq(StepRecord), NEW t \in Seq(StepRecord)
    PROVE  KeysBefore(s \o t, Len(s \o t) + 1)
             = KeysBefore(s, Len(s) + 1) \cup KeysBefore(t, Len(t) + 1)
<1> DEFINE u == s \o t
<1>1. \A p \in Seq(StepRecord) : \A x : 
        x \in KeysBefore(p, Len(p) + 1)
          <=> x \in KeyTypes \X Seeds /\ \E i \in 1 .. Len(p) : x \in p[i].keys
  BY DEF KeysBefore
<1>2. ASSUME NEW x, NEW i \in 1 .. Len(u), x \in u[i].keys
      PROVE  (\E j \in 1 .. Len(s) : x \in s[j].keys) \/ (\E j \in 1 .. Len(t) : x \in t[j].keys)
  BY <1>2, Places
<1>3. ASSUME NEW x, NEW i \in 1 .. Len(s), x \in s[i].keys
      PROVE  \E j \in 1 .. Len(u) : x \in u[j].keys
  <2>1. i \in 1 .. Len(u) /\ u[i] = s[i]
    BY Places
  <2> QED
    BY <1>3, <2>1
<1>4. ASSUME NEW x, NEW i \in 1 .. Len(t), x \in t[i].keys
      PROVE  \E j \in 1 .. Len(u) : x \in u[j].keys
  <2>1. Len(s) + i \in 1 .. Len(u) /\ u[Len(s) + i] = t[i]
    BY Places
  <2> QED
    BY <1>4, <2>1
<1>5. u \in Seq(StepRecord)
  BY Places
<1> HIDE DEF u
<1>6. KeysBefore(u, Len(u) + 1) = KeysBefore(s, Len(s) + 1) \cup KeysBefore(t, Len(t) + 1)
  BY <1>1, <1>2, <1>3, <1>4, <1>5
<1> QED
  BY <1>6 DEF u

\* Two parts with different tasks are a part.
LEMMA TwoParts ==
    ASSUME NEW s, NEW t, NEW T, NEW U, NEW K, NEW L,
           Part(s, T, K), Part(t, U, L), T \cap U = {}
    PROVE  Part(s \o t, T \cup U, K \cup L)
<1> DEFINE u == s \o t
<1>1. /\ s \in Seq(StepRecord) /\ t \in Seq(StepRecord)
      /\ OnceEach(s) /\ OnceEach(t)
      /\ SpawnedBefore(s, Len(s) + 1) = T /\ SpawnedBefore(t, Len(t) + 1) = U
      /\ KeysBefore(s, Len(s) + 1) = K /\ KeysBefore(t, Len(t) + 1) = L
      /\ \A i \in 1 .. Len(s) : ~ s[i].start
      /\ \A i \in 1 .. Len(t) : ~ t[i].start
  BY DEF Part
<1>2. u \in Seq(StepRecord) /\ Len(s) \in Nat /\ Len(t) \in Nat /\ Len(u) = Len(s) + Len(t)
  BY <1>1, Places
<1>3. SpawnedBefore(u, Len(u) + 1) = T \cup U /\ KeysBefore(u, Len(u) + 1) = K \cup L
  BY <1>1, SpawnedByBoth, KeysOfBoth
<1>4. \A i \in 1 .. Len(u) : ~ u[i].start
  BY <1>1, Places
<1>5. \A i \in 1 .. Len(s) : s[i].spawn \subseteq T
  <2> SUFFICES ASSUME NEW i \in 1 .. Len(s), NEW x \in s[i].spawn PROVE x \in T
    OBVIOUS
  <2>1. s[i] \in StepRecord
    BY <1>1
  <2> QED
    BY <1>1, <2>1, StepField DEF SpawnedBefore
<1>6. \A i \in 1 .. Len(t) : t[i].spawn \subseteq U
  <2> SUFFICES ASSUME NEW i \in 1 .. Len(t), NEW x \in t[i].spawn PROVE x \in U
    OBVIOUS
  <2>1. t[i] \in StepRecord
    BY <1>1
  <2> QED
    BY <1>1, <2>1, StepField DEF SpawnedBefore
<1>7. OnceEach(u)
  <2> SUFFICES ASSUME NEW i \in 1 .. Len(u), NEW j \in 1 .. Len(u), i # j
               PROVE  u[i].spawn \cap u[j].spawn = {}
    BY DEF OnceEach
  <2>1. CASE i \in 1 .. Len(s) /\ j \in 1 .. Len(s)
    <3>1. u[i] = s[i] /\ u[j] = s[j]
      BY <1>1, <2>1, Places
    <3> QED
      BY <1>1, <2>1, <3>1 DEF OnceEach
  <2>2. CASE i \in 1 .. Len(s) /\ j \notin 1 .. Len(s)
    <3>1. PICK k \in 1 .. Len(t) : j = Len(s) + k
      BY <1>1, <2>2, Places
    <3>2. u[i] = s[i] /\ u[j] = t[k]
      BY <1>1, <2>2, <3>1, Places
    <3> QED
      BY <1>5, <1>6, <2>2, <3>2
  <2>3. CASE i \notin 1 .. Len(s) /\ j \in 1 .. Len(s)
    <3>1. PICK k \in 1 .. Len(t) : i = Len(s) + k
      BY <1>1, <2>3, Places
    <3>2. u[i] = t[k] /\ u[j] = s[j]
      BY <1>1, <2>3, <3>1, Places
    <3> QED
      BY <1>5, <1>6, <2>3, <3>2
  <2>4. CASE i \notin 1 .. Len(s) /\ j \notin 1 .. Len(s)
    <3>1. PICK k \in 1 .. Len(t) : i = Len(s) + k
      BY <1>1, <2>4, Places
    <3>2. PICK m \in 1 .. Len(t) : j = Len(s) + m
      BY <1>1, <2>4, Places
    <3>3. u[i] = t[k] /\ u[j] = t[m] /\ k # m
      BY <1>1, <3>1, <3>2, Places
    <3> QED
      BY <1>1, <3>3 DEF OnceEach
  <2> QED
    BY <2>1, <2>2, <2>3, <2>4
<1> QED
  BY <1>2, <1>3, <1>4, <1>7 DEF Part

\* A part that is there only under a condition.
LEMMA PartWhen ==
    ASSUME NEW s, NEW T, NEW K, NEW b, Part(s, T, K)
    PROVE  Part(When(b, s), IF b THEN T ELSE {}, IF b THEN K ELSE {})
BY EmptyPart DEF When

\* Workers that come after their keys still do when more follows, or when
\* what follows brings them after the keys.
LEMMA KeysStayFirst ==
    ASSUME NEW s, NEW t, NEW T, NEW U, NEW K, NEW L,
           Part(s, T, K), Part(t, U, L), KeysFirst(s),
           "offchain-workers" \in U => WorkerKeys \subseteq K
    PROVE  KeysFirst(s \o t)
<1> DEFINE u == s \o t
<1>1. /\ s \in Seq(StepRecord) /\ t \in Seq(StepRecord)
      /\ SpawnedBefore(t, Len(t) + 1) = U /\ KeysBefore(s, Len(s) + 1) = K
  BY DEF Part
<1>2. u \in Seq(StepRecord) /\ Len(s) \in Nat /\ Len(t) \in Nat /\ Len(u) = Len(s) + Len(t)
  BY <1>1, Places
<1> SUFFICES ASSUME NEW i \in 1 .. Len(u), "offchain-workers" \in u[i].spawn
             PROVE  WorkerKeys \subseteq KeysBefore(u, i)
  BY DEF KeysFirst
<1>3. \A j \in 1 .. Len(s) : u[j] = s[j]
  BY <1>1, Places
<1>4. CASE i \in 1 .. Len(s)
  <2>1. WorkerKeys \subseteq KeysBefore(s, i)
    BY <1>3, <1>4 DEF KeysFirst
  <2>2. KeysBefore(s, i) \subseteq KeysBefore(u, i)
    BY <1>2, <1>3, <1>4 DEF KeysBefore
  <2> QED
    BY <2>1, <2>2
<1>5. CASE i \notin 1 .. Len(s)
  <2>1. PICK k \in 1 .. Len(t) : i = Len(s) + k
    BY <1>1, <1>5, Places
  <2>2. u[i] = t[k]
    BY <1>1, <2>1, Places
  <2>3. "offchain-workers" \in U
    BY <1>1, <2>2 DEF SpawnedBefore, Tasks
  <2>4. KeysBefore(s, Len(s) + 1) \subseteq KeysBefore(u, i)
    BY <1>2, <1>3, <2>1 DEF KeysBefore
  <2> QED
    BY <1>1, <2>3, <2>4
<1> QED
  BY <1>4, <1>5

\* Nor does it matter what comes before.
LEMMA KeysFirstLater ==
    ASSUME NEW s, NEW t, NEW T, NEW U, NEW K, NEW L,
           Part(s, T, K), Part(t, U, L), KeysFirst(s), KeysFirst(t)
    PROVE  KeysFirst(s \o t)
<1> DEFINE u == s \o t
<1>1. s \in Seq(StepRecord) /\ t \in Seq(StepRecord)
  BY DEF Part
<1>2. u \in Seq(StepRecord) /\ Len(s) \in Nat /\ Len(t) \in Nat /\ Len(u) = Len(s) + Len(t)
  BY <1>1, Places
<1> SUFFICES ASSUME NEW i \in 1 .. Len(u), "offchain-workers" \in u[i].spawn
             PROVE  WorkerKeys \subseteq KeysBefore(u, i)
  BY DEF KeysFirst
<1>3. CASE i \in 1 .. Len(s)
  <2>1. \A j \in 1 .. Len(s) : u[j] = s[j]
    BY <1>1, Places
  <2>2. WorkerKeys \subseteq KeysBefore(s, i)
    BY <1>3, <2>1 DEF KeysFirst
  <2>3. KeysBefore(s, i) \subseteq KeysBefore(u, i)
    BY <1>2, <1>3, <2>1 DEF KeysBefore
  <2> QED
    BY <2>2, <2>3
<1>4. CASE i \notin 1 .. Len(s)
  <2>1. PICK k \in 1 .. Len(t) : i = Len(s) + k
    BY <1>1, <1>4, Places
  <2>2. \A j \in 1 .. Len(t) : u[Len(s) + j] = t[j]
    BY <1>1, Places
  <2>3. WorkerKeys \subseteq KeysBefore(t, k)
    BY <2>1, <2>2 DEF KeysFirst
  <2>4. ASSUME NEW x \in KeysBefore(t, k)
        PROVE  x \in KeysBefore(u, i)
    <3>1. PICK j \in 1 .. (k - 1) : x \in t[j].keys
      BY DEF KeysBefore
    <3>2. Len(s) + j \in 1 .. (i - 1) /\ j \in 1 .. Len(t)
      BY <1>2, <2>1
    <3> QED
      BY <2>2, <2>4, <3>1, <3>2 DEF KeysBefore
  <2> QED
    BY <2>3, <2>4
<1> QED
  BY <1>3, <1>4

\* Without workers there is nothing to wait for.
LEMMA NoWorkers ==
    ASSUME NEW s, NEW T, NEW K, Part(s, T, K), "offchain-workers" \notin T
    PROVE  KeysFirst(s)
BY DEF Part, KeysFirst, SpawnedBefore, Tasks

-----------------------------------------------------------------------------
(* The steps. *)

\* The ways a step may end.
Endings == {Infallible, Fallible, {"err"}}

LEMMA CallPart ==
    ASSUME NEW m \in Endings
    PROVE  Part(<<Call(m)>>, {}, {})
<1>1. Call(m) \in StepRecord /\ ~ Call(m).start /\ Call(m).spawn = {} /\ Call(m).keys = {}
  BY DEF Call, StepRecord, Endings, Infallible, Fallible
<1> QED
  BY <1>1, OneStep

LEMMA SpawnPart ==
    ASSUME NEW t \in Tasks, NEW m \in Endings
    PROVE  Part(<<Spawn(t, m)>>, {t}, {}) /\ Part(<<SpawnEssential(t, m)>>, {t}, {})
<1>1. /\ Spawn(t, m) \in StepRecord /\ ~ Spawn(t, m).start
      /\ Spawn(t, m).spawn = {t} /\ Spawn(t, m).keys = {}
  BY DEF Spawn, Call, StepRecord, Endings, Infallible, Fallible
<1>2. /\ SpawnEssential(t, m) \in StepRecord /\ ~ SpawnEssential(t, m).start
      /\ SpawnEssential(t, m).spawn = {t} /\ SpawnEssential(t, m).keys = {}
  BY DEF SpawnEssential, Call, StepRecord, Endings, Infallible, Fallible
<1> QED
  BY <1>1, <1>2, OneStep

LEMMA KeyPart ==
    ASSUME NEW k \in KeyTypes
    PROVE  Part(<<generate_new(k)>>, {}, {<<k, "Alice">>})
<1>1. /\ generate_new(k) \in StepRecord /\ ~ generate_new(k).start
      /\ generate_new(k).spawn = {} /\ generate_new(k).keys = {<<k, "Alice">>}
  <2>1. <<k, "Alice">> \in KeyTypes \X Seeds
    BY DEF Seeds
  <2> DEFINE w == {<<k, "Alice">>}
  <2>2. w \subseteq KeyTypes \X Seeds
    BY <2>1
  <2>3. generate_new(k) = [Call(Infallible) EXCEPT !.keys = w]
    BY DEF generate_new
  <2> HIDE DEF w
  <2>4. /\ generate_new(k) \in StepRecord /\ ~ generate_new(k).start
        /\ generate_new(k).spawn = {} /\ generate_new(k).keys = w
    BY <2>2, <2>3 DEF StepRecord, Call, Infallible
  <2> QED
    BY <2>4 DEF w
<1> QED
  BY <1>1, OneStep

\* What makes a part of its own is a step.
LEMMA PartSteps ==
    ASSUME NEW x, NEW T, NEW K, Part(<<x>>, T, K)
    PROVE  x \in StepRecord
<1>1. <<x>> \in Seq(StepRecord) /\ Len(<<x>>) = 1 /\ <<x>>[1] = x
  BY DEF Part
<1> QED
  BY <1>1

\* The same with the sets named.
LEMMA JoinParts ==
    ASSUME NEW s, NEW t, NEW T, NEW U, NEW V, NEW K, NEW L, NEW M,
           Part(s, T, K), Part(t, U, L), T \cap U = {}, V = T \cup U, M = K \cup L
    PROVE  Part(s \o t, V, M)
BY TwoParts

LEMMA PairPart ==
    ASSUME NEW a, NEW b, NEW A, NEW B, NEW K, NEW L,
           Part(<<a>>, A, K), Part(<<b>>, B, L), A \cap B = {}
    PROVE  Part(<<a, b>>, A \cup B, K \cup L)
<1>1. a \in StepRecord /\ b \in StepRecord
  BY PartSteps
<1>2. <<a, b>> = <<a>> \o <<b>>
  <2>1. <<a, b>> = Append(<<a>>, b) /\ <<a>> \in Seq(StepRecord)
    BY <1>1
  <2> QED
    BY <1>1, <2>1, AppendIsConcat
<1>3. Part(<<a>> \o <<b>>, A \cup B, K \cup L)
  BY TwoParts
<1> QED
  BY <1>2, <1>3

\* The four steps that new_partial and light_tasks share.
PoolAndQueue ==
    <<SpawnEssential("txpool", Infallible), Call(Fallible), Call(Fallible),
      SpawnEssential("import-queue", Fallible)>>

LEMMA PoolAndQueuePart == Part(PoolAndQueue, {"txpool", "import-queue"}, {})
<1> DEFINE a == SpawnEssential("txpool", Infallible)
           b == Call(Fallible)
           d == SpawnEssential("import-queue", Fallible)
<1>1. Part(<<a>>, {"txpool"}, {}) /\ Part(<<b>>, {}, {}) /\ Part(<<d>>, {"import-queue"}, {})
  BY SpawnPart, CallPart DEF Endings, Tasks
<1>2. PoolAndQueue = <<a, b, b, d>>
  BY DEF PoolAndQueue
<1> HIDE DEF a, b, d
<1>3. a \in StepRecord /\ b \in StepRecord /\ d \in StepRecord
  BY <1>1, PartSteps
<1>4. <<a, b, b, d>> = ((<<a>> \o <<b>>) \o <<b>>) \o <<d>>
  <2>1. /\ <<a, b>> = Append(<<a>>, b) /\ <<a, b, b>> = Append(<<a, b>>, b)
        /\ <<a, b, b, d>> = Append(<<a, b, b>>, d)
    OBVIOUS
  <2>2. /\ <<a>> \in Seq(StepRecord) /\ <<a, b>> \in Seq(StepRecord)
        /\ <<a, b, b>> \in Seq(StepRecord)
    BY <1>3
  <2>3. \A s \in Seq(StepRecord), x \in StepRecord : Append(s, x) = s \o <<x>>
    BY AppendIsConcat
  <2> QED
    BY <1>3, <2>1, <2>2, <2>3
<1>5. Part(<<a>> \o <<b>>, {"txpool"}, {})
  BY <1>1, JoinParts
<1>6. Part((<<a>> \o <<b>>) \o <<b>>, {"txpool"}, {})
  BY <1>1, <1>5, JoinParts
<1>7. Part(((<<a>> \o <<b>>) \o <<b>>) \o <<d>>, {"txpool", "import-queue"}, {})
  BY <1>1, <1>6, JoinParts
<1> QED
  BY <1>2, <1>4, <1>7

LEMMA WhenCall ==
    ASSUME NEW b, NEW m \in Endings
    PROVE  Part(When(b, <<Call(m)>>), {}, {})
BY CallPart, PartWhen

LEMMA WhenSpawn ==
    ASSUME NEW b, NEW t \in Tasks, NEW m \in Endings
    PROVE  Part(When(b, <<Spawn(t, m)>>), IF b THEN {t} ELSE {}, {})
<1>1. Part(<<Spawn(t, m)>>, {t}, {})
  BY SpawnPart
<1> QED
  BY <1>1, EmptyPart DEF When

LEMMA InsertKeysPart ==
    ASSUME NEW c
    PROVE  Part(insert_keys(c), {}, IF c.offchain_worker THEN WorkerKeys ELSE {})
<1> DEFINE a == generate_new("pallet_ocw")
           b == generate_new("pallet_example_offchain_worker")
<1>1. /\ Part(<<a>>, {}, {<<"pallet_ocw", "Alice">>})
      /\ Part(<<b>>, {}, {<<"pallet_example_offchain_worker", "Alice">>})
  BY KeyPart DEF KeyTypes
<1>2. insert_keys(c) = When(c.offchain_worker, <<a, b>>)
  BY DEF insert_keys
<1> HIDE DEF a, b
<1>3. Part(<<a, b>>, {} \cup {}, {<<"pallet_ocw", "Alice">>}
                                 \cup {<<"pallet_example_offchain_worker", "Alice">>})
  BY <1>1, PairPart
<1>4. {<<"pallet_ocw", "Alice">>} \cup {<<"pallet_example_offchain_worker", "Alice">>} = WorkerKeys
  BY DEF WorkerKeys, KeyTypes
<1>5. Part(<<a, b>>, {}, WorkerKeys)
  BY <1>3, <1>4
<1> QED
  BY <1>2, <1>5, EmptyPart DEF When

-----------------------------------------------------------------------------
(* The programs. *)

TelemetryTask(c) == IF c.telemetry THEN {"telemetry"} ELSE {}

KeysFor(c) == IF c.offchain_worker THEN WorkerKeys ELSE {}

LEMMA NewPartialPart ==
    ASSUME NEW c
    PROVE  Part(new_partial(c), {"txpool", "import-queue"} \cup TelemetryTask(c), KeysFor(c))
<1> DEFINE s1 == When(c.keystore_remote, <<Refuse>>)
           s2 == When(c.telemetry, <<Call(Fallible)>>)
           s3 == <<Call(Fallible)>>
           s4 == insert_keys(c)
           s5 == When(c.telemetry, <<Spawn("telemetry", Infallible)>>)
           s6 == PoolAndQueue
           W == TelemetryTask(c)
           Q == {"txpool", "import-queue"}
           K == KeysFor(c)
<1>1. Part(s1, {}, {}) /\ Part(s2, {}, {}) /\ Part(s3, {}, {})
  BY WhenCall, CallPart DEF Endings, Refuse
<1>2. Part(s4, {}, K)
  BY InsertKeysPart DEF KeysFor
<1>3. Part(s5, W, {})
  BY WhenSpawn DEF Endings, Tasks, TelemetryTask
<1>4. Part(s6, Q, {})
  BY PoolAndQueuePart
<1>5. Q \cap W = {}
  BY DEF TelemetryTask
<1>6. new_partial(c) = s1 \o s2 \o s3 \o s4 \o s5 \o s6
  BY DEF new_partial, PoolAndQueue
<1> HIDE DEF s1, s2, s3, s4, s5, s6, W, K, Q
<1>7. Part(s1 \o s2 \o s3, {}, {})
  <2>1. Part(s1 \o s2, {}, {})
    BY <1>1, JoinParts
  <2> QED
    BY <1>1, <2>1, JoinParts
<1>8. Part(s1 \o s2 \o s3 \o s4, {}, K)
  BY <1>2, <1>7, JoinParts
<1>9. Part(s1 \o s2 \o s3 \o s4 \o s5, W, K)
  BY <1>3, <1>8, JoinParts
<1>10. Part(s1 \o s2 \o s3 \o s4 \o s5 \o s6, Q \cup W, K)
  BY <1>4, <1>5, <1>9, JoinParts
<1> QED
  BY <1>6, <1>10 DEF Q, W, K

LEMMA FullPart ==
    ASSUME NEW c, c.role # "Light"
    PROVE  Part(full_tasks(c), Wanted(c), KeysFor(c)) /\ KeysFirst(full_tasks(c))
<1> DEFINE s1 == new_partial(c)
           s2 == When(c.keystore_remote, <<Refuse>>)
           s3 == <<Spawn("network-worker", Fallible)>>
           s4 == When(c.offchain_worker, <<Spawn("offchain-workers", Infallible)>>)
           s5 == <<Spawn("rpc", Fallible)>>
           s6 == author(c)
           s7 == voter(c)
           T1 == {"txpool", "import-queue"} \cup TelemetryTask(c)
           T3 == T1 \cup {"network-worker"}
           T4 == T3 \cup (IF c.offchain_worker THEN {"offchain-workers"} ELSE {})
           T5 == T4 \cup {"rpc"}
           T6 == T5 \cup (IF c.role = "Authority" THEN {"aura"} ELSE {})
           T7 == T6 \cup (IF ~ c.disable_grandpa THEN {"grandpa-voter"} ELSE {})
           W == IF c.offchain_worker THEN {"offchain-workers"} ELSE {}
           A == IF c.role = "Authority" THEN {"aura"} ELSE {}
           V == IF ~ c.disable_grandpa THEN {"grandpa-voter"} ELSE {}
           K == KeysFor(c)
<1>1. Part(s1, T1, K)
  BY NewPartialPart
<1>2. Part(s2, {}, {}) /\ Part(s3, {"network-worker"}, {}) /\ Part(s5, {"rpc"}, {})
  BY WhenCall, SpawnPart DEF Endings, Refuse, Tasks
<1>3. Part(s4, W, {})
  BY WhenSpawn DEF Endings, Tasks
<1>4. Part(s6, A, {})
  <2> DEFINE a == Call(Fallible)
             b == SpawnEssential("aura", Fallible)
  <2>1. Part(<<a>>, {}, {}) /\ Part(<<b>>, {"aura"}, {})
    BY CallPart, SpawnPart DEF Endings, Tasks
  <2>2. s6 = When(c.role = "Authority", <<a, b>>)
    BY DEF author
  <2> HIDE DEF a, b
  <2>3. Part(<<a, b>>, {} \cup {"aura"}, {} \cup {})
    BY <2>1, PairPart
  <2>4. Part(<<a, b>>, {"aura"}, {})
    BY <2>3
  <2> QED
    BY <2>2, <2>4, EmptyPart DEF When
<1>5. Part(s7, V, {})
  <2>1. Part(<<SpawnEssential("grandpa-voter", Fallible)>>, {"grandpa-voter"}, {})
    BY SpawnPart DEF Endings, Tasks
  <2> QED
    BY <2>1, EmptyPart DEF voter, When
<1>6. /\ T1 \cap {"network-worker"} = {} /\ T3 \cap W = {} /\ T4 \cap {"rpc"} = {}
      /\ T5 \cap A = {} /\ T6 \cap V = {}
  BY DEF TelemetryTask
<1>7. T4 = T3 \cup W /\ T6 = T5 \cup A /\ T7 = T6 \cup V
  OBVIOUS
<1>8. T7 = Wanted(c)
  BY DEF Wanted, TelemetryTask
<1>9. "offchain-workers" \notin T3 /\ "offchain-workers" \notin A /\ "offchain-workers" \notin V
  BY DEF TelemetryTask
<1>10. "offchain-workers" \in W => WorkerKeys \subseteq K
  BY DEF KeysFor
<1>11. full_tasks(c) = s1 \o s2 \o s3 \o s4 \o s5 \o s6 \o s7
  BY DEF full_tasks
<1>12. T3 = T1 \cup {"network-worker"} /\ T5 = T4 \cup {"rpc"}
  OBVIOUS
<1> HIDE DEF s1, s2, s3, s4, s5, s6, s7, T1, T3, T4, T5, T6, T7, W, A, V, K
<1>13. Part(s1 \o s2, T1, K)
  BY <1>1, <1>2, JoinParts
<1>14. Part(s1 \o s2 \o s3, T3, K)
  BY <1>2, <1>6, <1>12, <1>13, JoinParts
<1>15. Part(s1 \o s2 \o s3 \o s4, T4, K)
  BY <1>3, <1>6, <1>7, <1>14, JoinParts
<1>16. Part(s1 \o s2 \o s3 \o s4 \o s5, T5, K)
  BY <1>2, <1>6, <1>12, <1>15, JoinParts
<1>17. Part(s1 \o s2 \o s3 \o s4 \o s5 \o s6, T6, K)
  BY <1>4, <1>6, <1>7, <1>16, JoinParts
<1>18. Part(s1 \o s2 \o s3 \o s4 \o s5 \o s6 \o s7, T7, K)
  BY <1>5, <1>6, <1>7, <1>17, JoinParts
<1>19. KeysFirst(s1 \o s2 \o s3)
  BY <1>9, <1>14, NoWorkers
<1>20. KeysFirst(s1 \o s2 \o s3 \o s4)
  BY <1>3, <1>10, <1>14, <1>19, KeysStayFirst
<1>21. KeysFirst(s1 \o s2 \o s3 \o s4 \o s5)
  BY <1>2, <1>15, <1>20, KeysStayFirst
<1>22. KeysFirst(s1 \o s2 \o s3 \o s4 \o s5 \o s6)
  BY <1>4, <1>9, <1>16, <1>21, KeysStayFirst
<1>23. KeysFirst(s1 \o s2 \o s3 \o s4 \o s5 \o s6 \o s7)
  BY <1>5, <1>9, <1>17, <1>22, KeysStayFirst
<1> QED
  BY <1>8, <1>11, <1>18, <1>23 DEF K

LEMMA LightPart ==
    ASSUME NEW c, c.role = "Light"
    PROVE  /\ light_tasks(c) \in Seq(StepRecord)
           /\ Part(light_tasks(c) \o <<Spawn("rpc", Fallible)>>, Wanted(c), {})
<1> DEFINE s1 == When(c.telemetry, <<Call(Fallible)>>)
           s2 == <<Call(Fallible)>>
           s3 == When(c.telemetry, <<Spawn("telemetry", Infallible)>>)
           s4 == <<SpawnEssential("txpool", Infallible), Call(Fallible), Call(Fallible),
                   SpawnEssential("import-queue", Fallible), Spawn("network-worker", Fallible)>>
           s5 == When(c.offchain_worker, <<Spawn("offchain-workers", Infallible)>>)
           s6 == When(~ c.disable_grandpa, <<Spawn("grandpa-observer", Fallible)>>)
           s7 == <<Spawn("rpc", Fallible)>>
           Q == {"txpool", "import-queue", "network-worker"}
           M == TelemetryTask(c)
           W == IF c.offchain_worker THEN {"offchain-workers"} ELSE {}
           V == IF ~ c.disable_grandpa THEN {"grandpa-observer"} ELSE {}
           T4 == M \cup Q
           T5 == T4 \cup W
           T6 == T5 \cup V
           T7 == T6 \cup {"rpc"}
<1>1. Part(s1, {}, {}) /\ Part(s2, {}, {}) /\ Part(s7, {"rpc"}, {})
  BY WhenCall, CallPart, SpawnPart DEF Endings, Tasks
<1>2. Part(s3, M, {})
  BY WhenSpawn DEF Endings, Tasks, TelemetryTask
<1>3. Part(s4, Q, {})
  <2> DEFINE a == SpawnEssential("txpool", Infallible)
             b == Call(Fallible)
             d == SpawnEssential("import-queue", Fallible)
             e == Spawn("network-worker", Fallible)
             P == {"txpool", "import-queue"}
  <2>1. Part(<<a>>, {"txpool"}, {}) /\ Part(<<b>>, {}, {}) /\ Part(<<d>>, {"import-queue"}, {})
    BY SpawnPart, CallPart DEF Endings, Tasks
  <2>2. Part(<<e>>, {"network-worker"}, {}) /\ Part(<<a, b, b, d>>, P, {})
    BY SpawnPart, PoolAndQueuePart DEF Endings, Tasks, PoolAndQueue
  <2>3. s4 = <<a, b, b, d, e>>
    OBVIOUS
  <2>4. P \cap {"network-worker"} = {} /\ Q = P \cup {"network-worker"}
    OBVIOUS
  <2> HIDE DEF a, b, d, e, P, s4, Q
  <2>5. a \in StepRecord /\ b \in StepRecord /\ d \in StepRecord /\ e \in StepRecord
    BY <2>1, <2>2, PartSteps
  <2>6. <<a, b, b, d, e>> = <<a, b, b, d>> \o <<e>>
    <3>1. <<a, b, b, d, e>> = Append(<<a, b, b, d>>, e)
      OBVIOUS
    <3>2. <<a, b, b, d>> \in Seq(StepRecord)
      BY <2>5
    <3> QED
      BY <2>5, <3>1, <3>2, AppendIsConcat
  <2>7. Part(<<a, b, b, d>> \o <<e>>, Q, {})
    BY <2>2, <2>4, JoinParts
  <2> QED
    BY <2>3, <2>6, <2>7
<1>4. Part(s5, W, {}) /\ Part(s6, V, {})
  BY WhenSpawn DEF Endings, Tasks
<1>5. M \cap Q = {} /\ T4 \cap W = {} /\ T5 \cap V = {} /\ T6 \cap {"rpc"} = {}
  BY DEF TelemetryTask
<1>6. T7 = Wanted(c)
  BY DEF Wanted, TelemetryTask
<1>7. T4 = M \cup Q /\ T5 = T4 \cup W /\ T6 = T5 \cup V /\ T7 = T6 \cup {"rpc"}
  OBVIOUS
<1>8. light_tasks(c) = s1 \o s2 \o s3 \o s4 \o s5 \o s6
  BY DEF light_tasks
<1> HIDE DEF s1, s2, s3, s4, s5, s6, s7, Q, M, W, V, T4, T5, T6, T7
<1>9. Part(s1 \o s2, {}, {})
  BY <1>1, JoinParts
<1>10. Part(s1 \o s2 \o s3, M, {})
  BY <1>2, <1>9, JoinParts
<1>11. Part(s1 \o s2 \o s3 \o s4, T4, {})
  BY <1>3, <1>5, <1>7, <1>10, JoinParts
<1>12. Part(s1 \o s2 \o s3 \o s4 \o s5, T5, {})
  BY <1>4, <1>5, <1>7, <1>11, JoinParts
<1>13. Part(s1 \o s2 \o s3 \o s4 \o s5 \o s6, T6, {})
  BY <1>4, <1>5, <1>7, <1>12, JoinParts
<1>14. Part(s1 \o s2 \o s3 \o s4 \o s5 \o s6 \o s7, T7, {})
  BY <1>1, <1>5, <1>7, <1>13, JoinParts
<1>15. light_tasks(c) \in Seq(StepRecord)
  BY <1>8, <1>13 DEF Part
<1> QED
  BY <1>6, <1>8, <1>14, <1>15 DEF s7

\* A program does what it should, in an order that is right: nothing is
\* spawned twice, only "run" starts the network, last and after everything
\* it wants, and a full node's workers come after their keys.
Sound(cmd, c, P) ==
    /\ P \in Seq(StepRecord)
    /\ OnceEach(P)
    /\ \A i \in 1 .. Len(P) : P[i].start =>
         cmd = "run" /\ i = Len(P) /\ SpawnedBefore(P, Len(P) + 1) = Wanted(c)
    /\ c.role = "Light" \/ KeysFirst(P)

LEMMA PartSound ==
    ASSUME NEW cmd, NEW c, NEW s, NEW T, NEW K, Part(s, T, K), "offchain-workers" \notin T
    PROVE  Sound(cmd, c, s)
BY NoWorkers DEF Sound, Part

\* A part followed by start_network.
LEMMA NetworkLast ==
    ASSUME NEW c, NEW s, NEW K, Part(s, Wanted(c), K), c.role = "Light" \/ KeysFirst(s)
    PROVE  Sound("run", c, s \o <<StartNetwork>>)
<1> DEFINE x == Call(Infallible)
           y == StartNetwork
           u == s \o <<x>>
           v == s \o <<y>>
           T == Wanted(c)
<1>1. Part(<<x>>, {}, {})
  BY CallPart DEF Endings
<1>2. Part(u, T, K)
  BY <1>1, JoinParts
<1>3. y \in StepRecord /\ y.spawn = x.spawn /\ y.keys = x.keys
  BY DEF StartNetwork, Call, Infallible, StepRecord
<1>4. x \in StepRecord /\ s \in Seq(StepRecord)
  BY <1>1, PartSteps DEF Part
<1> HIDE DEF x, y
<1>5. <<x>> \in Seq(StepRecord) /\ <<y>> \in Seq(StepRecord) /\ Len(<<x>>) = 1 /\ Len(<<y>>) = 1
      /\ <<x>>[1] = x /\ <<y>>[1] = y
  BY <1>3, <1>4
<1>6. /\ v \in Seq(StepRecord) /\ Len(s) \in Nat /\ Len(v) = Len(s) + 1 /\ Len(u) = Len(v)
      /\ \A i \in 1 .. Len(s) : v[i] = s[i] /\ u[i] = s[i]
      /\ v[Len(s) + 1] = y /\ u[Len(s) + 1] = x
  BY <1>4, <1>5, Places
<1>7. \A i \in 1 .. Len(v) : v[i].spawn = u[i].spawn /\ v[i].keys = u[i].keys
  <2> TAKE i \in 1 .. Len(v)
  <2>1. i \in 1 .. Len(s) \/ i = Len(s) + 1
    BY <1>6
  <2> QED
    BY <1>3, <1>6, <2>1
<1>8. \A i \in 1 .. Len(v) : v[i].start => i = Len(v)
  BY <1>6 DEF Part
<1> HIDE DEF u, v, T
<1>9. OnceEach(v)
  BY <1>2, <1>6, <1>7 DEF OnceEach, Part
<1>10. SpawnedBefore(v, Len(v) + 1) = T
  <2>1. SpawnedBefore(u, Len(u) + 1) = T
    BY <1>2 DEF Part
  <2>2. SpawnedBefore(v, Len(v) + 1) = SpawnedBefore(u, Len(u) + 1)
    <3>1. \A i \in 1 .. ((Len(v) + 1) - 1) : v[i].spawn = u[i].spawn
      BY <1>6, <1>7
    <3> QED
      BY <1>6, <3>1 DEF SpawnedBefore
  <2> QED
    BY <2>1, <2>2
<1>11. ASSUME KeysFirst(s)
       PROVE  KeysFirst(v)
  <2>1. KeysFirst(u)
    BY <1>1, <1>11, KeysStayFirst DEF u
  <2>2. \A i \in 1 .. Len(v) : KeysBefore(v, i) = KeysBefore(u, i)
    <3> TAKE i \in 1 .. Len(v)
    <3>1. \A j \in 1 .. (i - 1) : v[j].keys = u[j].keys
      <4>1. \A j \in 1 .. (i - 1) : j \in 1 .. Len(v)
        BY <1>6
      <4> QED
        BY <1>7, <4>1
    <3> QED
      BY <3>1 DEF KeysBefore
  <2> QED
    BY <1>6, <1>7, <2>1, <2>2 DEF KeysFirst
<1>12. Sound("run", c, v)
  BY <1>6, <1>8, <1>9, <1>10, <1>11 DEF Sound, T
<1> QED
  BY <1>12 DEF v, y

LEMMA Regroup ==
    \A s, t, u \in Seq(StepRecord) : (s \o t) \o u = s \o (t \o u)
BY ConcatAssociative

\* Every program is sound.
LEMMA ProgramSound ==
    ASSUME NEW cmd \in Commands, NEW c \in Configs
    PROVE  Sound(cmd, c, Program(cmd, c))
<1> DEFINE p == <<Call(Fallible)>>
           P == Program(cmd, c)
<1>1. Part(p, {}, {})
  BY CallPart DEF Endings
<1>2. p \in Seq(StepRecord)
  BY <1>1 DEF Part
<1>3. CASE cmd = "run" /\ c.role # "Light"
  <2> DEFINE f == full_tasks(c)
             n == <<StartNetwork>>
             K == KeysFor(c)
             T == Wanted(c)
  <2>1. P = p \o (f \o n)
    BY <1>3 DEF Program, SyncCommands, PartialCommands, new_full
  <2>2. Part(f, T, K) /\ KeysFirst(f)
    BY <1>3, FullPart
  <2>3. n \in Seq(StepRecord)
    <3>1. StartNetwork \in StepRecord
      BY DEF StartNetwork, Call, Infallible, StepRecord
    <3> QED
      BY <3>1
  <2> HIDE DEF p, P, f, n, K
  <2>4. P = (p \o f) \o n
    BY <1>2, <2>1, <2>2, <2>3, Regroup DEF Part
  <2>5. Part(p \o f, T, K)
    BY <1>1, <2>2, JoinParts
  <2>6. KeysFirst(p)
    BY <1>1, NoWorkers
  <2>7. KeysFirst(p \o f)
    BY <1>1, <2>2, <2>6, KeysFirstLater
  <2>8. Sound("run", c, (p \o f) \o <<StartNetwork>>)
    BY <2>5, <2>7, NetworkLast
  <2> QED
    BY <1>3, <2>4, <2>8 DEF P, n
<1>4. CASE cmd = "run" /\ c.role = "Light"
  <2> DEFINE f == light_tasks(c)
             r == <<Spawn("rpc", Fallible)>>
             n == <<StartNetwork>>
             b == <<Spawn("rpc", Fallible), StartNetwork>>
             T == Wanted(c)
  <2>1. P = p \o (f \o b)
    BY <1>4 DEF Program, SyncCommands, PartialCommands, new_light
  <2>2. Part(f \o r, T, {})
    BY <1>4, LightPart
  <2>3. f \in Seq(StepRecord)
    BY <1>4, LightPart
  <2>4. r \in Seq(StepRecord) /\ n \in Seq(StepRecord) /\ b = r \o n
    <3> DEFINE x == Spawn("rpc", Fallible)
               y == StartNetwork
    <3>1. x \in StepRecord /\ y \in StepRecord
      BY DEF StartNetwork, Spawn, Call, Infallible, Fallible, StepRecord, Tasks
    <3> HIDE DEF x, y
    <3>2. <<x, y>> = Append(<<x>>, y) /\ <<x>> \in Seq(StepRecord) /\ <<y>> \in Seq(StepRecord)
      BY <3>1
    <3>3. <<x, y>> = <<x>> \o <<y>>
      BY <3>1, <3>2, AppendIsConcat
    <3> QED
      BY <3>2, <3>3 DEF x, y
  <2> HIDE DEF p, P, f, r, n, b
  <2>5. P = (p \o (f \o r)) \o n
    <3>1. f \o b = (f \o r) \o n
      BY <2>3, <2>4, Regroup
    <3>2. f \o r \in Seq(StepRecord)
      BY <2>2 DEF Part
    <3>3. P = p \o ((f \o r) \o n)
      BY <2>1, <3>1
    <3> DEFINE g == f \o r
    <3>4. g \in Seq(StepRecord) /\ P = p \o (g \o n)
      BY <3>2, <3>3
    <3> HIDE DEF g
    <3>5. (p \o g) \o n = p \o (g \o n)
      BY <1>2, <2>4, <3>4, Regroup
    <3>6. P = (p \o g) \o n
      BY <3>4, <3>5
    <3> QED
      BY <3>6 DEF g
  <2>6. Part(p \o (f \o r), T, {})
    BY <1>1, <2>2, JoinParts
  <2>7. Sound("run", c, (p \o (f \o r)) \o <<StartNetwork>>)
    BY <1>4, <2>6, NetworkLast
  <2> QED
    BY <1>4, <2>5, <2>7 DEF P, n
<1>5. CASE cmd = "Key"
  <2>1. P = p
    BY <1>5 DEF Program, SyncCommands, PartialCommands
  <2> HIDE DEF p, P
  <2>2. Sound(cmd, c, p)
    BY <1>1, PartSound
  <2> QED
    BY <2>1, <2>2 DEF P
<1>6. CASE cmd \in SyncCommands
  <2> DEFINE x == Call(Fallible)
  <2>1. P = <<x, x>>
    BY <1>6 DEF Program, SyncCommands, PartialCommands
  <2>2. Part(<<x>>, {}, {})
    BY <1>1
  <2> HIDE DEF x, P
  <2>3. Part(<<x, x>>, {} \cup {}, {} \cup {})
    BY <2>2, PairPart
  <2>4. Sound(cmd, c, <<x, x>>)
    BY <2>3, PartSound
  <2> QED
    BY <2>1, <2>4 DEF P
<1>7. CASE cmd \in PartialCommands
  <2> DEFINE f == new_partial(c)
             T == {"txpool", "import-queue"} \cup TelemetryTask(c)
             K == KeysFor(c)
  <2>1. P = (p \o f) \o p
    BY <1>7 DEF Program, PartialCommands, SyncCommands
  <2>2. Part(f, T, K) /\ "offchain-workers" \notin T
    BY NewPartialPart DEF TelemetryTask
  <2> HIDE DEF p, P, f, T, K
  <2>3. Part(p \o f, T, K)
    BY <1>1, <2>2, JoinParts
  <2>4. Part((p \o f) \o p, T, K)
    BY <1>1, <2>3, JoinParts
  <2>5. Sound(cmd, c, (p \o f) \o p)
    BY <2>2, <2>4, PartSound
  <2> QED
    BY <2>1, <2>5 DEF P
<1> QED
  BY <1>3, <1>4, <1>5, <1>6, <1>7 DEF Commands

-----------------------------------------------------------------------------
(* The life of a process. *)

\* Memory holds what the steps of P before pc left there.
Done(P) ==
    /\ pc \in 1 .. (Len(P) + 1)
    /\ tasks \cup ended = SpawnedBefore(P, pc)
    /\ keys = KeysBefore(P, pc)
    /\ open <=> \E i \in 1 .. (pc - 1) : P[i].start

Gone ==
    /\ command = "none" /\ config = NoConfig
    /\ keys = {} /\ tasks = {} /\ essential = {} /\ ended = {}
    /\ open = FALSE /\ refused = {}

ServiceInv ==
    /\ status \in {"down", "starting", "running", "closing"}
    /\ status = "down" => Gone
    /\ status # "down" => command \in Commands /\ config \in Configs /\ Done(Steps)
    /\ tasks \cap ended = {}
    /\ essential \subseteq tasks \cup ended
    /\ open \in BOOLEAN
    /\ refused \subseteq KeyTypes
    /\ best \in 0 .. MaxBest
    /\ WorkersCanSend

\* One step more.
LEMMA OneMore ==
    ASSUME NEW P \in Seq(StepRecord), NEW n \in 1 .. Len(P)
    PROVE  /\ SpawnedBefore(P, n + 1) = SpawnedBefore(P, n) \cup P[n].spawn
           /\ KeysBefore(P, n + 1) = KeysBefore(P, n) \cup P[n].keys
           /\ (\E i \in 1 .. n : P[i].start)
                <=> (\E i \in 1 .. (n - 1) : P[i].start) \/ P[n].start
<1>1. \A i : i \in 1 .. ((n + 1) - 1) <=> i \in 1 .. (n - 1) \/ i = n
  OBVIOUS
<1>2. \A i : i \in 1 .. n <=> i \in 1 .. (n - 1) \/ i = n
  OBVIOUS
<1>3. P[n] \in StepRecord
  OBVIOUS
<1>4. P[n].spawn \subseteq Tasks /\ P[n].keys \subseteq KeyTypes \X Seeds
  BY <1>3, StepField
<1>5. SpawnedBefore(P, n + 1) = SpawnedBefore(P, n) \cup P[n].spawn
  BY <1>1, <1>4 DEF SpawnedBefore
<1>6. KeysBefore(P, n + 1) = KeysBefore(P, n) \cup P[n].keys
  BY <1>1, <1>4 DEF KeysBefore
<1> QED
  BY <1>2, <1>5, <1>6

\* The step to come spawns nothing that was spawned.
LEMMA SpawnsNew ==
    ASSUME NEW P \in Seq(StepRecord), OnceEach(P), NEW n \in 1 .. Len(P)
    PROVE  SpawnedBefore(P, n) \cap P[n].spawn = {}
<1> SUFFICES ASSUME NEW t \in SpawnedBefore(P, n), t \in P[n].spawn
             PROVE  FALSE
  OBVIOUS
<1>1. PICK i \in 1 .. (n - 1) : t \in P[i].spawn
  BY DEF SpawnedBefore
<1>2. i \in 1 .. Len(P) /\ i # n
  OBVIOUS
<1> QED
  BY <1>1, <1>2 DEF OnceEach

LEMMA StepsBefore ==
    ASSUME NEW P, NEW n
    PROVE  /\ SpawnedBefore(P, n) \subseteq Tasks
           /\ KeysBefore(P, n) \subseteq KeyTypes \X Seeds
BY DEF SpawnedBefore, KeysBefore

\* Nothing is done before the first step.
LEMMA NothingDone ==
    ASSUME NEW P
    PROVE  SpawnedBefore(P, 1) = {} /\ KeysBefore(P, 1) = {} /\ ~ \E i \in 1 .. (1 - 1) : P[i].start
BY DEF SpawnedBefore, KeysBefore

LEMMA NewBestType ==
    ASSUME best \in 0 .. MaxBest, NEW b \in NewBest
    PROVE  b \in 0 .. MaxBest
<1>1. MaxBest \in Nat
  BY ServiceAssumption
<1> QED
  BY <1>1 DEF NewBest

\* The workers of a full node on a built-in chain have all their keys.
LEMMA FullWorkersCanSend ==
    ASSUME NEW P, Sound(command, config, P), Done(P), config \in Configs,
           "offchain-workers" \in tasks,
           config.role # "Light", config.chain # "file",
           NEW p \in KeyTypes
    PROVE  CanSend(p)
<1>1. PICK i \in 1 .. (pc - 1) : "offchain-workers" \in P[i].spawn
  BY DEF Done, SpawnedBefore
<1>2. i \in 1 .. Len(P) /\ Len(P) \in Nat /\ pc \in Nat
  BY DEF Done, Sound
<1>3. WorkerKeys \subseteq KeysBefore(P, i)
  BY <1>1, <1>2 DEF Sound, KeysFirst
<1>4. KeysBefore(P, i) \subseteq keys
  BY <1>2 DEF Done, KeysBefore
<1>5. <<p, "Alice">> \in keys
  BY <1>3, <1>4 DEF WorkerKeys
<1>6. config.chain = "dev" \/ config.chain = "local"
  BY ServiceAssumption DEF Config, Chains
<1>7. "Alice" \in load_spec(config.chain).endowed
  BY <1>6 DEF load_spec, development_config, local_testnet_config, testnet_genesis, Seeds
<1> QED
  BY <1>5, <1>7 DEF CanSend

LEMMA DownInvariant ==
    ASSUME ServiceInv, Down, best' \in 0 .. MaxBest
    PROVE  ServiceInv'
BY DEF ServiceInv, Gone, Down, Cleared, WorkersCanSend

\* A step that leaves command and configuration leaves the program.
LEMMA SameProgram ==
    ASSUME UNCHANGED <<command, config>>
    PROVE  Steps' = Steps
BY DEF Steps

LEMMA ServiceInvNext == ServiceInv /\ [Next]_serviceVars => ServiceInv'
<1> SUFFICES ASSUME ServiceInv, [Next]_serviceVars
             PROVE  ServiceInv'
  OBVIOUS
<1> DEFINE P == Program(command, config)
<1>1. status # "down" => Sound(command, config, P)
  BY ProgramSound DEF ServiceInv
<1>2. status # "down" => Done(P) /\ P \in Seq(StepRecord) /\ OnceEach(P) /\ Len(P) \in Nat
  BY <1>1 DEF ServiceInv, Sound, Steps
<1>3. Steps = P
  BY DEF Steps
<1>4. UNCHANGED <<command, config>> => Steps' = P
  BY SameProgram, <1>3
<1>5. ASSUME NEW cmd \in Commands, NEW c \in Configs, Run(cmd, c)
      PROVE  ServiceInv'
  <2>1. Sound(cmd, c, Program(cmd, c))
    BY ProgramSound
  <2>2. Len(Program(cmd, c)) \in Nat
    BY <2>1 DEF Sound
  <2>3. Steps' = Program(cmd, c)
    BY <1>5 DEF Steps, Run
  <2>4. Done(Steps)'
    BY <1>5, <2>2, <2>3, NothingDone DEF Run, Cleared, Done
  <2> QED
    BY <1>5, <2>4 DEF Run, Cleared, ServiceInv, WorkersCanSend
<1>6. CASE StepOk
  <2>1. status = "starting" /\ pc \in 1 .. Len(P) /\ UNCHANGED <<command, config>>
    BY <1>2, <1>3, <1>6 DEF StepOk, Done
  <2> DEFINE x == P[pc]
  <2>2. /\ pc' = pc + 1 /\ keys' = keys \cup x.keys /\ tasks' = tasks \cup x.spawn
        /\ essential' \subseteq essential \cup x.spawn
        /\ open' = (open \/ x.start)
        /\ best' \in NewBest
        /\ UNCHANGED <<status, command, config, ended, refused>>
    BY <1>3, <1>6 DEF StepOk
  <2>3. x \in StepRecord
    BY <1>2, <2>1
  <2>4. tasks' \cup ended' = SpawnedBefore(P, pc') /\ keys' = KeysBefore(P, pc')
    BY <1>2, <2>1, <2>2, OneMore DEF Done
  <2>5. open' <=> \E i \in 1 .. (pc' - 1) : P[i].start
    <3>1. (pc + 1) - 1 = pc
      BY <2>1
    <3> QED
      BY <1>2, <2>1, <2>2, <3>1, OneMore DEF Done
  <2>6. pc' \in 1 .. (Len(P) + 1)
    BY <1>2, <2>1, <2>2
  <2>7. Done(Steps)'
    BY <1>4, <2>1, <2>4, <2>5, <2>6 DEF Done
  <2>8. tasks' \cap ended' = {}
    <3>1. SpawnedBefore(P, pc) \cap x.spawn = {}
      BY <1>2, <2>1, SpawnsNew
    <3>2. ended \cap x.spawn = {}
      BY <1>2, <2>1, <3>1 DEF Done
    <3> QED
      BY <2>2, <3>2 DEF ServiceInv
  <2>9. open' \in BOOLEAN
    BY <2>2, <2>3, StepField DEF ServiceInv
  <2>10. best' \in 0 .. MaxBest
    BY <2>2, NewBestType DEF ServiceInv
  <2> HIDE DEF x
  <2> QED
    BY <2>1, <2>2, <2>7, <2>8, <2>9, <2>10 DEF ServiceInv, WorkersCanSend
<1>7. CASE StepErr
  BY <1>7, NewBestType, DownInvariant DEF StepErr, ServiceInv
<1>8. CASE Started \/ Notice \/ Signal
  <2>1. /\ status # "down" /\ status' \in {"running", "closing"}
        /\ UNCHANGED <<command, config, pc, keys, tasks, essential, ended, open, refused, best>>
    BY <1>8 DEF Started, Notice, Signal, memory
  <2>2. Done(Steps)'
    BY <1>2, <1>4, <2>1 DEF Done
  <2> QED
    BY <2>1, <2>2 DEF ServiceInv, WorkersCanSend
<1>9. CASE Shutdown
  BY <1>9, DownInvariant DEF Shutdown, ServiceInv
<1>10. CASE Crash
  BY <1>10, NewBestType, DownInvariant DEF Crash, ServiceInv
<1>11. ASSUME NEW t \in tasks, TaskEnds(t)
       PROVE  ServiceInv'
  <2>1. /\ status # "down" /\ tasks' = tasks \ {t} /\ ended' = ended \cup {t}
        /\ UNCHANGED <<status, command, config, pc, keys, essential, open, refused, best>>
    BY <1>11 DEF TaskEnds
  <2>2. tasks' \cup ended' = tasks \cup ended
    BY <2>1
  <2>3. Done(Steps)'
    BY <1>2, <1>4, <2>1, <2>2 DEF Done
  <2> QED
    BY <2>1, <2>2, <2>3 DEF ServiceInv, WorkersCanSend
<1>12. CASE ImportBlock
  <2>1. status # "down"
    BY <1>12 DEF ImportBlock, ServiceInv, Gone
  <2>2. /\ best < MaxBest /\ best' = best + 1
        /\ UNCHANGED <<status, command, config, pc, keys, tasks, essential, ended, open>>
    BY <1>12 DEF ImportBlock
  <2>3. Done(Steps)'
    BY <1>2, <1>4, <2>1, <2>2 DEF Done
  <2>4. refused' \subseteq KeyTypes
    BY <1>12 DEF ImportBlock, ServiceInv
  <2>5. best' \in 0 .. MaxBest
    BY <2>2, ServiceAssumption DEF ServiceInv
  <2>6. WorkersCanSend'
    <3> SUFFICES ASSUME config.role # "Light", config.chain # "file"
                 PROVE  refused' = {}
      BY <2>2 DEF WorkersCanSend
    <3>1. refused = {}
      BY DEF ServiceInv, WorkersCanSend
    <3>2. "offchain-workers" \in tasks => \A p \in KeyTypes : CanSend(p)
      BY <1>1, <1>2, <2>1, FullWorkersCanSend DEF ServiceInv
    <3> QED
      BY <1>12, <3>1, <3>2 DEF ImportBlock
  <2> QED
    BY <2>1, <2>2, <2>3, <2>4, <2>5, <2>6 DEF ServiceInv
<1>13. CASE UNCHANGED serviceVars
  <2>1. UNCHANGED <<status, command, config, pc, keys, tasks, essential, ended, open, refused, best>>
    BY <1>13 DEF serviceVars, memory
  <2>2. status # "down" => Done(Steps)'
    BY <1>2, <1>4, <2>1 DEF Done
  <2> QED
    BY <2>1, <2>2 DEF ServiceInv, Gone, WorkersCanSend
<1> QED
  BY <1>5, <1>6, <1>7, <1>8, <1>9, <1>10, <1>11, <1>12, <1>13 DEF Next

\* A process has done exactly the steps before its pc, and nothing of it is
\* left when it is down.
THEOREM ServiceInvariance == Spec => []ServiceInv
<1>1. Init => ServiceInv
  <2> SUFFICES ASSUME Init
               PROVE  ServiceInv
    OBVIOUS
  <2>1. status = "down" /\ Gone
    BY DEF Init, Gone
  <2>2. best \in 0 .. MaxBest
    BY ServiceAssumption DEF Init
  <2>3. WorkersCanSend
    BY <2>1 DEF Gone, WorkersCanSend
  <2> QED
    BY <2>1, <2>2, <2>3 DEF Gone, ServiceInv
<1> QED
  BY <1>1, ServiceInvNext, PTL DEF Spec

\* Types, and no task, key or open network outlives its process, whichever
\* step of the start-up failed.
THEOREM ServiceTypeCorrect == Spec => []TypeOK
<1>1. ServiceInv => TypeOK
  <2> SUFFICES ASSUME ServiceInv
               PROVE  TypeOK
    OBVIOUS
  <2>1. tasks \cup ended \subseteq Tasks /\ keys \subseteq KeyTypes \X Seeds
    BY StepsBefore DEF ServiceInv, Done, Gone
  <2> QED
    BY <2>1 DEF ServiceInv, Done, Gone, TypeOK
<1> QED
  BY <1>1, ServiceInvariance, PTL

\* A full node of a built-in chain can send for both pallets at every block
\* its workers see.
THEOREM WorkersSend == Spec => []WorkersCanSend
<1>1. ServiceInv => WorkersCanSend
  BY DEF ServiceInv
<1> QED
  BY <1>1, ServiceInvariance, PTL

\* Only a node with all it was configured for is on the network.
THEOREM WholeNode == Spec => []WholeNodeOnNetwork
<1>1. ServiceInv => WholeNodeOnNetwork
  <2> SUFFICES ASSUME ServiceInv, open
               PROVE  command = "run" /\ Wanted(config) = tasks \cup ended
    BY DEF WholeNodeOnNetwork
  <2> DEFINE P == Program(command, config)
  <2>1. status # "down"
    BY DEF ServiceInv, Gone
  <2>2. Sound(command, config, P) /\ Done(P)
    BY <2>1, ProgramSound DEF ServiceInv, Steps
  <2>3. PICK i \in 1 .. (pc - 1) : P[i].start
    BY <2>2 DEF Done
  <2>4. pc \in 1 .. (Len(P) + 1) /\ Len(P) \in Nat
    BY <2>2 DEF Done, Sound
  <2>5. command = "run" /\ i = Len(P) /\ SpawnedBefore(P, Len(P) + 1) = Wanted(config)
    BY <2>2, <2>3, <2>4 DEF Sound
  <2>6. pc = Len(P) + 1
    BY <2>4, <2>5
  <2> QED
    BY <2>2, <2>5, <2>6 DEF Done
<1> QED
  BY <1>1, ServiceInvariance, PTL
=============================================================================
