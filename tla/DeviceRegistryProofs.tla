------------------------- MODULE DeviceRegistryProofs -------------------------
(***************************************************************************)
(* The registry for any devices, pairings and troubles.  In this order:    *)
(* induction over the natural numbers and what Dropping makes of a list;   *)
(* the types and the refinement of PersistentCache (Typed, StepD, StepP);  *)
(* one object per device (Alone, Counted); where the coroutines are        *)
(* (Linked); files and dictionaries around a start (Files, Booting) and    *)
(* without a removal (NoRemoval); hash, file and dictionary that only grow *)
(* (Grown); index and list; what is created is in the files (Stored); and  *)
(* calls that are handled in order until what is paired is described       *)
(* (InOrder, Coverage).  Every theorem stands at the end of its part.      *)
(***************************************************************************)
EXTENDS DeviceRegistry, FiniteSetTheorems, TLAPS

LEMMA ProcsAre == "add" \in Procs /\ "boot" \in Procs /\ "user" \in Procs
  BY DEF Procs

---------------------------------------------------------------------------
(* Induction over the natural numbers, as a fact about sets: the library's *)
(* well-founded order of finite sets gives every set of numbers a least    *)
(* element.                                                                *)
LEMMA LeastNumber ==
    ASSUME NEW S \in SUBSET Nat, S # {}
    PROVE  \E m \in S : \A n \in S : m <= n
<1> DEFINE T == {0..n : n \in S}
<1>1. T \subseteq FiniteSubsetsOf(Nat) /\ T # {}
  <2>1. \A n \in S : 0..n \in SUBSET Nat /\ IsFiniteSet(0..n)
    BY FS_Interval
  <2> QED
    BY <2>1 DEF FiniteSubsetsOf
<1> HIDE DEF T
<1>2. IsWellFoundedOn(StrictSubsetOrdering(Nat), FiniteSubsetsOf(Nat))
  BY FS_StrictSubsetOrderingWellFounded
<1>3. PICK X \in T : \A Y \in T : ~(<<Y, X>> \in StrictSubsetOrdering(Nat))
  BY <1>1, <1>2, WFMin
<1>4. PICK m \in S : X = 0..m
  BY DEF T
<1>5. ASSUME NEW n \in S PROVE m <= n
  <2>1. SUFFICES ASSUME n < m PROVE FALSE
    OBVIOUS
  <2>2. 0..n \in T /\ 0..n \in SUBSET Nat /\ X \in SUBSET Nat
    BY <1>4 DEF T
  <2>3. 0..n \subseteq X /\ m \in X /\ m \notin 0..n
    BY <1>4, <2>1
  <2>4. <<0..n, X>> \in StrictSubsetOrdering(Nat)
    BY <2>2, <2>3 DEF StrictSubsetOrdering
  <2> QED
    BY <1>3, <2>2, <2>4
<1> QED
  BY <1>5

LEMMA Induction ==
    ASSUME NEW S, 0 \in S, \A n \in Nat : n \in S => n + 1 \in S
    PROVE  \A n \in Nat : n \in S
<1> DEFINE Missing == Nat \ S
<1>1. SUFFICES ASSUME Missing # {} PROVE FALSE
  OBVIOUS
<1>2. PICK m \in Missing : \A n \in Missing : m <= n
  BY <1>1, LeastNumber
<1>3. m # 0 /\ m - 1 \in Nat /\ m - 1 \notin Missing
  BY <1>2
<1>4. m - 1 \in S
  BY <1>3
<1>5. (m - 1) + 1 \in S
  BY <1>3, <1>4
<1> QED
  BY <1>2, <1>5

---------------------------------------------------------------------------
(* Lists of devices. *)

\* The list after its first n elements, as Dropping computes it.
Step(list, ds, kept, n) ==
    IF n = 0 THEN <<>>
    ELSE IF list[n] \in ds THEN kept[n - 1] ELSE Append(kept[n - 1], list[n])

LEMMA KeptExists ==
    ASSUME NEW list, NEW ds, NEW m \in Nat
    PROVE  \E f : f = [n \in 0..m |-> Step(list, ds, f, n)]
<1> DEFINE S == {k \in Nat : \E f : f = [n \in 0..k |-> Step(list, ds, f, n)]}
<1>1. 0 \in S
  <2> DEFINE f == [n \in 0..0 |-> <<>>]
  <2>1. f = [n \in 0..0 |-> Step(list, ds, f, n)]
    BY DEF Step
  <2> QED
    BY <2>1
<1>2. ASSUME NEW k \in Nat, k \in S PROVE k + 1 \in S
  <2>1. PICK f : f = [n \in 0..k |-> Step(list, ds, f, n)]
    BY <1>2
  <2> DEFINE last == Step(list, ds, f, k + 1)
             g == [n \in 0..(k + 1) |-> IF n = k + 1 THEN last ELSE f[n]]
  <2>2. \A n \in 0..k : g[n] = f[n] /\ f[n] = Step(list, ds, f, n)
    BY <2>1
  <2>3. \A n \in 0..(k + 1) : Step(list, ds, g, n) = Step(list, ds, f, n)
    <3> SUFFICES ASSUME NEW n \in 0..(k + 1) PROVE Step(list, ds, g, n) = Step(list, ds, f, n)
      OBVIOUS
    <3>1. CASE n = 0
      BY <3>1 DEF Step
    <3>2. CASE n # 0
      <4>1. n - 1 \in 0..k
        BY <3>2
      <4>2. g[n - 1] = f[n - 1]
        BY <2>2, <4>1
      <4> HIDE DEF g
      <4> QED
        BY <4>2 DEF Step
    <3> QED
      BY <3>1, <3>2
  <2>4. \A n \in 0..(k + 1) : g[n] = Step(list, ds, g, n)
    <3> SUFFICES ASSUME NEW n \in 0..(k + 1) PROVE g[n] = Step(list, ds, f, n)
      BY <2>3
    <3>1. CASE n = k + 1
      BY <3>1
    <3>2. CASE n # k + 1
      <4>1. n \in 0..k
        BY <3>2
      <4> QED
        BY <2>2, <4>1
    <3> QED
      BY <3>1, <3>2
  <2>5. g = [n \in 0..(k + 1) |-> Step(list, ds, g, n)]
    <3>1. DOMAIN g = 0..(k + 1) /\ g = [n \in DOMAIN g |-> g[n]]
      OBVIOUS
    <3> DEFINE h == [n \in 0..(k + 1) |-> Step(list, ds, g, n)]
    <3>2. DOMAIN h = 0..(k + 1) /\ h = [n \in DOMAIN h |-> h[n]]
          /\ \A n \in 0..(k + 1) : h[n] = Step(list, ds, g, n)
      OBVIOUS
    <3> HIDE DEF g, h
    <3>3. g = h
      BY <2>4, <3>1, <3>2
    <3> QED
      BY <3>3 DEF h
  <2>6. \E h : h = [n \in 0..(k + 1) |-> Step(list, ds, h, n)]
    BY <2>5
  <2> QED
    BY <2>6
<1> HIDE DEF S
<1>3. m \in S
  BY <1>1, <1>2, Induction
<1> QED
  BY <1>3 DEF S

\* The lists a cache may hold: every address once.
OnceEach(list) == \A i, j \in 1..Len(list) : list[i] = list[j] => i = j
Lists == {list \in Seq(Devices) : OnceEach(list)}

LEMMA AppendList ==
    ASSUME NEW list \in Lists, NEW d \in Devices, d \notin ToSet(list)
    PROVE  Append(list, d) \in Lists /\ ToSet(Append(list, d)) = ToSet(list) \cup {d}
<1>1. Len(Append(list, d)) = Len(list) + 1 /\ Append(list, d) \in Seq(Devices)
      /\ Append(list, d)[Len(list) + 1] = d
      /\ \A i \in 1..Len(list) : Append(list, d)[i] = list[i]
  BY DEF Lists
<1>2. DOMAIN list = 1..Len(list) /\ Len(list) \in Nat
      /\ DOMAIN Append(list, d) = 1..(Len(list) + 1)
  BY <1>1 DEF Lists
<1> DEFINE a == Append(list, d)
<1> HIDE DEF a
<1>3. OnceEach(a)
  BY <1>1, <1>2 DEF OnceEach, Lists, ToSet, a
<1>4. ToSet(a) = ToSet(list) \cup {d}
  BY <1>1, <1>2 DEF ToSet, a
<1> QED
  BY <1>1, <1>3, <1>4 DEF Lists, a

LEMMA DroppingKeeps ==
    ASSUME NEW list \in Lists, NEW ds
    PROVE  Dropping(list, ds) \in Lists /\ ToSet(Dropping(list, ds)) = ToSet(list) \ ds
<1>1. Len(list) \in Nat /\ DOMAIN list = 1..Len(list) /\ list \in Seq(Devices)
      /\ \A i \in 1..Len(list) : list[i] \in Devices
  BY DEF Lists
<1> DEFINE Solves(f) == f = [n \in 0..Len(list) |-> Step(list, ds, f, n)]
           kept == CHOOSE f : Solves(f)
<1>2. Solves(kept)
  BY <1>1, KeptExists
<1>3. Dropping(list, ds) = kept[Len(list)]
  BY DEF Dropping, Step
<1> HIDE DEF kept
<1>4. \A n \in 0..Len(list) : kept[n] = Step(list, ds, kept, n)
  BY <1>2
<1> HIDE DEF Solves
<1> DEFINE Passed(n) == {list[i] : i \in 1..n} \ ds
           Good == {n \in Nat : n <= Len(list) =>
                                   kept[n] \in Lists /\ ToSet(kept[n]) = Passed(n)}
<1>5. 0 \in Good
  <2>1. kept[0] = <<>>
    BY <1>1, <1>4 DEF Step
  <2>2. <<>> \in Lists /\ ToSet(<<>>) = {} /\ Passed(0) = {}
    BY DEF Lists, OnceEach, ToSet
  <2> QED
    BY <2>1, <2>2
<1>6. ASSUME NEW n \in Nat, n \in Good PROVE n + 1 \in Good
  <2> SUFFICES ASSUME n + 1 <= Len(list)
               PROVE  kept[n + 1] \in Lists /\ ToSet(kept[n + 1]) = Passed(n + 1)
    OBVIOUS
  <2>1. kept[n] \in Lists /\ ToSet(kept[n]) = Passed(n)
    BY <1>1, <1>6
  <2>2. n + 1 \in 1..Len(list) /\ n + 1 \in 0..Len(list) /\ (n + 1) - 1 = n
    BY <1>1
  <2>3. kept[n + 1] = IF list[n + 1] \in ds THEN kept[n] ELSE Append(kept[n], list[n + 1])
    BY <1>4, <2>2 DEF Step
  <2>4. {list[i] : i \in 1..(n + 1)} = {list[i] : i \in 1..n} \cup {list[n + 1]}
    <3>1. 1..(n + 1) = (1..n) \cup {n + 1}
      OBVIOUS
    <3> QED
      BY <3>1
  <2>5. CASE list[n + 1] \in ds
    BY <2>1, <2>3, <2>4, <2>5
  <2>6. CASE list[n + 1] \notin ds
    <3>1. list[n + 1] \notin {list[i] : i \in 1..n}
      <4>1. \A i \in 1..n : i \in 1..Len(list) /\ i # n + 1
        BY <1>1, <2>2
      <4> QED
        BY <2>2, <4>1 DEF Lists, OnceEach
    <3>2. list[n + 1] \notin ToSet(kept[n]) /\ list[n + 1] \in Devices
      BY <1>1, <2>1, <2>2, <3>1
    <3>3. kept[n + 1] = Append(kept[n], list[n + 1])
      BY <2>3, <2>6
    <3> QED
      BY <2>1, <2>4, <2>6, <3>2, <3>3, AppendList
  <2> QED
    BY <2>5, <2>6
<1>7. Len(list) \in Good
  <2> HIDE DEF Good
  <2> QED
    BY <1>1, <1>5, <1>6, Induction
<1>8. ToSet(list) = {list[i] : i \in 1..Len(list)}
  BY <1>1 DEF ToSet
<1> QED
  BY <1>1, <1>3, <1>7, <1>8

\* What the cache of descriptions may hold.
Contents == [key : BOOLEAN, of : Lists]

LEMMA WithoutIs ==
    ASSUME NEW content \in Contents, NEW ds
    PROVE  Without(content, ds) \in Contents
           /\ Described(Without(content, ds)) = Described(content) \ ds
<1>1. content.of \in Lists
  BY DEF Contents
<1>2. \A list \in Lists : [key |-> TRUE, of |-> list] \in Contents
  BY DEF Contents
<1> QED
  BY <1>1, <1>2, DroppingKeeps DEF Without, Described

LEMMA WithIs ==
    ASSUME NEW content \in Contents, NEW d \in Devices
    PROVE  With(content, d) \in Contents
           /\ Described(With(content, d)) = Described(content) \cup {d}
<1> DEFINE rest == Without(content, {d})
<1>1. rest \in Contents /\ ToSet(rest.of) = ToSet(content.of) \ {d}
  BY WithoutIs DEF Described
<1> HIDE DEF rest
<1>2. \A list \in Lists : [key |-> TRUE, of |-> list] \in Contents
  BY DEF Contents
<1>3. Append(rest.of, d) \in Lists
      /\ ToSet(Append(rest.of, d)) = ToSet(content.of) \cup {d}
  BY <1>1, AppendList DEF Contents
<1> QED
  BY <1>2, <1>3 DEF With, Described, rest

LEMMA ListLength ==
    ASSUME NEW list \in Lists
    PROVE  \E n \in 0..Cardinality(Devices) : list \in [1..n -> Devices]
<1>1. list \in [1..Len(list) -> Devices] /\ Len(list) \in Nat /\ OnceEach(list)
  BY DEF Lists
<1>2. list \in Injection(1..Len(list), Devices)
  BY <1>1 DEF OnceEach, Injection, IsInjective
<1>3. Cardinality(1..Len(list)) = Len(list)
  <2>1. 1 \in Int /\ Len(list) \in Int
    BY <1>1
  <2>2. Cardinality(1..Len(list)) = IF 1 > Len(list) THEN 0 ELSE Len(list) - 1 + 1
    BY <2>1, FS_Interval
  <2> QED
    BY <1>1, <2>2
<1>4. Len(list) <= Cardinality(Devices) /\ Cardinality(Devices) \in Nat
  BY <1>2, <1>3, DevicesAssumption, FS_Injection, FS_CardinalityType
<1>5. Len(list) \in 0..Cardinality(Devices)
  BY <1>1, <1>4
<1> QED
  BY <1>1, <1>5

---------------------------------------------------------------------------
(* The files.                                                              *)

DC == INSTANCE PersistentCacheProofs WITH Content <- Contents, Empty <- NoDescr,
        Users <- Procs, Stored <- AsIs, mem <- dMem, saved <- dSaved, disk <- dDisk, io <- dIo, hash <- dHash
PC == INSTANCE PersistentCacheProofs WITH Content <- Paramsets, Empty <- NoParam,
        Users <- Procs, Stored <- Untyped, mem <- pMem, saved <- pSaved, disk <- pDisk, io <- pIo, hash <- pHash

StepD == [DC!Next]_(DC!vars)
StepP == [PC!Next]_(PC!vars)

LEMMA EmptyContents == NoDescr \in Contents /\ NoParam \in Paramsets
BY DEF NoDescr, NoParam, Contents, Lists, OnceEach, Paramsets

\* What a dump and a load make of a content.
LEMMA StoredAre ==
  /\ \A c \in Contents : AsIs(c) = c /\ AsIs(c) \in Contents
  /\ \A c \in Paramsets : Untyped(c) \in Paramsets
BY DEF AsIs, Untyped, Paramsets

LEMMA OperationsD ==
    /\ UNCHANGED dVars => DC!Ordinary
    /\ \A c \in Contents : D!Change(c) => DC!Ordinary
    /\ \A p \in Procs : D!SaveBegin(p) \/ D!SaveWake(p) \/ D!SaveOpen(p) \/ D!SaveWrite(p)
                        \/ D!LoadBegin(p) \/ D!LoadRead(p) => DC!Ordinary
<1>1. UNCHANGED dVars => DC!Ordinary
  BY DEF dVars, DC!Ordinary, DC!vars
<1>2. \A c \in Contents : D!Change(c) => DC!Ordinary
  BY DEF D!Change, DC!Change, DC!Ordinary
<1>3. \A p \in Procs : D!SaveBegin(p) \/ D!SaveWake(p) \/ D!SaveOpen(p) => DC!Ordinary
  BY DEF D!SaveBegin, D!SaveWake, D!SaveOpen, DC!SaveBegin, DC!SaveWake, DC!SaveOpen, DC!Ordinary,
         D!Dirty, DC!Dirty, D!Holders, DC!Holders, D!Cut, DC!Cut
<1>4. \A p \in Procs : D!SaveWrite(p) \/ D!LoadBegin(p) \/ D!LoadRead(p) => DC!Ordinary
  BY DEF D!SaveWrite, D!LoadBegin, D!LoadRead, DC!SaveWrite, DC!LoadBegin, DC!LoadRead, DC!Ordinary,
         D!Holders, DC!Holders, D!Absent, DC!Absent, D!Whole, DC!Whole
<1> QED
  BY <1>1, <1>2, <1>3, <1>4

LEMMA OperationsP ==
    /\ UNCHANGED pVars => PC!Ordinary
    /\ \A c \in Paramsets : P!Change(c) => PC!Ordinary
    /\ \A p \in Procs : P!SaveBegin(p) \/ P!SaveWake(p) \/ P!SaveOpen(p) \/ P!SaveWrite(p)
                        \/ P!LoadBegin(p) \/ P!LoadRead(p) => PC!Ordinary
<1>1. UNCHANGED pVars => PC!Ordinary
  BY DEF pVars, PC!Ordinary, PC!vars
<1>2. \A c \in Paramsets : P!Change(c) => PC!Ordinary
  BY DEF P!Change, PC!Change, PC!Ordinary
<1>3. \A p \in Procs : P!SaveBegin(p) \/ P!SaveWake(p) \/ P!SaveOpen(p) => PC!Ordinary
  BY DEF P!SaveBegin, P!SaveWake, P!SaveOpen, PC!SaveBegin, PC!SaveWake, PC!SaveOpen, PC!Ordinary,
         P!Dirty, PC!Dirty, P!Holders, PC!Holders, P!Cut, PC!Cut
<1>4. \A p \in Procs : P!SaveWrite(p) \/ P!LoadBegin(p) \/ P!LoadRead(p) => PC!Ordinary
  BY DEF P!SaveWrite, P!LoadBegin, P!LoadRead, PC!SaveWrite, PC!LoadBegin, PC!LoadRead, PC!Ordinary,
         P!Holders, PC!Holders, P!Absent, PC!Absent, P!Whole, PC!Whole
<1> QED
  BY <1>1, <1>2, <1>3, <1>4

\* The registry touches the caches only through their operations.
OrdinarySteps == DC!Ordinary /\ PC!Ordinary

LEMMA CacheSteps ==
    ASSUME DC!TypeOK, PC!TypeOK, cur \in [Procs -> SUBSET Devices], [Next]_vars
    PROVE  OrdinarySteps \/ Wipe("boot") \/ Wipe("user") \/ ((Stopped \/ Crash) /\ Reset)
<1> USE ProcsAre, OperationsD, OperationsP DEF cacheVars, OrdinarySteps
<1>1. ASSUME NEW d \in Devices, Pair(d) \/ Unpair(d) PROVE OrdinarySteps
  BY <1>1 DEF Pair, Unpair
<1>2. CASE Announce \/ NewDevices \/ AddBegin \/ DescribedAll \/ DetailsLoaded
  BY <1>2 DEF Announce, NewDevices, AddBegin, DescribedAll, DetailsLoaded
<1>3. dMem \in Contents /\ pMem \in Paramsets
  BY DEF DC!TypeOK, PC!TypeOK
<1>4. CASE DeleteDevices
  <2> DEFINE gone == Removable(Head(inbox).of)
  <2>1. Without(dMem, gone) \in Contents
    BY <1>3, WithoutIs
  <2>2. [pMem EXCEPT !.of = @ \ gone, !.typed = @ \ gone] \in Paramsets
    BY <1>3 DEF Paramsets
  <2> QED
    BY <1>4, <2>1, <2>2 DEF DeleteDevices
<1>5. ASSUME NEW d \in Devices, AddDescription(d) PROVE OrdinarySteps
  <2>1. With(dMem, d) \in Contents
    BY <1>3, WithIs
  <2> QED
    BY <1>5, <2>1 DEF AddDescription
<1>6. CASE Fetched \/ FetchFailed
  <2>1. [key |-> TRUE, of |-> pMem.of \cup cur["add"],
         typed |-> pMem.typed \cup (cur["add"] \ pMem.of)] \in Paramsets
    BY <1>3 DEF Paramsets
  <2> QED
    BY <1>6, <2>1 DEF Fetched, FetchFailed, FetchEnds
<1>7. ASSUME NEW p \in {"add", "boot"}, SaveDescriptions(p) \/ SavingDescriptions(p)
      PROVE  OrdinarySteps
  BY <1>7 DEF SaveDescriptions, SavingDescriptions
<1>8. ASSUME NEW p \in {"add", "boot"}, SaveParamsets(p) \/ SavingParamsets(p)
      PROVE  OrdinarySteps
  BY <1>8 DEF SaveParamsets, SavingParamsets
<1>9. ASSUME NEW p \in {"add", "boot"}, Check(p) \/ CreateEnd(p) \/ Created(p)
      PROVE  OrdinarySteps
  BY <1>9 DEF Check, CreateEnd, Created
<1>10. ASSUME NEW p \in {"add", "boot"}, NEW d \in Devices, CreateBegin(p, d)
      PROVE  OrdinarySteps
  BY <1>10 DEF CreateBegin
<1>11. CASE Start \/ InitClient \/ Restart \/ ClientCreated \/ Stop \/ StopClients \/ ClearCaches
  BY <1>11 DEF Start, InitClient, Restart, ClientsStopped, ClientCreated, Stop, StopClients, ClearCaches
<1>12. CASE LoadDescriptions
  BY <1>12 DEF LoadDescriptions, AfterLoad
<1>13. CASE LoadParamsets
  BY <1>13 DEF LoadParamsets, AfterLoad
<1>15. CASE Stopped \/ Crash
  BY <1>15 DEF Stopped, Crash
<1>16. CASE UNCHANGED vars
  BY <1>16 DEF vars
<1> QED
  BY <1>1, <1>2, <1>4, <1>5, <1>6, <1>7, <1>8, <1>9, <1>10, <1>11, <1>12, <1>13,
     <1>15, <1>16 DEF Next, Backend, Add, Boot, Shared

LEMMA CacheStepsAre ==
    ASSUME DC!TypeOK, PC!TypeOK, cur \in [Procs -> SUBSET Devices], [Next]_vars
    PROVE  StepD /\ StepP
<1>1. DC!Ordinary => StepD
  BY DEF DC!Ordinary, StepD, DC!Next
<1>2. PC!Ordinary => StepP
  BY DEF PC!Ordinary, StepP, PC!Next
<1>3. D!Clear \/ D!Crash => DC!Next
  BY DEF D!Clear, D!Crash, DC!Clear, DC!Crash, DC!Next, D!Absent, DC!Absent
<1>4. P!Clear \/ P!Crash => PC!Next
  BY DEF P!Clear, P!Crash, PC!Clear, PC!Crash, PC!Next, P!Absent, PC!Absent
<1>5. ASSUME NEW p \in {"boot", "user"}, Wipe(p) PROVE StepD /\ StepP
  BY <1>1, <1>2, <1>3, <1>4, <1>5, OperationsD, OperationsP DEF Wipe, StepD, StepP
<1>6. CASE Reset
  BY <1>3, <1>4, <1>6 DEF Reset, StepD, StepP
<1> QED
  BY <1>1, <1>2, <1>5, <1>6, CacheSteps DEF OrdinarySteps

---------------------------------------------------------------------------
(* Types.                                                                  *)

Types ==
  /\ devices \subseteq Devices
  /\ objects \in [Devices -> Int]
  /\ at \in [Procs -> Stages] /\ cur \in [Procs -> SUBSET Devices]

Calls == [kind : {"new", "delete"}, of : SUBSET Devices]

Sets ==
  /\ paired \subseteq Devices /\ known \subseteq Devices /\ before \subseteq Devices
  /\ todo \in [Procs -> SUBSET Devices]
  /\ inbox \in Seq(Calls) /\ queue \in Seq(SUBSET Devices)

Flags ==
  /\ registered \in BOOLEAN /\ announce \in BOOLEAN
  /\ client \in BOOLEAN /\ served \in BOOLEAN /\ fetched \in BOOLEAN
  /\ pairs \in 0..MaxPairs /\ left \in 0..MaxTroubles
  /\ troubles \subseteq Troubles \cup {"fault"}

Typed == DC!TypeOK /\ PC!TypeOK /\ Types /\ Sets /\ Flags

LEMMA AtReset ==
  Reset =>
    /\ at' = [p \in Procs |-> IF p = "boot" THEN "off" ELSE "idle"]
    /\ cur' = [p \in Procs |-> {}]
    /\ devices' = {}
    /\ objects' = [d \in Devices |-> 0]
    /\ inbox' = <<>> /\ queue' = <<>>
<1>1. /\ NewProcess.at = [p \in Procs |-> IF p = "boot" THEN "off" ELSE "idle"]
      /\ NewProcess.cur = [p \in Procs |-> {}]
      /\ NewProcess.devices = {}
      /\ NewProcess.objects = [d \in Devices |-> 0]
      /\ NewProcess.inbox = <<>> /\ NewProcess.queue = <<>>
  BY DEF NewProcess
<1>2. QED
  BY <1>1 DEF Reset

LEMMA TypesKept == Types /\ [Next]_vars => Types'
<1> SUFFICES ASSUME Types, [Next]_vars PROVE Types'
  OBVIOUS
<1> USE ProcsAre DEF Types, Stages, centralVars, loopVars, Goto
<1>1. ASSUME NEW d \in Devices, Pair(d) \/ Unpair(d) PROVE Types'
  BY <1>1 DEF Pair, Unpair
<1>2. CASE Announce \/ NewDevices \/ AddBegin \/ DescribedAll \/ DetailsLoaded
  BY <1>2 DEF Announce, NewDevices, AddBegin, DescribedAll, DetailsLoaded
<1>3. CASE DeleteDevices
  BY <1>3 DEF DeleteDevices, Unsubscribed
<1>4. ASSUME NEW d \in Devices, AddDescription(d) PROVE Types'
  BY <1>4 DEF AddDescription
<1>5. CASE Fetched \/ FetchFailed
  BY <1>5 DEF Fetched, FetchFailed, FetchEnds
<1>6. ASSUME NEW p \in {"add", "boot"}, Shared(p) PROVE Types'
  <2>1. p \in Procs
    BY ProcsAre
  <2>2. CASE SaveDescriptions(p) \/ SavingDescriptions(p)
    BY <2>1, <2>2 DEF SaveDescriptions, SavingDescriptions
  <2>3. CASE SaveParamsets(p) \/ SavingParamsets(p)
    BY <2>1, <2>3 DEF SaveParamsets, SavingParamsets, AfterSave
  <2>4. CASE Check(p) \/ Created(p)
    BY <2>1, <2>4 DEF Check, Created, AfterCreate, CreateStage
  <2>5. CASE CreateEnd(p)
    BY <2>1, <2>5 DEF CreateEnd
  <2>6. ASSUME NEW d \in Devices, CreateBegin(p, d) PROVE Types'
    BY <2>1, <2>6 DEF CreateBegin
  <2>7. QED
    BY <1>6, <2>2, <2>3, <2>4, <2>5, <2>6 DEF Shared
<1>7. CASE LoadDescriptions \/ LoadParamsets
  BY <1>7 DEF LoadDescriptions, AfterLoad, LoadParamsets
<1>8. CASE Start \/ InitClient \/ Restart \/ ClientCreated \/ Stop \/ StopClients \/ ClearCaches
  BY <1>8 DEF Start, InitClient, Restart, ClientsStopped, ClientCreated, Stop, StopClients, ClearCaches
<1>9. CASE Stopped \/ Crash
  BY <1>9, AtReset DEF Stopped, Crash
<1>10. ASSUME NEW p \in {"boot", "user"}, Wipe(p) PROVE Types'
  <2>1. p \in Procs
    BY ProcsAre
  <2>2. QED
    BY <2>1, <1>10 DEF Wipe
<1>11. CASE UNCHANGED vars
  BY <1>11 DEF vars
<1>12. QED
  BY <1>1, <1>2, <1>3, <1>4, <1>5, <1>6, <1>7, <1>8, <1>9, <1>10, <1>11
     DEF Next, Backend, Add, Boot

LEMMA TroubleCounts ==
    ASSUME Flags, NEW t, Trouble(t)
    PROVE  pairs' = pairs /\ left' \in 0..MaxTroubles
           /\ troubles' \subseteq Troubles \cup {"fault"}
BY BoundsAssumption DEF Flags, Trouble

LEMMA FlagsKept == Flags /\ [Next]_vars => Flags'
<1> SUFFICES ASSUME Flags, [Next]_vars PROVE Flags'
  OBVIOUS
<1> USE TroubleCounts DEF Flags, backendVars, centralVars, addVars, countVars
<1>1. ASSUME NEW d \in Devices, Pair(d) \/ Unpair(d) PROVE Flags'
  <2>1. CASE Pair(d)
    <3>1. pairs' \in 0..MaxPairs
      BY <2>1, BoundsAssumption DEF Pair
    <3> QED
      BY <2>1, <3>1 DEF Pair
  <2>2. CASE Unpair(d)
    BY <2>2 DEF Unpair
  <2> QED
    BY <1>1, <2>1, <2>2
<1>2. CASE Announce \/ NewDevices \/ AddBegin \/ DescribedAll \/ DetailsLoaded \/ DeleteDevices
  BY <1>2 DEF Announce, NewDevices, AddBegin, DescribedAll, DetailsLoaded, DeleteDevices
<1>3. ASSUME NEW d \in Devices, AddDescription(d) PROVE Flags'
  BY <1>3 DEF AddDescription
<1>4. CASE Fetched \/ FetchFailed
  BY <1>4 DEF Fetched, FetchFailed, FetchEnds
<1>5. ASSUME NEW p \in {"add", "boot"}, Shared(p) PROVE Flags'
  BY <1>5 DEF Shared, SaveDescriptions, SavingDescriptions, SaveParamsets, SavingParamsets,
              Check, CreateEnd, Created, CreateBegin
<1>6. CASE Start \/ LoadDescriptions \/ LoadParamsets \/ InitClient \/ Restart \/ ClientCreated
  BY <1>6 DEF Start, LoadDescriptions, AfterLoad, LoadParamsets, InitClient, Restart, ClientsStopped, ClientCreated
<1>7. CASE Stop \/ StopClients \/ ClearCaches
  BY <1>7 DEF Stop, StopClients, ClientsStopped, ClearCaches
<1>8. CASE Stopped \/ Crash
  BY <1>8 DEF Stopped, Crash, Reset, NewProcess
<1>9. ASSUME NEW p \in {"boot", "user"}, Wipe(p) PROVE Flags'
  BY <1>9 DEF Wipe
<1>10. CASE UNCHANGED vars
  BY <1>10 DEF vars
<1> QED
  BY <1>1, <1>2, <1>3, <1>4, <1>5, <1>6, <1>7, <1>8, <1>9, <1>10 DEF Next, Backend, Add, Boot

\* The calls of the backend are added to the inbox, or lost.
LEMMA CallTyped ==
    ASSUME inbox \in Seq(Calls), NEW calls \in Seq(Calls), Call(calls)
    PROVE  inbox' \in Seq(Calls)
BY DEF Call

LEMMA CallsAre ==
    ASSUME NEW ds \in SUBSET Devices
    PROVE  /\ New(ds) \in Calls /\ Delete(ds) \in Calls
           /\ <<New(ds)>> \in Seq(Calls) /\ <<Delete(ds)>> \in Seq(Calls)
<1>1. New(ds) \in Calls /\ Delete(ds) \in Calls
  BY DEF New, Delete, Calls
<1> HIDE DEF New, Delete, Calls
<1> QED
  BY <1>1

LEMMA ContentsAre ==
    ASSUME NEW content \in Contents
    PROVE  Described(content) \subseteq Devices
<1>1. content.of \in Seq(Devices)
  BY DEF Contents, Lists
<1> QED
  BY <1>1 DEF Described, ToSet

LEMMA SetsKept == DC!TypeOK /\ DC!TypeOK' /\ Types /\ Sets /\ [Next]_vars => Sets'
<1> SUFFICES ASSUME DC!TypeOK, DC!TypeOK', Types, Sets, [Next]_vars PROVE Sets'
  OBVIOUS
<1> USE ProcsAre DEF Sets, Types, backendVars, taskVars, loopVars, addVars, cacheVars, Goto
<1>1. ASSUME NEW d \in Devices, Pair(d) \/ Unpair(d) PROVE Sets'
  <2>1. inbox' \in Seq(Calls)
    BY <1>1, CallTyped, CallsAre DEF Pair, Unpair
  <2> QED
    BY <1>1, <2>1 DEF Pair, Unpair
<1>2. CASE Announce
  <2>1. PICK calls \in Seq(Calls) : Call(calls)
    <3> DEFINE missing == IF paired \subseteq Listed THEN <<>> ELSE <<New(paired \ Listed)>>
               surplus == IF Listed \subseteq paired THEN <<>> ELSE <<Delete(Listed \ paired)>>
    <3>1. Listed \subseteq Devices
      BY ContentsAre DEF Listed, DC!TypeOK
    <3>2. missing \in Seq(Calls) /\ surplus \in Seq(Calls)
      BY <3>1, CallsAre
    <3>3. Call(missing \o surplus)
      BY <1>2 DEF Announce
    <3> HIDE DEF missing, surplus
    <3>4. missing \o surplus \in Seq(Calls)
      BY <3>2
    <3> QED
      BY <3>3, <3>4
  <2>2. inbox' \in Seq(Calls)
    BY <2>1, CallTyped
  <2> QED
    BY <1>2, <2>2 DEF Announce
<1>3. CASE NewDevices \/ DeleteDevices
  <2>1. inbox # <<>> /\ inbox' = Tail(inbox) /\ Head(inbox) \in Calls
    BY <1>3 DEF NewDevices, DeleteDevices
  <2>2. Head(inbox).of \in SUBSET Devices
    BY <2>1 DEF Calls
  <2> HIDE DEF Calls
  <2>3. inbox' \in Seq(Calls)
    BY <2>1
  <2>4. Append(queue, Head(inbox).of) \in Seq(SUBSET Devices)
    BY <2>2
  <2>5. queue' \in Seq(SUBSET Devices)
    BY <1>3, <2>4 DEF NewDevices, DeleteDevices
  <2> QED
    BY <1>3, <2>3, <2>5 DEF NewDevices, DeleteDevices
<1>4. CASE AddBegin
  <2>1. Head(queue) \in SUBSET Devices /\ queue' \in Seq(SUBSET Devices)
    BY <1>4 DEF AddBegin
  <2>2. Described(dMem) \subseteq Devices
    BY ContentsAre DEF DC!TypeOK
  <2>3. \/ todo' = todo /\ before' = before
        \/ todo' = [todo EXCEPT !["add"] = Head(queue)] /\ before' = Described(dMem)
    BY <1>4 DEF AddBegin
  <2>4. todo' \in [Procs -> SUBSET Devices] /\ before' \subseteq Devices
    BY <2>1, <2>2, <2>3
  <2> QED
    BY <1>4, <2>1, <2>4 DEF AddBegin
<1>5. CASE DescribedAll \/ DetailsLoaded \/ Fetched \/ FetchFailed
  BY <1>5 DEF DescribedAll, DetailsLoaded, Fetched, FetchFailed, FetchEnds
<1>6. ASSUME NEW d \in Devices, AddDescription(d) PROVE Sets'
  BY <1>6 DEF AddDescription
<1>7. ASSUME NEW p \in {"add", "boot"}, Shared(p) PROVE Sets'
  <2>1. p \in Procs
    BY ProcsAre
  <2>2. CASE \/ SaveDescriptions(p) \/ SavingDescriptions(p)
             \/ SaveParamsets(p) \/ SavingParamsets(p)
    BY <2>2 DEF SaveDescriptions, SavingDescriptions, SaveParamsets, SavingParamsets
  <2>3. CASE Check(p) \/ Created(p) \/ CreateEnd(p)
    BY <2>1, <2>3 DEF Check, Created, CreateEnd, NewAddresses
  <2>4. ASSUME NEW d \in Devices, CreateBegin(p, d) PROVE Sets'
    BY <2>1, <2>4 DEF CreateBegin
  <2> QED
    BY <1>7, <2>2, <2>3, <2>4 DEF Shared
<1>8. CASE LoadDescriptions
  <2>1. known' \subseteq Devices
    <3>1. Described(dMem) \subseteq Devices /\ Described(dMem') \subseteq Devices
      BY ContentsAre DEF DC!TypeOK
    <3> QED
      BY <1>8, <3>1 DEF LoadDescriptions, AfterLoad, Indexed
  <2> QED
    BY <1>8, <2>1 DEF LoadDescriptions, AfterLoad
<1>9. CASE Start \/ InitClient \/ Restart \/ ClientCreated \/ Stop \/ StopClients \/ ClearCaches
           \/ LoadParamsets
  BY <1>9 DEF Start, InitClient, Restart, ClientsStopped, ClientCreated, Stop, StopClients, ClearCaches,
              LoadParamsets, AfterLoad
<1>10. CASE Stopped \/ Crash
  <2>1. /\ known' = {} /\ before' = {} /\ inbox' = <<>> /\ queue' = <<>>
        /\ todo' = [p \in Procs |-> {}] /\ paired' = paired
    BY <1>10 DEF Stopped, Crash, Reset, NewProcess
  <2> QED
    BY <2>1
<1>11. ASSUME NEW p \in {"boot", "user"}, Wipe(p) PROVE Sets'
  BY <1>11 DEF Wipe
<1>12. CASE UNCHANGED vars
  BY <1>12 DEF vars
<1> QED
  BY <1>1, <1>2, <1>3, <1>4, <1>5, <1>6, <1>7, <1>8, <1>9, <1>10, <1>11, <1>12
     DEF Next, Backend, Add, Boot

LEMMA TypedKept == Typed /\ [Next]_vars => Typed' /\ StepD /\ StepP
<1> SUFFICES ASSUME Typed, [Next]_vars PROVE Typed' /\ StepD /\ StepP
  OBVIOUS
<1>1. StepD /\ StepP
  BY CacheStepsAre DEF Typed, Types
<1>2. DC!TypeOK' /\ PC!TypeOK'
  BY <1>1, EmptyContents, StoredAre, DC!TypeStep, PC!TypeStep DEF Typed, StepD, StepP
<1> QED
  BY <1>1, <1>2, TypesKept, SetsKept, FlagsKept DEF Typed

LEMMA TypedInit == Init => Typed
<1> SUFFICES ASSUME Init PROVE Typed
  OBVIOUS
<1>1. DC!Init /\ PC!Init
  BY DEF Init, D!Init, P!Init, DC!Init, PC!Init, D!Fresh, P!Fresh, DC!Fresh, PC!Fresh,
         D!Absent, P!Absent, DC!Absent, PC!Absent
<1>2. DC!TypeOK /\ PC!TypeOK
  BY <1>1, EmptyContents, DC!TypeInit, PC!TypeInit
<1>3. /\ known = {} /\ client = FALSE /\ devices = {} /\ objects = [d \in Devices |-> 0]
      /\ inbox = <<>> /\ queue = <<>> /\ todo = [p \in Procs |-> {}]
      /\ cur = [p \in Procs |-> {}]
      /\ at = [p \in Procs |-> IF p = "boot" THEN "off" ELSE "idle"]
  BY DEF Init, NewProcess
<1>4. Types /\ Sets
  BY <1>3 DEF Init, Types, Sets, Stages
<1>5. Flags
  <2>1. 0 \in 0..MaxPairs /\ MaxTroubles \in 0..MaxTroubles
    BY BoundsAssumption
  <2> QED
    BY <1>3, <2>1 DEF Init, Flags
<1> QED
  BY <1>2, <1>4, <1>5 DEF Typed

LEMMA AlwaysTyped == Spec => []Typed
<1>1. Typed /\ [Next]_vars => Typed'
  BY TypedKept
<1> QED
  BY <1>1, TypedInit, PTL DEF Spec

---------------------------------------------------------------------------
(* What a step does to the devices and their objects. *)

\* The device whose object awaits load_value_cache in coroutine p.
Made(p) == IF at[p] = "values" THEN cur[p] ELSE {}
Making == Made("add") \cup Made("boot")

Other(p) == IF p = "add" THEN "boot" ELSE "add"

ObjectsStay == devices' = devices /\ objects' = objects
MakingStays == \A p \in {"add", "boot"} : Made(p)' = Made(p)

Removes ==
  /\ \E gone \in SUBSET devices : devices' = devices \ gone /\ objects' = Unsubscribed(gone)
  /\ MakingStays

Begins(p, d) ==
  /\ at[p] = "create" /\ d \notin devices /\ d \in known
  /\ devices' = devices /\ objects' = [objects EXCEPT ![d] = @ + 1]
  /\ Made(p)' = {d} /\ Made(Other(p))' = Made(Other(p))

Ends(p) ==
  /\ at[p] = "values"
  /\ devices' = devices \cup Made(p) /\ objects' = objects
  /\ Made(p)' = {} /\ Made(Other(p))' = Made(Other(p))

Forgets ==
  /\ devices' = {} /\ objects' = [d \in Devices |-> 0]
  /\ \A p \in {"add", "boot"} : Made(p)' = {}

LEMMA ObjectSteps ==
    ASSUME Types, [Next]_vars
    PROVE  \/ ObjectsStay /\ MakingStays
           \/ DeleteDevices /\ Removes
           \/ \E p \in {"add", "boot"}, d \in Devices : Begins(p, d) /\ UNCHANGED cacheVars
           \/ \E p \in {"add", "boot"} : Ends(p) /\ UNCHANGED cacheVars
           \/ Forgets /\ Reset
<1> USE ProcsAre DEF Types, centralVars, loopVars, Goto, ObjectsStay, MakingStays, Made
<1>1. ASSUME NEW d \in Devices, Pair(d) \/ Unpair(d) PROVE ObjectsStay /\ MakingStays
  BY <1>1 DEF Pair, Unpair
<1>2. CASE Announce \/ NewDevices \/ AddBegin \/ DescribedAll \/ DetailsLoaded
  BY <1>2 DEF Announce, NewDevices, AddBegin, DescribedAll, DetailsLoaded
<1>3. CASE DeleteDevices
  <2> DEFINE gone == Removable(Head(inbox).of)
  <2>1. CASE gone = {}
    BY <1>3, <2>1 DEF DeleteDevices
  <2>2. CASE gone # {}
    <3>1. devices' = devices \ gone /\ gone \in SUBSET devices /\ MakingStays
          /\ objects' = Unsubscribed(gone)
      BY <1>3, <2>2 DEF DeleteDevices, Removable
    <3> QED
      BY <1>3, <3>1 DEF Removes
  <2> QED
    BY <2>1, <2>2
<1>4. ASSUME NEW d \in Devices, AddDescription(d) PROVE ObjectsStay /\ MakingStays
  BY <1>4 DEF AddDescription
<1>5. CASE Fetched \/ FetchFailed
  BY <1>5 DEF Fetched, FetchFailed, FetchEnds
<1>6. ASSUME NEW p \in {"add", "boot"}, SaveDescriptions(p) \/ SavingDescriptions(p)
      PROVE  ObjectsStay /\ MakingStays
  BY <1>6 DEF SaveDescriptions, SavingDescriptions
<1>7. ASSUME NEW p \in {"add", "boot"}, SaveParamsets(p) \/ SavingParamsets(p)
      PROVE  ObjectsStay /\ MakingStays
  BY <1>7 DEF SaveParamsets, SavingParamsets, AfterSave
<1>8. ASSUME NEW p \in {"add", "boot"}, Check(p) \/ Created(p)
      PROVE  ObjectsStay /\ MakingStays
  BY <1>8 DEF Check, Created, AfterCreate, CreateStage
<1>9. ASSUME NEW p \in {"add", "boot"}, CreateEnd(p) PROVE Ends(p) /\ UNCHANGED cacheVars
  BY <1>9 DEF CreateEnd, Ends, Other
<1>10. ASSUME NEW p \in {"add", "boot"}, NEW d \in Devices, CreateBegin(p, d)
       PROVE  (ObjectsStay /\ MakingStays) \/ (Begins(p, d) /\ UNCHANGED cacheVars)
  <2>1. CASE UNCHANGED <<at, cur, objects>>
    BY <1>10, <2>1 DEF CreateBegin
  <2>2. CASE ~UNCHANGED <<at, cur, objects>>
    BY <1>10, <2>2 DEF CreateBegin, Begins, Other
  <2> QED
    BY <2>1, <2>2
<1>11. CASE LoadDescriptions \/ LoadParamsets
  BY <1>11 DEF LoadDescriptions, AfterLoad, LoadParamsets
<1>12. CASE Start \/ InitClient \/ Restart \/ ClientCreated \/ Stop \/ StopClients \/ ClearCaches
  BY <1>12 DEF Start, InitClient, Restart, ClientsStopped, ClientCreated, Stop, StopClients, ClearCaches
<1>13. CASE Stopped \/ Crash
  <2>1. Forgets
    BY <1>13, AtReset DEF Stopped, Crash, Forgets
  <2> QED
    BY <1>13, <2>1 DEF Stopped, Crash
<1>14. ASSUME NEW p \in {"boot", "user"}, Wipe(p) PROVE ObjectsStay /\ MakingStays
  <2>1. p \in Procs
    BY ProcsAre
  <2> QED
    BY <2>1, <1>14 DEF Wipe
<1>15. CASE UNCHANGED vars
  BY <1>15 DEF vars
<1> QED
  BY <1>1, <1>2, <1>3, <1>4, <1>5, <1>6, <1>7, <1>8, <1>9, <1>10, <1>11, <1>12, <1>13,
     <1>14, <1>15 DEF Next, Backend, Add, Boot, Shared

\* Every device of _devices and every one being created has an object of its
\* own, so that removing devices never counts below nothing.
Counts(d, ds) == IF d \in ds THEN 1 ELSE 0
Owed == \A d \in Devices :
          objects[d] >= Counts(d, devices) + Counts(d, Made("add")) + Counts(d, Made("boot"))

LEMMA OwedKept == Types /\ Owed /\ [Next]_vars => Owed'
<1> SUFFICES ASSUME Types, Owed, [Next]_vars, NEW d \in Devices
             PROVE  objects'[d] >= Counts(d, devices') + Counts(d, Made("add")') + Counts(d, Made("boot")')
  BY DEF Owed, Counts
<1> DEFINE a == Made("add")
           b == Made("boot")
<1>1. /\ objects \in [Devices -> Int]
      /\ objects[d] \in Int
      /\ objects[d] >= Counts(d, devices) + Counts(d, a) + Counts(d, b)
  BY DEF Types, Owed
<1> HIDE DEF a, b
<1> USE DEF Counts
<1>2. CASE ObjectsStay /\ MakingStays
  BY <1>1, <1>2 DEF ObjectsStay, MakingStays, a, b
<1>3. CASE Removes
  <2>1. PICK gone \in SUBSET devices : devices' = devices \ gone /\ objects' = Unsubscribed(gone)
    BY <1>3 DEF Removes
  <2>2. objects'[d] = IF d \in gone THEN objects[d] - 1 ELSE objects[d]
    BY <2>1 DEF Unsubscribed
  <2>3. Made("add")' = a /\ Made("boot")' = b
    BY <1>3 DEF Removes, MakingStays, a, b
  <2> QED
    BY <1>1, <2>1, <2>2, <2>3
<1>4. ASSUME NEW p \in {"add", "boot"}, NEW e \in Devices, Begins(p, e)
      PROVE  objects'[d] >= Counts(d, devices') + Counts(d, Made("add")') + Counts(d, Made("boot")')
  <2>1. objects'[d] = (IF d = e THEN objects[d] + 1 ELSE objects[d]) /\ devices' = devices
    BY <1>1, <1>4 DEF Begins
  <2>2. CASE p = "add"
    <3>1. a = {} /\ Made("add")' = {e} /\ Made("boot")' = b
      BY <1>4, <2>2 DEF Begins, Other, Made, a, b
    <3> QED
      BY <1>1, <2>1, <3>1
  <2>3. CASE p = "boot"
    <3>1. b = {} /\ Made("boot")' = {e} /\ Made("add")' = a
      BY <1>4, <2>3 DEF Begins, Other, Made, a, b
    <3> QED
      BY <1>1, <2>1, <3>1
  <2> QED
    BY <2>2, <2>3
<1>5. ASSUME NEW p \in {"add", "boot"}, Ends(p)
      PROVE  objects'[d] >= Counts(d, devices') + Counts(d, Made("add")') + Counts(d, Made("boot")')
  <2>1. CASE p = "add"
    <3>1. devices' = devices \cup a /\ objects' = objects /\ Made("add")' = {} /\ Made("boot")' = b
      BY <1>5, <2>1 DEF Ends, Other, a, b
    <3> QED
      BY <1>1, <3>1
  <2>2. CASE p = "boot"
    <3>1. devices' = devices \cup b /\ objects' = objects /\ Made("boot")' = {} /\ Made("add")' = a
      BY <1>5, <2>2 DEF Ends, Other, a, b
    <3> QED
      BY <1>1, <3>1
  <2> QED
    BY <2>1, <2>2
<1>6. CASE Forgets
  <2>1. objects'[d] = 0 /\ devices' = {} /\ Made("add")' = {} /\ Made("boot")' = {}
    BY <1>6 DEF Forgets
  <2> QED
    BY <2>1
<1> QED
  BY <1>2, <1>3, <1>4, <1>5, <1>6, ObjectSteps

LEMMA OwedInit == Init => Owed
<1> SUFFICES ASSUME Init, NEW d \in Devices
             PROVE  objects[d] >= Counts(d, devices) + Counts(d, Made("add")) + Counts(d, Made("boot"))
  BY DEF Owed
<1>1. objects[d] = 0 /\ devices = {} /\ Made("add") = {} /\ Made("boot") = {}
  BY ProcsAre DEF Init, NewProcess, Made
<1> QED
  BY <1>1 DEF Counts

LEMMA AlwaysOwed == Spec => []Owed
<1>1. Typed /\ Owed /\ [Next]_vars => Owed'
  BY OwedKept DEF Typed
<1> QED
  BY <1>1, OwedInit, AlwaysTyped, PTL DEF Spec

\* The variables keep their types, for any devices, pairings and troubles: the
\* cached list of descriptions names no address twice and is never longer than
\* there are devices, and no device has less than no object.
THEOREM TypeCorrect == Spec => []TypeOK
<1>1. Typed /\ Owed => TypeOK
  <2> SUFFICES ASSUME Typed, Owed PROVE TypeOK
    OBVIOUS
  <2>1. Contents \subseteq Descriptions
    <3> SUFFICES ASSUME NEW c \in Contents PROVE c \in Descriptions
      OBVIOUS
    <3>1. c.of \in UNION {[1..n -> Devices] : n \in 0..Cardinality(Devices)}
      BY ListLength DEF Contents
    <3>2. \A list \in UNION {[1..n -> Devices] : n \in 0..Cardinality(Devices)}, k \in BOOLEAN :
            [key |-> k, of |-> list] \in Descriptions
      BY DEF Descriptions
    <3>3. c.key \in BOOLEAN /\ c = [key |-> c.key, of |-> c.of]
      BY DEF Contents
    <3> QED
      BY <3>1, <3>2, <3>3
  <2>2. D!TypeOK
    BY <2>1 DEF Typed, DC!TypeOK, D!TypeOK, DC!Stages, D!Stages, DC!Absent, D!Absent,
                DC!Cut, D!Cut, DC!Whole, D!Whole
  <2>3. P!TypeOK
    BY DEF Typed, PC!TypeOK, P!TypeOK, PC!Stages, P!Stages, PC!Absent, P!Absent,
           PC!Cut, P!Cut, PC!Whole, P!Whole
  <2>4. objects \in [Devices -> Nat]
    <3>1. \A d \in Devices : objects[d] \in Int /\ objects[d] >= 0
      BY DEF Typed, Types, Owed, Counts
    <3>2. \A d \in Devices : objects[d] \in Nat
      BY <3>1
    <3> QED
      BY <3>2 DEF Typed, Types
  <2>5. \A i \in DOMAIN inbox : inbox[i] \in [kind : {"new", "delete"}, of : SUBSET Devices]
    <3>1. \A i \in DOMAIN inbox : inbox[i] \in Calls
      BY DEF Typed, Sets
    <3> QED
      BY <3>1 DEF Calls
  <2>6. \A i \in DOMAIN queue : queue[i] \subseteq Devices
    BY DEF Typed, Sets
  <2>7. {registered, announce, client, served, fetched} \subseteq BOOLEAN
    BY DEF Typed, Flags
  <2> QED
    BY <2>2, <2>3, <2>4, <2>5, <2>6, <2>7 DEF TypeOK, Typed, Types, Sets, Flags
<1> QED
  BY <1>1, AlwaysTyped, AlwaysOwed, PTL

\* The registry uses each of its two caches as PersistentCache says: whatever
\* its coroutines do, what they do to one dictionary and its file is one
\* operation of the cache at a time, or nothing.
THEOREM CachesImplemented == Spec => DC!Spec /\ PC!Spec
<1>1. Init => DC!Init /\ PC!Init
  BY DEF Init, D!Init, P!Init, DC!Init, PC!Init, D!Fresh, P!Fresh, DC!Fresh, PC!Fresh,
         D!Absent, P!Absent, DC!Absent, PC!Absent
<1>2. Typed /\ [Next]_vars => [DC!Next]_(DC!vars) /\ [PC!Next]_(PC!vars)
  BY TypedKept DEF StepD, StepP
<1> QED
  BY <1>1, <1>2, AlwaysTyped, PTL DEF Spec, DC!Spec, PC!Spec

---------------------------------------------------------------------------
(* One object per device. *)

\* Trouble is counted for good.
LEMMA TroublesGrow ==
    ASSUME [Next]_vars
    PROVE  /\ troubles \subseteq troubles'
           /\ \A ts : Spared(ts)' => Spared(ts)
           /\ Crash => ~Spared({"crash"})'
           /\ Restart => ~Spared({"restart"})'
           /\ ClearCaches => ~Spared({"clear"})'
           /\ FetchFailed => ~Spared({"fault"})'
           /\ \A d \in Devices : Unpair(d) => ~Spared({"unpair"})'
<1> USE DEF Spared, countVars
<1>1. troubles \subseteq troubles'
  <2>1. ASSUME NEW d \in Devices, Pair(d) \/ Unpair(d) PROVE troubles \subseteq troubles'
    BY <2>1 DEF Pair, Unpair, Trouble
  <2>2. CASE Announce \/ NewDevices \/ AddBegin \/ DescribedAll \/ DetailsLoaded \/ DeleteDevices
    BY <2>2 DEF Announce, NewDevices, AddBegin, DescribedAll, DetailsLoaded, DeleteDevices
  <2>3. ASSUME NEW d \in Devices, AddDescription(d) PROVE troubles \subseteq troubles'
    BY <2>3 DEF AddDescription
  <2>4. CASE Fetched \/ FetchFailed
    BY <2>4 DEF Fetched, FetchFailed, Trouble
  <2>5. ASSUME NEW p \in {"add", "boot"}, Shared(p) PROVE troubles \subseteq troubles'
    BY <2>5 DEF Shared, SaveDescriptions, SavingDescriptions, SaveParamsets, SavingParamsets,
                Check, CreateEnd, Created, CreateBegin
  <2>6. CASE Boot
    BY <2>6 DEF Boot, Start, LoadDescriptions, AfterLoad, LoadParamsets, InitClient, Restart, ClientsStopped,
                ClientCreated, Stop, StopClients, Stopped, Trouble
  <2>7. CASE Crash \/ ClearCaches
    BY <2>7 DEF Crash, ClearCaches, Trouble
  <2>8. ASSUME NEW p \in {"boot", "user"}, Wipe(p) PROVE troubles \subseteq troubles'
    BY <2>8 DEF Wipe
  <2>9. CASE UNCHANGED vars
    BY <2>9 DEF vars
  <2> QED
    BY <2>1, <2>2, <2>3, <2>4, <2>5, <2>6, <2>7, <2>8, <2>9 DEF Next, Backend, Add
<1>2. \A ts : Spared(ts)' => Spared(ts)
  BY <1>1
<1>3. /\ Crash => ~Spared({"crash"})'
      /\ Restart => ~Spared({"restart"})'
      /\ ClearCaches => ~Spared({"clear"})'
      /\ FetchFailed => ~Spared({"fault"})'
      /\ \A d \in Devices : Unpair(d) => ~Spared({"unpair"})'
  BY DEF Crash, Restart, ClientsStopped, ClearCaches, FetchFailed, Unpair, Trouble
<1> QED
  BY <1>1, <1>2, <1>3

Calm == Spared({"crash", "restart"})

\* Where "boot" is before the backend knows of this central.
Starting == {"off", "dLoad", "dLoading", "dWipe", "pWipe", "pLoad", "pLoading",
             "check", "create", "values", "init"}

\* While the central starts, no call of the backend is on its way and no add
\* is running; the clients are created again only by a restart.
Alone ==
  /\ at["boot"] \in Starting =>
       ~registered /\ inbox = <<>> /\ queue = <<>> /\ at["add"] = "idle"
  /\ at["boot"] = "ending" => ~registered
  /\ at["boot"] # "client"

\* Every object is that of a device in _devices or of one being created.
Counted ==
  /\ devices \cap Making = {}
  /\ \A d \in Devices : objects[d] = IF d \in devices \cup Making THEN 1 ELSE 0

ObjectInv == Types /\ (Calm => Alone /\ Counted)

LEMMA AloneKept == Types /\ Alone /\ [Next]_vars /\ Calm' => Alone'
<1> SUFFICES ASSUME Types, Alone, [Next]_vars, Calm' PROVE Alone'
  OBVIOUS
<1> USE ProcsAre DEF Types, Alone, Starting, backendVars, taskVars, loopVars, Goto
<1>1. ASSUME NEW d \in Devices, Pair(d) \/ Unpair(d) PROVE Alone'
  BY <1>1 DEF Pair, Unpair, Call
<1>2. CASE Announce
  BY <1>2 DEF Announce, Call
<1>3. CASE NewDevices \/ AddBegin \/ DeleteDevices
  BY <1>3 DEF NewDevices, AddBegin, DeleteDevices
<1>4. CASE DescribedAll \/ DetailsLoaded \/ Fetched \/ FetchFailed
  BY <1>4 DEF DescribedAll, DetailsLoaded, Fetched, FetchFailed, FetchEnds
<1>5. ASSUME NEW d \in Devices, AddDescription(d) PROVE Alone'
  BY <1>5 DEF AddDescription
<1>6. ASSUME NEW p \in {"add", "boot"}, Shared(p) PROVE Alone'
  <2>1. p \in Procs
    BY ProcsAre
  <2>2. CASE SaveDescriptions(p) \/ SavingDescriptions(p)
    BY <2>1, <2>2 DEF SaveDescriptions, SavingDescriptions
  <2>3. CASE SaveParamsets(p) \/ SavingParamsets(p)
    BY <2>1, <2>3 DEF SaveParamsets, SavingParamsets, AfterSave
  <2>4. CASE Check(p) \/ Created(p)
    BY <2>1, <2>4 DEF Check, Created, AfterCreate, CreateStage
  <2>5. CASE CreateEnd(p)
    BY <2>1, <2>5 DEF CreateEnd
  <2>6. ASSUME NEW d \in Devices, CreateBegin(p, d) PROVE Alone'
    BY <2>1, <2>6 DEF CreateBegin
  <2>7. QED
    BY <1>6, <2>2, <2>3, <2>4, <2>5, <2>6 DEF Shared
<1>7. CASE LoadDescriptions
  BY <1>7 DEF LoadDescriptions, AfterLoad
<1>8. CASE LoadParamsets
  BY <1>8 DEF LoadParamsets, AfterLoad
<1>9. CASE Start \/ InitClient \/ ClientCreated \/ Stop \/ StopClients \/ ClearCaches
  BY <1>9 DEF Start, InitClient, ClientCreated, Stop, StopClients, ClientsStopped, ClearCaches
<1>10. CASE Restart \/ Crash
  BY <1>10 DEF Restart, ClientsStopped, Crash, Trouble, Calm, Spared
<1>11. CASE Stopped
  <2>1. at' = [p \in Procs |-> IF p = "boot" THEN "off" ELSE "idle"]
        /\ inbox' = <<>> /\ queue' = <<>> /\ ~registered' /\ "ending" = at["boot"]
    BY <1>11, AtReset DEF Stopped
  <2>2. QED
    BY <2>1
<1>12. ASSUME NEW p \in {"boot", "user"}, Wipe(p) PROVE Alone'
  <2>1. p \in Procs
    BY ProcsAre
  <2>2. QED
    BY <2>1, <1>12 DEF Wipe
<1>13. CASE UNCHANGED vars
  BY <1>13 DEF vars
<1>14. QED
  BY <1>1, <1>2, <1>3, <1>4, <1>5, <1>6, <1>7, <1>8, <1>9, <1>10, <1>11, <1>12, <1>13
     DEF Next, Backend, Add, Boot

LEMMA CountedKept == Types /\ Alone /\ Counted /\ [Next]_vars => Counted'
<1> SUFFICES ASSUME Types, Alone, Counted, [Next]_vars PROVE Counted'
  OBVIOUS
<1>0. objects \in [Devices -> Int] /\ devices \subseteq Devices
  BY DEF Types
<1>1. CASE ObjectsStay /\ MakingStays
  BY <1>1 DEF Counted, ObjectsStay, MakingStays, Making
<1>2. CASE Removes
  <2>1. PICK gone \in SUBSET devices : devices' = devices \ gone /\ objects' = Unsubscribed(gone)
    BY <1>2 DEF Removes
  <2>2. Making' = Making
    BY <1>2 DEF Removes, MakingStays, Making
  <2> QED
    BY <2>1, <2>2 DEF Counted, Unsubscribed
<1>3. ASSUME NEW p \in {"add", "boot"}, NEW d \in Devices, Begins(p, d) PROVE Counted'
  <2>1. Making = {} /\ Made(Other(p)) = {}
    BY <1>3 DEF Begins, Making, Made, Alone, Starting, Other
  <2>2. Making' = {d}
    BY <1>3, <2>1 DEF Begins, Making, Other
  <2> QED
    BY <1>0, <1>3, <2>1, <2>2 DEF Begins, Counted
<1>4. ASSUME NEW p \in {"add", "boot"}, Ends(p) PROVE Counted'
  <2>1. Making = Made(p) /\ Made(Other(p)) = {}
    BY <1>4 DEF Ends, Making, Made, Alone, Starting, Other
  <2>2. Making' = {}
    BY <1>4, <2>1 DEF Ends, Making, Other
  <2> QED
    BY <1>4, <2>1, <2>2 DEF Ends, Counted
<1>5. CASE Forgets
  <2>1. Making' = {}
    BY <1>5 DEF Forgets, Making
  <2> QED
    BY <1>5, <2>1 DEF Forgets, Counted
<1> QED
  BY <1>1, <1>2, <1>3, <1>4, <1>5, ObjectSteps

\* Without a crash or a restart of the clients, no device of any set of devices
\* is created twice, however often devices come and go, fetches fail, caches are
\* cleared and the process is stopped and started.
THEOREM NoSecondObject == Spec => []OneObjectPerDevice
<1>1. Init => ObjectInv
  <2> SUFFICES ASSUME Init PROVE ObjectInv
    OBVIOUS
  <2>1. /\ at = [p \in Procs |-> IF p = "boot" THEN "off" ELSE "idle"]
        /\ devices = {} /\ objects = [d \in Devices |-> 0]
        /\ inbox = <<>> /\ queue = <<>> /\ registered = FALSE
    BY DEF Init, NewProcess
  <2>2. Alone /\ Making = {}
    BY <2>1, ProcsAre DEF Alone, Making, Made
  <2>3. Counted
    BY <2>1, <2>2 DEF Counted
  <2> QED
    BY <2>2, <2>3, TypedInit DEF ObjectInv, Typed
<1>2. ObjectInv /\ [Next]_vars => ObjectInv'
  <2> SUFFICES ASSUME ObjectInv, [Next]_vars PROVE ObjectInv'
    OBVIOUS
  <2>1. Types'
    BY TypesKept DEF ObjectInv
  <2>2. ASSUME Calm' PROVE Alone' /\ Counted'
    <3>1. Calm
      BY <2>2, TroublesGrow DEF Calm
    <3> QED
      BY <2>2, <3>1, AloneKept, CountedKept DEF ObjectInv
  <2> QED
    BY <2>1, <2>2 DEF ObjectInv
<1>3. ObjectInv => OneObjectPerDevice
  <2> SUFFICES ASSUME ObjectInv, Calm, NEW d \in Devices PROVE objects[d] <= 1
    BY DEF OneObjectPerDevice, NoDuplicates, Calm
  <2>1. objects[d] = IF d \in devices \cup Making THEN 1 ELSE 0
    BY DEF ObjectInv, Counted
  <2> QED
    BY <2>1
<1> QED
  BY <1>1, <1>2, <1>3, PTL DEF Spec

---------------------------------------------------------------------------
(* Where the coroutines are, and what they hold there. *)

AddStages == {"idle", "describe", "fetch", "dSave", "dSaving", "pSave", "pSaving",
              "check", "details", "create", "values"}
StopStages == {"dSave", "dSaving", "pSave", "pSaving", "stopping"}
LoadStages == {"dLoad", "dLoading", "pLoad", "pLoading"}
BootStages == {"off", "dWipe", "pWipe", "check", "create", "values", "init", "running",
               "client", "ending"} \cup LoadStages \cup StopStages

\* A coroutine is in save() or load() where its place says so.
InCache ==
  \A p \in Procs :
    /\ at[p] = "dSaving" <=> dIo[p] \in {"wait", "open", "write"}
    /\ at[p] = "dLoading" <=> dIo[p] = "read"
    /\ at[p] = "pSaving" <=> pIo[p] \in {"wait", "open", "write"}
    /\ at[p] = "pLoading" <=> pIo[p] = "read"

\* The client is there from its creation to its stop, and the backend knows of
\* the central that runs.
Connected ==
  /\ client <=> at["boot"] \notin {"off", "client", "ending"}
  /\ at["boot"] \in {"running"} \cup StopStages => registered

Placed ==
  /\ at["add"] \in AddStages /\ at["boot"] \in BootStages
  /\ at["user"] \in {"idle", "dWipe", "pWipe"}
  /\ Spared({"clear"}) => at["user"] = "idle"

Linked == InCache /\ Connected /\ Placed

LEMMA PlacedKept == Types /\ Placed /\ [Next]_vars => Placed'
<1> SUFFICES ASSUME Types, Placed, [Next]_vars PROVE Placed'
  OBVIOUS
<1>0. Spared({"clear"})' => at["user"] = "idle"
  BY TroublesGrow DEF Placed
<1> USE ProcsAre, <1>0 DEF Types, Placed, AddStages, BootStages, LoadStages, StopStages, loopVars, Goto
<1>1. ASSUME NEW d \in Devices, Pair(d) \/ Unpair(d) PROVE Placed'
  BY <1>1 DEF Pair, Unpair
<1>2. CASE Announce \/ NewDevices \/ AddBegin \/ DescribedAll \/ DetailsLoaded \/ DeleteDevices
  BY <1>2 DEF Announce, NewDevices, AddBegin, DescribedAll, DetailsLoaded, DeleteDevices
<1>3. ASSUME NEW d \in Devices, AddDescription(d) PROVE Placed'
  BY <1>3 DEF AddDescription
<1>4. CASE Fetched \/ FetchFailed
  BY <1>4 DEF Fetched, FetchFailed, FetchEnds
<1>5. ASSUME NEW p \in {"add", "boot"}, SaveDescriptions(p) \/ SavingDescriptions(p)
             \/ SaveParamsets(p) \/ SavingParamsets(p)
      PROVE  Placed'
  BY <1>5 DEF SaveDescriptions, SavingDescriptions, SaveParamsets, SavingParamsets, AfterSave
<1>6. ASSUME NEW p \in {"add", "boot"}, Check(p) \/ CreateEnd(p) \/ Created(p) PROVE Placed'
  BY <1>6 DEF Check, CreateEnd, Created, AfterCreate, CreateStage
<1>7. ASSUME NEW p \in {"add", "boot"}, NEW d \in Devices, CreateBegin(p, d) PROVE Placed'
  BY <1>7 DEF CreateBegin
<1>8. CASE LoadDescriptions \/ LoadParamsets
  BY <1>8 DEF LoadDescriptions, AfterLoad, LoadParamsets
<1>9. CASE Start \/ InitClient \/ Restart \/ ClientCreated \/ Stop \/ StopClients
  BY <1>9 DEF Start, InitClient, Restart, ClientsStopped, ClientCreated, Stop, StopClients
<1>10. CASE ClearCaches
  <2>1. ~Spared({"clear"})'
    BY <1>10, TroublesGrow
  <2> QED
    BY <2>1, <1>10 DEF ClearCaches
<1>11. CASE Stopped \/ Crash
  BY <1>11, AtReset DEF Stopped, Crash
<1>12. ASSUME NEW p \in {"boot", "user"}, Wipe(p) PROVE Placed'
  <2>1. p \in Procs
    BY ProcsAre
  <2> QED
    BY <1>12, <2>1 DEF Wipe
<1>13. CASE UNCHANGED vars
  BY <1>13 DEF vars
<1> QED
  BY <1>1, <1>2, <1>3, <1>4, <1>5, <1>6, <1>7, <1>8, <1>9, <1>10, <1>11, <1>12, <1>13
     DEF Next, Backend, Add, Boot, Shared

LEMMA ConnectedKept == Types /\ Placed /\ Connected /\ [Next]_vars => Connected'
<1> SUFFICES ASSUME Types, Placed, Connected, [Next]_vars PROVE Connected'
  OBVIOUS
<1> USE ProcsAre DEF Types, Placed, Connected, BootStages, LoadStages, StopStages, loopVars, Goto,
                     backendVars, centralVars
<1>1. ASSUME NEW d \in Devices, Pair(d) \/ Unpair(d) PROVE Connected'
  BY <1>1 DEF Pair, Unpair
<1>2. CASE Announce \/ NewDevices \/ AddBegin \/ DescribedAll \/ DetailsLoaded \/ DeleteDevices
  BY <1>2 DEF Announce, NewDevices, AddBegin, DescribedAll, DetailsLoaded, DeleteDevices
<1>3. ASSUME NEW d \in Devices, AddDescription(d) PROVE Connected'
  BY <1>3 DEF AddDescription
<1>4. CASE Fetched \/ FetchFailed
  BY <1>4 DEF Fetched, FetchFailed, FetchEnds
<1>5. ASSUME NEW p \in {"add", "boot"}, SaveDescriptions(p) \/ SavingDescriptions(p)
             \/ SaveParamsets(p) \/ SavingParamsets(p)
      PROVE  Connected'
  BY <1>5 DEF SaveDescriptions, SavingDescriptions, SaveParamsets, SavingParamsets, AfterSave
<1>6. ASSUME NEW p \in {"add", "boot"}, Check(p) \/ CreateEnd(p) \/ Created(p) PROVE Connected'
  BY <1>6 DEF Check, CreateEnd, Created, AfterCreate, CreateStage
<1>7. ASSUME NEW p \in {"add", "boot"}, NEW d \in Devices, CreateBegin(p, d) PROVE Connected'
  BY <1>7 DEF CreateBegin
<1>8. CASE LoadDescriptions \/ LoadParamsets
  BY <1>8 DEF LoadDescriptions, AfterLoad, LoadParamsets
<1>9. CASE Start \/ InitClient \/ Restart \/ ClientCreated \/ Stop \/ StopClients \/ ClearCaches
  BY <1>9 DEF Start, InitClient, Restart, ClientsStopped, ClientCreated, Stop, StopClients, ClearCaches
<1>10. CASE Stopped \/ Crash
  <2>1. client' = FALSE /\ at'["boot"] = "off"
    BY <1>10, AtReset DEF Stopped, Crash, Reset, NewProcess
  <2> QED
    BY <2>1
<1>11. ASSUME NEW p \in {"boot", "user"}, Wipe(p) PROVE Connected'
  <2>1. p \in Procs
    BY ProcsAre
  <2> QED
    BY <1>11, <2>1 DEF Wipe
<1>12. CASE UNCHANGED vars
  BY <1>12 DEF vars
<1> QED
  BY <1>1, <1>2, <1>3, <1>4, <1>5, <1>6, <1>7, <1>8, <1>9, <1>10, <1>11, <1>12
     DEF Next, Backend, Add, Boot, Shared

LEMMA InCacheKept == Typed /\ Placed /\ InCache /\ [Next]_vars => InCache'
<1> SUFFICES ASSUME Typed, Placed, InCache, [Next]_vars PROVE InCache'
  OBVIOUS
<1>0. /\ at \in [Procs -> Stages]
      /\ dIo \in [Procs -> DC!Stages] /\ pIo \in [Procs -> PC!Stages]
      /\ at["add"] \in AddStages /\ at["boot"] \in BootStages
  BY DEF Typed, Types, DC!TypeOK, PC!TypeOK, Placed
<1> USE ProcsAre, <1>0 DEF InCache, AddStages, BootStages, LoadStages, StopStages, loopVars,
                           Goto, cacheVars, dVars, pVars
<1>1. ASSUME NEW d \in Devices, Pair(d) \/ Unpair(d) PROVE InCache'
  BY <1>1 DEF Pair, Unpair
<1>2. CASE Announce \/ NewDevices \/ AddBegin \/ DescribedAll \/ DetailsLoaded
  BY <1>2 DEF Announce, NewDevices, AddBegin, DescribedAll, DetailsLoaded
<1>3. CASE DeleteDevices
  BY <1>3 DEF DeleteDevices, D!Change, P!Change
<1>4. ASSUME NEW d \in Devices, AddDescription(d) PROVE InCache'
  BY <1>4 DEF AddDescription, D!Change
<1>5. CASE Fetched \/ FetchFailed
  BY <1>5 DEF Fetched, FetchFailed, FetchEnds, P!Change
<1>6. ASSUME NEW p \in {"add", "boot"}, SaveDescriptions(p) PROVE InCache'
  BY <1>6 DEF SaveDescriptions, D!SaveBegin
<1>7. ASSUME NEW p \in {"add", "boot"}, SavingDescriptions(p) PROVE InCache'
  BY <1>7 DEF SavingDescriptions, D!SaveWake, D!SaveOpen, D!SaveWrite
<1>8. ASSUME NEW p \in {"add", "boot"}, SaveParamsets(p) PROVE InCache'
  BY <1>8 DEF SaveParamsets, P!SaveBegin, AfterSave
<1>9. ASSUME NEW p \in {"add", "boot"}, SavingParamsets(p) PROVE InCache'
  BY <1>9 DEF SavingParamsets, P!SaveWake, P!SaveOpen, P!SaveWrite, AfterSave
<1>10. ASSUME NEW p \in {"add", "boot"}, Check(p) \/ CreateEnd(p) \/ Created(p) PROVE InCache'
  BY <1>10 DEF Check, CreateEnd, Created, AfterCreate, CreateStage
<1>11. ASSUME NEW p \in {"add", "boot"}, NEW d \in Devices, CreateBegin(p, d) PROVE InCache'
  BY <1>11 DEF CreateBegin
<1>12. CASE LoadDescriptions
  BY <1>12 DEF LoadDescriptions, AfterLoad, D!LoadBegin, D!LoadRead
<1>13. CASE LoadParamsets
  BY <1>13 DEF LoadParamsets, AfterLoad, P!LoadBegin, P!LoadRead
<1>14. CASE Start \/ InitClient \/ Restart \/ ClientCreated \/ Stop \/ StopClients \/ ClearCaches
  BY <1>14 DEF Start, InitClient, Restart, ClientsStopped, ClientCreated, Stop, StopClients, ClearCaches
<1>15. CASE Stopped \/ Crash
  <2>1. /\ dIo' = [p \in Procs |-> "idle"] /\ pIo' = [p \in Procs |-> "idle"]
        /\ at' = [p \in Procs |-> IF p = "boot" THEN "off" ELSE "idle"]
    BY <1>15, AtReset DEF Stopped, Crash, Reset, D!Crash, P!Crash
  <2> QED
    BY <2>1
<1>16. ASSUME NEW p \in {"boot", "user"}, Wipe(p) PROVE InCache'
  <2>1. p \in Procs
    BY ProcsAre
  <2> QED
    BY <1>16, <2>1 DEF Wipe, D!Clear, P!Clear
<1>17. CASE UNCHANGED vars
  BY <1>17 DEF vars
<1> QED
  BY <1>1, <1>2, <1>3, <1>4, <1>5, <1>6, <1>7, <1>8, <1>9, <1>10, <1>11, <1>12, <1>13,
     <1>14, <1>15, <1>16, <1>17 DEF Next, Backend, Add, Boot, Shared

LEMMA LinkedKept == Typed /\ Linked /\ [Next]_vars => Linked'
BY InCacheKept, PlacedKept, ConnectedKept DEF Linked, Typed

LEMMA LinkedInit == Init => Linked
<1> SUFFICES ASSUME Init PROVE Linked
  OBVIOUS
<1>1. /\ at = [p \in Procs |-> IF p = "boot" THEN "off" ELSE "idle"] /\ client = FALSE
      /\ dIo = [p \in Procs |-> "idle"] /\ pIo = [p \in Procs |-> "idle"]
  BY DEF Init, NewProcess, D!Init, P!Init, D!Fresh, P!Fresh
<1> QED
  BY <1>1, ProcsAre DEF Linked, InCache, Connected, Placed, AddStages, BootStages, StopStages

---------------------------------------------------------------------------
(* The files, and a process that has not loaded them yet. *)

Base == Typed /\ Linked /\ DC!OneHolder /\ PC!OneHolder /\ PC!Dumped

LEMMA BaseKept == Base /\ [Next]_vars => Base'
<1> SUFFICES ASSUME Base, [Next]_vars PROVE Base'
  OBVIOUS
<1>1. Typed' /\ Linked' /\ StepD /\ StepP /\ DC!TypeOK /\ PC!TypeOK
  BY TypedKept, LinkedKept DEF Base, Typed
<1>2. DC!OneHolder' /\ PC!OneHolder'
  BY <1>1, DC!HolderStep, PC!HolderStep DEF Base, StepD, StepP
<1>3. Untyped(NoParam) = NoParam /\ \A c \in Paramsets : Untyped(Untyped(c)) = Untyped(c)
  BY DEF Untyped, NoParam
<1>4. PC!Dumped'
  BY <1>1, <1>3, PC!DumpedStep DEF Base, StepP
<1> QED
  BY <1>1, <1>2, <1>4 DEF Base

LEMMA AlwaysBase == Spec => []Base
<1>1. Init => Base
  <2> SUFFICES ASSUME Init PROVE Base
    OBVIOUS
  <2>1. /\ dIo = [p \in Procs |-> "idle"] /\ pIo = [p \in Procs |-> "idle"]
        /\ pDisk.of = NoParam
    BY DEF Init, D!Init, P!Init, D!Fresh, P!Fresh, P!Absent
  <2>2. DC!OneHolder /\ PC!OneHolder
    BY <2>1 DEF DC!OneHolder, PC!OneHolder, DC!Holders, PC!Holders
  <2>3. PC!Dumped
    BY <2>1 DEF PC!Dumped, Untyped, NoParam
  <2> QED
    BY <2>2, <2>3, TypedInit, LinkedInit DEF Base
<1> QED
  BY <1>1, BaseKept, PTL DEF Spec

\* As long as no process dies and nobody clears the caches, a file is cut short
\* only by a save that is about to write it, the loads need not clear them, and a
\* file that a load has found is still there.
Gentle == Spared({"crash", "clear"})

Files == Gentle => /\ DC!CutWhileWriting /\ PC!CutWhileWriting
                   /\ at["boot"] \notin {"dWipe", "pWipe"}
                   /\ at["boot"] = "dLoading" => dDisk # D!Absent
                   /\ at["boot"] = "pLoading" => pDisk # P!Absent

\* Neither cache has been loaded, and the backend does not know of the central.
Fresh ==
  /\ at["boot"] \in {"off"} \cup LoadStages
  /\ ~registered /\ inbox = <<>> /\ queue = <<>> /\ at["add"] = "idle"
  /\ pMem = NoParam /\ pSaved = NoParam
  /\ at["boot"] \in {"off", "dLoad", "dLoading"} =>
       dMem = NoDescr /\ dSaved = NoDescr /\ known = {}

\* Only a restart of the clients loads the files into a process that has them.
Booting == Gentle =>
  /\ at["boot"] = "off" => Fresh
  /\ at["boot"] = "ending" => ~registered
  /\ at["boot"] = "client" => ~Spared({"restart"})
  /\ at["boot"] \in LoadStages /\ Spared({"restart"}) => Fresh

DUnloaded == Fresh /\ at["boot"] \in {"off", "dLoad", "dLoading"}
PUnloaded == Fresh

LEMMA FilesAre ==
  /\ DC!Absent = D!Absent /\ DC!Cut = D!Cut /\ (\A c : DC!Whole(c) = D!Whole(c))
  /\ PC!Absent = P!Absent /\ PC!Cut = P!Cut /\ (\A c : PC!Whole(c) = P!Whole(c))
  /\ DC!Holders = D!Holders /\ PC!Holders = P!Holders
  /\ (DC!Dirty <=> D!Dirty) /\ (PC!Dirty <=> P!Dirty)
BY DEF DC!Absent, DC!Cut, DC!Whole, DC!Holders, DC!Dirty, PC!Absent, PC!Cut, PC!Whole, PC!Holders,
       PC!Dirty, D!Absent, D!Cut, D!Whole, D!Holders, D!Dirty, P!Absent, P!Cut, P!Whole, P!Holders,
       P!Dirty

\* A file that is being read is whole.
LEMMA ReadsWhole ==
    ASSUME Base, Files, Gentle
    PROVE  /\ at["boot"] = "dLoading" => dDisk # D!Cut /\ dDisk.file = "whole"
           /\ at["boot"] = "pLoading" => pDisk # P!Cut /\ pDisk.file = "whole"
<1>1. at["boot"] = "dLoading" => dDisk # D!Cut
  <2> SUFFICES ASSUME at["boot"] = "dLoading", dDisk = D!Cut PROVE FALSE
    OBVIOUS
  <2>1. PICK p \in Procs : dIo[p] = "write"
    BY FilesAre DEF Files, DC!CutWhileWriting
  <2>2. dIo["boot"] = "read"
    BY ProcsAre DEF Base, Linked, InCache
  <2>3. p = "boot"
    BY <2>1, <2>2, ProcsAre DEF Base, DC!OneHolder, DC!Holders
  <2> QED
    BY <2>1, <2>2, <2>3
<1>2. at["boot"] = "pLoading" => pDisk # P!Cut
  <2> SUFFICES ASSUME at["boot"] = "pLoading", pDisk = P!Cut PROVE FALSE
    OBVIOUS
  <2>1. PICK p \in Procs : pIo[p] = "write"
    BY FilesAre DEF Files, PC!CutWhileWriting
  <2>2. pIo["boot"] = "read"
    BY ProcsAre DEF Base, Linked, InCache
  <2>3. p = "boot"
    BY <2>1, <2>2, ProcsAre DEF Base, PC!OneHolder, PC!Holders
  <2> QED
    BY <2>1, <2>2, <2>3
<1>3. at["boot"] = "dLoading" => dDisk.file = "whole"
  BY <1>1, FilesAre, DC!FileKinds DEF Files, Base, Typed
<1>4. at["boot"] = "pLoading" => pDisk.file = "whole"
  BY <1>2, FilesAre, PC!FileKinds DEF Files, Base, Typed
<1> QED
  BY <1>1, <1>2, <1>3, <1>4

\* Without a crash and without clear_caches, what a step does to the caches is
\* an operation of theirs, or the end of the process.
LEMMA GentleSteps ==
    ASSUME Base, Files, [Next]_vars, Gentle'
    PROVE  Gentle /\ (OrdinarySteps \/ (Stopped /\ Reset))
<1>1. Gentle
  BY TroublesGrow DEF Gentle
<1>2. ~Crash
  BY TroublesGrow DEF Gentle, Spared
<1>3. at["user"] = "idle" /\ at["boot"] \notin {"dWipe", "pWipe"}
  <2>1. Spared({"clear"})
    BY <1>1 DEF Gentle, Spared
  <2> QED
    BY <1>1, <2>1 DEF Base, Linked, Placed, Files
<1>4. ~Wipe("boot") /\ ~Wipe("user")
  BY <1>3 DEF Wipe
<1> QED
  BY <1>1, <1>2, <1>4, CacheSteps DEF Base, Typed, Types

LEMMA BootMoves ==
    ASSUME Types, Placed, [Next]_vars
    PROVE  /\ at'["boot"] = "off" => at["boot"] = "off" \/ ((Stopped \/ Crash) /\ Reset)
           /\ at'["boot"] = "ending" => at["boot"] = "ending" \/ StopClients
           /\ at'["boot"] = "client" => at["boot"] = "client" \/ Restart
           /\ at'["boot"] \in LoadStages => at["boot"] \in LoadStages \/ Start \/ ClientCreated
           /\ at'["boot"] \in {"running"} \cup StopStages =>
                at["boot"] \in {"running"} \cup StopStages \/ InitClient
           /\ at["boot"] \in StopStages \cup {"ending"} =>
                at'["boot"] \in StopStages \cup {"ending"} \/ ((Stopped \/ Crash) /\ Reset)
           /\ at'["boot"] = "dLoading" => at["boot"] = "dLoading" \/ dDisk # D!Absent
           /\ at'["boot"] = "pLoading" => at["boot"] = "pLoading" \/ pDisk # P!Absent
           /\ registered' = registered \/ InitClient \/ Restart \/ StopClients
           /\ announce' = announce \/ Announce \/ InitClient \/ Restart \/ StopClients
<1> DEFINE Moves ==
      /\ at'["boot"] = "off" => at["boot"] = "off" \/ ((Stopped \/ Crash) /\ Reset)
      /\ at'["boot"] = "ending" => at["boot"] = "ending" \/ StopClients
      /\ at'["boot"] = "client" => at["boot"] = "client" \/ Restart
      /\ at'["boot"] \in LoadStages => at["boot"] \in LoadStages \/ Start \/ ClientCreated
      /\ at'["boot"] \in {"running"} \cup StopStages =>
           at["boot"] \in {"running"} \cup StopStages \/ InitClient
      /\ at["boot"] \in StopStages \cup {"ending"} =>
           at'["boot"] \in StopStages \cup {"ending"} \/ ((Stopped \/ Crash) /\ Reset)
      /\ at'["boot"] = "dLoading" => at["boot"] = "dLoading" \/ dDisk # D!Absent
      /\ at'["boot"] = "pLoading" => at["boot"] = "pLoading" \/ pDisk # P!Absent
<1> DEFINE Answers ==
      /\ registered' = registered \/ InitClient \/ Restart \/ StopClients
      /\ announce' = announce \/ Announce \/ InitClient \/ Restart \/ StopClients
<1>0. at \in [Procs -> Stages] /\ at["boot"] \in BootStages
  BY DEF Types, Placed
<1> USE <1>0, ProcsAre DEF LoadStages, StopStages, BootStages, loopVars, backendVars, Goto
<1>1. ASSUME NEW d \in Devices, Pair(d) \/ Unpair(d) PROVE Moves /\ Answers
  BY <1>1 DEF Pair, Unpair
<1>2. ASSUME Announce \/ NewDevices \/ AddBegin \/ DescribedAll \/ DetailsLoaded \/ DeleteDevices
      PROVE  Moves /\ Answers
  BY <1>2 DEF Announce, NewDevices, AddBegin, DescribedAll, DetailsLoaded, DeleteDevices
<1>3. ASSUME NEW d \in Devices, AddDescription(d) PROVE Moves /\ Answers
  BY <1>3 DEF AddDescription
<1>4. ASSUME Fetched \/ FetchFailed PROVE Moves /\ Answers
  BY <1>4 DEF Fetched, FetchFailed, FetchEnds
<1>5. ASSUME NEW p \in {"add", "boot"}, SaveDescriptions(p) \/ SavingDescriptions(p)
             \/ SaveParamsets(p) \/ SavingParamsets(p)
      PROVE  Moves /\ Answers
  BY <1>5 DEF SaveDescriptions, SavingDescriptions, SaveParamsets, SavingParamsets, AfterSave
<1>6. ASSUME NEW p \in {"add", "boot"}, Check(p) \/ CreateEnd(p) \/ Created(p) PROVE Moves /\ Answers
  BY <1>6 DEF Check, CreateEnd, Created, AfterCreate, CreateStage
<1>7. ASSUME NEW p \in {"add", "boot"}, NEW d \in Devices, CreateBegin(p, d) PROVE Moves /\ Answers
  BY <1>7 DEF CreateBegin
<1>8. ASSUME LoadDescriptions \/ LoadParamsets PROVE Moves /\ Answers
  BY <1>8 DEF LoadDescriptions, AfterLoad, LoadParamsets
<1>9. ASSUME Start \/ InitClient \/ Restart \/ ClientCreated \/ Stop \/ StopClients \/ ClearCaches
      PROVE  Moves /\ Answers
  BY <1>9 DEF Start, InitClient, Restart, ClientsStopped, ClientCreated, Stop, StopClients, ClearCaches
<1>10. ASSUME Stopped \/ Crash PROVE Moves /\ Answers
  <2>1. at'["boot"] = "off" /\ Reset /\ UNCHANGED backendVars
    BY <1>10, AtReset DEF Stopped, Crash
  <2> QED
    BY <1>10, <2>1
<1>11. ASSUME NEW p \in {"boot", "user"}, Wipe(p) PROVE Moves /\ Answers
  <2>1. p \in Procs
    BY ProcsAre
  <2> QED
    BY <1>11, <2>1 DEF Wipe
<1>12. ASSUME UNCHANGED vars PROVE Moves /\ Answers
  BY <1>12 DEF vars
<1> HIDE DEF Moves, Answers
<1>13. Moves /\ Answers
  BY <1>1, <1>2, <1>3, <1>4, <1>5, <1>6, <1>7, <1>8, <1>9, <1>10, <1>11, <1>12
     DEF Next, Backend, Add, Boot, Shared
<1> QED
  BY <1>13 DEF Moves, Answers

LEMMA FilesKept == Base /\ Files /\ [Next]_vars => Files'
<1> SUFFICES ASSUME Base, Files, [Next]_vars, Gentle' PROVE Files'
  BY DEF Files
<1>1. Gentle /\ (OrdinarySteps \/ (Stopped /\ Reset))
  BY GentleSteps
<1>2. (DC!CutWhileWriting /\ PC!CutWhileWriting)'
  <2>1. CASE OrdinarySteps
    <3>1. DC!CutWhileWriting'
      BY <1>1, <2>1, DC!CutStep DEF Base, Typed, Files, OrdinarySteps
    <3>2. PC!CutWhileWriting'
      BY <1>1, <2>1, PC!CutStep DEF Base, Typed, Files, OrdinarySteps
    <3> QED
      BY <3>1, <3>2
  <2>2. CASE Stopped /\ Reset
    <3>1. at["add"] = "idle" /\ at["boot"] = "ending" /\ at["user"] = "idle"
      BY <2>2 DEF Stopped
    <3>2. \A p \in Procs : dIo[p] # "write" /\ pIo[p] # "write"
      BY <3>1, ProcsAre DEF Procs, Base, Linked, InCache
    <3>3. dDisk # DC!Cut /\ pDisk # PC!Cut
      BY <1>1, <3>2 DEF Files, DC!CutWhileWriting, PC!CutWhileWriting
    <3>4. /\ dDisk' = dDisk /\ dIo' = [p \in Procs |-> "idle"]
          /\ pDisk' = pDisk /\ pIo' = [p \in Procs |-> "idle"]
      BY <2>2 DEF Reset, D!Crash, P!Crash
    <3> QED
      BY <3>3, <3>4 DEF DC!CutWhileWriting, PC!CutWhileWriting, DC!Cut, PC!Cut
  <2> QED
    BY <1>1, <2>1, <2>2
<1>3. at'["boot"] \notin {"dWipe", "pWipe"}
  <2> USE ProcsAre DEF Base, Typed, Types, loopVars, Goto
  <2>0. at["boot"] \notin {"dWipe", "pWipe"} /\ at["boot"] \in BootStages
    BY <1>1 DEF Files, Linked, Placed
  <2>1. ASSUME NEW d \in Devices, Pair(d) \/ Unpair(d) PROVE at'["boot"] = at["boot"]
    BY <2>1 DEF Pair, Unpair
  <2>2. CASE Announce \/ NewDevices \/ AddBegin \/ DescribedAll \/ DetailsLoaded \/ DeleteDevices
    BY <2>0, <2>2 DEF Announce, NewDevices, AddBegin, DescribedAll, DetailsLoaded, DeleteDevices
  <2>3. ASSUME NEW d \in Devices, AddDescription(d) PROVE at'["boot"] = at["boot"]
    BY <2>3 DEF AddDescription
  <2>4. CASE Fetched \/ FetchFailed
    BY <2>0, <2>4 DEF Fetched, FetchFailed, FetchEnds
  <2>5. ASSUME NEW p \in {"add", "boot"}, Shared(p) PROVE at'["boot"] \notin {"dWipe", "pWipe"}
    <3>1. CASE \/ SaveDescriptions(p) \/ SavingDescriptions(p)
               \/ SaveParamsets(p) \/ SavingParamsets(p)
      BY <2>0, <3>1 DEF SaveDescriptions, SavingDescriptions, SaveParamsets, SavingParamsets, AfterSave
    <3>2. CASE Check(p) \/ CreateEnd(p) \/ Created(p)
      BY <2>0, <3>2 DEF Check, CreateEnd, Created, AfterCreate, CreateStage
    <3>3. ASSUME NEW d \in Devices, CreateBegin(p, d) PROVE at'["boot"] \notin {"dWipe", "pWipe"}
      BY <2>0, <3>3 DEF CreateBegin
    <3> QED
      BY <2>5, <3>1, <3>2, <3>3 DEF Shared
  <2>6. CASE LoadDescriptions \/ LoadParamsets
    BY <1>1, <2>0, <2>6, ReadsWhole DEF LoadDescriptions, AfterLoad, LoadParamsets
  <2>7. CASE Start \/ InitClient \/ Restart \/ ClientCreated \/ Stop \/ StopClients \/ ClearCaches
    BY <2>0, <2>7 DEF Start, InitClient, Restart, ClientsStopped, ClientCreated, Stop, StopClients, ClearCaches
  <2>8. CASE Stopped \/ Crash
    BY <2>8, AtReset DEF Stopped, Crash
  <2>9. ~Wipe("boot") /\ ~Wipe("user")
    <3>1. at["user"] = "idle"
      BY <1>1 DEF Gentle, Spared, Linked, Placed
    <3> QED
      BY <2>0, <3>1 DEF Wipe
  <2>10. CASE UNCHANGED vars
    BY <2>0, <2>10 DEF vars
  <2> QED
    BY <2>0, <2>1, <2>2, <2>3, <2>4, <2>5, <2>6, <2>7, <2>8, <2>9, <2>10
       DEF Next, Backend, Add, Boot
<1>4. /\ at'["boot"] = "dLoading" => dDisk' # D!Absent
      /\ at'["boot"] = "pLoading" => pDisk' # P!Absent
  <2>1. CASE OrdinarySteps
    <3>1. /\ dDisk # D!Absent => dDisk' # D!Absent
          /\ pDisk # P!Absent => pDisk' # P!Absent
      BY <2>1, FilesAre, DC!FileKinds, PC!FileKinds, DC!FileStays, PC!FileStays DEF OrdinarySteps
    <3>2. /\ at["boot"] = "dLoading" => dDisk # D!Absent
          /\ at["boot"] = "pLoading" => pDisk # P!Absent
      BY <1>1 DEF Files
    <3> QED
      BY <3>1, <3>2, BootMoves DEF Base, Typed, Linked
  <2>2. CASE Stopped /\ Reset
    BY <2>2, AtReset, ProcsAre
  <2> QED
    BY <1>1, <2>1, <2>2
<1> QED
  BY <1>2, <1>3, <1>4 DEF Files, D!Absent, P!Absent

LEMMA FreshKept ==
    ASSUME Base, Files, [Next]_vars, Gentle', Fresh
    PROVE  /\ Fresh' \/ (LoadParamsets /\ at'["boot"] = "check")
           /\ DUnloaded => DUnloaded' \/ LoadDescriptions
<1>1. Gentle /\ (OrdinarySteps \/ (Stopped /\ Reset))
  BY GentleSteps
<1> USE ProcsAre DEF Fresh, DUnloaded, LoadStages
<1> DEFINE Goal == /\ Fresh' \/ (LoadParamsets /\ at'["boot"] = "check")
                   /\ DUnloaded => DUnloaded' \/ LoadDescriptions
<1>2. /\ at \in [Procs -> Stages] /\ at["add"] = "idle" /\ at["user"] = "idle"
      /\ at["boot"] \in {"off"} \cup LoadStages
  BY <1>1 DEF Base, Typed, Types, Linked, Placed, Gentle, Spared
<1>3. ASSUME NEW d \in Devices, Pair(d) \/ Unpair(d) PROVE Goal
  BY <1>3 DEF Pair, Unpair, Call, cacheVars, dVars, pVars, loopVars
<1>4. ASSUME Announce PROVE Goal
  BY <1>4 DEF Announce, Call, cacheVars, dVars, pVars, loopVars
<1>5. ~(NewDevices \/ AddBegin \/ DescribedAll \/ DetailsLoaded \/ DeleteDevices \/ Fetched \/ FetchFailed)
  BY <1>2 DEF NewDevices, AddBegin, DescribedAll, DetailsLoaded, DeleteDevices, Fetched, FetchFailed, FetchEnds
<1>6. \A d \in Devices : ~AddDescription(d)
  BY <1>2 DEF AddDescription
<1>7. \A p \in {"add", "boot"} : ~Shared(p)
  BY <1>2 DEF Shared, SaveDescriptions, SavingDescriptions, SaveParamsets, SavingParamsets,
              Check, CreateEnd, Created, CreateBegin
<1>8. ASSUME Start PROVE Goal
  BY <1>2, <1>8 DEF Start, Goto, backendVars, cacheVars, dVars, pVars, taskVars
<1>9. ASSUME LoadDescriptions PROVE Goal
  <2>1. /\ pMem' = pMem /\ pSaved' = pSaved /\ registered' = registered
        /\ inbox' = inbox /\ queue' = queue
    BY <1>9 DEF LoadDescriptions, AfterLoad, pVars, backendVars, taskVars
  <2>2. at'["add"] = "idle" /\ at'["boot"] \in {"dLoading", "pLoad"}
    BY <1>1, <1>2, <1>9, ReadsWhole DEF LoadDescriptions, AfterLoad, Goto
  <2>4. at'["boot"] = "dLoading" => dMem' = dMem /\ dSaved' = dSaved /\ known' = known
                                    /\ at["boot"] = "dLoad"
    BY <1>1, <1>2, <1>9, ReadsWhole DEF LoadDescriptions, AfterLoad, D!LoadBegin, Goto
  <2> QED
    BY <1>9, <2>1, <2>2, <2>4
<1>10. ASSUME LoadParamsets PROVE Goal
  <2>1. /\ dMem' = dMem /\ dSaved' = dSaved /\ known' = known /\ registered' = registered
        /\ inbox' = inbox /\ queue' = queue
    BY <1>10 DEF LoadParamsets, AfterLoad, dVars, backendVars, taskVars
  <2>2. at'["add"] = "idle" /\ at'["boot"] \in {"pLoading", "check"}
        /\ at["boot"] \in {"pLoad", "pLoading"}
    BY <1>1, <1>2, <1>10, ReadsWhole DEF LoadParamsets, AfterLoad, Goto
  <2>4. at'["boot"] = "pLoading" => pMem' = pMem /\ pSaved' = pSaved
    BY <1>1, <1>2, <1>10, ReadsWhole DEF LoadParamsets, AfterLoad, P!LoadBegin, Goto
  <2> QED
    BY <1>10, <2>1, <2>2, <2>4
<1>11. ~(InitClient \/ Restart \/ ClientCreated \/ Stop \/ StopClients \/ Stopped \/ ClearCaches)
  BY <1>2 DEF InitClient, Restart, ClientsStopped, ClientCreated, Stop, StopClients, Stopped, ClearCaches
<1>12. ~Crash
  BY TroublesGrow DEF Gentle, Spared
<1>13. \A p \in {"boot", "user"} : ~Wipe(p)
  BY <1>2 DEF Wipe
<1>14. ASSUME UNCHANGED vars PROVE Goal
  BY <1>14 DEF vars, backendVars, cacheVars, dVars, pVars, taskVars, loopVars
<1> HIDE DEF Goal
<1>15. Goal
  BY <1>3, <1>4, <1>5, <1>6, <1>7, <1>8, <1>9, <1>10, <1>11, <1>12, <1>13, <1>14
     DEF Next, Backend, Add, Boot
<1> QED
  BY <1>15 DEF Goal

LEMMA BootingKept == Base /\ Files /\ Booting /\ [Next]_vars => Booting'
<1> SUFFICES ASSUME Base, Files, Booting, [Next]_vars, Gentle' PROVE Booting'
  BY DEF Booting
<1>1. Gentle /\ (OrdinarySteps \/ (Stopped /\ Reset)) /\ ~Crash
  BY GentleSteps, TroublesGrow DEF Gentle, Spared
<1>2. /\ at \in [Procs -> Stages] /\ Types /\ Placed
  BY DEF Base, Typed, Types, Linked
<1>3. at'["boot"] = "off" => Fresh'
  <2>1. CASE at["boot"] = "off" /\ at'["boot"] = "off"
    BY <1>1, <2>1, FreshKept DEF Booting
  <2>2. CASE Stopped /\ Reset
    <3>1. at["boot"] = "ending" /\ registered' = registered
      BY <2>2 DEF Stopped, backendVars
    <3>2. ~registered
      BY <1>1, <3>1 DEF Booting
    <3>3. /\ pMem' = NoParam /\ pSaved' = NoParam /\ dMem' = NoDescr /\ dSaved' = NoDescr
          /\ known' = {} /\ inbox' = <<>> /\ queue' = <<>>
          /\ at'["add"] = "idle" /\ at'["boot"] = "off"
      BY <2>2, AtReset, ProcsAre DEF Reset, D!Crash, P!Crash, NewProcess
    <3> QED
      BY <3>1, <3>2, <3>3 DEF Fresh
  <2> QED
    BY <1>1, <1>2, <2>1, <2>2, BootMoves
<1>4. at'["boot"] = "ending" => ~registered'
  <2> SUFFICES ASSUME at'["boot"] = "ending" PROVE ~registered'
    OBVIOUS
  <2>1. CASE StopClients
    BY <2>1 DEF StopClients, ClientsStopped
  <2>2. CASE at["boot"] = "ending"
    <3>1. ~(InitClient \/ Restart \/ StopClients)
      BY <2>2 DEF InitClient, Restart, ClientsStopped, StopClients
    <3>2. registered' = registered
      BY <1>2, <3>1, BootMoves
    <3> QED
      BY <1>1, <2>2, <3>2 DEF Booting
  <2> QED
    BY <1>2, <2>1, <2>2, BootMoves
<1>5. at'["boot"] = "client" => ~Spared({"restart"})'
  BY <1>1, <1>2, BootMoves, TroublesGrow DEF Booting
<1>6. at'["boot"] \in LoadStages /\ Spared({"restart"})' => Fresh'
  <2> SUFFICES ASSUME at'["boot"] \in LoadStages, Spared({"restart"})' PROVE Fresh'
    OBVIOUS
  <2>1. Spared({"restart"})
    BY TroublesGrow
  <2>2. ~ClientCreated
    BY <1>1, <2>1 DEF ClientCreated, Booting
  <2>3. at["boot"] \in LoadStages \cup {"off"}
    BY <1>2, <2>2, BootMoves DEF Start
  <2>4. Fresh
    BY <1>1, <2>1, <2>3 DEF Booting
  <2>5. at'["boot"] # "check"
    BY DEF LoadStages
  <2> QED
    BY <2>4, <2>5, FreshKept
<1> QED
  BY <1>3, <1>4, <1>5, <1>6 DEF Booting

---------------------------------------------------------------------------
(* Without a removal. *)

News(ds) == [kind : {"new"}, of : SUBSET ds]

\* What is described, stored, announced or waits is paired, and nothing is to
\* be removed.
NoRemoval == Spared({"unpair"}) =>
  /\ Described(dMem) \subseteq paired /\ Described(dDisk.of) \subseteq paired
  /\ inbox \in Seq(News(paired)) /\ queue \in Seq(SUBSET paired)
  /\ at["add"] \in {"describe", "fetch"} => todo["add"] \subseteq paired

LEMMA DescribedEmpty == Described(NoDescr) = {}
BY DEF Described, NoDescr, ToSet

LEMMA SeqFacts ==
    ASSUME NEW S, NEW T, S \subseteq T
    PROVE  /\ \A s \in Seq(S) : s \in Seq(T) /\ Len(s) \in Nat
           /\ \A s, t \in Seq(S) : s \o t \in Seq(S)
           /\ \A s \in Seq(S) : s # <<>> => Head(s) \in S /\ Tail(s) \in Seq(S)
           /\ \A s \in Seq(S), x \in S : Append(s, x) \in Seq(S)
           /\ \A x \in S : <<x>> \in Seq(S)
           /\ <<>> \in Seq(S)
<1>1. \A s \in Seq(S) : s \in Seq(T)
  OBVIOUS
<1> QED
  BY <1>1

LEMMA Single ==
    ASSUME NEW S, NEW x \in S
    PROVE  <<x>> \in Seq(S)
OBVIOUS

LEMMA NoRemovalKept == Base /\ NoRemoval /\ [Next]_vars => NoRemoval'
<1> SUFFICES ASSUME Base, NoRemoval, [Next]_vars, Spared({"unpair"})' PROVE NoRemoval'
  BY DEF NoRemoval
<1>0. /\ Described(dMem) \subseteq paired /\ Described(dDisk.of) \subseteq paired
      /\ inbox \in Seq(News(paired)) /\ queue \in Seq(SUBSET paired)
      /\ at["add"] \in {"describe", "fetch"} => todo["add"] \subseteq paired
  BY TroublesGrow DEF NoRemoval
<1>a. /\ at \in [Procs -> Stages] /\ todo \in [Procs -> SUBSET Devices]
      /\ dMem \in Contents /\ dDisk.of \in Contents
      /\ at["add"] \in AddStages
  <2>1. dDisk.of \in Contents
    BY EmptyContents, DC!FileKinds DEF Base, Typed
  <2> QED
    BY <2>1 DEF Base, Typed, Types, Sets, DC!TypeOK, Linked, Placed
<1> DEFINE Caches == Described(dMem') \subseteq paired' /\ Described(dDisk'.of) \subseteq paired'
           Tasks == inbox' \in Seq(News(paired')) /\ queue' \in Seq(SUBSET paired')
           Loop == at'["add"] \in {"describe", "fetch"} => todo'["add"] \subseteq paired'
<1> USE <1>0, <1>a, ProcsAre
<1>1. ASSUME NEW d \in Devices, Pair(d) PROVE Caches /\ Tasks /\ Loop
  <2>1. paired' = paired \cup {d} /\ UNCHANGED <<dMem, dDisk, queue, at, todo>>
    BY <1>1 DEF Pair, cacheVars, dVars, loopVars
  <2>2. New({d}) \in News(paired') /\ News(paired) \subseteq News(paired')
    BY <2>1 DEF New, News
  <2>3. inbox' = inbox \o <<New({d})>> \/ inbox' = inbox
    BY <1>1 DEF Pair, Call
  <2> HIDE DEF New, News
  <2>4. inbox' \in Seq(News(paired'))
    <3> DEFINE S == News(paired)
               T == News(paired')
    <3> HIDE DEF S, T
    <3>1. inbox \in Seq(S) /\ S \subseteq T /\ New({d}) \in T
      BY <2>2 DEF S, T
    <3>2. inbox \in Seq(T)
      BY <3>1, SeqFacts
    <3>3. <<New({d})>> \in Seq(T)
      BY <3>1, Single
    <3> DEFINE call == <<New({d})>>
    <3>4. call \in Seq(T) /\ (inbox' = inbox \o call \/ inbox' = inbox)
      BY <2>3, <3>3
    <3> HIDE DEF call
    <3>5. inbox' \in Seq(T)
      BY <3>2, <3>4, SeqFacts
    <3> QED
      BY <3>5 DEF T
  <2>5. queue' \in Seq(SUBSET paired')
    BY <2>1, SeqFacts
  <2> QED
    BY <2>1, <2>4, <2>5
<1>2. \A d \in Devices : ~Unpair(d)
  BY TroublesGrow
<1>3. ASSUME Announce PROVE Caches /\ Tasks /\ Loop
  <2>1. UNCHANGED <<paired, dMem, dDisk, queue, at, todo>>
    BY <1>3 DEF Announce, cacheVars, dVars, loopVars
  <2>2. Listed \subseteq paired
    BY DEF Listed
  <2>3. New(paired \ Listed) \in News(paired)
    BY DEF New, News
  <2> HIDE DEF New, News
  <2>4. <<New(paired \ Listed)>> \in Seq(News(paired)) /\ <<>> \in Seq(News(paired))
    BY <2>3, SeqFacts
  <2>5. PICK missing \in Seq(News(paired)) : Call(missing \o <<>>)
    BY <1>3, <2>2, <2>4 DEF Announce
  <2>6. inbox' \in Seq(News(paired))
    BY <2>4, <2>5, SeqFacts DEF Call
  <2> QED
    BY <2>1, <2>6
<1>4. ASSUME NewDevices PROVE Caches /\ Tasks /\ Loop
  <2>1. UNCHANGED <<paired, dMem, dDisk, at, todo>> /\ inbox # <<>> /\ inbox' = Tail(inbox)
        /\ (queue' = queue \/ queue' = Append(queue, Head(inbox).of))
    BY <1>4 DEF NewDevices, cacheVars, dVars, loopVars, backendVars
  <2>2. Head(inbox) \in News(paired) /\ Tail(inbox) \in Seq(News(paired))
    BY <2>1, SeqFacts
  <2>3. Head(inbox).of \in SUBSET paired
    BY <2>2 DEF News
  <2> DEFINE S == SUBSET paired
  <2> HIDE DEF S
  <2>4. queue \in Seq(S) /\ Head(inbox).of \in S
    BY <2>3 DEF S
  <2>5. Append(queue, Head(inbox).of) \in Seq(S)
    BY <2>4, SeqFacts
  <2>6. queue' \in Seq(SUBSET paired)
    BY <2>1, <2>4, <2>5 DEF S
  <2> QED
    BY <2>1, <2>2, <2>6
<1>5. ~DeleteDevices
  <2> SUFFICES ASSUME inbox # <<>> PROVE Head(inbox).kind # "delete"
    BY DEF DeleteDevices
  <2>1. Head(inbox) \in News(paired)
    OBVIOUS
  <2> QED
    BY <2>1 DEF News
<1>6. ASSUME AddBegin PROVE Caches /\ Tasks /\ Loop
  <2>1. UNCHANGED <<paired, dMem, dDisk, inbox>> /\ queue # <<>> /\ queue' = Tail(queue)
    BY <1>6 DEF AddBegin, cacheVars, dVars, backendVars
  <2>2. \/ at' = at /\ todo' = todo
        \/ todo' = [todo EXCEPT !["add"] = Head(queue)]
    BY <1>6 DEF AddBegin, loopVars
  <2>3. Head(queue) \in SUBSET paired /\ Tail(queue) \in Seq(SUBSET paired)
    BY <2>1
  <2> QED
    BY <2>1, <2>2, <2>3
<1>7. ASSUME NEW d \in Devices, AddDescription(d) PROVE Caches /\ Tasks /\ Loop
  <2>1. /\ UNCHANGED <<paired, inbox, queue, dDisk>> /\ dMem' = With(dMem, d)
        /\ d \in todo["add"] /\ todo["add"] \subseteq paired
        /\ todo' = [todo EXCEPT !["add"] = @ \ {d}]
    BY <1>7 DEF AddDescription, D!Change, backendVars, taskVars
  <2>2. Described(dMem') = Described(dMem) \cup {d}
    BY <2>1, WithIs
  <2> QED
    BY <2>1, <2>2
<1>8. ASSUME Fetched \/ FetchFailed \/ DescribedAll \/ DetailsLoaded PROVE Caches /\ Tasks /\ Loop
  BY <1>8 DEF Fetched, FetchFailed, FetchEnds, DescribedAll, DetailsLoaded, dVars, backendVars,
              taskVars, cacheVars, Goto
<1>9. ASSUME NEW p \in {"add", "boot"}, SaveDescriptions(p) PROVE Caches /\ Tasks /\ Loop
  BY <1>9 DEF SaveDescriptions, D!SaveBegin, Goto, dVars, backendVars, taskVars
<1>10. ASSUME NEW p \in {"add", "boot"}, SavingDescriptions(p) PROVE Caches /\ Tasks /\ Loop
  <2>1. UNCHANGED <<paired, inbox, queue, todo>>
        /\ (at'["add"] \in {"describe", "fetch"} => at["add"] \in {"describe", "fetch"})
    BY <1>10 DEF SavingDescriptions, Goto, backendVars, taskVars, loopVars
  <2>2. dMem' = dMem /\ (dDisk' = dDisk \/ dDisk' = D!Cut \/ dDisk' = D!Whole(dMem))
    BY <1>10 DEF SavingDescriptions, D!SaveWake, D!SaveOpen, D!SaveWrite, AsIs
  <2>3. Described(dDisk'.of) \subseteq paired
    BY <2>2, DescribedEmpty DEF D!Cut, D!Whole
  <2> QED
    BY <2>1, <2>2, <2>3
<1>11. ASSUME NEW p \in {"add", "boot"}, SaveParamsets(p) \/ SavingParamsets(p)
       PROVE  Caches /\ Tasks /\ Loop
  BY <1>11 DEF SaveParamsets, SavingParamsets, Goto, dVars, backendVars, taskVars, loopVars, AfterSave
<1>12. ASSUME NEW p \in {"add", "boot"}, Check(p) \/ CreateEnd(p) \/ Created(p)
       PROVE  Caches /\ Tasks /\ Loop
  BY <1>12 DEF Check, CreateEnd, Created, AfterCreate, CreateStage, Goto, cacheVars, dVars,
               backendVars, taskVars
<1>13. ASSUME NEW p \in {"add", "boot"}, NEW d \in Devices, CreateBegin(p, d)
       PROVE  Caches /\ Tasks /\ Loop
  BY <1>13 DEF CreateBegin, cacheVars, dVars, backendVars, taskVars
<1>14. ASSUME LoadDescriptions PROVE Caches /\ Tasks /\ Loop
  <2>1. UNCHANGED <<paired, inbox, queue, todo>> /\ at'["add"] = at["add"] /\ dDisk' = dDisk
    BY <1>14 DEF LoadDescriptions, AfterLoad, D!LoadBegin, D!LoadRead, Goto, backendVars, taskVars, dVars
  <2>2. dMem' = dMem \/ dMem' = dDisk.of
    BY <1>14 DEF LoadDescriptions, AfterLoad, D!LoadBegin, D!LoadRead, dVars
  <2> QED
    BY <2>1, <2>2
<1>15. ASSUME LoadParamsets PROVE Caches /\ Tasks /\ Loop
  BY <1>15 DEF LoadParamsets, AfterLoad, Goto, dVars, backendVars, taskVars
<1>16. ASSUME Start \/ InitClient \/ Restart \/ ClientCreated \/ Stop \/ StopClients \/ ClearCaches
       PROVE  Caches /\ Tasks /\ Loop
  BY <1>16 DEF Start, InitClient, Restart, ClientsStopped, ClientCreated, Stop, StopClients, ClearCaches, Goto,
               cacheVars, dVars, backendVars, taskVars
<1>17. ASSUME Stopped \/ Crash PROVE Caches /\ Tasks /\ Loop
  <2>1. /\ paired' = paired /\ dMem' = NoDescr /\ dDisk' = dDisk /\ inbox' = <<>> /\ queue' = <<>>
        /\ at'["add"] = "idle"
    BY <1>17, AtReset DEF Stopped, Crash, Reset, D!Crash, backendVars
  <2>2. Described(dMem') \subseteq paired'
    BY <2>1, DescribedEmpty
  <2> QED
    BY <2>1, <2>2
<1>18. ASSUME NEW p \in {"boot", "user"}, Wipe(p) PROVE Caches /\ Tasks /\ Loop
  <2>1. UNCHANGED <<paired, inbox, queue, todo>> /\ at'["add"] = at["add"]
        /\ \/ dMem' = dMem /\ dDisk' = dDisk
           \/ dMem' = NoDescr /\ dDisk' = D!Absent
    BY <1>18 DEF Wipe, D!Clear, Goto, dVars, backendVars, taskVars
  <2> QED
    BY <2>1, DescribedEmpty DEF D!Absent
<1>19. ASSUME UNCHANGED vars PROVE Caches /\ Tasks /\ Loop
  BY <1>19 DEF vars, cacheVars, dVars, backendVars, taskVars, loopVars
<1> HIDE DEF Caches, Tasks, Loop
<1>20. Caches /\ Tasks /\ Loop
  BY <1>1, <1>2, <1>3, <1>4, <1>5, <1>6, <1>7, <1>8, <1>9, <1>10, <1>11, <1>12, <1>13, <1>14,
     <1>15, <1>16, <1>17, <1>18, <1>19 DEF Next, Backend, Add, Boot, Shared
<1> QED
  BY <1>20 DEF NoRemoval, Caches, Tasks, Loop

LEMMA NoDelete == NoRemoval /\ Spared({"unpair"}) => ~DeleteDevices
<1> SUFFICES ASSUME NoRemoval, Spared({"unpair"}), inbox # <<>>
             PROVE  Head(inbox).kind # "delete"
  BY DEF DeleteDevices
<1> DEFINE S == News(paired)
<1>1. inbox \in Seq(S)
  BY DEF NoRemoval
<1> HIDE DEF S
<1>2. Head(inbox) \in S
  BY <1>1, SeqFacts
<1> QED
  BY <1>2 DEF S, News

---------------------------------------------------------------------------
(* What a step does to the caches and to the add that is under way. *)

Wipes == Wipe("boot") \/ Wipe("user")

CachesStay == UNCHANGED <<dMem, dDisk, pMem, pDisk, known, before, fetched>>

AddStays ==
  /\ CachesStay
  /\ at'["add"] = at["add"] /\ todo'["add"] = todo["add"] /\ cur'["add"] = cur["add"]
  /\ dHash'["add"] = dHash["add"] /\ pHash'["add"] = pHash["add"]

\* The add has saved the caches.
Later == {"check", "details", "create", "values"}
AddCreates ==
  /\ CachesStay
  /\ at["add"] \in Later /\ at'["add"] \in Later \cup {"idle"}

Saves(p) == SavingDescriptions(p) \/ SavingParamsets(p)

LEMMA StepKinds ==
    ASSUME Typed, [Next]_vars
    PROVE  \/ AddStays \/ AddCreates
           \/ AddBegin \/ DescribedAll \/ Fetched \/ FetchFailed \/ DeleteDevices
           \/ \E d \in Devices : AddDescription(d)
           \/ SaveDescriptions("add") \/ SaveParamsets("add") \/ Saves("add") \/ Saves("boot")
           \/ LoadDescriptions \/ LoadParamsets \/ Wipes
           \/ ((Stopped \/ Crash) /\ Reset)
<1>0. /\ at \in [Procs -> Stages] /\ todo \in [Procs -> SUBSET Devices]
      /\ cur \in [Procs -> SUBSET Devices]
      /\ dHash \in [Procs -> Contents] /\ pHash \in [Procs -> Paramsets]
  BY DEF Typed, Types, Sets, DC!TypeOK, PC!TypeOK
<1> USE <1>0, ProcsAre DEF AddStays, CachesStay, loopVars, cacheVars, dVars, pVars, addVars, Goto
<1>1. ASSUME NEW d \in Devices, Pair(d) \/ Unpair(d) PROVE AddStays
  BY <1>1 DEF Pair, Unpair
<1>2. ASSUME Announce \/ NewDevices PROVE AddStays
  BY <1>2 DEF Announce, NewDevices
<1>3. ASSUME DetailsLoaded PROVE AddCreates
  BY <1>3 DEF DetailsLoaded, AddCreates, Later
<1>4. ASSUME Check("add") \/ CreateEnd("add") \/ Created("add") PROVE AddCreates
  BY <1>4 DEF Check, CreateEnd, Created, AfterCreate, CreateStage, AddCreates, Later
<1>5. ASSUME NEW d \in Devices, CreateBegin("add", d) PROVE AddCreates
  BY <1>5 DEF CreateBegin, AddCreates, Later
<1>6. ASSUME Check("boot") \/ CreateEnd("boot") \/ Created("boot") PROVE AddStays
  BY <1>6 DEF Check, CreateEnd, Created
<1>7. ASSUME NEW d \in Devices, CreateBegin("boot", d) PROVE AddStays
  BY <1>7 DEF CreateBegin
<1>8. ASSUME SaveDescriptions("boot") PROVE AddStays
  BY <1>8 DEF SaveDescriptions, D!SaveBegin
<1>9. ASSUME SaveParamsets("boot") PROVE AddStays
  BY <1>9 DEF SaveParamsets, P!SaveBegin
<1>10. ASSUME Start \/ InitClient \/ Restart \/ ClientCreated \/ Stop \/ StopClients \/ ClearCaches
       PROVE  AddStays
  BY <1>10 DEF Start, InitClient, Restart, ClientsStopped, ClientCreated, Stop, StopClients, ClearCaches
<1>11. Stopped \/ Crash => Reset
  BY DEF Stopped, Crash
<1>12. ASSUME UNCHANGED vars PROVE AddStays
  BY <1>12 DEF vars
<1> QED
  BY <1>1, <1>2, <1>3, <1>4, <1>5, <1>6, <1>7, <1>8, <1>9, <1>10, <1>11, <1>12
     DEF Next, Backend, Add, Boot, Shared, Saves, Wipes

---------------------------------------------------------------------------
(* Without a removal, a crash and clear_caches, the caches only grow. *)

Grows == Spared({"unpair", "crash", "clear"})

LeqD == {cc \in Contents \X Contents : Described(cc[1]) \subseteq Described(cc[2])}
LeqP == {cc \in Paramsets \X Paramsets : (cc[1].key => cc[2].key) /\ cc[1].of \subseteq cc[2].of}

LEMMA OrderD ==
  /\ \A b, c : <<b, c>> \in LeqD <=>
       b \in Contents /\ c \in Contents /\ Described(b) \subseteq Described(c)
  /\ \A c \in Contents : <<c, c>> \in LeqD
  /\ \A b, c, d \in Contents \cup {NoDescr} :
       <<b, c>> \in LeqD /\ <<c, d>> \in LeqD => <<b, d>> \in LeqD
BY EmptyContents DEF LeqD

LEMMA OrderP ==
  /\ \A b, c : <<b, c>> \in LeqP <=>
       b \in Paramsets /\ c \in Paramsets /\ (b.key => c.key) /\ b.of \subseteq c.of
  /\ \A c \in Paramsets : <<c, c>> \in LeqP
  /\ \A b, c, d \in Paramsets \cup {NoParam} :
       <<b, c>> \in LeqP /\ <<c, d>> \in LeqP => <<b, d>> \in LeqP
  /\ \A c \in Paramsets : <<c, Untyped(c)>> \in LeqP /\ <<Untyped(c), c>> \in LeqP
  /\ \A b, c : <<b, c>> \in LeqP /\ <<c, b>> \in LeqP => b.key = c.key /\ b.of = c.of
<1>1. \A b, c : <<b, c>> \in LeqP <=>
        b \in Paramsets /\ c \in Paramsets /\ (b.key => c.key) /\ b.of \subseteq c.of
  BY DEF LeqP
<1>2. \A c \in Paramsets : <<c, c>> \in LeqP
  BY <1>1
<1>3. \A b, c, d : <<b, c>> \in LeqP /\ <<c, d>> \in LeqP => <<b, d>> \in LeqP
  <2> SUFFICES ASSUME NEW b, NEW c, NEW d, <<b, c>> \in LeqP, <<c, d>> \in LeqP
               PROVE  <<b, d>> \in LeqP
    OBVIOUS
  <2>1. b \in Paramsets /\ d \in Paramsets /\ b.of \subseteq d.of
    BY <1>1
  <2>2. b.key => d.key
    BY <1>1
  <2> QED
    BY <1>1, <2>1, <2>2
<1>4. \A b, c : <<b, c>> \in LeqP /\ <<c, b>> \in LeqP => b.key = c.key /\ b.of = c.of
  <2> SUFFICES ASSUME NEW b, NEW c, <<b, c>> \in LeqP, <<c, b>> \in LeqP
               PROVE  b.key = c.key /\ b.of = c.of
    OBVIOUS
  <2>0. b \in Paramsets /\ c \in Paramsets /\ b.of \subseteq c.of /\ c.of \subseteq b.of
    BY <1>1
  <2>1. b.of = c.of
    BY <2>0
  <2>2. b.key <=> c.key
    BY <1>1
  <2>3. b.key \in BOOLEAN /\ c.key \in BOOLEAN
    BY <2>0 DEF Paramsets
  <2>4. b.key = c.key
    BY <2>2, <2>3
  <2> QED
    BY <2>1, <2>4
<1>5. \A c \in Paramsets : <<c, Untyped(c)>> \in LeqP /\ <<Untyped(c), c>> \in LeqP
  BY <1>1, StoredAre DEF Untyped
<1> QED
  BY <1>1, <1>2, <1>3, <1>4, <1>5

\* A file that is neither above nor below the dictionary is that of the dictionary.
LEMMA FileOfMem ==
    ASSUME Base, <<pMem, pDisk.of>> \in LeqP, <<pDisk.of, pMem>> \in LeqP
    PROVE  pDisk.of = Untyped(pMem)
<1>1. pDisk.of.key = pMem.key /\ pDisk.of.of = pMem.of
  BY OrderP
<1>2. pDisk.of = Untyped(pDisk.of)
  BY DEF Base, PC!Dumped
<1> QED
  BY <1>1, <1>2 DEF Untyped

Ending == at["boot"] \in StopStages \cup {"ending"}

\* Once the descriptions are loaded: the last hash saved, the file and the
\* dictionary grow one after the other, and until stop() the file is that of the
\* hash, because the only save is that of the add, which changes nothing
\* meanwhile.
GrownD == ~DUnloaded =>
  /\ DC!Chain(LeqD)
  /\ ~Ending => DC!Exact
  /\ at["add"] = "dSaving" => dHash["add"] = dMem

\* The paramsets only grow as long as the clients are not restarted.
Steady == Spared({"restart"})

GrownP == ~PUnloaded => PC!Chain(LeqP)

Grown == Grows => GrownD /\ (Steady => GrownP)

Known == Base /\ Files /\ Booting /\ NoRemoval

LEMMA GrowingSteps ==
    ASSUME Known, [Next]_vars, Grows'
    PROVE  /\ Grows /\ Gentle /\ Gentle' /\ Spared({"unpair"})
           /\ ~Wipes /\ ~DeleteDevices /\ ~Crash
           /\ OrdinarySteps \/ (Stopped /\ Reset)
<1>1. Grows /\ Gentle /\ Gentle' /\ Spared({"unpair"})
  <2>1. Gentle' /\ Grows
    BY TroublesGrow DEF Grows, Gentle, Spared
  <2> QED
    BY <2>1 DEF Grows, Gentle, Spared
<1>2. OrdinarySteps \/ (Stopped /\ Reset)
  BY <1>1, GentleSteps DEF Known
<1>3. ~Crash
  BY <1>1, TroublesGrow DEF Gentle, Spared
<1>4. ~Wipes
  <2>1. at["user"] = "idle" /\ at["boot"] \notin {"dWipe", "pWipe"}
    BY <1>1 DEF Known, Base, Linked, Placed, Files, Gentle, Spared
  <2> QED
    BY <2>1 DEF Wipes, Wipe
<1> QED
  BY <1>1, <1>2, <1>3, <1>4, NoDelete DEF Known

\* The first load takes what the files hold.
LEMMA FirstLoadD ==
    ASSUME Known, [Next]_vars, Grows', DUnloaded, ~DUnloaded'
    PROVE  /\ LoadDescriptions /\ at'["boot"] = "pLoad"
           /\ dMem' = dDisk.of /\ dSaved' = dDisk.of /\ dDisk' = dDisk
           /\ known' = Described(dMem')
           /\ at["add"] = "idle" /\ at'["add"] = "idle" /\ Fresh'
<1>1. LoadDescriptions /\ Gentle
  <2>1. Fresh
    BY DEF DUnloaded
  <2> QED
    BY <2>1, FreshKept, GrowingSteps DEF Known
<1>2. /\ at \in [Procs -> Stages] /\ at["add"] = "idle" /\ known = {}
      /\ dMem = NoDescr /\ dSaved = NoDescr /\ Fresh
  BY DEF DUnloaded, Fresh, Known, Base, Typed, Types
<1>3. at'["boot"] # "check" /\ Fresh'
  <2>1. at'["boot"] # "check"
    BY <1>1, <1>2, ProcsAre DEF LoadDescriptions, AfterLoad, Goto
  <2> QED
    BY <1>2, <2>1, FreshKept, GrowingSteps DEF Known
<1>4. at'["boot"] = "pLoad"
  <2>1. at'["boot"] \in {"dLoading", "pLoad"}
    BY <1>1, <1>2, ReadsWhole, ProcsAre DEF Known, LoadDescriptions, AfterLoad, Goto
  <2> QED
    BY <2>1, <1>3 DEF DUnloaded, Fresh, LoadStages
<1>5. CASE at["boot"] = "dLoad" /\ dDisk = D!Absent
  BY <1>1, <1>2, <1>3, <1>4, <1>5, DescribedEmpty
     DEF LoadDescriptions, AfterLoad, D!Absent, Indexed, dVars, D!LoadRead
<1>6. CASE at["boot"] = "dLoading" /\ dDisk # D!Cut
  <2>1. D!LoadRead("boot") /\ known' = Described(dMem')
    BY <1>1, <1>2, <1>6, ReadsWhole DEF Known, LoadDescriptions, Indexed
  <2>2. dMem' = dDisk.of /\ dSaved' = dDisk.of /\ dDisk' = dDisk
    <3>1. CASE dDisk = D!Absent
      BY <1>2, <2>1, <3>1 DEF D!LoadRead, D!Absent
    <3>2. CASE dDisk # D!Absent
      <4>1. dDisk.file = "whole"
        BY <1>6, <3>2, FilesAre, DC!FileKinds DEF Known, Base, Typed
      <4> QED
        BY <1>2, <2>1, <4>1 DEF D!LoadRead
    <3> QED
      BY <3>1, <3>2
  <2> QED
    BY <1>1, <1>2, <1>3, <1>4, <2>1, <2>2 DEF Fresh
<1>7. /\ at["boot"] \in {"dLoad", "dLoading"}
      /\ ~(at["boot"] = "dLoad" /\ dDisk # D!Absent)
      /\ at["boot"] = "dLoading" => dDisk # D!Cut
  <2>1. ~(at["boot"] = "dLoad" /\ dDisk # D!Absent)
    BY <1>1, <1>2, <1>4, ProcsAre DEF LoadDescriptions, AfterLoad, Goto
  <2> QED
    BY <1>1, <2>1, ReadsWhole DEF LoadDescriptions, AfterLoad, Known
<1> QED
  BY <1>5, <1>6, <1>7

LEMMA FirstLoadP ==
    ASSUME Known, [Next]_vars, Grows', Fresh, ~Fresh'
    PROVE  /\ LoadParamsets /\ at'["boot"] = "check" /\ ~DUnloaded
           /\ pMem' = pDisk.of /\ pSaved' = pDisk.of /\ pDisk' = pDisk
           /\ dMem' = dMem /\ dDisk' = dDisk
           /\ at["add"] = "idle" /\ at'["add"] = "idle"
<1>1. LoadParamsets /\ at'["boot"] = "check" /\ Gentle
  BY FreshKept, GrowingSteps DEF Known
<1>2. /\ at \in [Procs -> Stages] /\ at["add"] = "idle"
      /\ pMem = NoParam /\ pSaved = NoParam
  BY DEF Fresh, Known, Base, Typed, Types
<1>3. /\ dMem' = dMem /\ dDisk' = dDisk /\ at'["add"] = "idle"
      /\ at["boot"] \in {"pLoad", "pLoading"}
  BY <1>1, <1>2, ProcsAre DEF LoadParamsets, AfterLoad, dVars, Goto
<1>4. ~DUnloaded
  BY <1>3 DEF DUnloaded
<1>5. CASE at["boot"] = "pLoad"
  <2>1. pDisk = P!Absent
    BY <1>1, <1>2, <1>5, ProcsAre DEF LoadParamsets, AfterLoad, Goto
  <2> QED
    BY <1>1, <1>2, <1>3, <1>4, <1>5, <2>1 DEF LoadParamsets, AfterLoad, pVars, P!Absent
<1>6. CASE at["boot"] = "pLoading"
  <2>1. P!LoadRead("boot") /\ pDisk # P!Cut
    BY <1>1, <1>2, <1>6, ReadsWhole DEF LoadParamsets, AfterLoad, Known
  <2>2. pMem' = pDisk.of /\ pSaved' = pDisk.of /\ pDisk' = pDisk
    <3>1. CASE pDisk = P!Absent
      BY <1>2, <2>1, <3>1 DEF P!LoadRead, P!Absent
    <3>2. CASE pDisk # P!Absent
      <4>1. pDisk.file = "whole"
        BY <2>1, <3>2, FilesAre, PC!FileKinds DEF Known, Base, Typed
      <4> QED
        BY <1>2, <2>1, <4>1 DEF P!LoadRead
    <3> QED
      BY <3>1, <3>2
  <2> QED
    BY <1>1, <1>2, <1>3, <1>4, <2>2
<1> QED
  BY <1>3, <1>5, <1>6

\* A load into a process that has loaded before finds what it has saved.
LEMMA ReloadD ==
    ASSUME Known, GrownD, Gentle, ~DUnloaded, LoadDescriptions
    PROVE  dMem' = dMem /\ dSaved' = dSaved /\ dDisk' = dDisk
<1>1. at["boot"] \in {"dLoad", "dLoading"}
  BY DEF LoadDescriptions, AfterLoad
<1>2. dDisk # D!Cut => dDisk.of = dSaved
  BY <1>1, FilesAre DEF GrownD, Ending, StopStages, DC!Exact
<1>3. at["boot"] = "dLoading" => dDisk # D!Cut
  BY ReadsWhole DEF Known
<1>4. dDisk' = dDisk
  BY DEF LoadDescriptions, AfterLoad, dVars, D!LoadBegin, D!LoadRead
<1>5. CASE at["boot"] = "dLoading"
  BY <1>2, <1>3, <1>4, <1>5 DEF LoadDescriptions, AfterLoad, D!LoadRead
<1>6. CASE at["boot"] = "dLoad"
  BY <1>4, <1>6 DEF LoadDescriptions, AfterLoad, D!LoadBegin, dVars
<1> QED
  BY <1>1, <1>5, <1>6

\* Without a restart, what is loaded goes into a process that has nothing.
LEMMA LoadsFresh ==
    ASSUME Known, Gentle, Steady, LoadParamsets \/ LoadDescriptions
    PROVE  PUnloaded
<1>1. at["boot"] \in LoadStages
  BY DEF LoadParamsets, LoadDescriptions, LoadStages
<1> QED
  BY <1>1 DEF Known, Booting, Steady, PUnloaded

LEMMA AfterStop ==
    ASSUME Known, [Next]_vars, Grows', Stopped
    PROVE  DUnloaded' /\ Fresh'
<1>1. at'["boot"] = "off"
  BY AtReset, ProcsAre DEF Stopped
<1>2. Booting' /\ Gentle'
  BY BootingKept, GrowingSteps DEF Known
<1> QED
  BY <1>1, <1>2 DEF Booting, DUnloaded, Fresh

\* The hash of the add's save is that of the dictionary.
LEMMA AddHashD ==
    ASSUME Known, [Next]_vars, Grows', at["add"] = "dSaving" => dHash["add"] = dMem,
           ~DUnloaded, GrownD, at'["add"] = "dSaving", ~Stopped
    PROVE  dHash'["add"] = dMem'
<1>0. /\ at \in [Procs -> Stages] /\ dHash \in [Procs -> Contents]
  BY DEF Known, Base, Typed, Types, DC!TypeOK
<1> USE <1>0, ProcsAre DEF Goto
<1>1. CASE AddStays
  BY <1>1 DEF AddStays, CachesStay
<1>2. CASE SaveDescriptions("add")
  BY <1>2 DEF SaveDescriptions, D!SaveBegin
<1>3. CASE Saves("add")
  BY <1>3 DEF Saves, SavingDescriptions, SavingParamsets, D!SaveWake, D!SaveOpen, loopVars, AfterSave
<1>4. CASE Saves("boot")
  <2>1. dMem' = dMem /\ dHash'["add"] = dHash["add"] /\ at'["add"] = at["add"]
    BY <1>4 DEF Saves, SavingDescriptions, SavingParamsets, D!SaveWake, D!SaveOpen, D!SaveWrite,
                loopVars, dVars
  <2> QED
    BY <2>1
<1>5. CASE LoadDescriptions
  <2>1. dMem' = dMem /\ dHash' = dHash /\ at'["add"] = at["add"]
    BY <1>5, ReloadD, GrowingSteps DEF LoadDescriptions, AfterLoad, D!LoadBegin, D!LoadRead, dVars
  <2> QED
    BY <2>1
<1>6. CASE LoadParamsets
  BY <1>6 DEF LoadParamsets, AfterLoad, dVars
<1>7. ~(AddCreates \/ AddBegin \/ DescribedAll \/ Fetched \/ FetchFailed \/ SaveParamsets("add")
        \/ \E d \in Devices : AddDescription(d))
  BY DEF AddCreates, Later, AddBegin, DescribedAll, Fetched, FetchFailed, FetchEnds, SaveParamsets,
         AddDescription, AfterSave, loopVars
<1> QED
  BY <1>1, <1>2, <1>3, <1>4, <1>5, <1>6, <1>7, StepKinds, GrowingSteps DEF Known, Base

LEMMA MemGrowsD ==
    ASSUME Known, [Next]_vars, Grows', GrownD, ~Stopped
    PROVE  Described(dMem) \subseteq Described(dMem')
<1>1. CASE DUnloaded
  BY <1>1, DescribedEmpty DEF DUnloaded, Fresh
<1>2. CASE ~DUnloaded
  <2>1. ASSUME NEW d \in Devices, AddDescription(d) PROVE Described(dMem') = Described(dMem) \cup {d}
    <3>1. dMem \in Contents /\ dMem' = With(dMem, d)
      BY <2>1 DEF AddDescription, D!Change, Known, Base, Typed, DC!TypeOK
    <3> QED
      BY <3>1, WithIs
  <2>2. LoadDescriptions => dMem' = dMem
    BY <1>2, ReloadD, GrowingSteps
  <2>3. AddStays \/ AddCreates \/ AddBegin \/ DescribedAll \/ Fetched \/ FetchFailed => dMem' = dMem
    BY DEF AddStays, AddCreates, CachesStay, AddBegin, DescribedAll, Fetched, FetchFailed, FetchEnds,
           cacheVars, dVars
  <2>4. SaveDescriptions("add") \/ SaveParamsets("add") \/ LoadParamsets => dMem' = dMem
    BY DEF SaveDescriptions, SaveParamsets, LoadParamsets, AfterLoad, D!SaveBegin, dVars
  <2>5. Saves("add") \/ Saves("boot") => dMem' = dMem
    BY DEF Saves, SavingDescriptions, SavingParamsets, D!SaveWake, D!SaveOpen, D!SaveWrite, dVars
  <2> QED
    BY <2>1, <2>2, <2>3, <2>4, <2>5, StepKinds, GrowingSteps DEF Known, Base
<1> QED
  BY <1>1, <1>2

LEMMA MemGrowsP ==
    ASSUME Known, [Next]_vars, Grows', Steady, ~PUnloaded, ~Stopped
    PROVE  (pMem.key => pMem'.key) /\ pMem.of \subseteq pMem'.of
<1>1. Fetched => pMem'.key /\ pMem.of \subseteq pMem'.of
  BY DEF Fetched, P!Change
<1>2. ~LoadParamsets
  BY LoadsFresh, GrowingSteps
<1>3. AddStays \/ AddCreates \/ AddBegin \/ DescribedAll \/ FetchFailed => pMem' = pMem
  BY DEF AddStays, AddCreates, CachesStay, AddBegin, DescribedAll, FetchFailed, cacheVars, pVars
<1>4. SaveDescriptions("add") \/ SaveParamsets("add") \/ LoadDescriptions => pMem' = pMem
  BY DEF SaveDescriptions, SaveParamsets, LoadDescriptions, AfterLoad, P!SaveBegin, pVars
<1>5. Saves("add") \/ Saves("boot") => pMem' = pMem
  BY DEF Saves, SavingDescriptions, SavingParamsets, P!SaveWake, P!SaveOpen, P!SaveWrite, pVars
<1>6. \A d \in Devices : AddDescription(d) => pMem' = pMem
  BY DEF AddDescription, pVars
<1> QED
  BY <1>1, <1>2, <1>3, <1>4, <1>5, <1>6, StepKinds, GrowingSteps DEF Known, Base

LEMMA GrownKeptD == Known /\ GrownD /\ [Next]_vars /\ Grows' => GrownD'
<1> SUFFICES ASSUME Known, GrownD, [Next]_vars, Grows', ~DUnloaded' PROVE GrownD'
  BY DEF GrownD
<1>0. ~Stopped
  BY AfterStop
<1>1. OrdinarySteps /\ Gentle /\ Gentle' /\ ~Crash
  BY <1>0, GrowingSteps
<1>2. /\ Typed /\ Typed' /\ Linked /\ Linked' /\ at["user"] = "idle" /\ at'["user"] = "idle"
  <2>1. Typed' /\ Linked'
    BY TypedKept, LinkedKept DEF Known, Base
  <2> QED
    BY <1>1, <2>1 DEF Known, Base, Linked, Placed, Gentle, Spared
<1>3. CASE DUnloaded
  <2>1. /\ dMem' = dDisk'.of /\ dSaved' = dDisk'.of
        /\ at'["boot"] = "pLoad" /\ at'["add"] = "idle"
    BY <1>3, FirstLoadD
  <2>2. \A p \in Procs : dIo'[p] \notin {"wait", "open", "write"}
    BY <1>2, <2>1 DEF Linked, InCache, Procs
  <2>3. dMem' \in Contents
    BY <1>2 DEF Typed, DC!TypeOK
  <2> QED
    BY <2>1, <2>2, <2>3, OrderD DEF GrownD, DC!Chain, DC!Exact
<1>4. CASE ~DUnloaded
  <2>1. <<dMem, dMem'>> \in LeqD /\ dMem' \in Contents
    BY <1>0, <1>2, MemGrowsD, OrderD DEF Typed, DC!TypeOK
  <2>3. DC!TypeOK /\ DC!OneHolder /\ DC!CutWhileWriting /\ DC!Ordinary /\ DC!Chain(LeqD)
    BY <1>1, <1>4 DEF Known, Base, Typed, Files, GrownD, OrdinarySteps
  <2>4. DC!Chain(LeqD)'
    BY <2>1, <2>3, OrderD, StoredAre, DC!ChainStep
  <2>5. ~Ending' => DC!Exact'
    <3> SUFFICES ASSUME ~Ending' PROVE DC!Exact'
      OBVIOUS
    <3>1. ~Ending
      BY <1>0, <1>1, <1>2, BootMoves DEF Ending, Typed, Linked
    <3>2. \A p \in Procs : DC!SaveWrite(p) => dHash[p] = dMem
      <4> SUFFICES ASSUME NEW p \in Procs, dIo[p] = "write" PROVE dHash[p] = dMem
        BY DEF DC!SaveWrite
      <4>1. at[p] = "dSaving"
        BY <1>2 DEF Linked, InCache
      <4>2. p = "add"
        BY <1>2, <3>1, <4>1 DEF Procs, Ending, StopStages
      <4> QED
        BY <1>4, <4>1, <4>2 DEF GrownD
    <3> QED
      BY <1>4, <2>3, <3>1, <3>2, StoredAre, DC!ExactStep DEF GrownD
  <2>6. at'["add"] = "dSaving" => dHash'["add"] = dMem'
    BY <1>0, <1>4, AddHashD DEF GrownD
  <2> QED
    BY <2>4, <2>5, <2>6 DEF GrownD
<1> QED
  BY <1>3, <1>4

LEMMA GrownKeptP == Known /\ GrownP /\ [Next]_vars /\ Grows' /\ Steady => GrownP'
<1> SUFFICES ASSUME Known, GrownP, [Next]_vars, Grows', Steady, ~PUnloaded' PROVE GrownP'
  BY DEF GrownP
<1>0. ~Stopped
  BY AfterStop DEF PUnloaded
<1>1. OrdinarySteps /\ Gentle /\ Gentle' /\ ~Crash
  BY <1>0, GrowingSteps
<1>2. /\ Typed /\ Typed' /\ Linked /\ Linked' /\ at["user"] = "idle" /\ at'["user"] = "idle"
  <2>1. Typed' /\ Linked'
    BY TypedKept, LinkedKept DEF Known, Base
  <2> QED
    BY <1>1, <2>1 DEF Known, Base, Linked, Placed, Gentle, Spared
<1>3. CASE PUnloaded
  <2>1. /\ pMem' = pDisk'.of /\ pSaved' = pDisk'.of
        /\ at'["boot"] = "check" /\ at'["add"] = "idle"
    BY <1>3, FirstLoadP DEF PUnloaded
  <2>2. \A p \in Procs : pIo'[p] \notin {"wait", "open", "write"}
    BY <1>2, <2>1 DEF Linked, InCache, Procs
  <2>3. pMem' \in Paramsets
    BY <1>2 DEF Typed, PC!TypeOK
  <2> QED
    BY <2>1, <2>2, <2>3, OrderP DEF GrownP, PC!Chain
<1>4. CASE ~PUnloaded
  <2>1. <<pMem, pMem'>> \in LeqP /\ pMem' \in Paramsets
    BY <1>0, <1>2, <1>4, MemGrowsP, OrderP DEF Typed, PC!TypeOK
  <2>3. PC!TypeOK /\ PC!OneHolder /\ PC!CutWhileWriting /\ PC!Ordinary /\ PC!Chain(LeqP)
    BY <1>1, <1>4 DEF Known, Base, Typed, Files, GrownP, OrdinarySteps
  <2>4. PC!Chain(LeqP)'
    BY <2>1, <2>3, OrderP, StoredAre, PC!ChainStep
  <2> QED
    BY <2>4 DEF GrownP
<1> QED
  BY <1>3, <1>4

LEMMA GrownKept == Known /\ Grown /\ [Next]_vars => Grown'
<1> SUFFICES ASSUME Known, Grown, [Next]_vars, Grows' PROVE Grown'
  BY DEF Grown
<1>1. Grows /\ (Steady' => Steady)
  BY GrowingSteps, TroublesGrow DEF Steady
<1> QED
  BY <1>1, GrownKeptD, GrownKeptP DEF Grown

LEMMA AlwaysGrown == Spec => [](Known /\ Grown)
<1>1. Init => Files /\ Booting /\ NoRemoval /\ Grown
  <2> SUFFICES ASSUME Init PROVE Files /\ Booting /\ NoRemoval /\ Grown
    OBVIOUS
  <2>1. /\ at = [p \in Procs |-> IF p = "boot" THEN "off" ELSE "idle"]
        /\ dIo = [p \in Procs |-> "idle"] /\ pIo = [p \in Procs |-> "idle"]
        /\ dDisk = D!Absent /\ pDisk = P!Absent
        /\ dMem = NoDescr /\ dSaved = NoDescr /\ pMem = NoParam /\ pSaved = NoParam
        /\ registered = FALSE /\ inbox = <<>> /\ queue = <<>> /\ known = {} /\ paired = {}
    BY DEF Init, NewProcess, D!Init, P!Init, D!Fresh, P!Fresh
  <2>2. Fresh /\ DUnloaded
    BY <2>1, ProcsAre DEF Fresh, DUnloaded
  <2>3. Files
    BY <2>1, ProcsAre, FilesAre, DC!FileKinds, PC!FileKinds
       DEF Files, DC!CutWhileWriting, PC!CutWhileWriting
  <2>4. Booting
    BY <2>1, <2>2, ProcsAre DEF Booting, LoadStages
  <2>5. NoRemoval
    BY <2>1, ProcsAre, DescribedEmpty, SeqFacts DEF NoRemoval, D!Absent
  <2> QED
    BY <2>2, <2>3, <2>4, <2>5 DEF Grown, GrownD, GrownP, PUnloaded
<1>2. Base /\ Files /\ Booting /\ NoRemoval /\ Grown /\ [Next]_vars
        => (Files /\ Booting /\ NoRemoval /\ Grown)'
  BY FilesKept, BootingKept, NoRemovalKept, GrownKept DEF Known
<1>3. Base /\ Files /\ Booting /\ NoRemoval /\ Grown <=> Known /\ Grown
  BY DEF Known
<1> QED
  BY <1>1, <1>2, <1>3, AlwaysBase, PTL DEF Spec

\* data_changed: where nobody is near the file and the hash says there is
\* nothing to save, the file holds what the dictionary holds, however the saves
\* of an add and of stop() overlap; for the descriptions also however often the
\* clients are restarted.  The hash taken before the semaphore is never that of
\* a later dictionary.
THEOREM NothingToSave ==
  Spec => [](/\ Started /\ Grows => UnchangedDescriptions
             /\ Spared({"restart"}) => UnchangedMeansStored)
<1>1. Known /\ Grown => /\ Started /\ Grows => UnchangedDescriptions
                        /\ Spared({"restart"}) => UnchangedMeansStored
  <2> SUFFICES ASSUME Known, Grown, Started, Grows
               PROVE  UnchangedDescriptions /\ (Steady => UnchangedParamsets)
    BY DEF UnchangedMeansStored, Grows, Steady
  <2>1. Gentle /\ ~Fresh
    BY DEF Gentle, Grows, Spared, Started, Fresh, LoadStages
  <2>2. GrownD /\ (Steady => GrownP)
    BY DEF Grown
  <2>3. ASSUME D!Holders = {}, ~D!Dirty PROVE Described(dDisk.of) = Described(dMem)
    <3>1. dDisk # DC!Cut
      BY <2>1, <2>3 DEF Known, Files, DC!CutWhileWriting, D!Holders
    <3>2. DC!Chain(LeqD) /\ dMem = dSaved
      BY <2>1, <2>2, <2>3 DEF GrownD, DUnloaded, D!Dirty
    <3>3. <<dSaved, dDisk.of>> \in LeqD /\ <<dDisk.of, dMem>> \in LeqD
      BY <3>1, <3>2 DEF DC!Chain
    <3>4. Described(dDisk.of) \subseteq Described(dMem) /\ Described(dMem) \subseteq Described(dDisk.of)
      BY <3>2, <3>3, OrderD
    <3> QED
      BY <3>4
  <2>4. ASSUME Steady, P!Holders = {}, ~P!Dirty PROVE pDisk.of = Untyped(pMem)
    <3>1. pDisk # PC!Cut
      BY <2>1, <2>4 DEF Known, Files, PC!CutWhileWriting, P!Holders
    <3>2. <<pSaved, pDisk.of>> \in LeqP /\ <<pDisk.of, pMem>> \in LeqP /\ pMem = pSaved
      BY <2>1, <2>2, <2>4, <3>1 DEF GrownP, PUnloaded, PC!Chain, P!Dirty
    <3> QED
      BY <3>2, FileOfMem DEF Known
  <2> QED
    BY <2>3, <2>4 DEF UnchangedDescriptions, UnchangedParamsets
<1> QED
  BY <1>1, AlwaysGrown, PTL

---------------------------------------------------------------------------
(* The index. *)

LEMMA IndexKept == Known /\ Grown /\ IndexAgrees /\ [Next]_vars => IndexAgrees'
<1> SUFFICES ASSUME Known, Grown, IndexAgrees, [Next]_vars, Ordered', Gentle'
             PROVE  known' = Described(dMem')
  BY DEF IndexAgrees, Gentle
<1>1. /\ Gentle /\ Ordered /\ known = Described(dMem) /\ ~Crash /\ ~Wipes
  <2>1. Gentle /\ Ordered /\ ~Crash
    BY TroublesGrow DEF Gentle, Ordered, Spared
  <2>2. ~Wipes
    <3>1. at["user"] = "idle" /\ at["boot"] \notin {"dWipe", "pWipe"}
      BY <2>1 DEF Known, Base, Linked, Placed, Files, Gentle, Spared
    <3> QED
      BY <3>1 DEF Wipes, Wipe
  <2> QED
    BY <2>1, <2>2 DEF IndexAgrees, Gentle
<1>2. dMem \in Contents
  BY DEF Known, Base, Typed, DC!TypeOK
<1>3. CASE DeleteDevices
  <2> DEFINE gone == Removable(Head(inbox).of)
  <2>1. CASE gone = {}
    BY <1>1, <1>3, <2>1 DEF DeleteDevices, cacheVars, dVars
  <2>2. CASE gone # {}
    <3>1. dMem' = Without(dMem, gone) /\ known' = known \ gone
      BY <1>3, <2>2 DEF DeleteDevices, D!Change
    <3> QED
      BY <1>1, <1>2, <3>1, WithoutIs
  <2> QED
    BY <2>1, <2>2
<1>4. ASSUME NEW d \in Devices, AddDescription(d) PROVE known' = Described(dMem')
  <2>1. dMem' = With(dMem, d) /\ known' = known \cup {d}
    BY <1>4 DEF AddDescription, D!Change
  <2> QED
    BY <1>1, <1>2, <2>1, WithIs
<1>5. CASE LoadDescriptions
  <2>1. CASE DUnloaded
    <3>1. known = {} /\ Described(dMem) = {}
      BY <2>1, DescribedEmpty DEF DUnloaded, Fresh
    <3>2. \/ known' = known \cup Described(dMem')
          \/ known' = known /\ dMem' = dMem
          \/ known' = known \cup Described(dMem) /\ dMem' = dMem
      <4>1. at["boot"] = "dLoading" => dDisk.file = "whole"
        BY <1>1, ReadsWhole DEF Known
      <4> QED
        BY <1>5, <4>1 DEF LoadDescriptions, AfterLoad, D!LoadBegin, Indexed, dVars
    <3> QED
      BY <1>1, <3>1, <3>2
  <2>2. CASE ~DUnloaded
    <3>1. at["boot"] \in {"dLoad", "dLoading"}
      BY <1>5 DEF LoadDescriptions, AfterLoad
    <3>2. ~Spared({"restart"})
      BY <1>1, <2>2, <3>1 DEF Known, Booting, DUnloaded, LoadStages
    <3>3. Grows
      BY <1>1, <3>2 DEF Ordered, Gentle, Grows, Spared
    <3>4. dMem' = dMem
      BY <1>1, <1>5, <2>2, <3>3, ReloadD DEF Grown
    <3>5. known' \in {known, known \cup Described(dMem), known \cup Described(dMem')}
      BY <1>5 DEF LoadDescriptions, AfterLoad, Indexed
    <3> QED
      BY <1>1, <3>4, <3>5
  <2> QED
    BY <2>1, <2>2
<1>6. CASE (Stopped \/ Crash) /\ Reset
  BY <1>6, DescribedEmpty DEF Reset, D!Crash, NewProcess
<1>7. CASE AddStays \/ AddCreates \/ AddBegin \/ DescribedAll \/ Fetched \/ FetchFailed
  <2>1. dMem' = dMem /\ known' = known
    BY <1>7 DEF AddStays, AddCreates, CachesStay, AddBegin, DescribedAll, Fetched, FetchFailed,
                FetchEnds, cacheVars, dVars
  <2> QED
    BY <1>1, <2>1
<1>8. CASE SaveDescriptions("add") \/ SaveParamsets("add") \/ LoadParamsets
           \/ Saves("add") \/ Saves("boot")
  <2>1. dMem' = dMem /\ known' = known
    BY <1>8 DEF SaveDescriptions, SaveParamsets, LoadParamsets, AfterLoad, Saves, SavingDescriptions,
                SavingParamsets, D!SaveBegin, D!SaveWake, D!SaveOpen, D!SaveWrite, dVars
  <2> QED
    BY <1>1, <2>1
<1> QED
  BY <1>1, <1>3, <1>4, <1>5, <1>6, <1>7, <1>8, StepKinds DEF Known, Base

LEMMA AlwaysIndexed == Spec => [](Known /\ Grown /\ IndexAgrees)
<1>1. Init => IndexAgrees
  BY DescribedEmpty DEF Init, NewProcess, D!Init, D!Fresh, IndexAgrees
<1>2. Known /\ Grown /\ IndexAgrees /\ [Next]_vars => IndexAgrees'
  BY IndexKept
<1> QED
  BY <1>1, <1>2, AlwaysGrown, PTL DEF Spec

\* _addresses and the list of raw descriptions, written side by side by adds,
\* removals and loads, describe the same devices.
THEOREM IndexTrue == Spec => []IndexAgrees
BY AlwaysIndexed, PTL

---------------------------------------------------------------------------
(* What is created is in the files. *)

\* The file of descriptions follows the dictionary but for an add that has not
\* saved it yet, that of paramsets but for one that has fetched some.
StoredD ==
  ~DUnloaded /\ at["add"] \notin {"describe", "fetch", "dSave", "dSaving"} =>
    dDisk = D!Cut \/ Described(dDisk.of) = Described(dMem)

Unsaved == at["add"] \in {"describe", "fetch", "dSave", "dSaving", "pSave", "pSaving"} /\ fetched

StoredP == ~PUnloaded => Unsaved \/ pDisk = P!Cut \/ pDisk.of = Untyped(pMem)

\* Only described devices are created.
FromIndex == devices \cup Making \subseteq Described(dMem)

Fetching == IF at["add"] = "fetch" THEN cur["add"] ELSE {}

\* Without a failed fetch, a described device has its paramsets or is the one
\* they are fetched for; so has every device of the files once the add is over.
Paramsetted ==
  /\ ~PUnloaded => Described(dMem) \subseteq pMem.of \cup Fetching
  /\ at["add"] = "idle" /\ dDisk # D!Cut /\ pDisk # P!Cut => Described(dDisk.of) \subseteq pDisk.of.of
  /\ at["add"] \in {"describe", "fetch"} => before \subseteq Described(dMem)

Stored == Grows =>
  /\ StoredD /\ FromIndex
  /\ Steady => StoredP /\ (Spared({"fault"}) => Paramsetted)

Settled == Known /\ Grown /\ IndexAgrees

\* What the saves of a coroutine do to the caches.
LEMMA SavesAre ==
    ASSUME Known, Gentle, NEW p \in {"add", "boot"}, Saves(p)
    PROVE  /\ dMem' = dMem /\ pMem' = pMem
           /\ dDisk' = dDisk \/ dDisk' = D!Cut \/ dDisk' = D!Whole(dMem)
           /\ pDisk' = pDisk \/ pDisk' = P!Cut \/ pDisk' = P!Whole(Untyped(pMem))
           /\ at'["add"] # at["add"] => \/ at["add"] = "dSaving" /\ at'["add"] = "pSave"
                                           /\ dDisk' = D!Whole(dMem) /\ pDisk' = pDisk
                                        \/ at["add"] = "pSaving" /\ at'["add"] = "check"
                                           /\ pDisk' = P!Whole(Untyped(pMem)) /\ dDisk' = dDisk
           /\ UNCHANGED <<before, fetched, cur, known>>
<1>0. at \in [Procs -> Stages] /\ p \in Procs
  BY ProcsAre DEF Known, Base, Typed, Types
<1>1. \A q \in Procs : (dIo[q] = "write" => dDisk = D!Cut) /\ (pIo[q] = "write" => pDisk = P!Cut)
  BY FilesAre DEF Known, Files, DC!CutWhileWriting, PC!CutWhileWriting
<1>2. D!Cut # D!Absent /\ P!Cut # P!Absent
  BY FilesAre, DC!FileKinds, PC!FileKinds
<1> USE <1>0, <1>1, <1>2, ProcsAre DEF loopVars, addVars, Goto
<1>3. CASE SavingDescriptions(p)
  <2>1. pMem' = pMem /\ pDisk' = pDisk /\ UNCHANGED <<before, fetched, cur, known>>
        /\ dMem' = dMem
    BY <1>3 DEF SavingDescriptions, D!SaveWake, D!SaveOpen, D!SaveWrite, pVars
  <2>2. \/ at' = at /\ (dDisk' = dDisk \/ dDisk' = D!Cut)
        \/ at[p] = "dSaving" /\ at' = [at EXCEPT ![p] = "pSave"]
           /\ dDisk' = D!Whole(dMem)
    BY <1>3 DEF SavingDescriptions, D!SaveWake, D!SaveOpen, D!SaveWrite, AsIs
  <2> QED
    BY <2>1, <2>2
<1>4. CASE SavingParamsets(p)
  <2>1. dMem' = dMem /\ dDisk' = dDisk /\ UNCHANGED <<before, fetched, cur, known>>
        /\ pMem' = pMem
    BY <1>4 DEF SavingParamsets, P!SaveWake, P!SaveOpen, P!SaveWrite, dVars
  <2>2. \/ at' = at /\ (pDisk' = pDisk \/ pDisk' = P!Cut)
        \/ at[p] = "pSaving" /\ at' = [at EXCEPT ![p] = AfterSave(p)]
           /\ pDisk' = P!Whole(Untyped(pMem))
    BY <1>4 DEF SavingParamsets, P!SaveWake, P!SaveOpen, P!SaveWrite
  <2> QED
    BY <2>1, <2>2 DEF AfterSave
<1> QED
  BY <1>3, <1>4 DEF Saves

LEMMA StoredDKept ==
    ASSUME Settled, StoredD, [Next]_vars, Grows'
    PROVE  StoredD'
<1> SUFFICES ASSUME ~DUnloaded', at'["add"] \notin {"describe", "fetch", "dSave", "dSaving"},
                    dDisk' # D!Cut
             PROVE  Described(dDisk'.of) = Described(dMem')
  BY DEF StoredD, D!Cut
<1>1. Grows /\ Gentle /\ ~Stopped /\ ~Crash /\ ~Wipes /\ ~DeleteDevices /\ Known /\ GrownD
  BY AfterStop, GrowingSteps DEF Settled, Grown
<1>2. CASE DUnloaded
  BY <1>1, <1>2, FirstLoadD
<1>3. CASE ~DUnloaded
  <2>0. /\ at \in [Procs -> Stages] /\ Typed
        /\ at["add"] \notin {"describe", "fetch", "dSave", "dSaving"} =>
             dDisk = D!Cut \/ Described(dDisk.of) = Described(dMem)
    BY <1>1, <1>3 DEF Known, Base, Typed, Types, StoredD
  <2> USE <2>0, ProcsAre DEF Goto
  <2>1. CASE AddStays
    BY <2>1 DEF AddStays, CachesStay
  <2>2. CASE AddCreates
    BY <2>2 DEF AddCreates, CachesStay, Later
  <2>3. CASE AddBegin
    <3>1. dMem' = dMem /\ dDisk' = dDisk /\ at["add"] = "idle"
      BY <2>3 DEF AddBegin, cacheVars, dVars
    <3> QED
      BY <3>1
  <2>4. ~(DescribedAll \/ Fetched \/ FetchFailed \/ \E d \in Devices : AddDescription(d))
    BY DEF DescribedAll, Fetched, FetchFailed, FetchEnds, AddDescription
  <2>5. CASE SaveDescriptions("add")
    <3>1. ~D!Dirty /\ UNCHANGED dVars
      BY <2>5 DEF SaveDescriptions
    <3>2. dMem = dSaved /\ dMem' = dMem /\ dDisk' = dDisk
      BY <3>1 DEF D!Dirty, dVars
    <3>3. DC!Chain(LeqD) /\ dDisk # DC!Cut
      BY <1>1, <1>3, <3>2, FilesAre DEF GrownD
    <3>4. <<dMem, dDisk.of>> \in LeqD /\ <<dDisk.of, dMem>> \in LeqD
      BY <3>2, <3>3 DEF DC!Chain
    <3>5. Described(dDisk.of) \subseteq Described(dMem) /\ Described(dMem) \subseteq Described(dDisk.of)
      BY <3>4, OrderD
    <3>6. Described(dDisk.of) = Described(dMem)
      BY <3>5
    <3> QED
      BY <3>2, <3>6
  <2>6. CASE SaveParamsets("add")
    BY <2>6 DEF SaveParamsets, dVars
  <2>7. ASSUME NEW p \in {"add", "boot"}, Saves(p) PROVE Described(dDisk'.of) = Described(dMem')
    <3>1. D!Whole(dMem).of = dMem
      BY DEF D!Whole
    <3>2. CASE dDisk' = D!Whole(dMem)
      BY <1>1, <2>7, <3>1, <3>2, SavesAre
    <3>3. CASE dDisk' # D!Whole(dMem)
      <4>1. dMem' = dMem /\ dDisk' = dDisk
        BY <1>1, <2>7, <3>3, SavesAre
      <4>2. at["add"] \notin {"describe", "fetch", "dSave", "dSaving"}
        BY <1>1, <2>7, <3>3, SavesAre
      <4> QED
        BY <4>1, <4>2
    <3> QED
      BY <3>2, <3>3
  <2>8. CASE LoadDescriptions
    <3>1. dMem' = dMem /\ dDisk' = dDisk /\ at'["add"] = at["add"]
      BY <1>1, <1>3, <2>8, ReloadD DEF LoadDescriptions, AfterLoad
    <3> QED
      BY <3>1
  <2>9. CASE LoadParamsets
    <3>1. dMem' = dMem /\ dDisk' = dDisk /\ at'["add"] = at["add"]
      BY <2>9 DEF LoadParamsets, AfterLoad, dVars
    <3> QED
      BY <3>1
  <2> QED
    BY <1>1, <2>1, <2>2, <2>3, <2>4, <2>5, <2>6, <2>7, <2>8, <2>9, StepKinds
<1> QED
  BY <1>2, <1>3

LEMMA StoredPKept ==
    ASSUME Settled, StoredP, [Next]_vars, Grows', Steady
    PROVE  StoredP'
<1> SUFFICES ASSUME ~PUnloaded', ~Unsaved', pDisk' # P!Cut
             PROVE  pDisk'.of = Untyped(pMem')
  BY DEF StoredP, P!Cut, Untyped
<1>1. Grows /\ Gentle /\ ~Stopped /\ ~Crash /\ ~Wipes /\ ~DeleteDevices /\ Known /\ GrownP
  BY AfterStop, GrowingSteps DEF Settled, Grown, PUnloaded
<1>2. CASE PUnloaded
  <2>1. pMem' = pDisk.of /\ pDisk' = pDisk
    BY <1>1, <1>2, FirstLoadP DEF PUnloaded
  <2>2. pDisk.of = Untyped(pDisk.of)
    BY <1>1 DEF Known, Base, PC!Dumped
  <2> QED
    BY <2>1, <2>2
<1>3. CASE ~PUnloaded
  <2>0. /\ at \in [Procs -> Stages] /\ Typed /\ fetched \in BOOLEAN
        /\ Unsaved \/ pDisk = P!Cut \/ pDisk.of = Untyped(pMem)
    BY <1>1, <1>3 DEF Known, Base, Typed, Types, Flags, StoredP
  <2> USE <2>0, ProcsAre DEF Goto
  <2>1. CASE AddStays
    BY <2>1 DEF AddStays, CachesStay, Unsaved
  <2>2. CASE AddCreates
    BY <2>2 DEF AddCreates, CachesStay, Later, Unsaved
  <2>3. CASE AddBegin
    <3>1. pMem' = pMem /\ pDisk' = pDisk /\ at["add"] = "idle"
      BY <2>3 DEF AddBegin, cacheVars, pVars
    <3> QED
      BY <3>1 DEF Unsaved
  <2>4. CASE DescribedAll \/ SaveDescriptions("add") \/ \E d \in Devices : AddDescription(d)
    <3>1. /\ pMem' = pMem /\ pDisk' = pDisk /\ fetched' = fetched
          /\ at["add"] \in {"describe", "dSave"}
          /\ at'["add"] \in {"describe", "fetch", "dSave", "dSaving", "pSave"}
      BY <2>4 DEF DescribedAll, SaveDescriptions, AddDescription, cacheVars, pVars, addVars
    <3> QED
      BY <3>1 DEF Unsaved
  <2>5. ~(Fetched \/ FetchFailed)
    BY DEF Fetched, FetchFailed, FetchEnds, Unsaved
  <2>6. CASE SaveParamsets("add")
    <3>1. CASE WantsParamsets("add") /\ P!Dirty
      <4>1. Unsaved'
        BY <2>6, <3>1 DEF SaveParamsets, WantsParamsets, Unsaved, addVars
      <4> QED
        BY <4>1
    <3>2. CASE ~WantsParamsets("add")
      BY <2>6, <3>2 DEF SaveParamsets, WantsParamsets, Unsaved, pVars
    <3>3. CASE ~P!Dirty
      <4>1. pMem = pSaved /\ pMem' = pMem /\ pDisk' = pDisk
        BY <2>6, <3>3 DEF SaveParamsets, P!Dirty, pVars
      <4>2. PC!Chain(LeqP) /\ pDisk # PC!Cut
        BY <1>1, <1>3, <4>1, FilesAre DEF GrownP
      <4>3. <<pMem, pDisk.of>> \in LeqP /\ <<pDisk.of, pMem>> \in LeqP
        BY <4>1, <4>2 DEF PC!Chain
      <4>4. pDisk.of = Untyped(pMem)
        BY <1>1, <4>3, FileOfMem DEF Known
      <4> QED
        BY <4>1, <4>4
    <3> QED
      BY <3>1, <3>2, <3>3
  <2>7. ASSUME NEW p \in {"add", "boot"}, Saves(p) PROVE pDisk'.of = Untyped(pMem')
    <3>1. P!Whole(Untyped(pMem)).of = Untyped(pMem)
      BY DEF P!Whole
    <3>2. CASE pDisk' = P!Whole(Untyped(pMem))
      BY <1>1, <2>7, <3>1, <3>2, SavesAre
    <3>3. CASE pDisk' # P!Whole(Untyped(pMem))
      <4>1. pMem' = pMem /\ pDisk' = pDisk /\ fetched' = fetched
        BY <1>1, <2>7, <3>3, SavesAre
      <4>2. ~Unsaved
        BY <1>1, <2>7, <3>3, <4>1, SavesAre DEF Unsaved
      <4> QED
        BY <4>1, <4>2
    <3> QED
      BY <3>2, <3>3
  <2>8. ~(LoadParamsets \/ LoadDescriptions)
    BY <1>1, <1>3, LoadsFresh
  <2> QED
    BY <1>1, <2>1, <2>2, <2>3, <2>4, <2>5, <2>6, <2>7, <2>8, StepKinds
<1> QED
  BY <1>2, <1>3

LEMMA FromIndexKept ==
    ASSUME Settled, FromIndex, [Next]_vars, Grows'
    PROVE  FromIndex'
<1>1. Grows /\ Gentle /\ ~Crash /\ ~DeleteDevices /\ Known /\ GrownD /\ Types
  BY GrowingSteps DEF Settled, Grown, Known, Base, Typed
<1>2. CASE Stopped \/ Forgets
  <2>1. devices' = {} /\ Made("add")' = {} /\ Made("boot")' = {}
    BY <1>2, AtReset, ProcsAre DEF Stopped, Forgets, Made
  <2> QED
    BY <2>1 DEF FromIndex, Making
<1>3. CASE ~Stopped
  <2>1. Described(dMem) \subseteq Described(dMem')
    BY <1>1, <1>3, MemGrowsD
  <2>2. known = Described(dMem)
    BY <1>1 DEF Settled, IndexAgrees, Ordered, Grows, Gentle, Spared
  <2>3. CASE ObjectsStay /\ MakingStays
    BY <2>1, <2>3 DEF FromIndex, Making, ObjectsStay, MakingStays
  <2>4. ASSUME NEW p \in {"add", "boot"}, NEW d \in Devices, Begins(p, d) PROVE FromIndex'
    BY <2>1, <2>2, <2>4 DEF FromIndex, Making, Begins, Other
  <2>5. ASSUME NEW p \in {"add", "boot"}, Ends(p) PROVE FromIndex'
    BY <2>1, <2>5 DEF FromIndex, Making, Ends, Other
  <2> QED
    BY <1>1, <1>2, <2>3, <2>4, <2>5, ObjectSteps
<1> QED
  BY <1>2, <1>3

LEMMA FileHasParamsets ==
    ASSUME StoredD, StoredP, ~PUnloaded, at["add"] \in Later \cup {"idle"},
           dDisk # D!Cut, pDisk # P!Cut, Described(dMem) \subseteq pMem.of \cup Fetching
    PROVE  Described(dDisk.of) \subseteq pDisk.of.of
<1>1. Described(dDisk.of) = Described(dMem)
  BY DEF StoredD, DUnloaded, PUnloaded, Later
<1>2. pDisk.of.of = pMem.of /\ Fetching = {}
  BY DEF StoredP, Unsaved, Fetching, Later, Untyped
<1> QED
  BY <1>1, <1>2

LEMMA ParamsettedKept ==
    ASSUME Settled, StoredD, StoredP, StoredD', StoredP', Paramsetted, [Next]_vars, Grows',
           Spared({"fault"})', Steady'
    PROVE  Paramsetted'
<1>1. /\ Grows /\ Gentle /\ ~Crash /\ ~Wipes /\ ~DeleteDevices /\ ~FetchFailed
      /\ Known /\ GrownD /\ GrownP /\ Typed /\ Steady
  BY GrowingSteps, TroublesGrow DEF Settled, Grown, Known, Base, Steady
<1>2. /\ at \in [Procs -> Stages] /\ cur \in [Procs -> SUBSET Devices] /\ dMem \in Contents
  BY <1>1 DEF Typed, Types, DC!TypeOK
<1>3. ~PUnloaded' => Described(dMem') \subseteq pMem'.of \cup Fetching'
  <2> SUFFICES ASSUME ~PUnloaded' PROVE Described(dMem') \subseteq pMem'.of \cup Fetching'
    OBVIOUS
  <2>1. ~Stopped
    BY AfterStop DEF PUnloaded, Settled
  <2>2. CASE PUnloaded
    <3>1. /\ pMem' = pDisk.of /\ dMem' = dMem /\ at["add"] = "idle" /\ ~DUnloaded
          /\ at["boot"] \in {"pLoad", "pLoading"}
      BY <1>1, <2>2, FirstLoadP DEF PUnloaded, LoadParamsets, AfterLoad
    <3>2. dDisk # D!Cut /\ pDisk # P!Cut
      <4>1. \A p \in Procs : dIo[p] # "write" /\ pIo[p] # "write"
        <5>1. at["user"] = "idle"
          BY <1>1 DEF Known, Base, Linked, Placed, Gentle, Spared
        <5> QED
          BY <1>1, <3>1, <5>1 DEF Known, Base, Linked, InCache, Procs
      <4> QED
        BY <1>1, <4>1, FilesAre DEF Known, Files, DC!CutWhileWriting, PC!CutWhileWriting
    <3>3. Described(dDisk.of) = Described(dMem) /\ Described(dDisk.of) \subseteq pDisk.of.of
      BY <3>1, <3>2 DEF StoredD, Paramsetted
    <3> QED
      BY <3>1, <3>3
  <2>3. CASE ~PUnloaded
    <3>0. Described(dMem) \subseteq pMem.of \cup Fetching
      BY <2>3 DEF Paramsetted
    <3> USE <1>2, ProcsAre DEF Goto
    <3>1. CASE AddStays \/ AddCreates
      BY <3>0, <3>1 DEF AddStays, AddCreates, CachesStay, Later, Fetching
    <3>2. CASE AddBegin \/ DescribedAll
      BY <3>0, <3>2 DEF AddBegin, DescribedAll, Fetching, cacheVars, dVars, pVars, loopVars
    <3>3. CASE Fetched
      BY <3>0, <3>3 DEF Fetched, FetchEnds, P!Change, Fetching, dVars
    <3>4. ASSUME NEW d \in Devices, AddDescription(d)
          PROVE  Described(dMem') \subseteq pMem'.of \cup Fetching'
      <4>1. Described(dMem') = Described(dMem) \cup {d} /\ pMem' = pMem
            /\ before \subseteq Described(dMem) /\ Fetching = {}
        BY <3>4, WithIs DEF AddDescription, D!Change, pVars, Paramsetted, Fetching
      <4>2. d \in before \/ Fetching' = {d}
        BY <3>4 DEF AddDescription, Fetching
      <4> QED
        BY <3>0, <4>1, <4>2
    <3>5. CASE SaveDescriptions("add") \/ SaveParamsets("add")
      BY <3>0, <3>5 DEF SaveDescriptions, SaveParamsets, D!SaveBegin, P!SaveBegin, AfterSave,
                        Fetching, dVars, pVars
    <3>6. ASSUME NEW p \in {"add", "boot"}, Saves(p)
          PROVE  Described(dMem') \subseteq pMem'.of \cup Fetching'
      <4>1. dMem' = dMem /\ pMem' = pMem /\ Fetching' = Fetching
        BY <1>1, <3>6, SavesAre DEF Fetching
      <4> QED
        BY <3>0, <4>1
    <3>7. ~(LoadDescriptions \/ LoadParamsets)
      BY <1>1, <2>3, LoadsFresh
    <3> QED
      BY <1>1, <2>1, <3>1, <3>2, <3>3, <3>4, <3>5, <3>6, <3>7, StepKinds
  <2> QED
    BY <2>2, <2>3
<1>4. at'["add"] = "idle" /\ dDisk' # D!Cut /\ pDisk' # P!Cut
        => Described(dDisk'.of) \subseteq pDisk'.of.of
  <2> SUFFICES ASSUME at'["add"] = "idle", dDisk' # D!Cut, pDisk' # P!Cut
               PROVE  Described(dDisk'.of) \subseteq pDisk'.of.of
    OBVIOUS
  <2>1. CASE ~PUnloaded'
    <3>1. (dDisk # D!Cut)' /\ (pDisk # P!Cut)'
      BY DEF D!Cut, P!Cut
    <3>2. FALSE \/ Described(dDisk'.of) = Described(dMem')
      BY <2>1, <3>1 DEF StoredD, DUnloaded, PUnloaded, D!Cut
    <3>3. pDisk'.of.of = pMem'.of
      BY <2>1, <3>1 DEF StoredP, Unsaved, P!Cut, Untyped
    <3>4. Fetching' = {}
      BY DEF Fetching
    <3> QED
      BY <1>3, <2>1, <3>2, <3>3, <3>4
  <2>2. CASE PUnloaded'
    <3>1. at["add"] \in Later \cup {"idle"} /\ dDisk' = dDisk /\ pDisk' = pDisk
      <4>1. CASE Stopped
        BY <4>1 DEF Stopped, Reset, D!Crash, P!Crash
      <4>2. CASE ~Stopped
        <5> USE <1>2, ProcsAre DEF Goto
        <5>1. CASE AddStays \/ AddCreates
          BY <5>1 DEF AddStays, AddCreates, CachesStay
        <5>2. CASE LoadDescriptions \/ LoadParamsets
          BY <5>2 DEF LoadDescriptions, AfterLoad, LoadParamsets, D!LoadBegin, D!LoadRead, P!LoadBegin,
                      P!LoadRead, dVars, pVars
        <5>3. CASE AddBegin
          BY <5>3 DEF AddBegin, cacheVars, dVars, pVars
        <5>4. ~(DescribedAll \/ Fetched \/ SaveDescriptions("add") \/ SaveParamsets("add")
                \/ \E d \in Devices : AddDescription(d))
          BY DEF DescribedAll, Fetched, FetchEnds, SaveDescriptions, SaveParamsets, AddDescription,
                 AfterSave
        <5>5. ~Saves("add")
          BY DEF Saves, SavingDescriptions, SavingParamsets, AfterSave, loopVars
        <5>6. ~Saves("boot")
          <6>1. at'["boot"] \in LoadStages \cup {"off"}
            BY <2>2 DEF PUnloaded, Fresh
          <6> QED
            BY <6>1 DEF Saves, SavingDescriptions, SavingParamsets, AfterSave, loopVars, LoadStages
        <5> QED
          BY <1>1, <4>2, <5>1, <5>2, <5>3, <5>4, <5>5, <5>6, StepKinds
      <4> QED
        BY <4>1, <4>2
    <3>2. CASE at["add"] = "idle"
      BY <3>1, <3>2 DEF Paramsetted
    <3>3. CASE at["add"] # "idle"
      <4>1. ~PUnloaded
        BY <3>3 DEF PUnloaded, Fresh
      <4>2. Described(dMem) \subseteq pMem.of \cup Fetching
        BY <4>1 DEF Paramsetted
      <4> QED
        BY <3>1, <4>1, <4>2, FileHasParamsets
    <3> QED
      BY <3>2, <3>3
  <2> QED
    BY <2>1, <2>2
<1>5. at'["add"] \in {"describe", "fetch"} => before' \subseteq Described(dMem')
  <2> SUFFICES ASSUME at'["add"] \in {"describe", "fetch"} PROVE before' \subseteq Described(dMem')
    OBVIOUS
  <2> USE <1>2, ProcsAre DEF Goto
  <2>1. ~(Stopped \/ AddCreates \/ DescribedAll \/ SaveDescriptions("add") \/ SaveParamsets("add")
          \/ Saves("add"))
    <3>1. ~Stopped
      BY AtReset DEF Stopped
    <3>2. ~(AddCreates \/ DescribedAll)
      BY DEF AddCreates, Later, DescribedAll
    <3>3. ~(SaveDescriptions("add") \/ SaveParamsets("add") \/ Saves("add"))
      BY DEF SaveDescriptions, SaveParamsets, Saves, SavingDescriptions, SavingParamsets, AfterSave,
             loopVars
    <3> QED
      BY <3>1, <3>2, <3>3
  <2>2. Described(dMem) \subseteq Described(dMem')
    BY <1>1, <2>1, MemGrowsD
  <2>3. CASE AddBegin
    <3>1. dMem' = dMem /\ at["add"] = "idle"
      BY <2>3 DEF AddBegin, cacheVars, dVars
    <3>2. before' = Described(dMem)
      BY <2>3, <3>1 DEF AddBegin, loopVars
    <3> QED
      BY <3>1, <3>2
  <2>4. CASE ~AddBegin
    <3>1. before' = before /\ at["add"] \in {"describe", "fetch"}
      <4>1. CASE AddStays
        BY <4>1 DEF AddStays, CachesStay
      <4>2. CASE Fetched \/ \E d \in Devices : AddDescription(d)
        BY <4>2 DEF Fetched, FetchEnds, AddDescription, addVars
      <4>3. CASE Saves("boot")
        BY <1>1, <4>3, SavesAre
      <4>4. CASE LoadDescriptions \/ LoadParamsets
        BY <4>4 DEF LoadDescriptions, AfterLoad, LoadParamsets, addVars
      <4> QED
        BY <1>1, <2>1, <2>4, <4>1, <4>2, <4>3, <4>4, StepKinds
    <3> QED
      BY <2>2, <3>1 DEF Paramsetted
  <2> QED
    BY <2>3, <2>4
<1> QED
  BY <1>3, <1>4, <1>5 DEF Paramsetted, D!Cut, P!Cut

LEMMA StoredKept == Settled /\ Stored /\ [Next]_vars => Stored'
<1> SUFFICES ASSUME Settled, Stored, [Next]_vars, Grows' PROVE Stored'
  BY DEF Stored
<1>1. Grows /\ StoredD /\ FromIndex /\ (Steady => StoredP /\ (Spared({"fault"}) => Paramsetted))
  BY GrowingSteps DEF Settled, Stored
<1>2. StoredD' /\ FromIndex' /\ (Steady => StoredP')
  BY <1>1, StoredDKept, StoredPKept, FromIndexKept
<1>3. (Spared({"fault"})' => Spared({"fault"})) /\ (Steady' => Steady)
  BY TroublesGrow DEF Steady
<1> QED
  BY <1>1, <1>2, <1>3, ParamsettedKept DEF Stored

LEMMA AlwaysStored == Spec => [](Settled /\ Stored)
<1>1. Init => Stored
  <2> SUFFICES ASSUME Init PROVE Stored
    OBVIOUS
  <2>1. /\ at = [p \in Procs |-> IF p = "boot" THEN "off" ELSE "idle"]
        /\ dDisk = D!Absent /\ pDisk = P!Absent
        /\ dMem = NoDescr /\ dSaved = NoDescr /\ pMem = NoParam /\ pSaved = NoParam
        /\ registered = FALSE /\ inbox = <<>> /\ queue = <<>> /\ known = {} /\ devices = {}
    BY DEF Init, NewProcess, D!Init, P!Init, D!Fresh, P!Fresh
  <2>2. Fresh /\ DUnloaded
    BY <2>1, ProcsAre DEF Fresh, DUnloaded
  <2>3. FromIndex
    BY <2>1, ProcsAre DEF FromIndex, Making, Made
  <2>4. Described(dDisk.of) = {}
    BY <2>1, DescribedEmpty DEF D!Absent
  <2>5. Paramsetted
    BY <2>1, <2>2, <2>4, ProcsAre DEF Paramsetted, PUnloaded
  <2> QED
    BY <2>2, <2>3, <2>5 DEF Stored, StoredD, StoredP, PUnloaded
<1>2. Settled /\ Stored /\ [Next]_vars => Stored'
  BY StoredKept
<1>3. Known /\ Grown /\ IndexAgrees <=> Settled
  BY DEF Settled
<1> QED
  BY <1>1, <1>2, <1>3, AlwaysIndexed, PTL DEF Spec

\* Once nothing is going on, every device there is has its descriptions in the
\* files, although they are saved by an add before it creates its devices, by
\* stop() beside that add, and read again by every restart of the clients; and
\* its paramset descriptions too where no fetch failed and no restart replaced
\* them by those of the file.
THEOREM CreatedSurvive == Spec => []CreatedIsStored
<1>1. Settled /\ Stored => CreatedIsStored
  <2> SUFFICES ASSUME Settled, Stored, Quiet, Grows
               PROVE  /\ devices \subseteq Described(dDisk.of)
                      /\ Spared({"fault", "restart"}) => devices \subseteq pDisk.of.of
    BY DEF CreatedIsStored, Grows
  <2>1. /\ at["boot"] = "running" /\ at["add"] = "idle" /\ at["user"] = "idle"
        /\ ~PUnloaded /\ ~DUnloaded /\ Gentle
    BY DEF Quiet, PUnloaded, DUnloaded, Fresh, LoadStages, Gentle, Grows, Spared
  <2>2. \A p \in Procs : dIo[p] # "write" /\ pIo[p] # "write"
    BY <2>1 DEF Procs, Settled, Known, Base, Linked, InCache
  <2>3. dDisk # D!Cut /\ pDisk # P!Cut
    BY <2>1, <2>2, FilesAre DEF Settled, Known, Files, DC!CutWhileWriting, PC!CutWhileWriting
  <2>4. Described(dDisk.of) = Described(dMem) /\ devices \subseteq Described(dMem)
    BY <2>1, <2>3 DEF Stored, StoredD, FromIndex
  <2>5. Spared({"fault", "restart"}) => Described(dDisk.of) \subseteq pDisk.of.of
    BY <2>1, <2>3 DEF Stored, Paramsetted, Steady, Spared
  <2> QED
    BY <2>4, <2>5
<1> QED
  BY <1>1, AlwaysStored, PTL

---------------------------------------------------------------------------
(* What is paired is described, or on its way there. *)

\* Call i of the calls announces, or removes, device d.
NewAt(calls, i, d)    == i \in DOMAIN calls /\ calls[i].kind = "new" /\ d \in calls[i].of
DeleteAt(calls, i, d) == i \in DOMAIN calls /\ calls[i].kind = "delete" /\ d \in calls[i].of

Announced(calls, d) == \E i \in DOMAIN calls : NewAt(calls, i, d)

\* A removal of d is followed by a call that announces it again.
Renewed(calls, d) ==
  \A i \in DOMAIN calls : DeleteAt(calls, i, d) => \E j \in DOMAIN calls : j > i /\ NewAt(calls, j, d)

LEMMA AfterFirst ==
    ASSUME NEW calls \in Seq(Calls), calls # <<>>, NEW d
    PROVE  /\ Announced(calls, d) =>
                Announced(Tail(calls), d) \/ (Head(calls).kind = "new" /\ d \in Head(calls).of)
           /\ Renewed(calls, d) =>
                /\ Renewed(Tail(calls), d)
                /\ Head(calls).kind = "delete" /\ d \in Head(calls).of => Announced(Tail(calls), d)
<1> DEFINE S == Calls
           rest == Tail(calls)
<1> HIDE DEF S
<1>1. calls \in Seq(S)
  BY DEF S
<1>2. /\ Len(calls) \in Nat /\ DOMAIN calls = 1..Len(calls) /\ Head(calls) = calls[1]
      /\ Len(calls) # 0
  BY <1>1
<1>3. /\ Len(rest) = Len(calls) - 1 /\ DOMAIN rest = 1..Len(rest)
      /\ \A i \in 1..Len(rest) : rest[i] = calls[i + 1]
  BY <1>1, <1>2
<1> HIDE DEF rest
<1>4. \A i \in DOMAIN calls : i = 1 \/ (i - 1 \in DOMAIN rest /\ rest[i - 1] = calls[i])
  BY <1>2, <1>3
<1>5. \A i \in DOMAIN rest : i + 1 \in DOMAIN calls /\ rest[i] = calls[i + 1]
  BY <1>2, <1>3
<1>6. Announced(calls, d) => Announced(rest, d) \/ (Head(calls).kind = "new" /\ d \in Head(calls).of)
  BY <1>2, <1>4 DEF Announced, NewAt
<1>7. ASSUME NEW i \in DOMAIN calls, NEW j \in DOMAIN calls, j > i, NewAt(calls, j, d)
      PROVE  j - 1 \in DOMAIN rest /\ j - 1 > i - 1 /\ NewAt(rest, j - 1, d)
  BY <1>2, <1>4, <1>7 DEF NewAt
<1>8. ASSUME Renewed(calls, d) PROVE Renewed(rest, d)
  <2> SUFFICES ASSUME NEW i \in DOMAIN rest, DeleteAt(rest, i, d)
               PROVE  \E j \in DOMAIN rest : j > i /\ NewAt(rest, j, d)
    BY DEF Renewed
  <2>1. i + 1 \in DOMAIN calls /\ DeleteAt(calls, i + 1, d)
    BY <1>5 DEF DeleteAt
  <2>2. PICK j \in DOMAIN calls : j > i + 1 /\ NewAt(calls, j, d)
    BY <1>8, <2>1 DEF Renewed
  <2>3. j - 1 \in DOMAIN rest /\ j - 1 > (i + 1) - 1 /\ NewAt(rest, j - 1, d)
    BY <1>7, <2>1, <2>2
  <2>4. (i + 1) - 1 = i
    BY <1>3
  <2> QED
    BY <2>3, <2>4
<1>9. ASSUME Renewed(calls, d), Head(calls).kind = "delete", d \in Head(calls).of
      PROVE  Announced(rest, d)
  <2>1. 1 \in DOMAIN calls /\ DeleteAt(calls, 1, d)
    BY <1>2, <1>9 DEF DeleteAt
  <2>2. PICK j \in DOMAIN calls : j > 1 /\ NewAt(calls, j, d)
    BY <1>9, <2>1 DEF Renewed
  <2> QED
    BY <1>7, <2>1, <2>2 DEF Announced
<1> QED
  BY <1>6, <1>8, <1>9 DEF rest

LEMMA MoreCalls ==
    ASSUME NEW calls \in Seq(Calls), NEW more \in Seq(Calls), NEW d
    PROVE  /\ calls \o more \in Seq(Calls)
           /\ Announced(calls, d) \/ Announced(more, d) <=> Announced(calls \o more, d)
           /\ Renewed(calls, d) /\ Renewed(more, d) => Renewed(calls \o more, d)
           /\ \A j \in DOMAIN more :
                NewAt(more, j, d) /\ (\A i \in DOMAIN more : ~DeleteAt(more, i, d))
                  => Renewed(calls \o more, d)
<1> DEFINE S == Calls
           all == calls \o more
           n == Len(calls)
<1> HIDE DEF S
<1>1. calls \in Seq(S) /\ more \in Seq(S)
  BY DEF S
<1>2. /\ n \in Nat /\ Len(more) \in Nat /\ DOMAIN calls = 1..n /\ DOMAIN more = 1..Len(more)
      /\ all \in Seq(S) /\ Len(all) = n + Len(more) /\ DOMAIN all = 1..Len(all)
  BY <1>1
<1>3. /\ \A i \in 1..n : all[i] = calls[i]
      /\ \A i \in 1..Len(more) : all[i + n] = more[i]
  BY <1>1, <1>2
<1> HIDE DEF all, n
<1>4. /\ \A i \in DOMAIN calls : i \in DOMAIN all /\ all[i] = calls[i]
      /\ \A i \in DOMAIN more : i + n \in DOMAIN all /\ all[i + n] = more[i]
      /\ \A i \in DOMAIN all : i \in DOMAIN calls \/ i - n \in DOMAIN more
      /\ \A i \in DOMAIN all : (i - n) + n = i
      /\ \A i \in DOMAIN calls, j \in DOMAIN more : j + n > i
      /\ \A i \in DOMAIN all, j \in DOMAIN more : j > i - n => j + n > i
  BY <1>2, <1>3
<1>5. Announced(calls, d) \/ Announced(more, d) => Announced(all, d)
  BY <1>4 DEF Announced, NewAt
<1>6. Announced(all, d) => Announced(calls, d) \/ Announced(more, d)
  <2> SUFFICES ASSUME NEW i \in DOMAIN all, NewAt(all, i, d)
               PROVE  Announced(calls, d) \/ Announced(more, d)
    BY DEF Announced
  <2>1. CASE i \in DOMAIN calls
    BY <1>4, <2>1 DEF Announced, NewAt
  <2>2. CASE i - n \in DOMAIN more
    BY <1>4, <2>2 DEF Announced, NewAt
  <2> QED
    BY <1>4, <2>1, <2>2
<1>7. ASSUME \/ Renewed(calls, d) /\ Renewed(more, d)
             \/ /\ \E j \in DOMAIN more : NewAt(more, j, d)
                /\ \A i \in DOMAIN more : ~DeleteAt(more, i, d)
      PROVE  Renewed(all, d)
  <2> SUFFICES ASSUME NEW i \in DOMAIN all, DeleteAt(all, i, d)
               PROVE  \E j \in DOMAIN all : j > i /\ NewAt(all, j, d)
    BY DEF Renewed
  <2>1. CASE i \in DOMAIN calls
    <3>1. DeleteAt(calls, i, d)
      BY <1>4, <2>1 DEF DeleteAt
    <3>2. \/ \E j \in DOMAIN calls : j > i /\ NewAt(calls, j, d)
          \/ \E j \in DOMAIN more : NewAt(more, j, d)
      BY <1>7, <2>1, <3>1 DEF Renewed
    <3>3. CASE \E j \in DOMAIN calls : j > i /\ NewAt(calls, j, d)
      BY <1>4, <3>3 DEF NewAt
    <3>4. CASE \E j \in DOMAIN more : NewAt(more, j, d)
      BY <1>4, <2>1, <3>4 DEF NewAt
    <3> QED
      BY <3>2, <3>3, <3>4
  <2>2. CASE i - n \in DOMAIN more
    <3>1. DeleteAt(more, i - n, d)
      BY <1>4, <2>2 DEF DeleteAt
    <3>2. PICK j \in DOMAIN more : j > i - n /\ NewAt(more, j, d)
      BY <1>7, <2>2, <3>1 DEF Renewed
    <3>3. j + n \in DOMAIN all /\ j + n > i /\ NewAt(all, j + n, d)
      BY <1>4, <3>2 DEF NewAt
    <3> QED
      BY <3>3
  <2> QED
    BY <1>4, <2>1, <2>2
<1>8. all \in Seq(Calls)
  BY <1>2 DEF S
<1>9. Renewed(calls, d) /\ Renewed(more, d) => Renewed(all, d)
  BY <1>7
<1>10. \A j \in DOMAIN more :
         NewAt(more, j, d) /\ (\A i \in DOMAIN more : ~DeleteAt(more, i, d)) => Renewed(all, d)
  BY <1>7
<1>11. Announced(calls, d) \/ Announced(more, d) <=> Announced(all, d)
  BY <1>5, <1>6
<1> QED
  BY <1>8, <1>9, <1>10, <1>11 DEF all

\* One call.
LEMMA OneCall ==
    ASSUME NEW ds \in SUBSET Devices, NEW d
    PROVE  /\ <<New(ds)>> \in Seq(Calls) /\ <<Delete(ds)>> \in Seq(Calls) /\ <<>> \in Seq(Calls)
           /\ d \in ds => NewAt(<<New(ds)>>, 1, d)
           /\ Announced(<<New(ds)>>, d) <=> d \in ds
           /\ \A i \in DOMAIN <<New(ds)>> : ~DeleteAt(<<New(ds)>>, i, d)
           /\ 1 \in DOMAIN <<New(ds)>>
           /\ d \notin ds => Renewed(<<Delete(ds)>>, d)
           /\ Renewed(<<New(ds)>>, d) /\ Renewed(<<>>, d)
<1>1. New(ds) \in Calls /\ Delete(ds) \in Calls
  BY DEF New, Delete, Calls
<1>2. /\ New(ds).kind = "new" /\ New(ds).of = ds /\ Delete(ds).kind = "delete" /\ Delete(ds).of = ds
  BY DEF New, Delete
<1> DEFINE n == New(ds)
           e == Delete(ds)
           S == Calls
<1> HIDE DEF n, e, S
<1>3. n \in S /\ e \in S
  BY <1>1 DEF n, e, S
<1>4. n.kind = "new" /\ n.of = ds /\ e.kind = "delete" /\ e.of = ds
  BY <1>2 DEF n, e
<1>5. <<n>> \in Seq(S) /\ <<e>> \in Seq(S) /\ <<>> \in Seq(S)
  BY <1>3
<1>6. /\ DOMAIN <<n>> = {1} /\ <<n>>[1] = n /\ DOMAIN <<e>> = {1} /\ <<e>>[1] = e
      /\ \A i \in DOMAIN <<>> : FALSE
  OBVIOUS
<1>7. /\ d \in ds => NewAt(<<n>>, 1, d)
      /\ Announced(<<n>>, d) <=> d \in ds
      /\ \A i \in DOMAIN <<n>> : ~DeleteAt(<<n>>, i, d)
      /\ 1 \in DOMAIN <<n>>
  BY <1>4, <1>6 DEF NewAt, DeleteAt, Announced
<1>8. d \notin ds => Renewed(<<e>>, d)
  BY <1>4, <1>6 DEF DeleteAt, Renewed
<1>9. Renewed(<<n>>, d) /\ Renewed(<<>>, d)
  BY <1>6, <1>7 DEF DeleteAt, Renewed
<1> QED
  BY <1>5, <1>7, <1>8, <1>9 DEF n, e, S

\* Without a restart of the clients: no call waits in a process that has just
\* begun or of which the backend does not know, and a device that is removed
\* and paired again is announced after its removal.
InOrder == Spared({"restart"}) =>
  /\ at["boot"] # "client"
  /\ at["boot"] = "off" \/ (~registered /\ at["boot"] # "ending") => inbox = <<>>
  /\ at["boot"] # "ending" => \A d \in paired : Renewed(inbox, d)

Queued(tasks, d) == \E i \in DOMAIN tasks : d \in tasks[i]

\* A device is described, or a call or a task will describe it.
Covered(d) ==
  \/ d \in Described(dMem) \/ Announced(inbox, d) \/ Queued(queue, d)
  \/ at["add"] \in {"describe", "fetch"} /\ d \in todo["add"]

\* Once the backend has compared its devices with those described.
Coverage ==
  Ordered /\ Spared({"clear"}) /\ at["boot"] \in {"running"} \cup StopStages /\ ~announce
    => \A d \in paired : Covered(d)

\* The calls that a step adds to the inbox, where the backend knows of a client.
Missing == IF paired \subseteq Listed THEN <<>> ELSE <<New(paired \ Listed)>>
Surplus == IF Listed \subseteq paired THEN <<>> ELSE <<Delete(Listed \ paired)>>

LEMMA InboxSteps ==
    ASSUME Typed, [Next]_vars
    PROVE  \/ paired' = paired /\ inbox' = inbox
           \/ \E d \in Devices : /\ Pair(d) /\ paired' = paired \cup {d}
                                 /\ inbox' = IF registered /\ client THEN inbox \o <<New({d})>> ELSE inbox
           \/ \E d \in Devices : /\ Unpair(d) /\ paired' = paired \ {d}
                                 /\ inbox' = IF registered /\ client THEN inbox \o <<Delete({d})>> ELSE inbox
           \/ /\ Announce /\ paired' = paired
              /\ inbox' = IF registered /\ client THEN inbox \o (Missing \o Surplus) ELSE inbox
           \/ /\ (NewDevices \/ DeleteDevices) /\ paired' = paired
              /\ inbox # <<>> /\ inbox' = Tail(inbox)
           \/ (Stopped \/ Crash) /\ Reset /\ inbox' = <<>>
<1> USE DEF backendVars, taskVars
<1>1. ASSUME NEW d \in Devices, Pair(d)
      PROVE  /\ paired' = paired \cup {d}
             /\ inbox' = IF registered /\ client THEN inbox \o <<New({d})>> ELSE inbox
  BY <1>1 DEF Pair, Call
<1>2. ASSUME NEW d \in Devices, Unpair(d)
      PROVE  /\ paired' = paired \ {d}
             /\ inbox' = IF registered /\ client THEN inbox \o <<Delete({d})>> ELSE inbox
  BY <1>2 DEF Unpair, Call
<1>3. ASSUME Announce
      PROVE  /\ paired' = paired
             /\ inbox' = IF registered /\ client THEN inbox \o (Missing \o Surplus) ELSE inbox
  BY <1>3 DEF Announce, Call, Missing, Surplus
<1>4. ASSUME NewDevices \/ DeleteDevices
      PROVE  paired' = paired /\ inbox # <<>> /\ inbox' = Tail(inbox)
  BY <1>4 DEF NewDevices, DeleteDevices
<1>5. ASSUME AddBegin \/ DescribedAll \/ DetailsLoaded \/ Fetched \/ FetchFailed
      PROVE  paired' = paired /\ inbox' = inbox
  BY <1>5 DEF AddBegin, DescribedAll, DetailsLoaded, Fetched, FetchFailed, FetchEnds
<1>6. ASSUME NEW d \in Devices, AddDescription(d) PROVE paired' = paired /\ inbox' = inbox
  BY <1>6 DEF AddDescription
<1>7. ASSUME NEW p \in {"add", "boot"}, Shared(p) PROVE paired' = paired /\ inbox' = inbox
  BY <1>7 DEF Shared, SaveDescriptions, SavingDescriptions, SaveParamsets, SavingParamsets,
              Check, CreateEnd, Created, CreateBegin
<1>8. ASSUME Start \/ LoadDescriptions \/ LoadParamsets \/ InitClient \/ Restart \/ ClientCreated
             \/ Stop \/ StopClients \/ ClearCaches
      PROVE  paired' = paired /\ inbox' = inbox
  BY <1>8 DEF Start, LoadDescriptions, AfterLoad, LoadParamsets, InitClient, Restart, ClientsStopped, ClientCreated, Stop,
              StopClients, ClearCaches
<1>9. ASSUME Stopped \/ Crash PROVE Reset /\ inbox' = <<>>
  BY <1>9, AtReset DEF Stopped, Crash
<1>10. ASSUME NEW p \in {"boot", "user"}, Wipe(p) PROVE paired' = paired /\ inbox' = inbox
  BY <1>10 DEF Wipe
<1>11. ASSUME UNCHANGED vars PROVE paired' = paired /\ inbox' = inbox
  BY <1>11 DEF vars
<1> QED
  BY <1>1, <1>2, <1>3, <1>4, <1>5, <1>6, <1>7, <1>8, <1>9, <1>10, <1>11
     DEF Next, Backend, Add, Boot

\* Missing announces every device that is not described, Surplus removes none
\* that is paired.
AnswersAre ==
  /\ Missing \in Seq(Calls) /\ Surplus \in Seq(Calls)
  /\ \A d \in paired \ Listed : Announced(Missing, d)
  /\ \A d \in paired : Renewed(Missing, d) /\ Renewed(Surplus, d)

LEMMA AnswersHold == Typed => AnswersAre
<1> SUFFICES ASSUME Typed PROVE AnswersAre
  OBVIOUS
<1> DEFINE missing == paired \ Listed
           surplus == Listed \ paired
           news == <<New(missing)>>
           deletes == <<Delete(surplus)>>
<1>1. missing \in SUBSET Devices /\ surplus \in SUBSET Devices
  <2>1. Listed \subseteq Devices
    BY DEF Typed, DC!TypeOK, Contents, Lists, Listed, Described, ToSet
  <2> QED
    BY <2>1 DEF Typed, Sets
<1>2. /\ \A d : Renewed(news, d) /\ Renewed(<<>>, d)
      /\ \A d \in missing : Announced(news, d)
      /\ \A d : d \notin surplus => Renewed(deletes, d)
      /\ news \in Seq(Calls) /\ deletes \in Seq(Calls) /\ <<>> \in Seq(Calls)
  BY <1>1, OneCall
<1>3. /\ Missing = IF paired \subseteq Listed THEN <<>> ELSE news
      /\ Surplus = IF Listed \subseteq paired THEN <<>> ELSE deletes
  BY DEF Missing, Surplus
<1> HIDE DEF news, deletes
<1>4. Missing \in Seq(Calls) /\ Surplus \in Seq(Calls)
  BY <1>2, <1>3
<1>5. \A d \in paired \ Listed : Announced(Missing, d)
  BY <1>2, <1>3
<1>6. \A d \in paired : Renewed(Missing, d) /\ Renewed(Surplus, d)
  <2> SUFFICES ASSUME NEW d \in paired PROVE Renewed(Missing, d) /\ Renewed(Surplus, d)
    OBVIOUS
  <2>1. Missing \in {<<>>, news} /\ Surplus \in {<<>>, deletes}
    BY <1>3
  <2>2. Renewed(<<>>, d) /\ Renewed(news, d) /\ Renewed(deletes, d)
    BY <1>2
  <2> QED
    BY <2>1, <2>2
<1> QED
  BY <1>4, <1>5, <1>6 DEF AnswersAre

LEMMA InOrderKept == Base /\ InOrder /\ [Next]_vars => InOrder'
<1> SUFFICES ASSUME Base, InOrder, [Next]_vars, Spared({"restart"})' PROVE InOrder'
  BY DEF InOrder
<1>1. /\ Typed /\ Types /\ Placed /\ Connected /\ Spared({"restart"}) /\ ~Restart
      /\ inbox \in Seq(Calls) /\ paired \subseteq Devices
  BY TroublesGrow DEF Base, Typed, Linked, Sets
<1>2. /\ at["boot"] # "client"
      /\ at["boot"] = "off" \/ (~registered /\ at["boot"] # "ending") => inbox = <<>>
      /\ at["boot"] # "ending" => \A d \in paired : Renewed(inbox, d)
  BY <1>1 DEF InOrder
<1>3. at'["boot"] # "client"
  BY <1>1, <1>2, BootMoves
<1>4. /\ registered' = registered \/ InitClient \/ StopClients
      /\ InitClient => registered'
      /\ StopClients => at'["boot"] = "ending"
      /\ (Stopped \/ Crash) /\ Reset => registered' = registered /\ inbox' = <<>>
      /\ at["boot"] = "ending" => at'["boot"] = "ending" \/ ((Stopped \/ Crash) /\ Reset)
      /\ at["boot"] = "off" => ~client
      /\ ~client => at["boot"] \in {"off", "ending"}
  <2>1. StopClients => at'["boot"] = "ending"
    BY <1>1, ProcsAre DEF StopClients, ClientsStopped, Goto, Types
  <2>2. at["boot"] = "ending" => at'["boot"] = "ending" \/ ((Stopped \/ Crash) /\ Reset)
    <3> SUFFICES ASSUME at["boot"] = "ending", ~((Stopped \/ Crash) /\ Reset)
                 PROVE  at'["boot"] = "ending"
      OBVIOUS
    <3>1. at'["boot"] \in StopStages \cup {"ending"}
      BY <1>1, BootMoves
    <3>2. ~InitClient /\ at["boot"] \notin {"running"} \cup StopStages
      BY DEF InitClient, StopStages
    <3>3. at'["boot"] \notin StopStages
      BY <1>1, <3>2, BootMoves
    <3> QED
      BY <3>1, <3>3
  <2>3. (Stopped \/ Crash) /\ Reset => registered' = registered /\ inbox' = <<>>
    BY AtReset DEF Stopped, Crash, backendVars
  <2>4. registered' = registered \/ InitClient \/ StopClients
    BY <1>1, BootMoves
  <2>5. /\ at["boot"] = "off" => ~client
        /\ ~client => at["boot"] \in {"off", "ending"}
    BY <1>1, <1>2 DEF Connected
  <2> QED
    BY <2>1, <2>2, <2>3, <2>4, <2>5 DEF InitClient
<1>5. CASE (Stopped \/ Crash) /\ Reset
  <2>1. inbox' = <<>>
    BY <1>4, <1>5
  <2>2. \A d : Renewed(<<>>, d)
    BY OneCall
  <2> QED
    BY <1>3, <2>1, <2>2 DEF InOrder
<1>6. CASE at'["boot"] = "ending"
  BY <1>6 DEF InOrder
<1>7. CASE ~((Stopped \/ Crash) /\ Reset) /\ at'["boot"] # "ending"
  <2>1. /\ at["boot"] # "ending" /\ \A d \in paired : Renewed(inbox, d)
        /\ at'["boot"] = "off" => at["boot"] = "off"
        /\ ~registered' => ~registered
    BY <1>1, <1>2, <1>4, <1>7, BootMoves DEF Base, Typed, Flags
  <2>2. ~(registered /\ client) => inbox = <<>>
    BY <1>2, <1>4, <2>1
  <2>3. at'["boot"] = "off" \/ ~registered' => inbox = <<>> /\ ~(registered /\ client)
    BY <1>2, <1>4, <2>1
  <2>4. CASE paired' = paired /\ inbox' = inbox
    BY <1>3, <2>1, <2>3, <2>4 DEF InOrder
  <2>5. ASSUME NEW d \in Devices, paired' = paired \cup {d},
               inbox' = IF registered /\ client THEN inbox \o <<New({d})>> ELSE inbox
        PROVE  InOrder'
    <3> DEFINE call == <<New({d})>>
    <3>1. /\ call \in Seq(Calls) /\ \A e : Renewed(call, e)
          /\ \A i \in DOMAIN call : ~DeleteAt(call, i, d)
          /\ 1 \in DOMAIN call /\ NewAt(call, 1, d)
      BY OneCall
    <3>2. inbox' = IF registered /\ client THEN inbox \o call ELSE inbox
      BY <2>5
    <3> HIDE DEF call
    <3>3. CASE registered /\ client
      <4>1. \A e \in paired : Renewed(inbox \o call, e)
        BY <1>1, <2>1, <3>1, MoreCalls
      <4>2. Renewed(inbox \o call, d)
        BY <1>1, <3>1, MoreCalls
      <4> QED
        BY <1>3, <2>3, <2>5, <3>2, <3>3, <4>1, <4>2 DEF InOrder
    <3>4. CASE ~(registered /\ client)
      <4>1. inbox' = <<>> /\ \A e : Renewed(<<>>, e)
        BY <2>2, <3>2, <3>4, OneCall
      <4> QED
        BY <1>3, <4>1 DEF InOrder
    <3> QED
      BY <3>3, <3>4
  <2>6. ASSUME NEW d \in Devices, paired' = paired \ {d},
               inbox' = IF registered /\ client THEN inbox \o <<Delete({d})>> ELSE inbox
        PROVE  InOrder'
    <3> DEFINE call == <<Delete({d})>>
    <3>1. call \in Seq(Calls) /\ \A e \in paired' : Renewed(call, e)
      BY <2>6, OneCall
    <3>2. inbox' = IF registered /\ client THEN inbox \o call ELSE inbox
      BY <2>6
    <3> HIDE DEF call
    <3>3. \A e \in paired' : Renewed(inbox, e) /\ Renewed(inbox \o call, e)
      BY <1>1, <2>1, <2>6, <3>1, MoreCalls
    <3> QED
      BY <1>3, <2>3, <3>2, <3>3 DEF InOrder
  <2>7. CASE /\ paired' = paired
             /\ inbox' = IF registered /\ client THEN inbox \o (Missing \o Surplus) ELSE inbox
    <3>1. /\ Missing \in Seq(Calls) /\ Surplus \in Seq(Calls)
          /\ \A e \in paired : Renewed(Missing, e) /\ Renewed(Surplus, e)
      BY <1>1, AnswersHold DEF AnswersAre
    <3>2. Missing \o Surplus \in Seq(Calls) /\ \A e \in paired : Renewed(Missing \o Surplus, e)
      BY <3>1, MoreCalls
    <3>3. \A e \in paired : Renewed(inbox \o (Missing \o Surplus), e)
      BY <1>1, <2>1, <3>2, MoreCalls
    <3> QED
      BY <1>3, <2>1, <2>3, <2>7, <3>3 DEF InOrder
  <2>8. CASE paired' = paired /\ inbox # <<>> /\ inbox' = Tail(inbox)
    <3>1. \A e \in paired : Renewed(Tail(inbox), e)
      BY <1>1, <2>1, <2>8, AfterFirst
    <3>2. ~(at'["boot"] = "off" \/ (~registered' /\ at'["boot"] # "ending"))
      BY <2>3, <2>8
    <3>3. \A e \in paired' : Renewed(inbox', e)
      BY <2>8, <3>1
    <3> QED
      BY <1>3, <3>2, <3>3 DEF InOrder
  <2> QED
    BY <1>1, <1>7, <2>4, <2>5, <2>6, <2>7, <2>8, InboxSteps
<1> QED
  BY <1>5, <1>6, <1>7

LEMMA QueueFacts ==
    ASSUME NEW tasks \in Seq(SUBSET Devices), NEW d
    PROVE  /\ tasks # <<>> /\ Queued(tasks, d) => d \in Head(tasks) \/ Queued(Tail(tasks), d)
           /\ \A ds \in SUBSET Devices : Queued(tasks, d) \/ d \in ds => Queued(Append(tasks, ds), d)
<1> DEFINE S == SUBSET Devices
<1> HIDE DEF S
<1>0. tasks \in Seq(S)
  BY DEF S
<1>1. DOMAIN tasks = 1..Len(tasks) /\ Len(tasks) \in Nat
  BY <1>0
<1>2. ASSUME tasks # <<>>, Queued(tasks, d) PROVE d \in Head(tasks) \/ Queued(Tail(tasks), d)
  <2> DEFINE rest == Tail(tasks)
  <2>1. /\ Head(tasks) = tasks[1] /\ DOMAIN rest = 1..(Len(tasks) - 1)
        /\ \A i \in 1..(Len(tasks) - 1) : rest[i] = tasks[i + 1]
    BY <1>0, <1>1, <1>2
  <2> HIDE DEF rest
  <2>2. PICK i \in 1..Len(tasks) : d \in tasks[i]
    BY <1>1, <1>2 DEF Queued
  <2>3. CASE i = 1
    BY <2>1, <2>2, <2>3
  <2>4. CASE i # 1
    <3>1. i - 1 \in DOMAIN rest /\ rest[i - 1] = tasks[i]
      BY <1>1, <2>1, <2>2, <2>4
    <3>2. Queued(rest, d)
      BY <2>2, <3>1 DEF Queued
    <3> QED
      BY <3>2 DEF rest
  <2> QED
    BY <2>3, <2>4
<1>3. ASSUME NEW ds \in S, Queued(tasks, d) \/ d \in ds PROVE Queued(Append(tasks, ds), d)
  <2> DEFINE more == Append(tasks, ds)
  <2>1. /\ DOMAIN more = 1..(Len(tasks) + 1) /\ more[Len(tasks) + 1] = ds
        /\ \A i \in 1..Len(tasks) : more[i] = tasks[i]
    BY <1>0, <1>1, <1>3
  <2> HIDE DEF more
  <2>2. Queued(more, d)
    BY <1>1, <1>3, <2>1 DEF Queued
  <2> QED
    BY <2>2 DEF more
<1> QED
  BY <1>2, <1>3 DEF S

\* What is described stays so, without a removal, while the central runs.
LEMMA CoverageKept == Base /\ NoRemoval /\ InOrder /\ Coverage /\ [Next]_vars => Coverage'
<1> SUFFICES ASSUME Base, NoRemoval, InOrder, Coverage, [Next]_vars,
                    Ordered', Spared({"clear"})', at'["boot"] \in {"running"} \cup StopStages, ~announce',
                    NEW d \in paired'
             PROVE  Covered(d)'
  BY DEF Coverage
<1>1. /\ Typed /\ Types /\ Placed /\ Connected /\ Ordered /\ Spared({"clear"})
      /\ inbox \in Seq(Calls) /\ queue \in Seq(SUBSET Devices) /\ paired \subseteq Devices
      /\ dMem \in Contents
      /\ at \in [Procs -> Stages] /\ todo \in [Procs -> SUBSET Devices]
  <2>1. Ordered /\ Spared({"clear"})
    BY TroublesGrow DEF Ordered
  <2> QED
    BY <2>1 DEF Base, Typed, Types, Linked, Sets, DC!TypeOK
<1>2. /\ at["boot"] \in {"running"} \cup StopStages /\ ~InitClient /\ client /\ registered
      /\ at["user"] = "idle"
  <2>1. ~InitClient
    BY DEF InitClient
  <2>2. at["boot"] \in {"running"} \cup StopStages
    BY <1>1, <2>1, BootMoves
  <2> QED
    BY <1>1, <2>1, <2>2 DEF Connected, Placed, StopStages
<1>3. CASE announce
  <2>1. Announce
    <3>1. ~(Restart \/ StopClients)
      <4>1. Restart \/ StopClients => at'["boot"] \in {"client", "ending"}
        BY <1>1, ProcsAre DEF Restart, ClientsStopped, StopClients, Goto
      <4> QED
        BY <4>1 DEF StopStages
    <3> QED
      BY <1>1, <1>2, <1>3, <3>1, BootMoves
  <2>2. paired' = paired /\ dMem' = dMem /\ inbox' = inbox \o (Missing \o Surplus)
    BY <1>2, <2>1 DEF Announce, Call, Missing, Surplus, cacheVars, dVars
  <2>3. CASE d \in Listed
    BY <2>2, <2>3 DEF Listed, Covered
  <2>4. CASE d \notin Listed
    <3>1. Missing \in Seq(Calls) /\ Surplus \in Seq(Calls) /\ Announced(Missing, d)
      BY <1>1, <2>2, <2>4, AnswersHold DEF AnswersAre
    <3>2. Missing \o Surplus \in Seq(Calls) /\ Announced(Missing \o Surplus, d)
      BY <3>1, MoreCalls
    <3>3. Announced(inbox \o (Missing \o Surplus), d)
      BY <1>1, <3>2, MoreCalls
    <3> QED
      BY <2>2, <3>3 DEF Covered
  <2> QED
    BY <2>3, <2>4
<1>4. CASE ~announce
  <2>1. \A e \in paired : Covered(e)
    BY <1>1, <1>2, <1>4 DEF Coverage
  <2> DEFINE InLoop == at["add"] \in {"describe", "fetch"} /\ d \in todo["add"]
             Stays == /\ d \in Described(dMem) => d \in Described(dMem')
                      /\ at'["add"] = at["add"] /\ todo'["add"] = todo["add"]
  <2> USE ProcsAre, <1>1 DEF Goto, backendVars, taskVars, loopVars
  <2>2. ASSUME NEW e \in Devices, Pair(e) PROVE Covered(d)'
    <3>1. /\ paired' = paired \cup {e} /\ inbox' = inbox \o <<New({e})>>
          /\ UNCHANGED <<dMem, queue, at, todo>>
      BY <1>2, <2>2 DEF Pair, Call, cacheVars, dVars
    <3>2. <<New({e})>> \in Seq(Calls) /\ (d = e => Announced(<<New({e})>>, d))
      BY OneCall
    <3>3. Announced(inbox, d) \/ d = e => Announced(inbox', d)
      BY <3>1, <3>2, MoreCalls
    <3> QED
      BY <2>1, <3>1, <3>3 DEF Covered
  <2>3. ASSUME NEW e \in Devices, Unpair(e) PROVE Covered(d)'
    <3>1. /\ paired' = paired \ {e} /\ inbox' = inbox \o <<Delete({e})>>
          /\ UNCHANGED <<dMem, queue, at, todo>>
      BY <1>2, <2>3 DEF Unpair, Call, cacheVars, dVars
    <3>2. <<Delete({e})>> \in Seq(Calls)
      BY OneCall
    <3>3. Announced(inbox, d) => Announced(inbox', d)
      BY <3>1, <3>2, MoreCalls
    <3> QED
      BY <2>1, <3>1, <3>3 DEF Covered
  <2>4. CASE NewDevices
    <3>1. /\ paired' = paired /\ inbox # <<>> /\ inbox' = Tail(inbox)
          /\ queue' = Append(queue, Head(inbox).of) /\ UNCHANGED <<dMem, at, todo>>
      BY <1>2, <2>4 DEF NewDevices, cacheVars, dVars
    <3>2. Head(inbox).of \in SUBSET Devices
      <4> DEFINE S == Calls
      <4> HIDE DEF S
      <4>1. inbox \in Seq(S)
        BY DEF S
      <4>2. Head(inbox) \in S
        BY <3>1, <4>1
      <4> QED
        BY <4>2 DEF S, Calls
    <3>3. Announced(inbox, d) => Announced(inbox', d) \/ d \in Head(inbox).of
      BY <3>1, AfterFirst
    <3>4. Queued(queue, d) \/ d \in Head(inbox).of => Queued(queue', d)
      BY <3>1, <3>2, QueueFacts
    <3> QED
      BY <2>1, <3>1, <3>3, <3>4 DEF Covered
  <2>5. CASE DeleteDevices
    <3>1. /\ paired' = paired /\ inbox # <<>> /\ inbox' = Tail(inbox) /\ Head(inbox).kind = "delete"
          /\ UNCHANGED <<queue, at, todo>>
      BY <2>5 DEF DeleteDevices
    <3>2. dMem' = dMem \/ \E gone \in SUBSET Head(inbox).of : dMem' = Without(dMem, gone)
      BY <2>5 DEF DeleteDevices, Removable, D!Change, cacheVars, dVars
    <3>3. Announced(inbox, d) => Announced(inbox', d)
      BY <3>1, AfterFirst
    <3>4. d \in Described(dMem) => d \in Described(dMem') \/ d \in Head(inbox).of
      BY <3>2, WithoutIs
    <3>5. d \in Head(inbox).of => Announced(inbox', d)
      <4>1. Spared({"restart"})
        BY <2>5, NoDelete DEF Ordered
      <4>2. Renewed(inbox, d)
        BY <1>2, <3>1, <4>1 DEF InOrder, StopStages
      <4> QED
        BY <3>1, <4>2, AfterFirst
    <3> QED
      BY <2>1, <3>1, <3>3, <3>4, <3>5 DEF Covered
  <2>6. CASE AddBegin
    <3>1. /\ paired' = paired /\ inbox' = inbox /\ queue # <<>> /\ queue' = Tail(queue)
          /\ dMem' = dMem /\ at["add"] = "idle"
          /\ at'["add"] = "describe" /\ todo'["add"] = Head(queue)
      BY <1>2, <2>6 DEF AddBegin, cacheVars, dVars
    <3>2. Queued(queue, d) => d \in Head(queue) \/ Queued(queue', d)
      BY <3>1, QueueFacts
    <3> QED
      BY <2>1, <3>1, <3>2 DEF Covered
  <2>7. ASSUME NEW e \in Devices, AddDescription(e) PROVE Covered(d)'
    <3>1. /\ paired' = paired /\ inbox' = inbox /\ queue' = queue
          /\ Described(dMem') = Described(dMem) \cup {e}
          /\ at'["add"] \in {"describe", "fetch"} /\ todo'["add"] = todo["add"] \ {e}
      BY <2>7, WithIs DEF AddDescription, D!Change
    <3> QED
      BY <2>1, <3>1 DEF Covered
  <2>8. CASE Fetched \/ FetchFailed
    <3>1. /\ UNCHANGED <<paired, inbox, queue, dMem, todo>>
          /\ at["add"] = "fetch" /\ at'["add"] = "describe"
      BY <2>8 DEF Fetched, FetchFailed, FetchEnds, dVars
    <3> QED
      BY <2>1, <3>1 DEF Covered
  <2>9. CASE DescribedAll
    <3>1. UNCHANGED <<paired, inbox, queue, dMem, todo>> /\ todo["add"] = {}
      BY <2>9 DEF DescribedAll, cacheVars, dVars
    <3> QED
      BY <2>1, <3>1 DEF Covered
  <2>10. CASE UNCHANGED <<paired, inbox, queue, dMem>>
              /\ (at["add"] \in {"describe", "fetch"} =>
                    at'["add"] = at["add"] /\ todo'["add"] = todo["add"])
    BY <2>1, <2>10 DEF Covered
  <2>11. ~(Announce \/ Stopped \/ Crash \/ InitClient \/ LoadDescriptions \/ Start \/ ClientCreated
           \/ Wipe("boot") \/ Wipe("user"))
    <3>1. ~(Announce \/ InitClient \/ LoadDescriptions \/ Start \/ ClientCreated)
      BY <1>2, <1>4 DEF Announce, InitClient, LoadDescriptions, AfterLoad, Start, ClientCreated, StopStages
    <3>2. ~(Stopped \/ Crash)
      BY AtReset DEF Stopped, Crash, StopStages
    <3>3. ~(Wipe("boot") \/ Wipe("user"))
      BY <1>2 DEF Wipe, StopStages
    <3> QED
      BY <3>1, <3>2, <3>3
  <2> DEFINE Aside == /\ UNCHANGED <<paired, inbox, queue, dMem>>
                      /\ at["add"] \in {"describe", "fetch"} =>
                           at'["add"] = at["add"] /\ todo'["add"] = todo["add"]
  <2>12. ASSUME NEW p \in {"add", "boot"}, Shared(p) PROVE Aside
    <3>1. CASE SaveDescriptions(p) \/ SavingDescriptions(p)
      BY <3>1 DEF SaveDescriptions, SavingDescriptions, D!SaveBegin, D!SaveWake, D!SaveOpen,
                  D!SaveWrite, dVars
    <3>2. CASE SaveParamsets(p) \/ SavingParamsets(p)
      BY <3>2 DEF SaveParamsets, SavingParamsets, dVars
    <3>3. CASE Check(p) \/ CreateEnd(p) \/ Created(p)
      BY <3>3 DEF Check, CreateEnd, Created, cacheVars, dVars
    <3>4. ASSUME NEW e \in Devices, CreateBegin(p, e) PROVE Aside
      BY <3>4 DEF CreateBegin, cacheVars, dVars
    <3> QED
      BY <2>12, <3>1, <3>2, <3>3, <3>4 DEF Shared
  <2>13. ASSUME DetailsLoaded \/ LoadParamsets \/ Restart \/ Stop \/ StopClients \/ ClearCaches
         PROVE  Aside
    BY <2>13 DEF DetailsLoaded, LoadParamsets, AfterLoad, Restart, ClientsStopped, Stop, StopClients, ClearCaches, cacheVars, dVars
  <2>14. ASSUME UNCHANGED vars PROVE Aside
    BY <2>14 DEF vars, cacheVars, dVars
  <2> HIDE DEF Aside
  <2>15. ASSUME Aside PROVE Covered(d)'
    BY <2>10, <2>15 DEF Aside
  <2> QED
    BY <2>2, <2>3, <2>4, <2>5, <2>6, <2>7, <2>8, <2>9, <2>11, <2>12, <2>13, <2>14, <2>15
       DEF Next, Backend, Add, Boot
<1> QED
  BY <1>3, <1>4

LEMMA AlwaysCovered == Spec => []Coverage
<1>1. Init => NoRemoval /\ InOrder /\ Coverage
  <2> SUFFICES ASSUME Init PROVE NoRemoval /\ InOrder /\ Coverage
    OBVIOUS
  <2>1. /\ at = [p \in Procs |-> IF p = "boot" THEN "off" ELSE "idle"]
        /\ dDisk = D!Absent /\ dMem = NoDescr
        /\ inbox = <<>> /\ queue = <<>> /\ paired = {}
    BY DEF Init, NewProcess, D!Init, D!Fresh
  <2>2. NoRemoval
    BY <2>1, ProcsAre, DescribedEmpty, SeqFacts DEF NoRemoval, D!Absent
  <2>3. InOrder /\ Coverage
    BY <2>1, ProcsAre DEF InOrder, Coverage, StopStages
  <2> QED
    BY <2>2, <2>3
<1>2. Base /\ NoRemoval /\ InOrder /\ Coverage /\ [Next]_vars => (NoRemoval /\ InOrder /\ Coverage)'
  BY NoRemovalKept, InOrderKept, CoverageKept
<1> QED
  BY <1>1, <1>2, AlwaysBase, PTL DEF Spec

\* Once nothing is on its way, every device of the backend is described, over
\* crashes, failed fetches and stops, and over removals or restarts of the
\* clients: no call of the backend is lost between its inbox, the tasks that wait
\* for the semaphore and the loop of the add.
THEOREM NothingForgotten == Spec => []DescribedAgain
<1>1. Coverage => DescribedAgain
  <2> SUFFICES ASSUME Coverage, Quiet, Ordered, Spared({"clear"}), NEW d \in paired
               PROVE  d \in Described(dMem)
    BY DEF DescribedAgain
  <2>1. Covered(d)
    BY DEF Coverage, Quiet
  <2> QED
    BY <2>1 DEF Covered, Quiet, Announced, Queued
<1> QED
  BY <1>1, AlwaysCovered, PTL
===============================================================================
