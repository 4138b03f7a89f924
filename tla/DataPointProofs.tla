-------------------------- MODULE DataPointProofs --------------------------
(***************************************************************************)
(* Proofs about data points: first the caches that answer the reads of a   *)
(* generic data point (DataPoint, here under the name Point), then the     *)
(* commands of custom data points (CustomCommands), from the collector of  *)
(* a call up to what the device does with the requests of several calls.   *)
(***************************************************************************)
EXTENDS CustomCommands, FiniteSetTheorems, SequenceTheorems, TLAPS

CONSTANTS Values, NoValue, Readers, LoadAge, CacheAge, CommandAge, PollTicks, Day, MaxChanges
VARIABLES push, backend, events, point, lastSend, central, device, readers, command,
          imported, polled, changes, asked

Point == INSTANCE DataPoint

CacheEntry == [value : Values \cup {NoValue}, age : Nat]
Held == Values \cup {None, NoValue}
Stages == {"idle", "fetch", "fetched", "queue", "ask", "answered"}

\* What a cache hands out is never None, so that Cached = None means that
\* neither cache has a young entry.
CommandTyped == /\ command \in [pc : {"idle", "sent", "done", "waiting"}, value : Held]
                /\ command.pc \in {"sent", "done"} => command.value \in Values
ReadersTyped ==
    /\ readers \in [Readers -> [pc : Stages, value : Held]]
    /\ \A r \in Readers :
        /\ readers[r].pc = "fetch" => readers[r].value \in Values \cup {None}
        /\ readers[r].pc = "answered" => readers[r].value \in Values \cup {NoValue}
CachesTyped == /\ central = None \/ central \in [value : Values, age : Nat]
               /\ device = None \/ device \in CacheEntry

\* Until the last answer is MAX_CACHE_AGE old, the entry of the device is it.
AnswerKept ==
    \/ asked = None \/ asked = CacheAge
    \/ asked \in 0 .. (CacheAge - 1) /\ device # None /\ device.age = asked

Answering == backend \in Values /\ CommandTyped /\ ReadersTyped /\ CachesTyped /\ AnswerKept

\* Growing older makes an entry of an entry, and one tick older before MAX_CACHE_AGE.
LEMMA AgedEntry ==
    ASSUME NEW V, NEW entry, entry = None \/ entry \in [value : V, age : Nat],
           None \notin [value : V, age : Nat], Point!Ages
    PROVE  /\ Point!Aged(entry) = None \/ Point!Aged(entry) \in [value : V, age : Nat]
           /\ entry # None /\ entry.age < CacheAge
              => Point!Aged(entry) # None /\ Point!Aged(entry).age = entry.age + 1
<1>1. CASE entry = None
  BY <1>1 DEF Point!Aged
<1>2. CASE entry \in [value : V, age : Nat]
  <2>1. entry # None
    BY <1>2
  <2>2. (entry.age + 1) % Day \in Nat /\ (entry.age < CacheAge => (entry.age + 1) % Day = entry.age + 1)
    BY <1>2 DEF Point!Ages
  <2>3. Point!Aged(entry) = [value |-> entry.value, age |-> (entry.age + 1) % Day]
    BY <1>2, <2>1 DEF Point!Aged
  <2>4. Point!Aged(entry) \in [value : V, age : Nat]
    BY <1>2, <2>2, <2>3
  <2> QED
    BY <2>2, <2>3, <2>4
<1> QED
  BY <1>1, <1>2

LEMMA AnsweringInit == Point!Init => Answering
<1> SUFFICES ASSUME Point!Init PROVE Answering
  OBVIOUS
<1>1. CommandTyped
  BY DEF Point!Init, Point!Idle, CommandTyped, Held
<1>2. ReadersTyped
  BY DEF Point!Init, Point!Idle, ReadersTyped, Held, Stages
<1> QED
  BY <1>1, <1>2 DEF Point!Init, Answering, CachesTyped, AnswerKept

\* A reader moves to a place, with a value that suits it.
LEMMA Moved ==
    ASSUME ReadersTyped, NEW r \in Readers, NEW pc \in Stages, NEW v \in Held,
           Point!At(r, pc, v),
           pc = "fetch" => v \in Values \cup {None},
           pc = "answered" => v \in Values \cup {NoValue}
    PROVE  /\ ReadersTyped'
           /\ \A q \in Readers : q # r => readers'[q] = readers[q]
           /\ readers'[r].pc = pc
BY DEF ReadersTyped, Point!At

\* What concerns the readers, per action of theirs.
LEMMA LoadStep ==
    ASSUME Point!Ages, Point!NoneIsNoEntry, Answering, NEW r \in Readers, Point!Load(r) \/ Point!StartRead(r)
    PROVE  /\ Answering'
           /\ \A q \in Readers : readers[q].pc # "ask" /\ readers'[q].pc = "ask"
                                 => asked = None \/ asked = CacheAge
<1> USE DEF Answering, Stages
<1>1. None \in Held
  BY DEF Held
<1>2. CASE Point!StartLoad(r)
  <2>1. ReadersTyped' /\ \A q \in Readers : readers'[q].pc = "ask" => readers[q].pc = "ask"
    <3>1. CASE Point!At(r, "fetch", None)
      BY <1>1, <3>1, Moved
    <3>2. CASE Point!At(r, "fetched", None)
      BY <1>1, <3>2, Moved
    <3> QED
      BY <1>2, <3>1, <3>2 DEF Point!StartLoad
  <2> QED
    BY <1>2, <2>1 DEF Point!StartLoad, CommandTyped, CachesTyped, AnswerKept
<1>3. CASE Point!StartRead(r)
  <2>1. ReadersTyped' /\ \A q \in Readers : readers'[q].pc = "ask" => readers[q].pc = "ask"
    BY <1>1, <1>3, Moved DEF Point!StartRead
  <2> QED
    BY <1>3, <2>1 DEF Point!StartRead, CommandTyped, CachesTyped, AnswerKept
<1>4. CASE Point!FetchAnswered(r)
  <2>1. ReadersTyped' /\ \A q \in Readers : readers'[q].pc = "ask" => readers[q].pc = "ask"
    <3>1. CASE Point!At(r, "fetch", backend)
      <4>1. backend \in Held
        BY DEF Held
      <4> QED
        BY <3>1, <4>1, Moved
    <3>2. CASE Point!At(r, "fetched", None)
      BY <1>1, <3>2, Moved
    <3> QED
      BY <1>4, <3>1, <3>2 DEF Point!FetchAnswered
  <2>2. CachesTyped'
    <3>1. CASE readers[r].value # None /\ central' = [value |-> readers[r].value, age |-> 0]
      BY <1>4, <3>1 DEF Point!FetchAnswered, ReadersTyped, CachesTyped
    <3> QED
      BY <1>4, <3>1 DEF Point!FetchAnswered, CachesTyped
  <2> QED
    BY <1>4, <2>1, <2>2 DEF Point!FetchAnswered, CommandTyped, AnswerKept
<1>5. CASE Point!EnterRead(r)
  <2>1. ReadersTyped' /\ \A q \in Readers : readers'[q].pc = "ask" => readers[q].pc = "ask"
    <3>1. CASE Point!At(r, "idle", None)
      BY <1>1, <3>1, Moved
    <3>2. CASE Point!At(r, "queue", None)
      BY <1>1, <3>2, Moved
    <3> QED
      BY <1>5, <3>1, <3>2 DEF Point!EnterRead, Point!Ended
  <2> QED
    BY <1>5, <2>1 DEF Point!EnterRead, CommandTyped, CachesTyped, AnswerKept
<1>6. CASE Point!ReadCached(r)
  <2>1. CASE Point!Cached # None /\ Point!At(r, "idle", None)
    <3>1. ReadersTyped' /\ \A q \in Readers : readers'[q].pc = "ask" => readers[q].pc = "ask"
      BY <1>1, <2>1, Moved
    <3> QED
      BY <1>6, <3>1 DEF Point!ReadCached, Point!SweptCentral, CommandTyped, CachesTyped, AnswerKept
  <2>2. CASE Point!Cached = None /\ Point!At(r, "ask", None)
    <3>1. ReadersTyped'
      BY <1>1, <2>2, Moved
    <3>2. ~Point!Fresh(central, CacheAge)
      BY <2>2 DEF Point!Cached, CachesTyped, Point!Fresh, Point!NoneIsNoEntry
    <3>3. ~Point!Fresh(device, CacheAge)
      BY <2>2, <3>2 DEF Point!Cached, CachesTyped, CacheEntry, Point!Fresh, Point!NoneIsNoEntry
    <3>4. asked = None \/ asked = CacheAge
      BY <3>3 DEF Point!Fresh, Point!Younger, AnswerKept, Point!Ages
    <3> QED
      BY <1>6, <3>1, <3>4 DEF Point!ReadCached, Point!SweptCentral, CommandTyped, CachesTyped, AnswerKept
  <2> QED
    BY <1>6, <2>1, <2>2 DEF Point!ReadCached, Point!Ended
<1>7. CASE Point!Ask(r)
  <2>1. ReadersTyped' /\ \A q \in Readers : readers'[q].pc = "ask" => readers[q].pc = "ask"
    <3>1. backend \in Held /\ NoValue \in Held
      BY DEF Held
    <3>2. PICK v \in {backend, NoValue} : Point!At(r, "answered", v)
      BY <1>7 DEF Point!Ask
    <3>3. v \in Held /\ v \in Values \cup {NoValue}
      BY <3>1, <3>2
    <3> QED
      BY <3>2, <3>3, Moved
  <2> QED
    BY <1>7, <2>1 DEF Point!Ask, CommandTyped, CachesTyped, AnswerKept
<1>8. CASE Point!ReadAnswered(r)
  <2>1. ReadersTyped' /\ \A q \in Readers : readers'[q].pc = "ask" => readers[q].pc = "ask"
    BY <1>1, <1>8, Moved DEF Point!ReadAnswered, Point!Ended
  <2>2. device' = [value |-> readers[r].value, age |-> 0] /\ device' \in CacheEntry
    BY <1>8 DEF Point!ReadAnswered, Point!Remembered, ReadersTyped, CacheEntry
  <2>3. CachesTyped'
    BY <1>8, <2>2 DEF Point!ReadAnswered, CachesTyped
  <2>4. AnswerKept'
    BY <1>8, <2>2 DEF Point!ReadAnswered, AnswerKept, CacheEntry, Point!Ages, Point!NoneIsNoEntry
  <2> QED
    BY <1>8, <2>1, <2>3, <2>4 DEF Point!ReadAnswered, CommandTyped
<1> QED
  BY <1>2, <1>3, <1>4, <1>5, <1>6, <1>7, <1>8 DEF Point!Load

\* The other actions start no read and leave the caches alone, but for their age.
LEMMA OtherStep ==
    ASSUME Point!Ages, Point!NoneIsNoEntry, Answering, [Point!Next]_(Point!vars), ~\E r \in Readers : Point!Load(r) \/ Point!StartRead(r)
    PROVE  Answering' /\ UNCHANGED readers
<1> USE DEF Answering
<1>1. CASE UNCHANGED <<readers, central, device, asked>> /\ backend' \in Values /\ CommandTyped'
      BY <1>1 DEF ReadersTyped, CachesTyped, AnswerKept
<1>2. CASE Point!ReceiveEvent
  <2>1. CommandTyped'
    BY <1>2 DEF Point!ReceiveEvent, CommandTyped, Point!Idle, Held
  <2> QED
    BY <1>1, <1>2, <2>1 DEF Point!ReceiveEvent
<1>3. CASE Point!Change
  BY <1>1, <1>3 DEF Point!Change, CommandTyped
<1>4. CASE \E v \in Values : Point!SendValue(v)
  <2>1. CommandTyped'
    BY <1>4 DEF Point!SendValue, CommandTyped, Point!Idle, Held
  <2> QED
    BY <1>1, <1>4, <2>1 DEF Point!SendValue
<1>5. CASE Point!Obey
  <2>1. CommandTyped'
    BY <1>5 DEF Point!Obey, CommandTyped
  <2> QED
    BY <1>1, <1>5, <2>1 DEF Point!Obey, CommandTyped
<1>6. CASE Point!SendFails \/ Point!WaitTimeout
  <2>1. CommandTyped'
    BY <1>6 DEF Point!SendFails, Point!WaitTimeout, CommandTyped, Point!Idle, Held
  <2> QED
    BY <1>1, <1>6, <2>1 DEF Point!SendFails, Point!WaitTimeout
<1>7. CASE Point!SendAnswered
  <2>1. CommandTyped'
    BY <1>7 DEF Point!SendAnswered, CommandTyped, Point!Idle, Held
  <2> QED
    BY <1>1, <1>7, <2>1 DEF Point!SendAnswered
<1>8. CASE Point!ReadUnconfirmed
  BY <1>1, <1>8 DEF Point!ReadUnconfirmed, CommandTyped
<1>9. CASE Point!Tick
  <2>1. CachesTyped'
    <3>1. None \notin [value : Values, age : Nat]
      BY DEF Point!NoneIsNoEntry
    <3>2. central' = None \/ central' \in [value : Values, age : Nat]
      BY <1>9, <3>1, AgedEntry DEF Point!Tick, CachesTyped
    <3>3. device' = None \/ device' \in CacheEntry
      BY <1>9, AgedEntry DEF Point!Tick, CachesTyped, CacheEntry, Point!NoneIsNoEntry
    <3> QED
      BY <3>2, <3>3 DEF CachesTyped
  <2>2. AnswerKept'
    <3>1. CASE asked = None \/ asked = CacheAge
      BY <1>9, <3>1 DEF Point!Tick, AnswerKept
    <3>2. CASE ~(asked = None \/ asked = CacheAge)
      <4>1. asked \in 0 .. (CacheAge - 1) /\ device # None /\ device.age = asked
        BY <3>2 DEF AnswerKept
      <4>2. device \in CacheEntry /\ device.age < CacheAge
        BY <4>1 DEF CachesTyped, Point!Ages
      <4>3. device' = Point!Aged(device)
        BY <1>9 DEF Point!Tick
      <4>4. device' # None /\ device'.age = asked + 1
        BY <4>1, <4>2, <4>3, AgedEntry DEF CacheEntry, Point!NoneIsNoEntry
      <4> QED
        BY <1>9, <3>2, <4>1, <4>4 DEF Point!Tick, AnswerKept, Point!Ages
    <3> QED
      BY <3>1, <3>2
  <2> QED
    BY <1>9, <2>1, <2>2 DEF Point!Tick, CommandTyped, ReadersTyped
<1>10. CASE UNCHANGED Point!vars
  BY <1>1, <1>10 DEF Point!vars, CommandTyped
<1> QED
  BY <1>2, <1>3, <1>4, <1>5, <1>6, <1>7, <1>8, <1>9, <1>10 DEF Point!Next

(* A cache that is young always answers: the invariant. *)
THEOREM CachesAnswer ==
    ASSUME Point!Ages, Point!NoneIsNoEntry
    PROVE  Point!Spec => []Answering
<1>1. Answering /\ [Point!Next]_(Point!vars) => Answering'
  BY LoadStep, OtherStep
<1> QED
  BY <1>1, AnsweringInit, PTL DEF Point!Spec

(* Whatever is read, sent or lost meanwhile, the backend is not asked again *)
(* within MAX_CACHE_AGE of its last answer, be that answer an error         *)
(* (_ValueCache.get_value, _add_entry_to_device_cache).                     *)
THEOREM NotAskedAgain ==
    ASSUME Point!Ages, Point!NoneIsNoEntry
    PROVE  Point!Spec => Point!NoRepeatedCalls
<1>1. Answering /\ [Point!Next]_(Point!vars)
      => [\A r \in Readers : readers[r].pc # "ask" /\ readers'[r].pc = "ask"
                             => asked = None \/ asked = CacheAge]_(Point!vars)
  BY LoadStep, OtherStep
<1> QED
  BY <1>1, CachesAnswer, PTL DEF Point!Spec, Point!NoRepeatedCalls

(***************************************************************************)
(* The commands of custom data points.                                     *)
(***************************************************************************)
Of(entries) == {entries[i] : i \in DOMAIN entries}
IsSequence(s) == \E n \in Nat : DOMAIN s = 1..n /\ s = [i \in 1..n |-> s[i]]

LEMMA Sequence ==
    ASSUME NEW s, IsSequence(s)
    PROVE  s \in Seq(Of(s)) /\ Len(s) \in Nat /\ DOMAIN s = 1..Len(s)
<1>1. PICK n \in Nat : DOMAIN s = 1..n /\ s = [i \in 1..n |-> s[i]]
  BY DEF IsSequence
<1>2. s \in [1..n -> Of(s)]
  BY <1>1 DEF Of
<1>3. s \in Seq(Of(s))
  BY <1>2, SeqDef
<1> QED
  BY <1>3, LenProperties

LEMMA Concat ==
    ASSUME NEW s, NEW t, IsSequence(s), IsSequence(t)
    PROVE  IsSequence(s \o t) /\ Of(s \o t) = Of(s) \cup Of(t)
<1> DEFINE S == Of(s) \cup Of(t)
<1>1. s \in Seq(S) /\ t \in Seq(S) /\ DOMAIN s = 1..Len(s) /\ DOMAIN t = 1..Len(t)
  <2>1. s \in Seq(Of(s)) /\ t \in Seq(Of(t)) /\ DOMAIN s = 1..Len(s) /\ DOMAIN t = 1..Len(t)
    BY Sequence
  <2> QED
    BY <2>1, SeqMonotonic
<1>2. /\ s \o t \in Seq(S)
      /\ Len(s \o t) = Len(s) + Len(t)
      /\ \A i \in 1 .. Len(s) + Len(t) : (s \o t)[i] = IF i <= Len(s) THEN s[i] ELSE t[i - Len(s)]
  BY <1>1, ConcatProperties
<1>3. Len(s) \in Nat /\ Len(t) \in Nat
  BY Sequence
<1>4. DOMAIN (s \o t) = 1 .. (Len(s) + Len(t)) /\ (s \o t) \in [1 .. (Len(s) + Len(t)) -> S]
  BY <1>2, LenProperties
<1>5. IsSequence(s \o t)
  BY <1>3, <1>4 DEF IsSequence
<1>6. Of(s \o t) \subseteq S
  BY <1>4 DEF Of
<1>7. ASSUME NEW e \in S PROVE e \in Of(s \o t)
  <2>1. CASE e \in Of(s)
    <3>1. PICK i \in 1..Len(s) : e = s[i]
      BY <2>1, <1>1 DEF Of
    <3>2. i \in 1 .. Len(s) + Len(t) /\ (s \o t)[i] = e
      BY <3>1, <1>2, <1>3
    <3> QED
      BY <3>2, <1>4 DEF Of
  <2>2. CASE e \in Of(t)
    <3>1. PICK i \in 1..Len(t) : e = t[i]
      BY <2>2, <1>1 DEF Of
    <3>2. Len(s) + i \in 1 .. Len(s) + Len(t) /\ (s \o t)[Len(s) + i] = e
      BY <3>1, <1>2, <1>3
    <3> QED
      BY <3>2, <1>4 DEF Of
  <2> QED
    BY <2>1, <2>2
<1> QED
  BY <1>5, <1>6, <1>7

LEMMA Short ==
    /\ IsSequence(<<>>) /\ Of(<<>>) = {}
    /\ \A e : IsSequence(<<e>>) /\ Of(<<e>>) = {e}
    /\ \A e, f : IsSequence(<<e, f>>) /\ Of(<<e, f>>) = {e, f}
    /\ \A e, f, g, h : IsSequence(<<e, f, g, h>>) /\ Of(<<e, f, g, h>>) = {e, f, g, h}
<1>1. IsSequence(<<>>) /\ Of(<<>>) = {}
  <2>1. DOMAIN <<>> = 1..0 /\ <<>> = [i \in 1..0 |-> <<>>[i]]
    OBVIOUS
  <2> QED
    BY <2>1 DEF IsSequence, Of
<1>2. ASSUME NEW e PROVE IsSequence(<<e>>) /\ Of(<<e>>) = {e}
  <2>1. DOMAIN <<e>> = 1..1 /\ <<e>> = [i \in 1..1 |-> <<e>>[i]]
    OBVIOUS
  <2> QED
    BY <2>1 DEF IsSequence, Of
<1>3. ASSUME NEW e, NEW f PROVE IsSequence(<<e, f>>) /\ Of(<<e, f>>) = {e, f}
  <2>1. DOMAIN <<e, f>> = 1..2 /\ <<e, f>> = [i \in 1..2 |-> <<e, f>>[i]]
    OBVIOUS
  <2> QED
    BY <2>1 DEF IsSequence, Of
<1>4. ASSUME NEW e, NEW f, NEW g, NEW h
      PROVE IsSequence(<<e, f, g, h>>) /\ Of(<<e, f, g, h>>) = {e, f, g, h}
  <2>1. DOMAIN <<e, f, g, h>> = 1..4 /\ <<e, f, g, h>> = [i \in 1..4 |-> <<e, f, g, h>>[i]]
    OBVIOUS
  <2> QED
    BY <2>1 DEF IsSequence, Of
<1> QED
  BY <1>1, <1>2, <1>3, <1>4

LEMMA WhenIs ==
    ASSUME NEW c \in BOOLEAN, NEW s, IsSequence(s)
    PROVE  IsSequence(When(c, s)) /\ Of(When(c, s)) = IF c THEN Of(s) ELSE {}
BY Short DEF When

LEMMA LeastNumber ==
    ASSUME NEW S \in SUBSET Nat, S # {}
    PROVE  \E m \in S : \A n \in S : m <= n
<1> DEFINE T == {0..n : n \in S}
<1>1. T \subseteq FiniteSubsetsOf(Nat) /\ T # {}
  <2>1. \A n \in S : 0..n \in SUBSET Nat /\ IsFiniteSet(0..n)
    BY FS_Interval
  <2> QED
    BY <2>1 DEF FiniteSubsetsOf
<1> HIDE DEF T
<1>2. IsWellFoundedOn(StrictSubsetOrdering(Nat), FiniteSubsetsOf(Nat))
  BY FS_StrictSubsetOrderingWellFounded
<1>3. PICK X \in T : \A Y \in T : ~(<<Y, X>> \in StrictSubsetOrdering(Nat))
  BY <1>1, <1>2, WFMin
<1>4. PICK m \in S : X = 0..m
  BY DEF T
<1>5. ASSUME NEW n \in S PROVE m <= n
  <2>1. SUFFICES ASSUME n < m PROVE FALSE
    OBVIOUS
  <2>2. 0..n \in T /\ 0..n \in SUBSET Nat /\ X \in SUBSET Nat
    BY <1>4 DEF T
  <2>3. 0..n \subseteq X /\ m \in X /\ m \notin 0..n
    BY <1>4, <2>1
  <2>4. <<0..n, X>> \in StrictSubsetOrdering(Nat)
    BY <2>2, <2>3 DEF StrictSubsetOrdering
  <2> QED
    BY <1>3, <2>2, <2>4
<1> QED
  BY <1>5


LEMMA Extremes ==
    ASSUME NEW S, NEW n \in Nat, S \subseteq 1..n, S # {}
    PROVE  Min(S) \in S /\ Max(S) \in S /\ \A i \in S : Min(S) <= i /\ i <= Max(S)
<1>1. \E m \in S : \A i \in S : m <= i
  BY LeastNumber
<1>2. \E m \in S : \A i \in S : m >= i
  <2> DEFINE T == {n - i : i \in S}
  <2>1. T \in SUBSET Nat /\ T # {}
    <3>1. \A i \in S : n - i \in Nat
      OBVIOUS
    <3> QED
      BY <3>1
  <2>2. PICK m \in T : \A i \in T : m <= i
    BY <2>1, LeastNumber
  <2>3. PICK k \in S : m = n - k
    BY <2>2
  <2>4. ASSUME NEW i \in S PROVE k >= i
    <3>1. n - k <= n - i
      BY <2>2, <2>3
    <3>2. k \in 1..n /\ i \in 1..n
      OBVIOUS
    <3> HIDE DEF T
    <3> QED
      BY <3>1, <3>2
  <2> QED
    BY <2>4
<1>3. Min(S) \in S /\ \A i \in S : Min(S) <= i
  BY <1>1 DEF Min
<1>4. Max(S) \in S /\ \A i \in S : Max(S) >= i
  BY <1>2 DEF Max
<1> QED
  BY <1>3, <1>4

\* A request is made of the entries with a key.
Makes(entries, key, r) ==
    /\ r = [f \in DOMAIN r |-> r[f]]
    /\ DOMAIN r = {e.field : e \in {d \in Of(entries) : Key(d) = key}}
    /\ \A f \in DOMAIN r : \E e \in Of(entries) : Key(e) = key /\ e.field = f /\ r[f] = e.value

LEMMA RequestIs ==
    ASSUME NEW entries, IsSequence(entries), NEW key \in KeysOf(entries)
    PROVE  Makes(entries, key, Request(entries, Group(entries, key)))
<1> DEFINE group == Group(entries, key)
           r == Request(entries, group)
<1>1. PICK n \in Nat : DOMAIN entries = 1..n
  BY DEF IsSequence
<1>2. group \subseteq 1..n
  BY <1>1 DEF Group
<1>3. DOMAIN r = {entries[i].field : i \in group} /\ r = [f \in DOMAIN r |-> r[f]]
  BY DEF Request
<1>4. {entries[i].field : i \in group} = {e.field : e \in {d \in Of(entries) : Key(d) = key}}
  BY DEF Group, Of
<1>5. ASSUME NEW f \in DOMAIN r
      PROVE  \E e \in Of(entries) : Key(e) = key /\ e.field = f /\ r[f] = e.value
  <2> DEFINE T == {i \in group : entries[i].field = f}
  <2>1. T \subseteq 1..n /\ T # {}
    BY <1>2, <1>3
  <2>2. Max(T) \in T
    BY <2>1, Extremes
  <2>3. r[f] = entries[Max(T)].value
    <3>1. f \in {entries[i].field : i \in group}
      BY <1>3
    <3> HIDE DEF group
    <3> QED
      BY <3>1 DEF Request
  <2>4. entries[Max(T)] \in Of(entries) /\ Key(entries[Max(T)]) = key /\ entries[Max(T)].field = f
    BY <2>2 DEF Of, Group
  <2> QED
    BY <2>3, <2>4
<1> QED
  BY <1>3, <1>4, <1>5 DEF Makes

\* The keys have an order, in which each has its place.
LEMMA KeysOrdered ==
    ASSUME NEW entries, IsSequence(entries), \A k \in KeysOf(entries) : k[1] \in Int
    PROVE  /\ Cardinality(KeysOf(entries)) \in Nat
           /\ \A n \in 1..Cardinality(KeysOf(entries)) : NthKey(entries, n) \in KeysOf(entries)
           /\ \A k \in KeysOf(entries) : \E n \in 1..Cardinality(KeysOf(entries)) : NthKey(entries, n) = k
<1> DEFINE keys == KeysOf(entries)
           Earlier(k) == {l \in keys : Before(entries, l, k)}
           First(k) == Min(Group(entries, k))
           count == Cardinality(keys)
<1>1. PICK n \in Nat : DOMAIN entries = 1..n
  BY DEF IsSequence
<1>2. ASSUME NEW k \in keys PROVE First(k) \in 1..n /\ Key(entries[First(k)]) = k
  <2>1. Group(entries, k) \subseteq 1..n /\ Group(entries, k) # {}
    BY <1>1 DEF KeysOf, Group
  <2>2. First(k) \in Group(entries, k)
    BY <2>1, Extremes
  <2> QED
    BY <2>2, <1>1 DEF Group
<1>3. IsFiniteSet(keys)
  <2> DEFINE f == [k \in keys |-> First(k)]
  <2>1. f \in [keys -> 1..n]
    BY <1>2
  <2>2. \A k, l \in keys : f[k] = f[l] => k = l
    BY <1>2
  <2>3. f \in Injection(keys, 1..n)
    BY <2>1, <2>2 DEF Injection, IsInjective
  <2>4. IsFiniteSet(1..n)
    BY FS_Interval
  <2> QED
    BY <2>3, <2>4, FS_Injection
<1>4. count \in Nat
  BY <1>3, FS_CardinalityType
<1>5. \A k, l \in keys : k # l => First(k) # First(l)
  BY <1>2
<1>6. \A k, l \in keys : Before(entries, k, l) <=> k[1] < l[1] \/ (k[1] = l[1] /\ First(k) < First(l))
  BY DEF Before
<1>7. \A k \in keys : k[1] \in Int /\ First(k) \in Int
  BY <1>2
<1> HIDE DEF First
<1>8. \A k, l, m \in keys : Before(entries, k, l) /\ Before(entries, l, m) => Before(entries, k, m)
  BY <1>6, <1>7
<1>9. \A k \in keys : ~Before(entries, k, k)
  BY <1>6, <1>7
<1>10. \A k, l \in keys : k # l => Before(entries, k, l) \/ Before(entries, l, k)
  BY <1>5, <1>6, <1>7
<1> HIDE DEF keys
<1>11. ASSUME NEW k \in keys
       PROVE  /\ IsFiniteSet(Earlier(k)) /\ Cardinality(Earlier(k)) \in 0 .. count - 1
              /\ \A l \in keys : Before(entries, l, k) => Cardinality(Earlier(l)) < Cardinality(Earlier(k))
  <2>1. Earlier(k) \subseteq keys /\ Earlier(k) # keys
    BY <1>9
  <2>2. IsFiniteSet(Earlier(k)) /\ Cardinality(Earlier(k)) <= count /\ Cardinality(Earlier(k)) # count
    BY <2>1, <1>3, FS_Subset
  <2>3. Cardinality(Earlier(k)) \in Nat
    BY <2>2, FS_CardinalityType
  <2>4. ASSUME NEW l \in keys, Before(entries, l, k)
        PROVE  Cardinality(Earlier(l)) < Cardinality(Earlier(k))
    <3>1. Earlier(l) \subseteq Earlier(k) /\ Earlier(l) # Earlier(k)
      BY <1>8, <1>9, <2>4
    <3>2. IsFiniteSet(Earlier(l)) /\ Cardinality(Earlier(l)) <= Cardinality(Earlier(k)) /\ Cardinality(Earlier(l)) # Cardinality(Earlier(k))
      BY <3>1, <2>2, FS_Subset
    <3>3. Cardinality(Earlier(l)) \in Nat
      BY <3>2, FS_CardinalityType
    <3> QED
      BY <3>2, <3>3, <2>3
  <2> QED
    BY <2>2, <2>3, <2>4, <1>4
<1> HIDE DEF Earlier
<1> DEFINE place == [k \in keys |-> Cardinality(Earlier(k))]
<1>12. \A k, l \in keys : Cardinality(Earlier(k)) = Cardinality(Earlier(l)) => k = l
  <2> SUFFICES ASSUME NEW k \in keys, NEW l \in keys, k # l
               PROVE  Cardinality(Earlier(k)) # Cardinality(Earlier(l))
    OBVIOUS
  <2>1. Cardinality(Earlier(k)) \in Int /\ Cardinality(Earlier(l)) \in Int
    BY <1>11, <1>4
  <2>2. Cardinality(Earlier(k)) < Cardinality(Earlier(l)) \/ Cardinality(Earlier(l)) < Cardinality(Earlier(k))
    BY <1>10, <1>11
  <2> QED
    BY <2>1, <2>2
<1>13. place \in Injection(keys, 0 .. count - 1)
  <2>1. place \in [keys -> 0 .. count - 1]
    BY <1>11
  <2> QED
    BY <2>1, <1>12 DEF Injection, IsInjective
<1>14. place \in Surjection(keys, 0 .. count - 1)
  <2>1. IsFiniteSet(0 .. count - 1) /\ Cardinality(0 .. count - 1) = count
    BY <1>4, FS_Interval
  <2> QED
    BY <2>1, <1>13, FS_Injection
<1>15. ASSUME NEW m \in 1..count PROVE \E k \in keys : Cardinality(Earlier(k)) = m - 1
  <2>1. m - 1 \in 0 .. count - 1
    BY <1>4
  <2>2. PICK k \in keys : place[k] = m - 1
    BY <2>1, <1>14 DEF Surjection
  <2> QED
    BY <2>2
<1>16. \A m : NthKey(entries, m) = CHOOSE k \in keys : Cardinality(Earlier(k)) = m - 1
  BY DEF NthKey, keys, Earlier
<1>17. \A m \in 1..count : NthKey(entries, m) \in keys
  BY <1>15, <1>16
<1>18. ASSUME NEW k \in keys PROVE \E m \in 1..count : NthKey(entries, m) = k
  <2> DEFINE m == Cardinality(Earlier(k)) + 1
  <2>1. m \in 1..count /\ m - 1 = Cardinality(Earlier(k))
    BY <1>11, <1>4
  <2>2. NthKey(entries, m) \in keys /\ Cardinality(Earlier(NthKey(entries, m))) = Cardinality(Earlier(k))
    BY <1>15, <1>16, <2>1
  <2>3. NthKey(entries, m) = k
    BY <2>2, <1>12
  <2> QED
    BY <2>1, <2>3
<1> QED
  BY <1>4, <1>17, <1>18 DEF keys

\* What is put into the collector is sent, grouped by order and channel.
LEMMA RequestsAre ==
    ASSUME NEW entries, IsSequence(entries), \A k \in KeysOf(entries) : k[1] \in Int
    PROVE  /\ IsSequence(Requests(entries))
           /\ \A r \in Of(Requests(entries)) : \E k \in KeysOf(entries) : Makes(entries, k, r)
           /\ \A k \in KeysOf(entries) : \E r \in Of(Requests(entries)) : Makes(entries, k, r)
<1> DEFINE count == Cardinality(KeysOf(entries))
<1>1. count \in Nat
  BY KeysOrdered
<1>2. Requests(entries) = [n \in 1..count |-> Request(entries, Group(entries, NthKey(entries, n)))]
  BY DEF Requests
<1>3. DOMAIN Requests(entries) = 1..count
      /\ \A n \in 1..count : Requests(entries)[n] = Request(entries, Group(entries, NthKey(entries, n)))
  BY <1>2
<1>4. IsSequence(Requests(entries))
  BY <1>1, <1>2, <1>3 DEF IsSequence
<1>5. \A n \in 1..count : NthKey(entries, n) \in KeysOf(entries) /\ Makes(entries, NthKey(entries, n), Requests(entries)[n])
  BY <1>3, KeysOrdered, RequestIs
<1>6. \A r \in Of(Requests(entries)) : \E k \in KeysOf(entries) : Makes(entries, k, r)
  BY <1>3, <1>5 DEF Of
<1>7. ASSUME NEW k \in KeysOf(entries) PROVE \E r \in Of(Requests(entries)) : Makes(entries, k, r)
  <2>1. PICK n \in 1..count : NthKey(entries, n) = k
    BY KeysOrdered
  <2> QED
    BY <2>1, <1>3, <1>5 DEF Of
<1> QED
  BY <1>4, <1>6, <1>7

-----------------------------------------------------------------------------
(* Entries and requests.                                                    *)

IsEntry(e) == \E c, f, v : \E o \in Int : e = Entry(c, f, v, o)
Listed(entries) == IsSequence(entries) /\ \A e \in Of(entries) : IsEntry(e)

LEMMA EntryIsEntry ==
    \A c, f, v : \A o \in Int : IsEntry(Entry(c, f, v, o)) /\ Entry(c, f, v, o).field = f
                                /\ Entry(c, f, v, o).value = v /\ Key(Entry(c, f, v, o)) = <<o, c>>
BY DEF IsEntry, Entry, Key

LEMMA PutIsEntry ==
    \A f, v : IsEntry(Put(f, v)) /\ Put(f, v).field = f /\ Put(f, v).value = v
              /\ Key(Put(f, v)) = <<50, "own">>
BY EntryIsEntry DEF Put

LEMMA ListedAre ==
    /\ Listed(<<>>)
    /\ \A e : IsEntry(e) => Listed(<<e>>)
    /\ \A e, f : IsEntry(e) /\ IsEntry(f) => Listed(<<e, f>>)
    /\ \A s, t : Listed(s) /\ Listed(t) => Listed(s \o t) /\ Of(s \o t) = Of(s) \cup Of(t)
    /\ \A c, s : Listed(s) => Listed(When(c, s)) /\ Of(When(c, s)) = IF c THEN Of(s) ELSE {}
<1>1. /\ Listed(<<>>)
      /\ \A e : IsEntry(e) => Listed(<<e>>)
      /\ \A e, f : IsEntry(e) /\ IsEntry(f) => Listed(<<e, f>>)
  BY Short DEF Listed
<1>2. \A s, t : Listed(s) /\ Listed(t) => Listed(s \o t) /\ Of(s \o t) = Of(s) \cup Of(t)
  BY Concat DEF Listed
<1>3. ASSUME NEW c, NEW s, Listed(s)
      PROVE  Listed(When(c, s)) /\ Of(When(c, s)) = IF c THEN Of(s) ELSE {}
  BY <1>1, <1>3, Short DEF When
<1> QED
  BY <1>1, <1>2, <1>3

\* What is sent for a list of entries.
LEMMA SentFor ==
    ASSUME NEW entries, Listed(entries)
    PROVE  LET rs == Requests(entries)
           IN  /\ IsSequence(rs)
               /\ \A r \in Of(rs) : r = [f \in DOMAIN r |-> r[f]]
               /\ \A r \in Of(rs) : \A f \in DOMAIN r :
                    \E e \in Of(entries) : e.field = f /\ r[f] = e.value
               /\ \A e \in Of(entries) : \E r \in Of(rs) : e.field \in DOMAIN r
               /\ \A r \in Of(rs) : \A d, e \in Of(entries) : Key(d) = Key(e)
                    => (d.field \in DOMAIN r => e.field \in DOMAIN r) \/ \E c \in Of(entries) : c.field = d.field /\ Key(c) # Key(d)
<1> DEFINE rs == Requests(entries)
<1>1. \A k \in KeysOf(entries) : \E e \in Of(entries) : Key(e) = k
  BY DEF KeysOf, Of
<1>2. \A e \in Of(entries) : Key(e) \in KeysOf(entries) /\ Key(e)[1] \in Int
  BY DEF KeysOf, Of, Listed, IsEntry, Key, Entry
<1>3. /\ IsSequence(rs)
      /\ \A r \in Of(rs) : \E k \in KeysOf(entries) : Makes(entries, k, r)
      /\ \A k \in KeysOf(entries) : \E r \in Of(rs) : Makes(entries, k, r)
  BY <1>1, <1>2, RequestsAre DEF Listed
<1> HIDE DEF rs
<1>4. \A r \in Of(rs) : r = [f \in DOMAIN r |-> r[f]]
  BY <1>3 DEF Makes
<1>5. \A r \in Of(rs) : \A f \in DOMAIN r :
                    \E e \in Of(entries) : e.field = f /\ r[f] = e.value
  BY <1>3 DEF Makes
<1>6. ASSUME NEW e \in Of(entries) PROVE \E r \in Of(rs) : e.field \in DOMAIN r
  <2>1. PICK r \in Of(rs) : Makes(entries, Key(e), r)
    BY <1>2, <1>3
  <2> QED
    BY <2>1 DEF Makes
<1>7. ASSUME NEW r \in Of(rs), NEW d \in Of(entries), NEW e \in Of(entries), Key(d) = Key(e),
             d.field \in DOMAIN r, \A c \in Of(entries) : c.field = d.field => Key(c) = Key(d)
      PROVE  e.field \in DOMAIN r
  <2>1. PICK k \in KeysOf(entries) : Makes(entries, k, r)
    BY <1>3
  <2>2. PICK c \in Of(entries) : Key(c) = k /\ c.field = d.field
    BY <2>1, <1>7 DEF Makes
  <2>3. Key(e) = k
    BY <2>2, <1>7
  <2> QED
    BY <2>1, <2>3 DEF Makes
<1> QED
  BY <1>3, <1>4, <1>5, <1>6, <1>7 DEF rs

\* The last of the entries for a request and a field.
LastOf(entries, k, f, v) ==
    \E i \in DOMAIN entries :
        /\ Key(entries[i]) = k /\ entries[i].field = f /\ entries[i].value = v
        /\ \A j \in DOMAIN entries : j > i => ~(Key(entries[j]) = k /\ entries[j].field = f)

LEMMA LastAlone == \A f, v : LastOf(<<Put(f, v)>>, <<50, "own">>, f, v)
<1> TAKE f, v
<1> DEFINE s == <<Put(f, v)>>
<1>1. DOMAIN s = {1} /\ s[1] = Put(f, v)
  OBVIOUS
<1> HIDE DEF s
<1> QED
  BY <1>1, PutIsEntry DEF LastOf, s

LEMMA LastConcat ==
    ASSUME NEW s, NEW t, IsSequence(s), IsSequence(t), NEW k, NEW f, NEW v
    PROVE  /\ LastOf(t, k, f, v) => LastOf(s \o t, k, f, v)
           /\ LastOf(s, k, f, v) /\ (\A e \in Of(t) : ~(Key(e) = k /\ e.field = f)) => LastOf(s \o t, k, f, v)
<1> DEFINE S == Of(s) \cup Of(t)
           m == Len(s)
           n == Len(t)
<1>1. s \in Seq(S) /\ t \in Seq(S) /\ m \in Nat /\ n \in Nat /\ DOMAIN s = 1..m /\ DOMAIN t = 1..n
  <2>1. s \in Seq(Of(s)) /\ t \in Seq(Of(t)) /\ m \in Nat /\ n \in Nat /\ DOMAIN s = 1..m /\ DOMAIN t = 1..n
    BY Sequence
  <2> QED
    BY <2>1, SeqMonotonic
<1>2. /\ s \o t \in Seq(S) /\ Len(s \o t) = m + n
      /\ \A i \in 1 .. m + n : (s \o t)[i] = IF i <= m THEN s[i] ELSE t[i - m]
  BY <1>1, ConcatProperties
<1>3. DOMAIN (s \o t) = 1 .. m + n
  BY <1>2, LenProperties
<1> DEFINE st == s \o t
<1> HIDE DEF S, m, n, st
<1>4. DOMAIN st = 1 .. m + n /\ \A i \in 1 .. m + n : st[i] = IF i <= m THEN s[i] ELSE t[i - m]
  BY <1>2, <1>3 DEF st
<1>5. ASSUME LastOf(t, k, f, v) PROVE LastOf(st, k, f, v)
  <2>1. PICK i \in 1..n : /\ Key(t[i]) = k /\ t[i].field = f /\ t[i].value = v
                          /\ \A j \in 1..n : j > i => ~(Key(t[j]) = k /\ t[j].field = f)
    BY <1>1, <1>5 DEF LastOf
  <2>2. m + i \in 1 .. m + n /\ st[m + i] = t[i]
    <3>1. m + i \in 1 .. m + n /\ ~(m + i <= m) /\ (m + i) - m = i
      BY <1>1
    <3> QED
      BY <1>4, <3>1
  <2>3. ASSUME NEW j \in 1 .. m + n, j > m + i PROVE ~(Key(st[j]) = k /\ st[j].field = f)
    <3>1. j - m \in 1..n /\ j - m > i /\ ~(j <= m)
      BY <1>1, <2>3
    <3> QED
      BY <1>4, <2>1, <3>1
  <2> QED
    BY <1>4, <2>1, <2>2, <2>3 DEF LastOf
<1>6. ASSUME LastOf(s, k, f, v), \A e \in Of(t) : ~(Key(e) = k /\ e.field = f) PROVE LastOf(st, k, f, v)
  <2>1. PICK i \in 1..m : /\ Key(s[i]) = k /\ s[i].field = f /\ s[i].value = v
                          /\ \A j \in 1..m : j > i => ~(Key(s[j]) = k /\ s[j].field = f)
    BY <1>1, <1>6 DEF LastOf
  <2>2. i \in 1 .. m + n /\ st[i] = s[i]
    <3>1. i \in 1 .. m + n /\ i <= m
      BY <1>1
    <3> QED
      BY <1>4, <3>1
  <2>3. ASSUME NEW j \in 1 .. m + n, j > i PROVE ~(Key(st[j]) = k /\ st[j].field = f)
    <3>1. CASE j <= m
      <4>1. j \in 1..m /\ st[j] = s[j]
        BY <1>1, <1>4, <3>1
      <4> QED
        BY <2>1, <2>3, <4>1
    <3>2. CASE ~(j <= m)
      <4>1. j - m \in 1..n /\ st[j] = t[j - m]
        BY <1>1, <1>4, <3>2
      <4> QED
        BY <1>1, <1>6, <4>1 DEF Of
    <3> QED
      BY <3>1, <3>2
  <2> QED
    BY <1>4, <2>1, <2>2, <2>3 DEF LastOf
<1> QED
  BY <1>5, <1>6 DEF st

\* Of several values for a field the last is sent.
LEMMA LastIsSent ==
    ASSUME NEW entries, IsSequence(entries), NEW k, NEW f, NEW v, LastOf(entries, k, f, v)
    PROVE  LET r == Request(entries, Group(entries, k)) IN f \in DOMAIN r /\ r[f] = v
<1> DEFINE group == Group(entries, k)
           T == {i \in group : entries[i].field = f}
           r == Request(entries, group)
<1>1. PICK n \in Nat : DOMAIN entries = 1..n
  BY DEF IsSequence
<1>2. PICK i \in 1..n : /\ Key(entries[i]) = k /\ entries[i].field = f /\ entries[i].value = v
                        /\ \A j \in 1..n : j > i => ~(Key(entries[j]) = k /\ entries[j].field = f)
  BY <1>1 DEF LastOf
<1>3. T \subseteq 1..n /\ i \in T
  BY <1>1, <1>2 DEF Group
<1>4. Max(T) \in T /\ i <= Max(T)
  BY <1>3, Extremes
<1>5. Max(T) \in 1..n /\ Key(entries[Max(T)]) = k /\ entries[Max(T)].field = f
  BY <1>3, <1>4 DEF Group
<1>6. ~(Max(T) > i)
  BY <1>2, <1>5
<1>7. Max(T) = i
  BY <1>4, <1>5, <1>6
<1>8. f \in {entries[j].field : j \in group}
  BY <1>3, <1>2
<1> HIDE DEF group
<1>9. r = [g \in {entries[j].field : j \in group} |-> entries[Max({j \in group : entries[j].field = g})].value]
  BY DEF Request
<1>10. f \in DOMAIN r /\ r[f] = entries[Max(T)].value
  BY <1>8, <1>9
<1> QED
  BY <1>2, <1>7, <1>10 DEF group

LEMMA TailIs ==
    ASSUME NEW s, IsSequence(s), s # <<>>
    PROVE  /\ IsSequence(Tail(s)) /\ Head(s) \in Of(s)
           /\ Of(s) = {Head(s)} \cup Of(Tail(s))
<1>1. s \in Seq(Of(s)) /\ Len(s) \in Nat /\ DOMAIN s = 1..Len(s)
  BY Sequence
<1>2. /\ Tail(s) \in Seq(Of(s)) /\ Len(Tail(s)) = Len(s) - 1
      /\ \A i \in 1 .. Len(Tail(s)) : Tail(s)[i] = s[i+1]
  BY <1>1, HeadTailProperties
<1>3. DOMAIN Tail(s) = 1..Len(Tail(s)) /\ Tail(s) \in [1..Len(Tail(s)) -> Of(s)] /\ Len(Tail(s)) \in Nat
  BY <1>2, LenProperties
<1>4. IsSequence(Tail(s))
  BY <1>3 DEF IsSequence
<1>5. Len(s) \in Nat \ {0}
  BY <1>1, EmptySeq
<1>6. Head(s) = s[1]
  BY <1>1, <1>5
<1>7. Head(s) \in Of(s)
  BY <1>6, <1>5, <1>1 DEF Of
<1>8. Of(Tail(s)) \subseteq Of(s)
  BY <1>3 DEF Of
<1>9. ASSUME NEW x \in Of(s), x # Head(s) PROVE x \in Of(Tail(s))
  <2>1. PICK i \in 1..Len(s) : x = s[i]
    BY <1>1 DEF Of
  <2>2. i # 1 /\ i - 1 \in 1..Len(Tail(s)) /\ (i - 1) + 1 = i
    BY <2>1, <1>9, <1>6, <1>2, <1>5
  <2>3. Tail(s)[i - 1] = x
    BY <2>1, <2>2, <1>2
  <2> QED
    BY <2>2, <2>3, <1>3 DEF Of
<1> QED
  BY <1>4, <1>7, <1>8, <1>9

-----------------------------------------------------------------------------
(* The lights.                                                              *)

LightFields(k) == CASE k = "switch"             -> {"POWER"}
                    [] k \in {"dimmer", "pwm"}  -> {"LEVEL"}
                    [] k = "color"              -> {"LEVEL", "COLOR"}
                    [] k = "effect"             -> {"LEVEL", "COLOR", "PROGRAM"}
                    [] k = "temp"               -> {"LEVEL", "COLOR_LEVEL"}
                    [] k \in {"rgbw", "dali"}   -> {"LEVEL", "HUE", "KELVIN"}
                    [] k = "fixed"              -> {"LEVEL", "COLOR", "BEHAVIOUR"}
Times == {None, "short", "long"}

\* A value for a parameter that suits a call, and the duration it is for.
LightGood(k, call, time, f, v) ==
    /\ f = "ON_TIME_UNIT" => v = TimeUnit(time)
    /\ f = "ON_TIME" /\ time = None => v = "not used"
    /\ f = LevelField(k) =>
        /\ v \in 0..2
        /\ call.op = "off" => v = 0
        /\ call.op = "on" => v > 0 /\ (call.args.brightness # None => v = call.args.brightness)
    /\ call.op = "on" =>
        /\ call.args.color # None =>
            /\ k = "fixed" /\ f = "COLOR" => (v = "RED" <=> call.args.color = "red")
            /\ k \in {"color", "effect"} /\ f = "COLOR" => v = call.args.color
            /\ k \in {"rgbw", "dali"} /\ f = "HUE" => v = call.args.color
        /\ call.args.kelvin # None =>
            /\ k = "temp" /\ f = "COLOR_LEVEL" => v = call.args.kelvin
            /\ k \in {"rgbw", "dali"} /\ f = "KELVIN" => v = call.args.kelvin
        /\ call.args.effect # None =>
            /\ k = "effect" /\ f = "PROGRAM" => v = call.args.effect
            /\ k = "fixed" /\ f = "BEHAVIOUR" => v = call.args.effect

LEMMA LightCallsAre ==
    ASSUME NEW k \in LightKinds, NEW call \in LightCalls(k)
    PROVE  /\ call.op \in {"on", "off", "setTimer"}
           /\ \A a \in Arguments : call.args[a] = None \/ call.args[a] \in Options(k)[a]
           /\ call.op = "off" => \A a \in Arguments \ {"rampTime"} : call.args[a] = None
           /\ call.op = "setTimer" => call.args.onTime \in {"short", "long"}
<1> DEFINE One(a) == {[NoArgs EXCEPT ![a] = v] : v \in Options(k)[a]}
           Two(a, b) == {[NoArgs EXCEPT ![a] = v, ![b] = w] : v \in Options(k)[a], w \in Options(k)[b]}
           Suits(args) == \A a \in Arguments : args[a] = None \/ args[a] \in Options(k)[a]
<1>1. Suits(NoArgs)
  BY DEF NoArgs
<1>2. \A a \in Arguments : \A args \in One(a) : Suits(args) /\ args[a] \in Options(k)[a]
                            /\ \A b \in Arguments \ {a} : args[b] = None
  BY DEF NoArgs
<1>3. \A a, b \in Arguments : \A args \in Two(a, b) : Suits(args)
  BY DEF NoArgs
<1>4. LightCalls(k) =
        {LightCall("on", args) :
            args \in {NoArgs} \cup (UNION {One(a) : a \in Arguments})
                     \cup (UNION {Two(a, "onTime") : a \in {"brightness", "rampTime"}})
                     \cup Two("brightness", IF k = "temp" THEN "kelvin" ELSE "color")}
        \cup {LightCall("off", args) : args \in {NoArgs} \cup One("rampTime")}
        \cup {LightCall("setTimer", args) : args \in One("onTime")}
  BY DEF LightCalls
<1> HIDE DEF One, Two, Suits
<1>5. {"brightness", "rampTime", "onTime", "kelvin", "color"} \subseteq Arguments
  BY DEF Arguments
<1>6. CASE call \in {LightCall("on", args) :
            args \in {NoArgs} \cup (UNION {One(a) : a \in Arguments})
                     \cup (UNION {Two(a, "onTime") : a \in {"brightness", "rampTime"}})
                     \cup Two("brightness", IF k = "temp" THEN "kelvin" ELSE "color")}
  <2>1. PICK args \in {NoArgs} \cup (UNION {One(a) : a \in Arguments})
                     \cup (UNION {Two(a, "onTime") : a \in {"brightness", "rampTime"}})
                     \cup Two("brightness", IF k = "temp" THEN "kelvin" ELSE "color") :
                 call = LightCall("on", args)
    BY <1>6
  <2>2. \/ args = NoArgs
        \/ \E a \in Arguments : args \in One(a)
        \/ \E a \in {"brightness", "rampTime"} : args \in Two(a, "onTime")
        \/ args \in Two("brightness", IF k = "temp" THEN "kelvin" ELSE "color")
    OBVIOUS
  <2>3. Suits(args)
    BY <2>2, <1>1, <1>2, <1>3, <1>5
  <2> QED
    BY <2>1, <2>3 DEF LightCall, Suits
<1>7. CASE call \in {LightCall("off", args) : args \in {NoArgs} \cup One("rampTime")}
  <2>1. PICK args \in {NoArgs} \cup One("rampTime") : call = LightCall("off", args)
    BY <1>7
  <2>2. Suits(args) /\ \A a \in Arguments \ {"rampTime"} : args[a] = None
    BY <1>1, <1>2, <1>5 DEF NoArgs
  <2> QED
    BY <2>1, <2>2 DEF LightCall, Suits
<1>8. CASE call \in {LightCall("setTimer", args) : args \in One("onTime")}
  <2>1. PICK args \in One("onTime") : call = LightCall("setTimer", args)
    BY <1>8
  <2>2. Suits(args) /\ args["onTime"] \in Options(k)["onTime"]
    BY <1>2, <1>5
  <2>3. Options(k)["onTime"] = {"short", "long"}
    BY DEF Options
  <2> QED
    BY <2>1, <2>2, <2>3 DEF LightCall, Suits
<1> QED
  BY <1>4, <1>6, <1>7, <1>8

LEMMA OptionsAre ==
    ASSUME NEW k \in LightKinds, NEW call \in LightCalls(k)
    PROVE  /\ call.args.brightness = None \/ (k # "switch" /\ call.args.brightness \in {1, 2})
           /\ call.args.color = None \/ (k \in {"color", "effect", "rgbw", "dali", "fixed"}
                                         /\ call.args.color \in {"white", "red"})
           /\ call.args.kelvin = None \/ (k \in {"temp", "rgbw", "dali"} /\ call.args.kelvin \in {"warm", "cold"})
           /\ call.args.effect = None \/ k \in {"effect", "fixed", "rgbw", "pwm", "dali"}
           /\ k = "fixed" => call.args.effect \in {None, "BLINKING"}
           /\ k = "effect" => call.args.effect \in {None, "off", "campfire"}
           /\ call.args.onTime \in Times
           /\ call.args.rampTime = None \/ (k # "switch" /\ call.args.rampTime = "short")
<1>1. \A a \in Arguments : call.args[a] = None \/ call.args[a] \in Options(k)[a]
  BY LightCallsAre
<1>2. /\ Options(k).brightness = IF k = "switch" THEN {} ELSE {1, 2}
      /\ Options(k).color = IF k \in {"color", "effect", "rgbw", "dali", "fixed"} THEN {"white", "red"} ELSE {}
      /\ Options(k).kelvin = IF k \in {"temp", "rgbw", "dali"} THEN {"warm", "cold"} ELSE {}
      /\ Options(k).onTime = {"short", "long"}
      /\ Options(k).rampTime = IF k = "switch" THEN {} ELSE {"short"}
  BY DEF Options
<1>3. /\ k \notin {"effect", "fixed", "rgbw", "pwm", "dali"} => Options(k).effect = {}
      /\ k = "fixed" => Options(k).effect = {"BLINKING"}
      /\ k = "effect" => Options(k).effect = {"off", "campfire"}
  BY DEF Options
<1> QED
  BY <1>1, <1>2, <1>3 DEF Arguments, Times

Own == <<50, "own">>
OwnFields(k) == {LevelField(k), "ON_TIME", "ON_TIME_UNIT"}

\* Entries whose values suit a call; the duration goes where the level goes.
Suit(k, call, time, entries) ==
    /\ Listed(entries)
    /\ \A e \in Of(entries) :
        /\ LightGood(k, call, time, e.field, e.value)
        /\ e.field \in OwnFields(k) => Key(e) = Own

LEMMA Suiting ==
    ASSUME NEW k, NEW call, NEW time
    PROVE  /\ Suit(k, call, time, <<>>)
           /\ \A f, v : LightGood(k, call, time, f, v) => Suit(k, call, time, <<Put(f, v)>>)
           /\ \A c, f, v : \A o \in Int : LightGood(k, call, time, f, v) /\ f \notin OwnFields(k)
                => Suit(k, call, time, <<Entry(c, f, v, o)>>)
           /\ \A s, t : Suit(k, call, time, s) /\ Suit(k, call, time, t) => Suit(k, call, time, s \o t)
           /\ \A c, s : (c => Suit(k, call, time, s)) => Suit(k, call, time, When(c, s))
<1>1. Suit(k, call, time, <<>>)
  BY ListedAre, Short DEF Suit
<1>2. \A e : IsEntry(e) /\ LightGood(k, call, time, e.field, e.value) /\ (e.field \in OwnFields(k) => Key(e) = Own)
        => Suit(k, call, time, <<e>>)
  BY ListedAre, Short DEF Suit
<1>3. \A f, v : LightGood(k, call, time, f, v) => Suit(k, call, time, <<Put(f, v)>>)
  BY <1>2, PutIsEntry DEF Own
<1>4. \A c, f, v : \A o \in Int : LightGood(k, call, time, f, v) /\ f \notin OwnFields(k)
        => Suit(k, call, time, <<Entry(c, f, v, o)>>)
  BY <1>2, EntryIsEntry
<1>5. \A s, t : Suit(k, call, time, s) /\ Suit(k, call, time, t) => Suit(k, call, time, s \o t)
  BY ListedAre DEF Suit
<1>6. \A c, s : (c => Suit(k, call, time, s)) => Suit(k, call, time, When(c, s))
  BY <1>1 DEF When
<1> QED
  BY <1>1, <1>3, <1>4, <1>5, <1>6

\* The parameters that a call says nothing of.
LEMMA Unasked ==
    ASSUME NEW k \in LightKinds, NEW call, NEW time
    PROVE  /\ \A f, v : f \notin {"POWER", "LEVEL", "COLOR", "HUE", "COLOR_LEVEL", "KELVIN", "PROGRAM", "BEHAVIOUR",
                                  "ON_TIME", "ON_TIME_UNIT"} => LightGood(k, call, time, f, v)
           /\ LightGood(k, call, time, "ON_TIME_UNIT", TimeUnit(time))
           /\ \A v : time # None => LightGood(k, call, time, "ON_TIME", v)
           /\ time = None => LightGood(k, call, time, "ON_TIME", "not used")
BY DEF LightGood, LevelField

LEMMA TimedSuits ==
    ASSUME NEW k \in LightKinds, NEW call, NEW time, NEW f \in {"ON_TIME", "RAMP_TIME"}, NEW v,
           f = "ON_TIME" => time # None /\ v = time
    PROVE  /\ Suit(k, call, time, Timed(k, f, v))
           /\ Put(f, v) \in Of(Timed(k, f, v)) /\ LastOf(Timed(k, f, v), Own, f, v)
           /\ k \in {"rgbw", "pwm"} \/ (k \in {"dali", "fixed"} /\ TimeUnit(v) # "SECONDS")
              => \E e \in Of(Timed(k, f, v)) : e.field = UnitField[f]
           /\ \A e \in Of(Timed(k, f, v)) : e.field \in {f, UnitField[f]}
<1> DEFINE unit == <<Put(UnitField[f], TimeUnit(v))>>
           units == CASE k \in {"rgbw", "pwm"}   -> unit
                      [] k \in {"dali", "fixed"} -> When(TimeUnit(v) # "SECONDS", unit)
                      [] OTHER                   -> <<>>
<1>1. UnitField[f] = IF f = "ON_TIME" THEN "ON_TIME_UNIT" ELSE "RAMP_TIME_UNIT"
  BY DEF UnitField
<1>2. LightGood(k, call, time, UnitField[f], TimeUnit(v))
  <2>1. CASE f = "ON_TIME"
    BY <1>1, <2>1, Unasked
  <2>2. CASE f = "RAMP_TIME"
    BY <1>1, <2>2, Unasked
  <2> QED
    BY <2>1, <2>2
<1>3. Suit(k, call, time, unit)
  BY <1>2, Suiting
<1>4. Of(unit) = {Put(UnitField[f], TimeUnit(v))}
  BY Short
<1> HIDE DEF unit
<1>5. Suit(k, call, time, units) /\ (units = unit \/ units = <<>>)
      /\ (k \in {"rgbw", "pwm"} \/ (k \in {"dali", "fixed"} /\ TimeUnit(v) # "SECONDS") => units = unit)
  <2>1. CASE k \in {"rgbw", "pwm"}
    BY <1>3, <2>1
  <2>2. CASE k \in {"dali", "fixed"}
    <3>1. units = When(TimeUnit(v) # "SECONDS", unit)
      BY <2>2
    <3> QED
      BY <2>2, <3>1, <1>3, Suiting DEF When
  <2>3. CASE k \notin {"rgbw", "pwm", "dali", "fixed"}
    <3>1. units = <<>>
      BY <2>3
    <3> QED
      BY <2>3, <3>1, Suiting
  <2> QED
    BY <2>1, <2>2, <2>3
<1>6. Suit(k, call, time, <<Put(f, v)>>)
  <2>1. LightGood(k, call, time, f, v)
    BY Unasked
  <2> QED
    BY <2>1, Suiting
<1>7. Timed(k, f, v) = units \o <<Put(f, v)>>
  BY DEF Timed, unit
<1> HIDE DEF units
<1>8. Of(Timed(k, f, v)) = Of(units) \cup {Put(f, v)}
  BY <1>5, <1>6, <1>7, ListedAre, Short DEF Suit
<1>9. LastOf(Timed(k, f, v), Own, f, v)
  <2>1. LastOf(<<Put(f, v)>>, Own, f, v)
    BY LastAlone DEF Own
  <2> QED
    BY <1>5, <1>6, <1>7, <2>1, LastConcat DEF Suit, Listed
<1>10. units = unit => \E e \in Of(Timed(k, f, v)) : e.field = UnitField[f]
  BY <1>4, <1>8, PutIsEntry
<1>11. \A e \in Of(Timed(k, f, v)) : e.field \in {f, UnitField[f]}
  BY <1>4, <1>5, <1>8, PutIsEntry, Short
<1> QED
  BY <1>5, <1>6, <1>7, <1>8, <1>9, <1>10, <1>11, Suiting

LEMMA ColorsSuit ==
    ASSUME NEW k \in LightKinds, NEW call \in LightCalls(k), call.op = "on", NEW values, NEW time
    PROVE  Suit(k, call, time, ColorEntries(k, call, values))
<1> DEFINE color == call.args.color
           kelvin == call.args.kelvin
           effect == call.args.effect
<1>0. /\ 5 \in Int /\ 50 \in Int /\ 95 \in Int
      /\ "PROGRAM" \notin OwnFields(k) /\ "COLOR" \notin OwnFields(k) /\ "COLOR_LEVEL" \notin OwnFields(k)
  BY DEF OwnFields, LevelField
<1>1. CASE k \in {"color", "effect"}
  <2>1. k = "effect" => Suit(k, call, time, EffectEntries(call, values))
    <3> HAVE k = "effect"
    <3>1. effect = None => LightGood(k, call, time, "PROGRAM", "off")
      BY DEF LightGood, LevelField
    <3>2. LightGood(k, call, time, "PROGRAM", effect)
      BY DEF LightGood, LevelField
    <3>. /\ effect = None => Suit(k, call, time, <<Entry("program", "PROGRAM", "off", 5)>>)
         /\ Suit(k, call, time, <<Entry("program", "PROGRAM", effect, 95)>>)
      BY <1>0, <3>1, <3>2, Suiting
    <3>3. Suit(k, call, time, When(effect = None /\ values.PROGRAM # "off", <<Entry("program", "PROGRAM", "off", 5)>>))
      BY Suiting
    <3>4. Suit(k, call, time, When(effect # None, <<Entry("program", "PROGRAM", effect, 95)>>))
      BY Suiting
    <3> QED
      BY <3>3, <3>4, Suiting DEF EffectEntries
  <2>2. LightGood(k, call, time, "COLOR", color)
    BY <1>1 DEF LightGood, LevelField
  <2>3. Suit(k, call, time, When(k = "effect", EffectEntries(call, values)))
    BY <2>1, Suiting
  <2>. Suit(k, call, time, <<Entry("color", "COLOR", color, 50)>>)
    BY <1>0, <2>2, Suiting
  <2>4. Suit(k, call, time, When(color # None, <<Entry("color", "COLOR", color, 50)>>))
    BY Suiting
  <2> DEFINE effects == When(k = "effect", EffectEntries(call, values))
             colors == When(color # None, <<Entry("color", "COLOR", color, 50)>>)
  <2>5. ColorEntries(k, call, values) = effects \o colors
    BY <1>1 DEF ColorEntries
  <2> HIDE DEF effects, colors
  <2>6. Suit(k, call, time, effects) /\ Suit(k, call, time, colors)
    BY <2>3, <2>4 DEF effects, colors
  <2> QED
    BY <2>5, <2>6, Suiting
<1>2. CASE k = "temp"
  <2>1. LightGood(k, call, time, "COLOR_LEVEL", kelvin)
    BY <1>2 DEF LightGood, LevelField
  <2>2. ColorEntries(k, call, values) = When(kelvin # None, <<Entry("color", "COLOR_LEVEL", kelvin, 50)>>)
    BY <1>2 DEF ColorEntries
  <2>3. Suit(k, call, time, <<Entry("color", "COLOR_LEVEL", kelvin, 50)>>)
    BY <1>0, <2>1, Suiting
  <2> QED
    BY <2>2, <2>3, Suiting
<1>3. CASE k \in {"rgbw", "pwm", "dali"}
  <2>1. LightGood(k, call, time, "HUE", color) /\ LightGood(k, call, time, "KELVIN", kelvin)
    BY <1>3 DEF LightGood, LevelField
  <2>2. ColorEntries(k, call, values) = When(color # None, <<Put("HUE", color)>>)
                                        \o When(kelvin # None, <<Put("KELVIN", kelvin)>>)
    BY <1>3 DEF ColorEntries
  <2>3. Suit(k, call, time, When(color # None, <<Put("HUE", color)>>))
        /\ Suit(k, call, time, When(kelvin # None, <<Put("KELVIN", kelvin)>>))
    BY <2>1, Suiting
  <2> QED
    BY <2>2, <2>3, Suiting
<1>4. CASE k = "fixed"
  <2> DEFINE colors == IF color # None THEN <<Put("COLOR", FixedColor(color))>>
                       ELSE When(values.COLOR \in {"BLACK", None}, <<Put("COLOR", "WHITE")>>)
             behaviour == IF effect # None THEN effect
                          ELSE IF values.BEHAVIOUR \in {"ON", "BLINKING"} THEN values.BEHAVIOUR
                          ELSE "ON"
  <2>1. color # None => LightGood(k, call, time, "COLOR", FixedColor(color))
    BY <1>4, OptionsAre DEF LightGood, LevelField, FixedColor
  <2>2. color = None => LightGood(k, call, time, "COLOR", "WHITE")
    BY <1>4 DEF LightGood, LevelField
  <2>3. Suit(k, call, time, colors)
    <3>1. CASE color # None
      BY <2>1, <3>1, Suiting
    <3>2. CASE color = None
      BY <2>2, <3>2, Suiting
    <3> QED
      BY <3>1, <3>2
  <2>4. LightGood(k, call, time, "BEHAVIOUR", behaviour)
    BY <1>4 DEF LightGood, LevelField
  <2>5. ColorEntries(k, call, values) = colors \o <<Put("BEHAVIOUR", behaviour)>>
    BY <1>4 DEF ColorEntries, FixedEntries
  <2> HIDE DEF colors, behaviour
  <2>6. Suit(k, call, time, <<Put("BEHAVIOUR", behaviour)>>)
    BY <2>4, Suiting
  <2> QED
    BY <2>3, <2>5, <2>6, Suiting
<1>5. CASE k \in {"dimmer", "switch"}
  <2>1. ColorEntries(k, call, values) = <<>>
    BY <1>5 DEF ColorEntries
  <2> QED
    BY <2>1, Suiting
<1> QED
  BY <1>1, <1>2, <1>3, <1>4, <1>5 DEF LightKinds

-----------------------------------------------------------------------------
(* That what a light needs is sent.                                         *)

Names(entries) == {e.field : e \in Of(entries)}

LEMMA NamesAre ==
    /\ Names(<<>>) = {}
    /\ \A f, v : Listed(<<Put(f, v)>>) /\ Names(<<Put(f, v)>>) = {f}
    /\ \A c, f, v : \A o \in Int : Listed(<<Entry(c, f, v, o)>>) /\ Names(<<Entry(c, f, v, o)>>) = {f}
    /\ \A s, t : Listed(s) /\ Listed(t) => Listed(s \o t) /\ Names(s \o t) = Names(s) \cup Names(t)
    /\ \A c, s : (c => Listed(s)) => Listed(When(c, s)) /\ Names(When(c, s)) = IF c THEN Names(s) ELSE {}
<1>1. Names(<<>>) = {} /\ \A e : Names(<<e>>) = {e.field}
  BY Short DEF Names
<1>2. \A f, v : Listed(<<Put(f, v)>>) /\ Names(<<Put(f, v)>>) = {f}
  BY <1>1, ListedAre, PutIsEntry
<1>3. \A c, f, v : \A o \in Int : Listed(<<Entry(c, f, v, o)>>) /\ Names(<<Entry(c, f, v, o)>>) = {f}
  BY <1>1, ListedAre, EntryIsEntry
<1>4. \A s, t : Listed(s) /\ Listed(t) => Listed(s \o t) /\ Names(s \o t) = Names(s) \cup Names(t)
  BY ListedAre DEF Names
<1>5. \A c, s : (c => Listed(s)) => Listed(When(c, s)) /\ Names(When(c, s)) = IF c THEN Names(s) ELSE {}
  BY <1>1, ListedAre DEF When
<1> QED
  BY <1>1, <1>2, <1>3, <1>4, <1>5

\* The parameters that a call needs a value for.
LightAsks(k, call, f) ==
    \/ f = LevelField(k)
    \/ /\ call.op = "on"
       /\ \/ /\ call.args.color # None
             /\ \/ k \in {"fixed", "color", "effect"} /\ f = "COLOR"
                \/ k \in {"rgbw", "dali"} /\ f = "HUE"
          \/ /\ call.args.kelvin # None
             /\ \/ k = "temp" /\ f = "COLOR_LEVEL"
                \/ k \in {"rgbw", "dali"} /\ f = "KELVIN"
          \/ /\ call.args.effect # None
             /\ \/ k = "effect" /\ f = "PROGRAM"
                \/ k = "fixed" /\ f = "BEHAVIOUR"

LEMMA ColorsNamed ==
    ASSUME NEW k \in LightKinds, NEW call \in LightCalls(k), call.op = "on", NEW values,
           NEW f, LightAsks(k, call, f), f # LevelField(k)
    PROVE  f \in Names(ColorEntries(k, call, values))
<1> DEFINE color == call.args.color
           kelvin == call.args.kelvin
           effect == call.args.effect
<1>0. 5 \in Int /\ 50 \in Int /\ 95 \in Int
  OBVIOUS
<1>1. CASE k \in {"color", "effect"}
  <2> DEFINE colored == <<Entry("color", "COLOR", color, 50)>>
             begun == <<Entry("program", "PROGRAM", effect, 95)>>
             ended == <<Entry("program", "PROGRAM", "off", 5)>>
  <2>1. /\ Listed(colored) /\ Names(colored) = {"COLOR"}
        /\ Listed(begun) /\ Names(begun) = {"PROGRAM"}
        /\ Listed(ended)
    BY <1>0, NamesAre
  <2>2. ColorEntries(k, call, values)
          = When(k = "effect", EffectEntries(call, values)) \o When(color # None, colored)
    BY <1>1 DEF ColorEntries
  <2>3. EffectEntries(call, values)
          = When(effect = None /\ values.PROGRAM # "off", ended) \o When(effect # None, begun)
    BY DEF EffectEntries
  <2> HIDE DEF colored, begun, ended
  <2>4. Listed(When(color # None, colored)) /\ (color # None => Names(When(color # None, colored)) = {"COLOR"})
    BY <2>1, NamesAre
  <2>5. Listed(When(effect # None, begun)) /\ (effect # None => Names(When(effect # None, begun)) = {"PROGRAM"})
    BY <2>1, NamesAre
  <2>6. Listed(When(effect = None /\ values.PROGRAM # "off", ended))
    BY <2>1, NamesAre
  <2> DEFINE x == When(effect = None /\ values.PROGRAM # "off", ended)
             y == When(effect # None, begun)
             z == When(color # None, colored)
  <2> HIDE DEF x, y, z
  <2>7. Listed(x \o y) /\ Names(x \o y) = Names(x) \cup Names(y)
    BY <2>5, <2>6, NamesAre DEF x, y
  <2>8. EffectEntries(call, values) = x \o y
    BY <2>3 DEF x, y
  <2>9. Listed(When(k = "effect", x \o y)) /\ (k = "effect" => Names(When(k = "effect", x \o y)) = Names(x \o y))
    BY <2>7, NamesAre
  <2>10. Names(ColorEntries(k, call, values)) = Names(When(k = "effect", x \o y)) \cup Names(z)
    BY <2>2, <2>4, <2>8, <2>9, NamesAre DEF z
  <2>11. CASE f = "COLOR"
    <3>1. color # None
      BY <1>1, <2>11 DEF LightAsks, LevelField
    <3> QED
      BY <3>1, <2>4, <2>10, <2>11 DEF z
  <2>12. CASE f = "PROGRAM"
    <3>1. effect # None /\ k = "effect"
      BY <1>1, <2>12 DEF LightAsks, LevelField
    <3> QED
      BY <3>1, <2>5, <2>7, <2>9, <2>10, <2>12 DEF y
  <2> QED
    BY <1>1, <2>11, <2>12 DEF LightAsks
<1>2. CASE k = "temp"
  <2>1. f = "COLOR_LEVEL" /\ kelvin # None
    BY <1>2 DEF LightAsks
  <2>2. ColorEntries(k, call, values) = When(kelvin # None, <<Entry("color", "COLOR_LEVEL", kelvin, 50)>>)
    BY <1>2 DEF ColorEntries
  <2>3. /\ Listed(<<Entry("color", "COLOR_LEVEL", kelvin, 50)>>)
        /\ Names(<<Entry("color", "COLOR_LEVEL", kelvin, 50)>>) = {"COLOR_LEVEL"}
    BY <1>0, NamesAre
  <2>4. ColorEntries(k, call, values) = <<Entry("color", "COLOR_LEVEL", kelvin, 50)>>
    BY <2>1, <2>2 DEF When
  <2> QED
    BY <2>1, <2>3, <2>4
<1>3. CASE k \in {"rgbw", "pwm", "dali"}
  <2>1. \/ f = "HUE" /\ color # None
        \/ f = "KELVIN" /\ kelvin # None
    BY <1>3 DEF LightAsks
  <2>2. ColorEntries(k, call, values) = When(color # None, <<Put("HUE", color)>>)
                                        \o When(kelvin # None, <<Put("KELVIN", kelvin)>>)
    BY <1>3 DEF ColorEntries
  <2>3. /\ Listed(When(color # None, <<Put("HUE", color)>>))
        /\ color # None => Names(When(color # None, <<Put("HUE", color)>>)) = {"HUE"}
        /\ Listed(When(kelvin # None, <<Put("KELVIN", kelvin)>>))
        /\ kelvin # None => Names(When(kelvin # None, <<Put("KELVIN", kelvin)>>)) = {"KELVIN"}
    BY NamesAre
  <2> QED
    BY <2>1, <2>2, <2>3, NamesAre
<1>4. CASE k = "fixed"
  <2> DEFINE behaviour == IF effect # None THEN effect
                          ELSE IF values.BEHAVIOUR \in {"ON", "BLINKING"} THEN values.BEHAVIOUR
                          ELSE "ON"
             colors == IF color # None THEN <<Put("COLOR", FixedColor(color))>>
                       ELSE When(values.COLOR \in {"BLACK", None}, <<Put("COLOR", "WHITE")>>)
  <2>1. ColorEntries(k, call, values) = colors \o <<Put("BEHAVIOUR", behaviour)>>
    BY <1>4 DEF ColorEntries, FixedEntries
  <2>2. Listed(<<Put("BEHAVIOUR", behaviour)>>) /\ Names(<<Put("BEHAVIOUR", behaviour)>>) = {"BEHAVIOUR"}
    BY NamesAre
  <2>3. Listed(colors) /\ (color # None => Names(colors) = {"COLOR"})
    <3>1. Listed(<<Put("COLOR", FixedColor(color))>>) /\ Names(<<Put("COLOR", FixedColor(color))>>) = {"COLOR"}
          /\ Listed(<<Put("COLOR", "WHITE")>>)
      BY NamesAre
    <3>2. Listed(When(values.COLOR \in {"BLACK", None}, <<Put("COLOR", "WHITE")>>))
      BY <3>1, NamesAre
    <3> QED
      BY <3>1, <3>2
  <2>4. \/ f = "COLOR" /\ color # None
        \/ f = "BEHAVIOUR"
    BY <1>4 DEF LightAsks
  <2> HIDE DEF colors, behaviour
  <2>5. Names(ColorEntries(k, call, values)) = Names(colors) \cup {"BEHAVIOUR"}
    BY <2>1, <2>2, <2>3, NamesAre
  <2> QED
    BY <2>3, <2>4, <2>5
<1>5. CASE k \in {"dimmer", "switch"}
  BY <1>5 DEF LightAsks
<1> QED
  BY <1>1, <1>2, <1>3, <1>4, <1>5 DEF LightKinds

\* The duration is sent, with its unit where one is needed.
NeedsUnit(k, time) ==
    k \in {"rgbw", "pwm"} \/ (k \in {"dali", "fixed"} /\ TimeUnit(time) # "SECONDS")
Lasts(k, time, entries) ==
    /\ LastOf(entries, Own, "ON_TIME", time)
    /\ NeedsUnit(k, time) => "ON_TIME_UNIT" \in Names(entries)

\* The entries of a call that turns a light on or off.
Serves(k, call, time, entries) ==
    /\ Suit(k, call, time, entries)
    /\ \A f : LightAsks(k, call, f) => f \in Names(entries)
    /\ call.op = "on" /\ time # None => Lasts(k, time, entries)

LEMMA LightEntriesServe ==
    ASSUME NEW k \in LightKinds, NEW call \in LightCalls(k), call.op # "setTimer",
           NEW values, NEW clock, k # "switch" => values.LEVEL \in 0..2 \cup {None}, None \notin Int,
           NEW time, time = Duration(call, clock)
    PROVE  Serves(k, call, time, LightEntries(k, call, values, clock))
<1> DEFINE ramp == call.args.rampTime
<1>1. call.op \in {"on", "off"}
  BY LightCallsAre
<1>2. CASE k = "switch"
  <2>1. call.args.brightness = None
    BY <1>2, OptionsAre
  <2>2. LightGood(k, call, time, "POWER", IF call.op = "on" THEN 2 ELSE 0)
    BY <1>1, <1>2, <2>1 DEF LightGood, LevelField
  <2>3. CASE call.op = "off"
    <3>1. LightEntries(k, call, values, clock) = <<Put("POWER", 0)>>
      BY <1>2, <2>3 DEF LightEntries, SwitchEntries
    <3>2. Suit(k, call, time, <<Put("POWER", 0)>>)
      BY <2>2, <2>3, Suiting
    <3> QED
      BY <1>2, <2>3, <3>1, <3>2, NamesAre DEF Serves, LightAsks, LevelField
  <2>4. CASE call.op = "on"
    <3>1. LightEntries(k, call, values, clock) = When(time # None, <<Put("ON_TIME", time)>>) \o <<Put("POWER", 2)>>
      BY <1>2, <2>4 DEF LightEntries, SwitchEntries
    <3>2. /\ Suit(k, call, time, <<Put("POWER", 2)>>)
          /\ time # None => Suit(k, call, time, <<Put("ON_TIME", time)>>)
      BY <2>2, <2>4, Suiting, Unasked
    <3>3. Suit(k, call, time, When(time # None, <<Put("ON_TIME", time)>>))
      BY <3>2, Suiting
    <3> DEFINE on == When(time # None, <<Put("ON_TIME", time)>>)
               power == <<Put("POWER", 2)>>
    <3>4. Suit(k, call, time, on \o power)
      BY <3>2, <3>3, Suiting
    <3>5. Listed(on) /\ Listed(power) /\ Names(power) = {"POWER"} /\ Names(on \o power) = Names(on) \cup Names(power)
      BY NamesAre
    <3>6. \A f : LightAsks(k, call, f) => f = "POWER"
      BY <1>2 DEF LightAsks, LevelField
    <3>7. ASSUME time # None PROVE Lasts(k, time, on \o power)
      <4>1. on = <<Put("ON_TIME", time)>>
        BY <3>7 DEF When
      <4>2. LastOf(on, Own, "ON_TIME", time)
        BY <4>1, LastAlone DEF Own
      <4>3. \A e \in Of(power) : e.field # "ON_TIME"
        BY <3>5 DEF Names
      <4>4. LastOf(on \o power, Own, "ON_TIME", time)
        BY <3>5, <4>2, <4>3, LastConcat DEF Listed
      <4> QED
        BY <1>2, <4>4 DEF Lasts, NeedsUnit
    <3> HIDE DEF on, power
    <3>8. LightEntries(k, call, values, clock) = on \o power
      BY <3>1 DEF on, power
    <3>9. \A f : LightAsks(k, call, f) => f \in Names(on \o power)
      BY <3>5, <3>6
    <3> QED
      BY <3>4, <3>7, <3>8, <3>9 DEF Serves
  <2> QED
    BY <1>1, <2>3, <2>4
<1>3. Suit(k, call, time, NotUsed)
  BY Suiting, Unasked DEF NotUsed
<1>4. Suit(k, call, time, When(ramp # None, Timed(k, "RAMP_TIME", ramp)))
  BY TimedSuits, Suiting
<1>5. CASE k # "switch" /\ call.op = "off"
  <2>1. LightGood(k, call, time, "LEVEL", 0)
    BY <1>5 DEF LightGood
  <2>2. Suit(k, call, time, <<Put("LEVEL", 0)>>)
    BY <2>1, Suiting
  <2>3. LightEntries(k, call, values, clock) =
            When(k \in {"rgbw", "pwm"} /\ ramp # None, NotUsed)
            \o When(ramp # None, Timed(k, "RAMP_TIME", ramp)) \o <<Put("LEVEL", 0)>>
    BY <1>5 DEF LightEntries, OffEntries
  <2>4. Suit(k, call, time, When(k \in {"rgbw", "pwm"} /\ ramp # None, NotUsed))
    BY <1>3, Suiting
  <2>5. Suit(k, call, time, When(k \in {"rgbw", "pwm"} /\ ramp # None, NotUsed)
            \o When(ramp # None, Timed(k, "RAMP_TIME", ramp)))
    BY <2>4, <1>4, Suiting
  <2> DEFINE before == When(k \in {"rgbw", "pwm"} /\ ramp # None, NotUsed)
                       \o When(ramp # None, Timed(k, "RAMP_TIME", ramp))
             level == <<Put("LEVEL", 0)>>
  <2>6. Suit(k, call, time, before \o level)
    BY <2>2, <2>5, Suiting
  <2>7. Listed(before) /\ Listed(level) /\ Names(level) = {"LEVEL"}
    BY <2>5, NamesAre DEF Suit
  <2>8. LightEntries(k, call, values, clock) = before \o level
    BY <2>3
  <2> HIDE DEF before, level
  <2>9. "LEVEL" \in Names(before \o level)
    BY <2>7, NamesAre
  <2>10. \A f : LightAsks(k, call, f) => f = "LEVEL"
    BY <1>5 DEF LightAsks, LevelField
  <2> QED
    BY <1>5, <2>6, <2>8, <2>9, <2>10 DEF Serves
<1>6. CASE k # "switch" /\ call.op = "on"
  <2> DEFINE level == IF call.args.brightness # None THEN call.args.brightness
                      ELSE IF IsOn(values) THEN values.LEVEL ELSE 2
             colors == ColorEntries(k, call, values)
             more == When(k \in {"rgbw", "pwm", "dali"}, EffectsAndRamp(k, call, time))
             on == When(time # None, Timed(k, "ON_TIME", time))
             ramps == When(ramp # None, Timed(k, "RAMP_TIME", ramp))
  <2>1. level \in {1, 2} /\ (call.args.brightness # None => level = call.args.brightness)
    BY <1>6, OptionsAre DEF IsOn
  <2>2. LightGood(k, call, time, "LEVEL", level)
    BY <1>6, <2>1 DEF LightGood, LevelField
  <2> HIDE DEF level
  <2>3. Suit(k, call, time, <<Put("LEVEL", level)>>)
    BY <2>2, Suiting
  <2>4. Suit(k, call, time, colors)
    BY <1>6, ColorsSuit
  <2>5. Suit(k, call, time, EffectsAndRamp(k, call, time))
    <3> DEFINE sought == IF k = "dali" THEN call.args.onTime ELSE time
               effects == When(k \in {"rgbw", "dali"} /\ call.args.effect # None, <<Put("EFFECT", call.args.effect)>>)
    <3>1. Suit(k, call, time, When(ramp # None /\ sought = None, NotUsed))
      BY <1>3, Suiting
    <3>2. Suit(k, call, time, <<Put("EFFECT", call.args.effect)>>)
      BY Suiting, Unasked
    <3>3. Suit(k, call, time, effects)
      BY <3>2, Suiting
    <3>4. EffectsAndRamp(k, call, time) = When(ramp # None /\ sought = None, NotUsed) \o effects
      BY DEF EffectsAndRamp
    <3> QED
      BY <3>1, <3>3, <3>4, Suiting
  <2>6. Suit(k, call, time, more)
    BY <2>5, Suiting
  <2>7. Suit(k, call, time, on)
    BY TimedSuits, Suiting
  <2>8. LightEntries(k, call, values, clock) = colors \o more \o on \o ramps \o <<Put("LEVEL", level)>>
    BY <1>6 DEF LightEntries, OnEntries, level
  <2> HIDE DEF colors, more, on, ramps
  <2>9. Suit(k, call, time, ramps)
    BY <1>4 DEF ramps
  <2>10. Suit(k, call, time, colors \o more)
    BY <2>4, <2>6, Suiting
  <2>11. Suit(k, call, time, colors \o more \o on)
    BY <2>10, <2>7, Suiting
  <2>12. Suit(k, call, time, colors \o more \o on \o ramps)
    BY <2>11, <2>9, Suiting
  <2> DEFINE first == colors \o more
             rest == <<Put("LEVEL", level)>>
             entries == first \o on \o ramps \o rest
  <2>13. LightEntries(k, call, values, clock) = entries
    BY <2>8
  <2>14. Listed(rest) /\ Names(rest) = {"LEVEL"}
    BY NamesAre
  <2>15. Listed(colors) /\ Listed(more) /\ Listed(first) /\ Listed(on) /\ Listed(ramps)
    BY <2>4, <2>6, <2>7, <2>9, <2>10 DEF Suit, on
  <2>16. Suit(k, call, time, entries)
    BY <2>3, <2>12, Suiting
  <2>17. Names(first) = Names(colors) \cup Names(more)
    BY <2>15, NamesAre
  <2> HIDE DEF first, rest
  <2>18. Listed(first \o on) /\ Names(first \o on) = Names(first) \cup Names(on)
    BY <2>15, NamesAre
  <2>19. Listed(first \o on \o ramps) /\ Names(first \o on \o ramps) = Names(first \o on) \cup Names(ramps)
    BY <2>15, <2>18, NamesAre
  <2>20. Names(entries) = Names(first \o on \o ramps) \cup Names(rest)
    BY <2>14, <2>19, NamesAre
  <2>21. ASSUME NEW f, LightAsks(k, call, f) PROVE f \in Names(entries)
    <3>1. CASE f = LevelField(k)
      BY <1>6, <2>14, <2>20, <3>1 DEF LevelField
    <3>2. CASE f # LevelField(k)
      <4>1. f \in Names(colors)
        BY <1>6, <2>21, <3>2, ColorsNamed DEF colors
      <4> QED
        BY <4>1, <2>17, <2>18, <2>19, <2>20
    <3> QED
      BY <3>1, <3>2
  <2>22. ASSUME time # None PROVE Lasts(k, time, entries)
    <3>1. on = Timed(k, "ON_TIME", time)
      BY <2>22 DEF When, on
    <3>2. /\ LastOf(on, Own, "ON_TIME", time)
          /\ NeedsUnit(k, time) => \E e \in Of(on) : e.field = UnitField["ON_TIME"]
      BY <2>22, <3>1, TimedSuits DEF NeedsUnit
    <3>3. UnitField["ON_TIME"] = "ON_TIME_UNIT" /\ UnitField["RAMP_TIME"] = "RAMP_TIME_UNIT"
      BY DEF UnitField
    <3>4. NeedsUnit(k, time) => "ON_TIME_UNIT" \in Names(entries)
      BY <3>2, <3>3, <2>18, <2>19, <2>20 DEF Names
    <3>5. LastOf(first \o on, Own, "ON_TIME", time)
      BY <3>2, <2>15, LastConcat DEF Listed
    <3>6. \A e \in Of(ramps) : e.field # "ON_TIME"
      <4>1. CASE ramp = None
        <5>1. ramps = <<>>
          BY <4>1 DEF ramps, When
        <5> QED
          BY <5>1, Short
      <4>2. CASE ramp # None
        <5>1. ramps = Timed(k, "RAMP_TIME", ramp)
          BY <4>2 DEF ramps, When
        <5> QED
          BY <5>1, <3>3, TimedSuits
      <4> QED
        BY <4>1, <4>2
    <3>7. LastOf(first \o on \o ramps, Own, "ON_TIME", time)
      BY <3>5, <3>6, <2>15, <2>18, LastConcat DEF Listed
    <3>8. \A e \in Of(rest) : e.field # "ON_TIME"
      BY <2>14 DEF Names
    <3>9. LastOf(entries, Own, "ON_TIME", time)
      BY <3>7, <3>8, <2>14, <2>19, LastConcat DEF Listed
    <3> QED
      BY <3>4, <3>9 DEF Lasts
  <2> QED
    BY <2>13, <2>16, <2>21, <2>22 DEF Serves
<1> QED
  BY <1>1, <1>2, <1>5, <1>6

-----------------------------------------------------------------------------
(* The kinds.                                                               *)

Positional == {"cover", "window"} \cup Blinds

\* The parameters with a level or a position, and these.
Fields == CASE kind \in {"cover", "window"} -> {"LEVEL"}
            [] kind \in Blinds              -> Coordinates
            [] kind \in LightKinds          -> {LevelField(kind)}
            [] OTHER                        -> {}
Scale == IF kind \in LightKinds THEN 0..2 ELSE -1..200

LEMMA Parts ==
    /\ kind \in CoverKinds =>
        /\ Calls = CoverCalls(kind) /\ States = CoverStates(kind)
        /\ \A c : Changes(c) = CoverChanges(kind, c, shown) /\ Entries(c) = CoverEntries(kind, c, shown, unconfirmed)
                  /\ Applied(c) = CoverApplied(kind, at, goal, c) /\ Done(c) = CoverDone(kind, c, at)
                  /\ ~Refuses(c)
    /\ kind \in LightKinds =>
        /\ Calls = LightCalls(kind) /\ States = LightStates(kind)
        /\ \A c : Changes(c) = LightChanges(kind, c, shown, timer)
                  /\ Entries(c) = When(c.op # "setTimer", LightEntries(kind, c, shown, timer))
                  /\ Applied(c) = LightApplied(kind, goal, c) /\ Done(c) = LightDone(kind, c, at)
                  /\ ~Refuses(c)
    /\ kind \in ClimateKinds =>
        /\ Calls = ClimateCalls(kind)
        /\ \A c : Changes(c) = ClimateChanges(kind, c, shown) /\ Entries(c) = ClimateEntries(kind, c, shown, uncertain)
                  /\ Applied(c) = ClimateApplied(kind, goal, c) /\ Done(c) = ClimateDone(kind, c, at)
    /\ kind \in LockKinds =>
        /\ Calls = LockCalls(kind)
        /\ \A c : Entries(c) = LockEntries(kind, c) /\ Applied(c) = LockApplied(kind, goal, c)
                  /\ Done(c) = LockDone(kind, c, at)
<1> USE DEF CoverKinds, LightKinds, ClimateKinds, LockKinds
<1>1. ASSUME kind \in CoverKinds
      PROVE  /\ Calls = CoverCalls(kind) /\ States = CoverStates(kind)
             /\ \A c : Changes(c) = CoverChanges(kind, c, shown) /\ Entries(c) = CoverEntries(kind, c, shown, unconfirmed)
                       /\ Applied(c) = CoverApplied(kind, at, goal, c) /\ Done(c) = CoverDone(kind, c, at)
                       /\ ~Refuses(c)
  BY <1>1 DEF Calls, States, Changes, Entries, Applied, Done, Refuses
<1>2. ASSUME kind \in LightKinds
      PROVE  /\ Calls = LightCalls(kind) /\ States = LightStates(kind)
             /\ \A c : Changes(c) = LightChanges(kind, c, shown, timer)
                       /\ Entries(c) = When(c.op # "setTimer", LightEntries(kind, c, shown, timer))
                       /\ Applied(c) = LightApplied(kind, goal, c) /\ Done(c) = LightDone(kind, c, at)
                       /\ ~Refuses(c)
  BY <1>2 DEF Calls, States, Changes, Entries, Applied, Done, Refuses
<1>3. ASSUME kind \in ClimateKinds
      PROVE  /\ Calls = ClimateCalls(kind)
             /\ \A c : Changes(c) = ClimateChanges(kind, c, shown) /\ Entries(c) = ClimateEntries(kind, c, shown, uncertain)
                       /\ Applied(c) = ClimateApplied(kind, goal, c) /\ Done(c) = ClimateDone(kind, c, at)
  BY <1>3 DEF Calls, Changes, Entries, Applied, Done
<1>4. ASSUME kind \in LockKinds
      PROVE  /\ Calls = LockCalls(kind)
             /\ \A c : Entries(c) = LockEntries(kind, c) /\ Applied(c) = LockApplied(kind, goal, c)
                       /\ Done(c) = LockDone(kind, c, at)
  BY <1>4 DEF Calls, Entries, Applied, Done
<1> QED
  BY <1>1, <1>2, <1>3, <1>4

LEMMA FieldsAre ==
    /\ kind \in {"cover", "window"} => Fields = {"LEVEL"}
    /\ kind \in Blinds => Fields = Coordinates
    /\ kind \in Positional => Scale = -1..200 /\ kind \in CoverKinds /\ kind \notin LightKinds /\ Fields \subseteq Coordinates
    /\ kind \in LightKinds => Fields = {LevelField(kind)} /\ Scale = 0..2 /\ kind \notin CoverKinds /\ kind \notin Positional
    /\ kind \notin Positional \cup LightKinds => Fields = {}
    /\ \A x \in Scale : x \in Int /\ x # None
<1> USE DEF CoverKinds, LightKinds, Positional, Blinds
<1>1. /\ kind \in {"cover", "window"} => Fields = {"LEVEL"}
      /\ kind \in Blinds => Fields = Coordinates
      /\ kind \in LightKinds => Fields = {LevelField(kind)}
      /\ kind \notin Positional \cup LightKinds => Fields = {}
  BY DEF Fields
<1>2. /\ kind \in Positional => Scale = -1..200 /\ kind \in CoverKinds /\ kind \notin LightKinds
      /\ kind \in LightKinds => Scale = 0..2 /\ kind \notin CoverKinds /\ kind \notin Positional
  BY DEF Scale
<1>3. kind \in Positional => Fields \subseteq Coordinates
  BY <1>1 DEF Coordinates
<1>4. \A x \in Scale : x \in Int /\ x # None
  BY NoneAssumption DEF Scale
<1> QED
  BY <1>1, <1>2, <1>3, <1>4

\* The values of a device, and the values shown.
ValuesTyped(v) ==
    /\ Fields \subseteq DOMAIN v
    /\ kind \in Positional => DOMAIN v = Fields
    /\ \A f \in Fields : v[f] \in Scale
ShownTyped(v) == \A f \in Fields : v[f] \in Scale \cup {None}

\* A call of a cover that is skipped finds the cover where it was sent to.
LEMMA CoverSkips ==
    ASSUME kind \in CoverKinds, NEW call \in CoverCalls(kind), call.op # "stop", ValuesTyped(at),
           ~CoverChanges(kind, call, at)
    PROVE  CoverDone(kind, call, at)
<1>1. call \in [op : {"set"}, level : Positions(kind) \cup {None}, tilt : Levels \cup Tilts \cup {None}]
      /\ (kind \notin Blinds => call.tilt = None)
  BY DEF CoverCalls, CoverCall
<1>2. Positions(kind) \subseteq Int
  BY PositionsAssumption DEF Positions
<1>3. CASE kind = "garage"
  <2>1. call.level # None => GarageTargetPosition[GarageTarget(call.level)] = GaragePosition(at)
    BY <1>3 DEF CoverChanges
  <2>2. call.level # None => GarageTarget(call.level) \in {"OPEN", "CLOSED", "VENT"}
    BY <1>1, <1>2 DEF GarageTarget
  <2>3. call.level # None => at.DOOR = GarageTarget(call.level)
    BY <2>1, <2>2, NoneAssumption DEF GarageTargetPosition, GaragePosition
  <2> QED
    BY <1>3, <2>3 DEF CoverDone
<1>4. CASE kind # "garage"
  <2>1. kind \in Positional
    BY <1>4 DEF CoverKinds, Positional, Blinds
  <2>2. /\ call.tilt = None \/ call.tilt = CurrentPosition(kind, at, "LEVEL_2")
        /\ call.level = None \/ call.level = CurrentPosition(kind, at, "LEVEL")
    BY <1>4 DEF CoverChanges
  <2>3. ASSUME NEW f \in DOMAIN at, Given(call)[f] # None
        PROVE  Near(kind, at[f], Given(call)[f])
    <3>1. f \in Fields /\ f \in {"LEVEL", "LEVEL_2"} /\ at[f] \in -1..200 /\ at[f] # None
      BY <2>1, FieldsAre DEF ValuesTyped, Coordinates
    <3>2. Given(call)[f] = CurrentPosition(kind, at, f)
      BY <3>1, <2>2, <2>3 DEF Given
    <3>3. ChannelLevel(kind, at, f) = at[f]
      BY <3>1 DEF ChannelLevel
    <3>4. CASE kind = "window"
      <4>1. Given(call)[f] = IF at[f] = -1 THEN 0 ELSE IF at[f] = 0 THEN 2 ELSE Percent(at[f])
        BY <3>2, <3>3, <3>4 DEF CurrentPosition
      <4>2. at[f] # -1 /\ at[f] # 0 => at[f] > 0
        BY <3>1
      <4> QED
        BY <3>4, <4>1, <4>2 DEF Near, WindowLevel
    <3>5. CASE kind # "window"
      <4>1. Given(call)[f] = Percent(at[f])
        BY <3>2, <3>3, <3>5 DEF CurrentPosition
      <4> QED
        BY <3>5, <4>1 DEF Near
    <3> QED
      BY <3>4, <3>5
  <2> QED
    BY <1>4, <2>3 DEF CoverDone
<1> QED
  BY <1>3, <1>4

\* A call of a light that is skipped finds the light as it asks for.
LEMMA LightSkips ==
    ASSUME kind \in LightKinds, NEW call \in LightCalls(kind), call.op # "setTimer", ValuesTyped(at),
           NEW clock, ~LightChanges(kind, call, at, clock), ~LightLeftOff(call)
    PROVE  LightDone(kind, call, at)
<1> DEFINE args == call.args
           level == at[LevelField(kind)]
<1>1. level \in 0..2
  BY FieldsAre DEF ValuesTyped
<1>2. call.op \in {"on", "off"}
  BY LightCallsAre
<1>3. CASE kind = "switch"
  <2>1. level = IF call.op = "on" THEN 2 ELSE 0
    BY <1>3 DEF LightChanges, LevelField
  <2>2. args.brightness = None /\ args.color = None /\ args.kelvin = None
    BY <1>3, OptionsAre
  <2> QED
    BY <1>2, <1>3, <2>1, <2>2 DEF LightDone
<1>4. CASE kind # "switch"
  <2>1. level = at.LEVEL
    BY <1>4 DEF LevelField
  <2>2. /\ args.onTime = None /\ args.rampTime = None
        /\ GivenArgs(call) = {} => (IsOn(at) <=> call.op = "on")
        /\ args.brightness # None => args.brightness = at.LEVEL
        /\ args.color # None => args.color = ShownColor(kind, at)
        /\ args.kelvin # None => args.kelvin = ShownKelvin(kind, at)
        /\ args.effect # None => args.effect = ShownEffect(kind, at)
    <3>1. at.LEVEL # None
      BY <1>1, <2>1, NoneAssumption
    <3> QED
      BY <1>4, <3>1 DEF LightChanges, IsOn
  <2>3. IsOn(at) <=> level > 0
    BY <1>1, <2>1, NoneAssumption DEF IsOn
  <2>4. CASE call.op = "off"
    <3>1. \A a \in Arguments \ {"rampTime"} : args[a] = None
      BY <2>4, LightCallsAre
    <3>2. GivenArgs(call) = {}
      BY <3>1, <2>2 DEF GivenArgs
    <3>3. level = 0
      BY <3>2, <2>2, <2>3, <2>4, <1>1
    <3> QED
      BY <2>4, <3>3 DEF LightDone
  <2>5. CASE call.op = "on"
    <3>1. level > 0
      <4>1. CASE GivenArgs(call) = {}
        BY <2>5, <4>1, <2>2, <2>3
      <4>2. CASE GivenArgs(call) # {}
        BY <2>5, <4>2, <1>1 DEF LightLeftOff
      <4> QED
        BY <4>1, <4>2
    <3> QED
      BY <2>1, <2>2, <2>5, <3>1 DEF LightDone
  <2> QED
    BY <1>2, <2>4, <2>5
<1> QED
  BY <1>3, <1>4

\* A call of a thermostat that is skipped finds what it asks for.
LEMMA ClimateSkips ==
    ASSUME kind \in ClimateKinds, NEW call \in ClimateCalls(kind), ~ClimateChanges(kind, call, at)
    PROVE  ClimateDone(kind, call, at)
<1>1. \/ call.op = "temperature"
      \/ kind # "simple" /\ call.op = "mode"
      \/ call.op = "away"
      \/ /\ call.op = "profile"
         /\ call.arg \in {"boost", "none"} \cup (IF kind = "ip" THEN {"week1", "week2"} ELSE {"comfort", "eco"})
  BY DEF ClimateCalls, ClimateCall
<1>2. CASE call.op = "temperature"
  BY <1>2 DEF ClimateChanges, ClimateDone
<1>3. CASE kind # "simple" /\ call.op = "mode"
  BY <1>3 DEF ClimateChanges, ClimateDone
<1>4. CASE call.op = "away"
  BY <1>4 DEF ClimateChanges
<1>5. CASE /\ call.op = "profile"
           /\ call.arg \in {"boost", "none"} \cup (IF kind = "ip" THEN {"week1", "week2"} ELSE {"comfort", "eco"})
  <2>1. call.arg = Profile(kind, at)
    BY <1>5 DEF ClimateChanges
  <2>2. call.arg \notin {"comfort", "eco"}
    <3>1. CASE kind = "ip"
      BY <1>5, <3>1
    <3>2. CASE kind # "ip"
      <4>1. Profile(kind, at) \in {"none", "boost", "away"}
        BY <3>2 DEF Profile, ClimateKinds
      <4> QED
        BY <2>1, <4>1
    <3> QED
      BY <3>1, <3>2
  <2>3. call.arg = "boost" => Profile(kind, at) = "boost"
    BY <2>1
  <2>4. ASSUME kind = "ip"
        PROVE  /\ call.arg \in {"week1", "week2"} => at.PROFILE = call.arg /\ Mode(kind, at) = "auto"
               /\ call.arg = "none" => ~at.BOOST
    <3>1. Profile(kind, at) = IF at.BOOST THEN "boost"
                        ELSE IF at.MODE = "AWAY" THEN "away"
                        ELSE IF Mode("ip", at) = "auto" THEN at.PROFILE ELSE "none"
      BY <2>4 DEF Profile
    <3> QED
      BY <2>1, <2>4, <3>1
  <2>5. kind # "ip" => call.arg \in {"boost", "none"}
    BY <1>5, <2>2
  <2> QED
    BY <1>5, <2>2, <2>3, <2>4, <2>5 DEF ClimateDone
<1> QED
  BY <1>1, <1>2, <1>3, <1>4, <1>5

-----------------------------------------------------------------------------
(* What is sent suits the parameters it is sent for.                        *)

Carries(r) == \A f \in Fields \cap DOMAIN r : r[f] \in Scale
Measured == Positional \cup LightKinds
Todo(s) == kind \in Measured => IsSequence(s) /\ \A r \in Of(s) : Carries(r)

\* A call that is under way has not lost its shape.
Sends(p) ==
    /\ p = [stage |-> "sending", call |-> p.call, todo |-> p.todo, intact |-> p.intact, meant |-> p.meant]
    /\ p.call \in Calls
    /\ Todo(p.todo)
Waits(p) == kind \in Blinds /\ p = [stage |-> "waiting", call |-> p.call] /\ p.call \in Calls
Working(p) == p = Idle \/ Waits(p) \/ Sends(p)

Positioned(f) == unconfirmed[f] \in -1..200 \cup {None}

DeviceTyped == ValuesTyped(at) /\ ValuesTyped(goal) /\ (kind \notin LightKinds => off = None)
ReportTyped == ShownTyped(shown) /\ (report # <<>> => ShownTyped(report[1]))
CacheTyped == unconfirmed = [f \in Coordinates |-> unconfirmed[f]] /\ \A f \in Coordinates : Positioned(f)
TasksTyped == task = [t \in Tasks |-> task[t]] /\ \A t \in Tasks : Working(task[t])
Typed == kind \in Kinds /\ DeviceTyped /\ ReportTyped /\ CacheTyped /\ TasksTyped

\* A combined value is a little lower than what is asked for.
LEMMA CoordinateIs ==
    ASSUME NEW l \in -1..200
    PROVE  Coordinate(kind, l) \in -1..200 /\ Percent(l) \in -1..200 /\ Half(l) \in -1..200
<1>1. Percent(l) \in -1..200
  BY DEF Percent
<1>2. Half(l) \in -1..200
  BY DEF Half
<1> QED
  BY <1>1, <1>2 DEF Coordinate

\* The target of a coordinate of a blind.
Target(call, f) == Coordinate(kind, BlindCoordinate(kind, call, shown, unconfirmed, f))

LEMMA BlindSends ==
    ASSUME kind \in Blinds, NEW call, call.op # "stop"
    PROVE  LET rs == Requests(Entries(call))
           IN  /\ IsSequence(rs)
               /\ \A r \in Of(rs) : DOMAIN r \subseteq Coordinates /\ \A f \in DOMAIN r : r[f] = Target(call, f)
               /\ \A f \in Coordinates : \E r \in Of(rs) : f \in DOMAIN r
<1> DEFINE es == <<Put("LEVEL_2", Target(call, "LEVEL_2")), Put("LEVEL", Target(call, "LEVEL"))>>
           rs == Requests(es)
<1>1. Entries(call) = es
  <2>1. kind \in CoverKinds /\ kind # "garage"
    BY DEF Blinds, CoverKinds
  <2> QED
    BY <2>1, Parts DEF CoverEntries, Target
<1>2. Of(es) = {Put("LEVEL_2", Target(call, "LEVEL_2")), Put("LEVEL", Target(call, "LEVEL"))} /\ Listed(es)
  BY Short, ListedAre, PutIsEntry
<1>3. \A e \in Of(es) : e.field \in Coordinates /\ e.value = Target(call, e.field)
  BY <1>2, PutIsEntry DEF Coordinates
<1>4. \A f \in Coordinates : \E e \in Of(es) : e.field = f
  BY <1>2, PutIsEntry DEF Coordinates
<1> HIDE DEF es
<1>5. /\ IsSequence(rs)
      /\ \A r \in Of(rs) : \A f \in DOMAIN r : \E e \in Of(es) : e.field = f /\ r[f] = e.value
      /\ \A e \in Of(es) : \E r \in Of(rs) : e.field \in DOMAIN r
  BY <1>2, SentFor
<1> HIDE DEF rs
<1>6. \A r \in Of(rs) : DOMAIN r \subseteq Coordinates /\ \A f \in DOMAIN r : r[f] = Target(call, f)
  BY <1>3, <1>5
<1>7. \A f \in Coordinates : \E r \in Of(rs) : f \in DOMAIN r
  BY <1>4, <1>5
<1> QED
  BY <1>1, <1>5, <1>6, <1>7 DEF rs

LEMMA TargetIs ==
    ASSUME Typed, kind \in Blinds, NEW call \in Calls, NEW f \in Coordinates
    PROVE  Target(call, f) \in -1..200
<1>1. kind \in CoverKinds /\ kind # "window" /\ kind \in Positional
  BY DEF Blinds, CoverKinds, Positional
<1>2. Given(call)[f] = None \/ Given(call)[f] \in 0..200
  <2>1. call \in CoverCalls(kind)
    BY <1>1, Parts
  <2>2. call.level \in Levels \cup {None} /\ call.tilt \in Tilts \cup {None}
    BY <2>1, <1>1 DEF CoverCalls, CoverCall, Positions, Blinds
  <2> QED
    BY <2>2, PositionsAssumption DEF Given, Coordinates
<1>3. ChannelLevel(kind, shown, f) \in -1..200
  BY <1>1, FieldsAre DEF Typed, ReportTyped, ShownTyped, ChannelLevel, ClosedLevel
<1>4. unconfirmed[f] \in -1..200 \cup {None}
  BY DEF Typed, CacheTyped, Positioned
<1>5. BlindCoordinate(kind, call, shown, unconfirmed, f) \in -1..200
  BY <1>2, <1>3, <1>4 DEF BlindCoordinate
<1> QED
  BY <1>5, CoordinateIs DEF Target

LEMMA CoverSends ==
    ASSUME Typed, kind \in Positional, NEW call \in Calls
    PROVE  Todo(Requests(Entries(call)))
<1>1. kind \in CoverKinds /\ kind # "garage"
  BY DEF Positional, Blinds, CoverKinds
<1>2. Entries(call) = CoverEntries(kind, call, shown, unconfirmed) /\ call \in CoverCalls(kind)
  BY <1>1, Parts
<1>3. CASE call.op # "stop" /\ kind \in Blinds
  <2>1. \A r \in Of(Requests(Entries(call))) : Carries(r)
    BY <1>3, BlindSends, TargetIs, FieldsAre DEF Carries
  <2> QED
    BY <1>3, <2>1, BlindSends DEF Todo
<1>4. CASE call.op = "stop" \/ kind \notin Blinds
  <2> DEFINE es == Entries(call)
             rs == Requests(es)
             level == IF kind = "window" THEN WindowLevel(call.level) ELSE call.level
  <2>1. kind \in {"cover", "window"} /\ call.op # "stop" => es = When(call.level # None, <<Put("LEVEL", level)>>)
    BY <1>1, <1>2 DEF CoverEntries, Blinds
  <2>2. kind \in {"cover", "window"} => call.level \in 0..200 \cup {None}
    BY <1>2, PositionsAssumption DEF CoverCalls, CoverCall, Positions
  <2>3. kind \in {"cover", "window"} /\ call.level # None => level \in -1..200
    BY <2>2 DEF WindowLevel
  <2>4. CASE call.op = "stop"
    <3>1. es = <<Put("STOP", "STOP")>>
      BY <1>1, <1>2, <2>4 DEF CoverEntries
    <3>2. Listed(es) /\ \A e \in Of(es) : e.field = "STOP"
      BY <3>1, ListedAre, PutIsEntry, Short
    <3> HIDE DEF es
    <3>3. IsSequence(rs) /\ \A r \in Of(rs) : DOMAIN r \subseteq {"STOP"}
      BY <3>2, SentFor
    <3>4. "STOP" \notin Fields
      BY FieldsAre DEF Coordinates
    <3> QED
      BY <3>3, <3>4 DEF Carries, Todo, es
  <2>5. CASE call.op # "stop"
    <3>1. kind \in {"cover", "window"}
      BY <1>4, <2>5 DEF Positional
    <3>2. Listed(es) /\ \A e \in Of(es) : e.value \in -1..200
      <4>1. CASE call.level = None
        <5>1. es = <<>>
          BY <2>1, <2>5, <3>1, <4>1 DEF When
        <5> QED
          BY <5>1, ListedAre, Short
      <4>2. CASE call.level # None
        <5>1. es = <<Put("LEVEL", level)>>
          BY <2>1, <2>5, <3>1, <4>2 DEF When
        <5> HIDE DEF es, level
        <5> QED
          BY <5>1, <2>3, <3>1, <4>2, ListedAre, PutIsEntry, Short
      <4> QED
        BY <4>1, <4>2
    <3> HIDE DEF es
    <3>3. IsSequence(rs) /\ \A r \in Of(rs) : \A f \in DOMAIN r : r[f] \in -1..200
      BY <3>2, SentFor
    <3> QED
      BY <3>3, FieldsAre DEF Carries, Todo, es
  <2> QED
    BY <2>4, <2>5
<1> QED
  BY <1>3, <1>4

LEMMA LightSends ==
    ASSUME Typed, kind \in LightKinds, NEW call \in Calls
    PROVE  Todo(Requests(Entries(call)))
<1> DEFINE es == Entries(call)
           rs == Requests(es)
<1>1. call \in LightCalls(kind) /\ es = When(call.op # "setTimer", LightEntries(kind, call, shown, timer))
  BY Parts
<1>2. kind # "switch" => shown.LEVEL \in 0..2 \cup {None}
  BY FieldsAre DEF Typed, ReportTyped, ShownTyped, LevelField
<1>3. call.op # "setTimer" => Suit(kind, call, Duration(call, timer), LightEntries(kind, call, shown, timer))
  BY <1>1, <1>2, LightEntriesServe, NoneAssumption DEF Serves
<1>4. Suit(kind, call, Duration(call, timer), es)
  BY <1>1, <1>3, Suiting
<1> HIDE DEF es
<1>5. IsSequence(rs) /\ \A r \in Of(rs) : \A f \in DOMAIN r : \E e \in Of(es) : e.field = f /\ r[f] = e.value
  BY <1>4, SentFor DEF Suit
<1>6. \A e \in Of(es) : e.field = LevelField(kind) => e.value \in 0..2
  <2>1. \A e \in Of(es) : LightGood(kind, call, Duration(call, timer), e.field, e.value)
    <3> DEFINE d == Duration(call, timer)
    <3> HIDE DEF d
    <3>1. Suit(kind, call, d, es)
      BY <1>4 DEF d
    <3>2. \A e \in Of(es) : LightGood(kind, call, d, e.field, e.value)
      BY <3>1 DEF Suit
    <3> QED
      BY <3>2 DEF d
  <2>2. \A f, v : LightGood(kind, call, Duration(call, timer), f, v) /\ f = LevelField(kind) => v \in 0..2
    BY DEF LightGood
  <2> QED
    BY <2>1, <2>2
<1>7. \A r \in Of(rs) : Carries(r)
  BY <1>5, <1>6, FieldsAre DEF Carries
<1> QED
  BY <1>5, <1>7 DEF Todo, es

LEMMA Begun ==
    ASSUME Typed, NEW call \in Calls
    PROVE  Sends(Sending(call))
<1> DEFINE stops == When(kind \in Blinds /\ call.op # "stop" /\ StopsFirst(call, unconfirmed), <<[STOP |-> "STOP"]>>)
           rs == Requests(Entries(call))
<1>1. Todo(rs)
  BY CoverSends, LightSends DEF Todo, Measured
<1>2. kind \in Measured => "STOP" \notin Fields
  BY FieldsAre DEF Coordinates, LevelField, Measured
<1>3. kind \in Measured => IsSequence(stops) /\ \A r \in Of(stops) : Carries(r)
  <2>1. IsSequence(<<[STOP |-> "STOP"]>>) /\ Of(<<[STOP |-> "STOP"]>>) = {[STOP |-> "STOP"]} /\ IsSequence(<<>>) /\ Of(<<>>) = {}
    BY Short
  <2>2. kind \in Measured => Carries([STOP |-> "STOP"])
    BY <1>2 DEF Carries
  <2> QED
    BY <2>1, <2>2 DEF When
<1> HIDE DEF stops, rs
<1>4. Todo(stops \o rs)
  BY <1>1, <1>3, Concat DEF Todo
<1>5. Sending(call).todo = stops \o rs
  BY DEF Sending, stops, rs
<1> QED
  BY <1>4, <1>5 DEF Sends, Sending

LEMMA SameKind ==
    ASSUME kind' = kind
    PROVE  /\ Fields' = Fields /\ Scale' = Scale /\ Calls' = Calls
           /\ \A t : Working(task[t])' <=> Working(task'[t])
           /\ ValuesTyped(at)' <=> ValuesTyped(at')
           /\ ValuesTyped(goal)' <=> ValuesTyped(goal')
           /\ ShownTyped(shown)' <=> ShownTyped(shown')
           /\ ShownTyped(report[1])' <=> ShownTyped(report'[1])
<1>1. Fields' = Fields /\ Scale' = Scale /\ Calls' = Calls
  BY DEF Fields, Scale, Calls
<1>2. \A t : Working(task[t])' <=> Working(task'[t])
  BY <1>1 DEF Working, Waits, Sends, Todo, Carries
<1> QED
  BY <1>1, <1>2 DEF ValuesTyped, ShownTyped

LEMMA TaskChanges ==
    ASSUME TasksTyped, kind' = kind, NEW u \in Tasks, NEW p, task' = [task EXCEPT ![u] = p], Working(p)
    PROVE  TasksTyped'
<1>1. \A t \in Tasks : task'[t] = IF t = u THEN p ELSE task[t]
  BY DEF TasksTyped
<1>2. task' = [t \in Tasks |-> task'[t]]
  BY DEF TasksTyped
<1>3. \A t \in Tasks : Working(task'[t])
  BY <1>1 DEF TasksTyped
<1> QED
  BY <1>2, <1>3, SameKind DEF TasksTyped

LEMMA TypedInit == Init => Typed
<1> SUFFICES ASSUME Init PROVE Typed
  OBVIOUS
<1>1. kind \in Kinds /\ at \in States /\ goal = at
  BY DEF Init
<1>2. ValuesTyped(at)
  <2>1. CASE kind \in Positional
    <3>1. kind \in CoverKinds /\ Scale = -1..200
      BY <2>1, FieldsAre
    <3>2. at \in CoverStates(kind)
      BY <1>1, <3>1, Parts
    <3>3. CASE kind \in {"cover", "window"}
      <4>1. at \in [LEVEL : -1..200]
        BY <3>2, <3>3, PositionsAssumption DEF CoverStates, Blinds
      <4> QED
        BY <3>1, <3>3, <4>1, FieldsAre DEF ValuesTyped
    <3>4. CASE kind \in Blinds
      <4>1. at \in [LEVEL : -1..200, LEVEL_2 : -1..200]
        BY <3>2, <3>4, PositionsAssumption DEF CoverStates, Blinds
      <4> QED
        BY <3>1, <3>4, <4>1, FieldsAre DEF ValuesTyped, Coordinates
    <3> QED
      BY <2>1, <3>3, <3>4 DEF Positional
  <2>2. CASE kind \in LightKinds
    <3>1. at \in LightStates(kind) /\ kind \notin Positional /\ Scale = 0..2 /\ Fields = {LevelField(kind)}
      BY <1>1, <2>2, Parts, FieldsAre
    <3>2. LevelField(kind) \in DOMAIN at /\ at[LevelField(kind)] \in 0..2
      BY <2>2, <3>1 DEF LightStates, LevelField, LightKinds
    <3> QED
      BY <3>1, <3>2 DEF ValuesTyped
  <2>3. CASE kind \notin Positional \cup LightKinds
    BY <2>3, FieldsAre DEF ValuesTyped
  <2> QED
    BY <2>1, <2>2, <2>3
<1>3. ShownTyped(shown)
  BY <1>2 DEF Init, ShownTyped, ValuesTyped
<1>4. CacheTyped
  BY DEF Init, CacheTyped, Positioned, NoCoordinates
<1>5. TasksTyped
  BY DEF Init, TasksTyped, Working
<1> QED
  BY <1>1, <1>2, <1>3, <1>4, <1>5 DEF Init, Typed, DeviceTyped, ReportTyped

LEMMA AppliedTyped ==
    ASSUME DeviceTyped, NEW r, Carries(r)
    PROVE  ValuesTyped(Applied(r))
<1>1. CASE kind \in Positional
  <2>1. Applied(r) = CoverApplied(kind, at, goal, r) /\ kind # "garage"
    BY <1>1, FieldsAre, Parts DEF Positional, Blinds
  <2>2. CASE "STOP" \in DOMAIN r
    <3>1. Applied(r) = at
      BY <2>1, <2>2 DEF CoverApplied
    <3> QED
      BY <3>1 DEF DeviceTyped
  <2>3. CASE "STOP" \notin DOMAIN r
    <3>1. Applied(r) = [f \in DOMAIN goal |-> IF f \in DOMAIN r THEN r[f] ELSE goal[f]]
      BY <2>1, <2>3 DEF CoverApplied
    <3> QED
      BY <3>1 DEF DeviceTyped, ValuesTyped, Carries
  <2> QED
    BY <2>2, <2>3
<1>2. CASE kind \in LightKinds
  <2>1. Applied(r) = [f \in DOMAIN goal |-> IF f \in DOMAIN r THEN r[f] ELSE goal[f]]
    BY <1>2, Parts DEF LightApplied
  <2> QED
    BY <1>2, <2>1, FieldsAre DEF DeviceTyped, ValuesTyped, Carries
<1>3. CASE kind \notin Positional \cup LightKinds
  BY <1>3, FieldsAre DEF ValuesTyped
<1> QED
  BY <1>1, <1>2, <1>3

LEMMA ObeyTyped ==
    ASSUME DeviceTyped, kind' = kind, NEW r, kind \in Measured => Carries(r), Obey(r)
    PROVE  DeviceTyped'
<1>1. ValuesTyped(goal')
  <2>1. Carries(r)
    BY FieldsAre DEF Carries, Measured
  <2> QED
    BY <2>1, AppliedTyped DEF Obey
<1>2. ValuesTyped(at')
  <2>1. at' = [f \in DOMAIN at |-> IF kind \in CoverKinds THEN at[f] ELSE goal'[f]]
    BY DEF Obey
  <2> QED
    BY <1>1, <2>1 DEF DeviceTyped, ValuesTyped
<1>3. kind' \notin LightKinds => off' = None
  BY DEF Obey, DeviceTyped
<1> QED
  BY <1>1, <1>2, <1>3, SameKind DEF DeviceTyped

\* What is left of a request that was answered, or failed, is what was left.
LEMMA Left ==
    ASSUME NEW p, Sends(p), p.todo # <<>>
    PROVE  /\ kind \in Measured => Carries(Head(p.todo))
           /\ Todo(Tail(p.todo)) /\ Todo(AfterFailure(p.todo))
<1>1. Todo(<<>>)
  BY Short DEF Todo
<1>2. kind \in Measured => Carries(Head(p.todo)) /\ Todo(Tail(p.todo))
  BY TailIs DEF Sends, Todo
<1>3. Todo(Tail(p.todo))
  BY <1>2 DEF Todo
<1> QED
  BY <1>1, <1>2, <1>3 DEF AfterFailure

LEMMA TodoSet ==
    \A c, d, j, m, s, i :
        /\ [[stage |-> "sending", call |-> c, todo |-> d, intact |-> j, meant |-> m] EXCEPT !.todo = s]
             = [stage |-> "sending", call |-> c, todo |-> s, intact |-> j, meant |-> m]
        /\ [[stage |-> "sending", call |-> c, todo |-> s, intact |-> j, meant |-> m] EXCEPT !.intact = i]
             = [stage |-> "sending", call |-> c, todo |-> s, intact |-> i, meant |-> m]
OBVIOUS

LEMMA TaskKeeps ==
    ASSUME TasksTyped, kind' = kind, NEW u \in Tasks, NEW s, Todo(s), Sends(task[u]), NEW i,
           \/ task' = [task EXCEPT ![u].todo = s]
           \/ task' = [task EXCEPT ![u].todo = s, ![u].intact = i]
    PROVE  TasksTyped'
<1> DEFINE p == task[u]
           q == [stage |-> "sending", call |-> p.call, todo |-> s, intact |-> p.intact, meant |-> p.meant]
           r == [stage |-> "sending", call |-> p.call, todo |-> s, intact |-> i, meant |-> p.meant]
<1>1. Working(q) /\ Working(r)
  BY DEF Working, Sends
<1>2. task[u] = [stage |-> "sending", call |-> p.call, todo |-> p.todo, intact |-> p.intact, meant |-> p.meant]
  BY DEF Sends
<1>3. [p EXCEPT !.todo = s] = q /\ [[p EXCEPT !.todo = s] EXCEPT !.intact = i] = r
  <2>1. PICK c, d, j, m : p = [stage |-> "sending", call |-> c, todo |-> d, intact |-> j, meant |-> m]
    BY <1>2
  <2> HIDE DEF p
  <2>2. p.call = c /\ p.intact = j /\ p.meant = m
    BY <2>1
  <2>3. [p EXCEPT !.todo = s] = [stage |-> "sending", call |-> c, todo |-> s, intact |-> j, meant |-> m]
    BY <2>1, TodoSet
  <2>4. [[p EXCEPT !.todo = s] EXCEPT !.intact = i]
            = [stage |-> "sending", call |-> c, todo |-> s, intact |-> i, meant |-> m]
    <3>1. [[stage |-> "sending", call |-> c, todo |-> s, intact |-> j, meant |-> m] EXCEPT !.intact = i]
             = [stage |-> "sending", call |-> c, todo |-> s, intact |-> i, meant |-> m]
      BY TodoSet
    <3> QED
      BY <2>3, <3>1
  <2> QED
    BY <2>2, <2>3, <2>4 DEF q, r
<1>4. task = [t \in Tasks |-> task[t]]
  BY DEF TasksTyped
<1>5. task' = [task EXCEPT ![u] = q] \/ task' = [task EXCEPT ![u] = r]
  <2>1. CASE task' = [task EXCEPT ![u].todo = s]
    <3>1. task' = [task EXCEPT ![u] = [task[u] EXCEPT !.todo = s]]
      BY <2>1, <1>4
    <3> QED
      BY <3>1, <1>3
  <2>2. CASE task' = [task EXCEPT ![u].todo = s, ![u].intact = i]
    <3>1. task' = [task EXCEPT ![u] = [[task[u] EXCEPT !.todo = s] EXCEPT !.intact = i]]
      BY <2>2, <1>4
    <3> QED
      BY <3>1, <1>3
  <2> QED
    BY <2>1, <2>2
<1> HIDE DEF q, r
<1> QED
  BY <1>1, <1>5, TaskChanges

LEMMA StageIs ==
    ASSUME TasksTyped, NEW t \in Tasks
    PROVE  /\ task[t].stage = "sending" => Sends(task[t])
           /\ task[t].stage = "waiting" => Waits(task[t])
           /\ task[t].stage = "idle" => task[t] = Idle
           /\ task[t] = Idle => task[t].stage = "idle"
           /\ task[t].stage \in {"idle", "waiting", "sending"}
<1>1. task[t] = Idle \/ Waits(task[t]) \/ Sends(task[t])
  BY DEF TasksTyped, Working
<1>2. task[t] = Idle => task[t].stage = "idle"
  BY DEF Idle
<1>3. Waits(task[t]) => task[t].stage = "waiting"
  BY DEF Waits
<1>4. Sends(task[t]) => task[t].stage = "sending"
  BY DEF Sends
<1> QED
  BY <1>1, <1>2, <1>3, <1>4

LEMMA TypedStep == Typed /\ [Next]_vars => Typed'
<1> SUFFICES ASSUME Typed, [Next]_vars PROVE Typed'
  OBVIOUS
<1> USE DEF Typed
<1>1. kind' = kind
  BY DEF Next, vars, Skip, Refuse, Enter, ReadFails, Acquire, Answered, Fails, Return, Move, Report, Deliver, Forget, Expire
<1>2. Callers \subseteq Tasks
  BY TasksAssumption DEF Callers
<1>3. UNCHANGED <<at, goal, off>> => DeviceTyped'
  BY <1>1, SameKind DEF DeviceTyped
<1>4. UNCHANGED <<shown, report>> => ReportTyped'
  BY <1>1, SameKind DEF ReportTyped
<1>5. UNCHANGED unconfirmed => CacheTyped'
  BY DEF CacheTyped, Positioned
<1>6. UNCHANGED task => TasksTyped'
  BY <1>1, SameKind DEF TasksTyped
<1>7. CASE UNCHANGED vars
  BY <1>1, <1>3, <1>4, <1>5, <1>6, <1>7 DEF vars
<1>8. ASSUME NEW t \in Tasks, NEW call \in Calls, Skip(t, call) \/ Refuse(t, call) PROVE Typed'
  BY <1>1, <1>3, <1>4, <1>5, <1>6, <1>8 DEF Skip, Refuse, deviceVars, centralVars
<1>9. ASSUME NEW t \in Tasks, NEW call \in Calls, Enter(t, call) PROVE Typed'
  <2> DEFINE p == IF kind \in Blinds THEN [stage |-> "waiting", call |-> call] ELSE Sending(call)
  <2>1. Working(p)
    BY Begun DEF Working, Waits
  <2>2. task' = [task EXCEPT ![t] = p]
    BY <1>9 DEF Enter
  <2> HIDE DEF p
  <2>3. TasksTyped'
    BY <1>1, <2>1, <2>2, TaskChanges
  <2> QED
    BY <1>1, <1>3, <1>4, <1>5, <1>9, <2>3 DEF Enter, deviceVars
<1>10. ASSUME NEW t \in Tasks, ReadFails(t) \/ Return(t) PROVE Typed'
  <2>1. TasksTyped'
    <3>1. CASE ReadFails(t)
      BY <1>6, <3>1 DEF ReadFails
    <3>2. CASE Return(t)
      <4>1. task' = [task EXCEPT ![t] = Idle] /\ Working(Idle)
        BY <3>2 DEF Return, Working
      <4> QED
        BY <4>1, <1>1, TaskChanges
    <3> QED
      BY <1>10, <3>1, <3>2
  <2> QED
    BY <1>1, <1>3, <1>4, <1>5, <1>10, <2>1 DEF ReadFails, Return, deviceVars, centralVars
<1>11. ASSUME NEW t \in Tasks, Acquire(t) PROVE Typed'
  <2>1. task[t].call \in Calls /\ task' = [task EXCEPT ![t] = Sending(task[t].call)]
    BY <1>11, StageIs DEF Acquire, Waits
  <2>2. TasksTyped'
    BY <1>1, <2>1, Begun, TaskChanges DEF Working
  <2> QED
    BY <1>1, <1>3, <1>4, <1>5, <1>11, <2>2 DEF Acquire, deviceVars, centralVars
<1>12. ASSUME NEW t \in Tasks, Answered(t) PROVE Typed'
  <2> DEFINE r == Head(task[t].todo)
  <2>1. Sends(task[t]) /\ task[t].todo # <<>>
    BY <1>12, StageIs DEF Answered
  <2>2. Obey(r) /\ unconfirmed' = Remembered(r) /\ task' = [task EXCEPT ![t].todo = Tail(task[t].todo)]
    BY <1>12 DEF Answered, TasksTyped
  <2>3. (kind \in Measured => Carries(r)) /\ Todo(Tail(task[t].todo))
    BY <2>1, Left
  <2>4. DeviceTyped'
    BY <1>1, <2>2, <2>3, ObeyTyped
  <2>5. TasksTyped'
    BY <1>1, <2>1, <2>2, <2>3, TaskKeeps
  <2>6. CacheTyped'
    <3>1. unconfirmed' = [f \in Coordinates |-> IF kind \in Blinds /\ f \in DOMAIN r THEN r[f] ELSE unconfirmed[f]]
      BY <2>2 DEF Remembered
    <3>2. \A f \in Coordinates : kind \in Blinds /\ f \in DOMAIN r => r[f] \in -1..200
      BY <2>3, FieldsAre DEF Measured, Positional, Carries
    <3> QED
      BY <3>1, <3>2 DEF CacheTyped, Positioned
  <2> QED
    BY <1>1, <1>4, <1>12, <2>4, <2>5, <2>6 DEF Answered
<1>13. ASSUME NEW t \in Tasks, Fails(t) PROVE Typed'
  <2> DEFINE r == Head(task[t].todo)
  <2>1. Sends(task[t]) /\ task[t].todo # <<>>
    BY <1>13, StageIs DEF Fails
  <2>2. /\ Obey(r) \/ UNCHANGED deviceVars
        /\ task' = [task EXCEPT ![t].todo = AfterFailure(task[t].todo), ![t].intact = FALSE]
    BY <1>13 DEF Fails, TasksTyped
  <2>3. (kind \in Measured => Carries(r)) /\ Todo(AfterFailure(task[t].todo))
    BY <2>1, Left
  <2>4. DeviceTyped'
    BY <1>1, <1>3, <2>2, <2>3, ObeyTyped DEF deviceVars
  <2>5. TasksTyped'
    BY <1>1, <2>1, <2>2, <2>3, TaskKeeps
  <2> QED
    BY <1>1, <1>4, <1>5, <1>13, <2>4, <2>5 DEF Fails, centralVars
<1>14. ASSUME NEW f \in MovingFields, Move(f) PROVE Typed'
  <2>1. ValuesTyped(at')
    <3>1. PICK v \in IF f = "DOOR" THEN {goal[f]}
                     ELSE {goal[f]} \cup {w \in Places : (at[f] < w /\ w < goal[f]) \/ (goal[f] < w /\ w < at[f])} :
                 at' = [at EXCEPT ![f] = v]
      BY <1>14 DEF Move
    <3>2. f \in Fields => v \in Scale
      <4> HAVE f \in Fields
      <4>1. f # "DOOR"
        BY FieldsAre DEF Coordinates, LevelField
      <4>2. v = goal[f] \/ (at[f] < v /\ v < goal[f]) \/ (goal[f] < v /\ v < at[f])
        BY <3>1, <4>1
      <4>3. v \in Places \cup {goal[f]}
        BY <3>1, <4>1
      <4>4. Places \subseteq Int
        <5>1. \A l \in Levels \cup Tilts : {l, Percent(l), Half(l)} \subseteq Int
          <6>1. \A l \in {2 * p : p \in 0..100} : l \in -1..200
            OBVIOUS
          <6>2. \A l \in Levels \cup Tilts : l \in -1..200
            BY <6>1, PositionsAssumption
          <6>3. ASSUME NEW l \in Levels \cup Tilts PROVE {l, Percent(l), Half(l)} \subseteq Int
            <7>1. l \in -1..200
              BY <6>2
            <7>2. Percent(l) \in -1..200 /\ Half(l) \in -1..200
              BY <7>1, CoordinateIs
            <7> QED
              BY <7>1, <7>2
          <6> QED
            BY <6>3
        <5> QED
          BY <5>1 DEF Places
      <4>5. at[f] \in Scale /\ goal[f] \in Scale
        BY DEF DeviceTyped, ValuesTyped
      <4> QED
        BY <4>2, <4>3, <4>4, <4>5 DEF Scale
    <3> QED
      BY <3>1, <3>2 DEF DeviceTyped, ValuesTyped
  <2>2. DeviceTyped'
    BY <1>1, <1>14, <2>1, SameKind DEF DeviceTyped, Move
  <2> QED
    BY <1>1, <1>4, <1>5, <1>6, <1>14, <2>2 DEF Move, centralVars
<1>15. CASE Report
  <2>1. report' = <<at>> /\ shown' = shown
    BY <1>15 DEF Report, centralVars
  <2>2. ShownTyped(at)
    BY DEF DeviceTyped, ValuesTyped, ShownTyped
  <2>3. ReportTyped'
    BY <1>1, <2>1, <2>2, SameKind DEF ReportTyped
  <2> QED
    BY <1>1, <1>3, <1>5, <1>6, <1>15, <2>3 DEF Report, centralVars
<1>16. CASE Deliver
  <2>1. ReportTyped'
    BY <1>1, <1>16, SameKind DEF ReportTyped, Deliver
  <2>2. CacheTyped'
    BY <1>16 DEF CacheTyped, Positioned, Deliver
  <2> QED
    BY <1>1, <1>3, <1>6, <1>16, <2>1, <2>2 DEF Deliver, deviceVars
<1>17. CASE Forget
  <2>1. CacheTyped'
    BY <1>17 DEF CacheTyped, Positioned, Forget, NoCoordinates
  <2> QED
    BY <1>1, <1>3, <1>4, <1>6, <1>17, <2>1 DEF Forget, deviceVars
<1>18. CASE Expire
  <2>1. DeviceTyped'
    <3>1. CASE off = None
      BY <1>3, <1>18, <3>1 DEF Expire, deviceVars
    <3>2. CASE off # None
      <4>1. kind \in LightKinds /\ at' = [at EXCEPT ![LevelField(kind)] = 0] /\ goal' = at'
        BY <1>18, <3>2 DEF Expire, DeviceTyped
      <4>2. ValuesTyped(at')
        BY <4>1, FieldsAre DEF DeviceTyped, ValuesTyped
      <4> QED
        BY <1>1, <4>1, <4>2, SameKind DEF DeviceTyped
    <3> QED
      BY <3>1, <3>2
  <2> QED
    BY <1>1, <1>4, <1>5, <1>6, <1>18, <2>1 DEF Expire
<1> QED
  BY <1>2, <1>7, <1>8, <1>9, <1>10, <1>11, <1>12, <1>13, <1>14, <1>15, <1>16, <1>17, <1>18 DEF Next

-----------------------------------------------------------------------------
(* What a device has been told, it reports.                                 *)

Told == kind # "schedule" /\ ~due =>
            IF report = <<>> THEN uncertain \/ shown = goal ELSE report[1] = goal

LEMMA ToldInit == Init => Told
BY DEF Init, Told

LEMMA ToldStep == Told /\ [Next]_vars => Told'
<1> SUFFICES ASSUME Told, [Next]_vars PROVE Told'
  OBVIOUS
<1>1. UNCHANGED <<kind, due, report, uncertain, shown, goal>> => Told'
  BY DEF Told
<1>2. ASSUME NEW t, NEW call, Skip(t, call) \/ Refuse(t, call) \/ Enter(t, call) PROVE Told'
  BY <1>1, <1>2 DEF Skip, Refuse, Enter, deviceVars, centralVars
<1>3. ASSUME NEW t, ReadFails(t) \/ Acquire(t) \/ Return(t) PROVE Told'
  BY <1>1, <1>3 DEF ReadFails, Acquire, Return, deviceVars, centralVars
<1>4. ASSUME NEW r, kind' = kind, Obey(r) PROVE Told'
  BY <1>4 DEF Told, Obey
<1>5. ASSUME NEW t, Answered(t) PROVE Told'
  BY <1>4, <1>5 DEF Answered
<1>6. ASSUME NEW t, Fails(t) PROVE Told'
  BY <1>1, <1>4, <1>6 DEF Fails, deviceVars, centralVars
<1>7. ASSUME NEW f, Move(f) PROVE Told'
  BY <1>1, <1>7 DEF Move, centralVars
<1>8. CASE Report
  BY <1>8 DEF Report, Told
<1>9. CASE Deliver
  BY <1>9 DEF Deliver, Told, deviceVars
<1>10. CASE Forget
  BY <1>1, <1>10 DEF Forget, deviceVars
<1>11. CASE Expire
  BY <1>1, <1>11 DEF Expire, deviceVars, Told
<1>12. CASE UNCHANGED vars
  BY <1>1, <1>12 DEF vars
<1> QED
  BY <1>2, <1>3, <1>5, <1>6, <1>7, <1>8, <1>9, <1>10, <1>11, <1>12 DEF Next

LEMMA SkippedThen ==
    ASSUME Typed, Told, NEW t, NEW call \in Calls, Quiet, ~LightLeftOff(call), Skip(t, call)
    PROVE  Done(call)
<1>1. LooksAtState(call) /\ ~Changes(call) /\ ~uncertain
  BY DEF Skip
<1>2. at = goal /\ ~due /\ report = <<>>
  BY DEF Quiet
<1>3. kind \notin LockKinds \cup {"schedule"} /\ call.op \notin {"stop", "setTimer"}
  BY <1>1 DEF LooksAtState
<1>4. shown = at
  BY <1>1, <1>2, <1>3 DEF Told
<1>5. ValuesTyped(at)
  BY DEF Typed, DeviceTyped
<1>6. kind \in CoverKinds \cup LightKinds \cup ClimateKinds
  BY <1>3, KindsAssumption DEF Typed
<1>7. CASE kind \in CoverKinds
  BY <1>1, <1>3, <1>4, <1>5, <1>7, Parts, CoverSkips
<1>8. CASE kind \in LightKinds
  BY <1>1, <1>3, <1>4, <1>5, <1>8, Parts, LightSkips
<1>9. CASE kind \in ClimateKinds
  BY <1>1, <1>4, <1>9, Parts, ClimateSkips
<1> QED
  BY <1>6, <1>7, <1>8, <1>9

\* A call that is skipped, when nothing is on its way, had nothing to do.
THEOREM SkipsAreDone == Spec => SkippedIsDone
<1>1. Init => Typed /\ Told
  BY TypedInit, ToldInit
<1>2. Typed /\ Told /\ [Next]_vars => Typed' /\ Told'
  BY TypedStep, ToldStep
<1>3. ASSUME Typed, Told, [Next]_vars
      PROVE  [\A t \in Callers : \A call \in Calls :
                Quiet /\ ~LightLeftOff(call) /\ Skip(t, call) => Done(call)]_vars
  BY <1>3, SkippedThen
<1> QED
  BY <1>1, <1>2, <1>3, PTL DEF Spec, SkippedIsDone

-----------------------------------------------------------------------------
(* Where a blind is sent.                                                   *)

LEMMA FirstIs ==
    ASSUME NEW e, NEW s, IsSequence(s)
    PROVE  <<>> \o s = s /\ <<e>> \o s # <<>> /\ Head(<<e>> \o s) = e /\ Tail(<<e>> \o s) = s
<1> DEFINE S == {e} \cup Of(s)
           both == <<e>> \o s
<1>1. s \in Seq(S) /\ <<e>> \in Seq(S) /\ Len(<<e>>) = 1 /\ Len(s) \in Nat /\ <<e>>[1] = e
  <2>1. s \in Seq(Of(s)) /\ Len(s) \in Nat
    BY Sequence
  <2>2. s \in Seq(S)
    BY <2>1, SeqMonotonic
  <2> QED
    BY <2>1, <2>2
<1>2. /\ both \in Seq(S) /\ Len(both) = 1 + Len(s)
      /\ \A i \in 1 .. 1 + Len(s) : both[i] = IF i <= 1 THEN <<e>>[i] ELSE s[i - 1]
  BY <1>1, ConcatProperties
<1>3. both[1] = e /\ both # <<>>
  BY <1>1, <1>2, EmptySeq
<1>4. Head(both) = e
  BY <1>2, <1>3
<1>5. /\ Tail(both) \in Seq(S) /\ Len(Tail(both)) = Len(s)
      /\ \A i \in 1 .. Len(s) : Tail(both)[i] = both[i + 1]
  BY <1>1, <1>2, <1>3, HeadTailProperties
<1>6. \A i \in 1 .. Len(s) : Tail(both)[i] = s[i]
  <2> TAKE i \in 1 .. Len(s)
  <2>1. i + 1 \in 1 .. 1 + Len(s) /\ ~(i + 1 <= 1) /\ (i + 1) - 1 = i
    BY <1>1
  <2> QED
    BY <1>2, <1>5, <2>1
<1>7. Tail(both) = s
  BY <1>1, <1>5, <1>6, SeqEqual
<1>8. <<>> \o s = s
  BY <1>1, ConcatEmptySeq
<1> QED
  BY <1>3, <1>4, <1>7, <1>8

Senders == {t \in Tasks : task[t].stage = "sending"}

\* What the caller of a blind has still to send: it stops the blind, or it stops it
\* first and then sends both coordinates.
Steers(p) ==
    IF p.call.op = "stop" THEN \A r \in Of(p.todo) : DOMAIN r \subseteq {"STOP"}
    ELSE p.todo # <<>> =>
            /\ \A r \in Of(Tail(p.todo)) : DOMAIN r \subseteq Coordinates
            /\ \/ DOMAIN Head(p.todo) \subseteq Coordinates
               \/ \A f \in Coordinates : \E r \in Of(Tail(p.todo)) : f \in DOMAIN r

Asks(p, f) == \E r \in Of(p.todo) : f \in DOMAIN r
Keeps(p, f) == \A r \in Of(p.todo) : f \in DOMAIN r => r[f] \in Kept(wanted[f])

\* Nothing that the device runs to, or the next call may look at, differs from
\* what the callers want.
Resting(f) ==
    /\ goal[f] \in Kept(wanted[f])
    /\ IF unconfirmed[f] = None
       THEN shown[f] \in Kept(wanted[f]) /\ (report # <<>> => report[1][f] \in Kept(wanted[f]))
       ELSE unconfirmed[f] \in Kept(wanted[f])

Aimed(f) == /\ \A t \in Senders : Keeps(task[t], f)
            /\ (\E t \in Senders : Asks(task[t], f)) \/ Resting(f)

Steered ==
    kind \in Blinds =>
        /\ uncertain = FALSE
        /\ \A t, u \in Senders : t = u
        /\ \A t \in Senders : Steers(task[t])
        /\ \A f \in Coordinates : wanted[f] \in -1..200 \cup {None}
        /\ \A f \in Coordinates \ stopped : wanted[f] # None => Aimed(f)

LEMMA KeptIs ==
    ASSUME NEW w \in -1..200
    PROVE  /\ w \in Kept(w) /\ Kept(w) \subseteq Int /\ None \notin Kept(w)
           /\ \A x \in Kept(w) : Coordinate(kind, x) \in Kept(w)
<1> DEFINE Coord(l) == Coordinate(kind, l)
<1>1. ASSUME NEW a \in -1..200, NEW b \in -1..200, NEW c \in -1..200, NEW d \in -1..200,
             a = Coord(w), b = Coord(a), c = Coord(b), d = Coord(c), d = Coord(d)
      PROVE  /\ w \in Kept(w) /\ Kept(w) \subseteq Int /\ None \notin Kept(w)
             /\ \A x \in Kept(w) : Coordinate(kind, x) \in Kept(w)
  <2>1. Kept(w) = {w, a, b, c, d}
    BY <1>1 DEF Kept
  <2>2. Coord(w) \in Kept(w) /\ Coord(a) \in Kept(w) /\ Coord(b) \in Kept(w) /\ Coord(c) \in Kept(w) /\ Coord(d) \in Kept(w)
    BY <1>1, <2>1
  <2> QED
    BY <1>1, <2>1, <2>2, NoneAssumption
<1>2. CASE kind = "blind"
  <2>1. \A l : Coordinate(kind, l) = Half(l)
    BY <1>2 DEF Coordinate
  <2>2. PICK a \in -1..200 : a = Half(w)
    BY DEF Half
  <2>3. PICK b \in -1..200 : b = Half(a)
    BY DEF Half
  <2>4. PICK c \in -1..200 : c = Half(b)
    BY DEF Half
  <2>5. PICK d \in -1..200 : d = Half(c)
    BY DEF Half
  <2>6. d = Half(d)
    BY <2>2, <2>3, <2>4, <2>5 DEF Half
  <2>7. a = Coord(w) /\ b = Coord(a) /\ c = Coord(b) /\ d = Coord(c) /\ d = Coord(d)
    BY <2>1, <2>2, <2>3, <2>4, <2>5, <2>6
  <2> HIDE DEF Coord
  <2> QED
    BY <1>1, <2>7
<1>3. CASE kind = "ipblind"
  <2>1. \A l : Coordinate(kind, l) = Percent(l)
    BY <1>3 DEF Coordinate
  <2>2. PICK a \in 0..200 : a = Percent(w) /\ a % 2 = 0
    BY DEF Percent
  <2>3. \A e \in 0..200 : e % 2 = 0 => Percent(e) = IF e \in {58, 114, 116} THEN e - 2 ELSE e
    BY DEF Percent
  <2>4. PICK b \in 0..200 : b = Percent(a) /\ b % 2 = 0 /\ b = (IF a \in {58, 114, 116} THEN a - 2 ELSE a)
    BY <2>2, <2>3
  <2>5. PICK c \in 0..200 : c = Percent(b) /\ c % 2 = 0 /\ c = (IF b \in {58, 114, 116} THEN b - 2 ELSE b)
    BY <2>3, <2>4
  <2>6. PICK d \in 0..200 : d = Percent(c) /\ d % 2 = 0 /\ d = (IF c \in {58, 114, 116} THEN c - 2 ELSE c)
    BY <2>3, <2>5
  <2>7. d = Percent(d)
    BY <2>3, <2>4, <2>5, <2>6
  <2>8. a = Coord(w) /\ b = Coord(a) /\ c = Coord(b) /\ d = Coord(c) /\ d = Coord(d)
    BY <2>1, <2>2, <2>4, <2>5, <2>6, <2>7
  <2>9. a \in -1..200 /\ b \in -1..200 /\ c \in -1..200 /\ d \in -1..200
    OBVIOUS
  <2> HIDE DEF Coord
  <2> QED
    BY <1>1, <2>8, <2>9
<1>4. CASE kind \notin {"blind", "ipblind"}
  <2>1. \A l : Coordinate(kind, l) = l
    BY <1>4 DEF Coordinate
  <2>2. Kept(w) = {w}
    BY <2>1 DEF Kept
  <2> QED
    BY <2>1, <2>2, NoneAssumption
<1> QED
  BY <1>2, <1>3, <1>4

LEMMA SteeredInit == Init => Steered
<1> SUFFICES ASSUME Init, kind \in Blinds
             PROVE  /\ uncertain = FALSE
                    /\ \A t, u \in Senders : t = u
                    /\ \A t \in Senders : Steers(task[t])
                    /\ \A f \in Coordinates : wanted[f] \in -1..200 \cup {None}
                    /\ \A f \in Coordinates \ stopped : wanted[f] # None => Aimed(f)
  BY DEF Steered
<1>1. uncertain = FALSE /\ shown = at /\ goal = at /\ wanted = at /\ report = <<>> /\ unconfirmed = NoCoordinates
  BY DEF Init
<1>2. Senders = {}
  BY DEF Init, Senders, Idle
<1>3. \A f \in Coordinates : at[f] \in -1..200
  BY TypedInit, FieldsAre DEF Typed, DeviceTyped, ValuesTyped, Positional
<1>4. \A f \in Coordinates : Resting(f)
  BY <1>1, <1>3, KeptIs DEF Resting, NoCoordinates
<1> QED
  BY <1>1, <1>2, <1>3, <1>4 DEF Aimed

\* A step that changes none of this, but that a caller is done.
LEMMA SteeredSame ==
    ASSUME Steered, UNCHANGED <<kind, uncertain, wanted, stopped, goal, unconfirmed, shown, report>>,
           Senders' \subseteq Senders, \A t \in Senders' : task'[t] = task[t],
           \A t \in Senders \ Senders' : task[t].todo = <<>>
    PROVE  Steered'
<1> SUFFICES ASSUME kind \in Blinds
             PROVE  /\ uncertain' = FALSE
                    /\ \A t, u \in Senders' : t = u
                    /\ \A t \in Senders' : Steers(task[t])'
                    /\ \A f \in Coordinates : wanted'[f] \in -1..200 \cup {None}
                    /\ \A f \in Coordinates \ stopped' : wanted'[f] # None => Aimed(f)'
  BY DEF Steered
<1>1. \A t \in Senders' : Steers(task[t])'
  BY DEF Steered, Steers
<1>2. ASSUME NEW f \in Coordinates \ stopped', wanted'[f] # None PROVE Aimed(f)'
  <2>1. Aimed(f)
    BY <1>2 DEF Steered
  <2>2. \A t \in Senders' : Keeps(task[t], f)'
    BY <2>1 DEF Aimed, Keeps, Kept
  <2>3. Resting(f) => Resting(f)'
    BY DEF Resting, Kept
  <2>4. ASSUME NEW t \in Senders, Asks(task[t], f) PROVE t \in Senders' /\ Asks(task[t], f)'
    <3>1. t \in Senders'
      BY <2>4, Short DEF Asks
    <3> QED
      BY <2>4, <3>1 DEF Asks
  <2> QED
    BY <2>1, <2>2, <2>3, <2>4 DEF Aimed
<1> QED
  BY <1>1, <1>2 DEF Steered

\* A caller gets the lock, while nobody sends.
LEMMA AcquireSteers ==
    ASSUME Typed, Steered, kind \in Blinds, NEW t \in Tasks, Acquire(t)
    PROVE  Steered'
<1> DEFINE call == task[t].call
           rs == Requests(Entries(call))
           p == Sending(call)
<1>1. call \in Calls /\ task' = [task EXCEPT ![t] = p]
  BY StageIs DEF Typed, Acquire, Waits
<1>2. Senders = {}
  BY DEF Acquire, LockFree, Senders
<1>3. task'[t] = p /\ \A u \in Tasks \ {t} : task'[u] = task[u]
  BY <1>1 DEF Typed, TasksTyped
<1>4. p.stage = "sending" /\ p.call = call
  BY DEF Sending
<1>5. Senders' = {t}
  BY <1>2, <1>3, <1>4 DEF Senders
<1>6. kind \in CoverKinds /\ kind # "garage" /\ kind # "window"
  BY DEF CoverKinds, Blinds
<1>7. /\ call.op \in {"stop", "set"} /\ (call.op = "stop" => call.level = None /\ call.tilt = None)
      /\ call.level \in 0..200 \cup {None} /\ call.tilt \in 0..200 \cup {None}
  <2>1. call \in CoverCalls(kind)
    BY <1>1, <1>6, Parts
  <2> HIDE DEF call
  <2> QED
    BY <2>1, <1>6, PositionsAssumption DEF CoverCalls, CoverCall, Positions
<1>8. CASE call.op = "stop"
  <2>1. Entries(call) = <<Put("STOP", "STOP")>>
    BY <1>6, <1>8, Parts DEF CoverEntries
  <2>2. IsSequence(rs) /\ \A r \in Of(rs) : DOMAIN r \subseteq {"STOP"}
    <3>1. Listed(<<Put("STOP", "STOP")>>) /\ \A e \in Of(<<Put("STOP", "STOP")>>) : e.field = "STOP"
      BY ListedAre, PutIsEntry, Short
    <3> QED
      BY <2>1, <3>1, SentFor
  <2>3. p.todo = rs
    <3>1. p.todo = <<>> \o rs
      BY <1>8 DEF Sending, When
    <3> QED
      BY <2>2, <3>1, FirstIs
  <2>4. Steers(p)
    BY <1>4, <1>8, <2>2, <2>3 DEF Steers
  <2>5. wanted' = [f \in Coordinates |-> wanted[f]] /\ stopped' = {f \in stopped : Given(call)[f] = None}
    BY <1>7, <1>8 DEF Acquire, Given, Coordinates
  <2>6. ASSUME NEW f \in Coordinates \ stopped', wanted'[f] # None PROVE Aimed(f)'
    <3>1. Given(call)[f] = None
      BY <1>7, <1>8 DEF Given, Coordinates
    <3>2. f \notin stopped /\ wanted'[f] = wanted[f]
      BY <2>5, <2>6, <3>1
    <3>3. Resting(f)
      BY <1>2, <2>6, <3>2 DEF Steered, Aimed
    <3>4. Resting(f)'
      BY <3>2, <3>3 DEF Resting, Kept, Acquire, deviceVars, centralVars
    <3>5. Keeps(task[t], f)'
      BY <1>3, <2>2, <2>3 DEF Keeps, Coordinates
    <3> QED
      BY <1>5, <3>4, <3>5 DEF Aimed
  <2>7. Steers(task[t])'
    BY <1>3, <2>4 DEF Steers
  <2> QED
    BY <1>5, <2>5, <2>6, <2>7 DEF Steered, Acquire, centralVars
<1>9. CASE call.op = "set"
  <2>1. /\ IsSequence(rs)
        /\ \A r \in Of(rs) : DOMAIN r \subseteq Coordinates /\ \A f \in DOMAIN r : r[f] = Target(call, f)
        /\ \A f \in Coordinates : \E r \in Of(rs) : f \in DOMAIN r
    BY <1>9, BlindSends
  <2>2. p.todo = rs \/ p.todo = <<[STOP |-> "STOP"]>> \o rs
    <3>1. p.todo = <<>> \o rs \/ p.todo = <<[STOP |-> "STOP"]>> \o rs
      BY DEF Sending, When
    <3> QED
      BY <2>1, <3>1, FirstIs
  <2> HIDE DEF rs, p
  <2>3. Of(p.todo) = Of(rs) \cup {[STOP |-> "STOP"]} \/ Of(p.todo) = Of(rs)
    <3>1. IsSequence(<<[STOP |-> "STOP"]>>) /\ Of(<<[STOP |-> "STOP"]>>) = {[STOP |-> "STOP"]}
      BY Short
    <3>2. Of(<<[STOP |-> "STOP"]>> \o rs) = Of(<<[STOP |-> "STOP"]>>) \cup Of(rs)
      BY <2>1, <3>1, Concat
    <3> QED
      BY <2>2, <3>1, <3>2
  <2>4. Steers(p)
    <3>1. CASE p.todo = rs
      <4>1. rs # <<>> => Head(rs) \in Of(rs) /\ Of(Tail(rs)) \subseteq Of(rs)
        BY <2>1, TailIs
      <4> QED
        BY <1>4, <1>9, <2>1, <3>1, <4>1 DEF Steers
    <3>2. CASE p.todo = <<[STOP |-> "STOP"]>> \o rs
      <4>1. Tail(p.todo) = rs
        BY <2>1, <3>2, FirstIs
      <4> QED
        BY <1>4, <1>9, <2>1, <4>1 DEF Steers
    <3> QED
      BY <2>2, <3>1, <3>2
  <2>5. wanted' = [f \in Coordinates |-> IF Given(call)[f] # None THEN Given(call)[f] ELSE wanted[f]]
        /\ stopped' = {f \in stopped : Given(call)[f] = None}
    BY DEF Acquire
  <2>6. \A f \in Coordinates : Given(call)[f] \in 0..200 \cup {None}
    BY <1>7 DEF Given, Coordinates
  <2>7. \A f \in Coordinates : wanted'[f] \in -1..200 \cup {None}
    BY <2>5, <2>6 DEF Steered
  <2>8. ASSUME NEW f \in Coordinates \ stopped', wanted'[f] # None PROVE Aimed(f)'
    <3>1. wanted'[f] \in -1..200
      BY <2>7, <2>8
    <3>2. Target(call, f) \in Kept(wanted'[f])
      <4>1. CASE Given(call)[f] # None
        <5>1. Target(call, f) = Coordinate(kind, wanted'[f])
          BY <2>5, <4>1 DEF Target, BlindCoordinate
        <5> QED
          BY <3>1, <5>1, KeptIs
      <4>2. CASE Given(call)[f] = None
        <5>1. f \notin stopped /\ wanted'[f] = wanted[f]
          BY <2>5, <2>8, <4>2
        <5>2. Resting(f)
          BY <1>2, <2>8, <5>1 DEF Steered, Aimed
        <5>3. BlindCoordinate(kind, call, shown, unconfirmed, f) \in Kept(wanted'[f])
          <6>1. CASE unconfirmed[f] # None
            BY <4>2, <5>1, <5>2, <6>1 DEF BlindCoordinate, Resting
          <6>2. CASE unconfirmed[f] = None
            <7>1. shown[f] \in Kept(wanted'[f]) /\ shown[f] # None
              BY <3>1, <5>1, <5>2, <6>2, KeptIs DEF Resting
            <7> QED
              BY <4>2, <6>2, <7>1 DEF BlindCoordinate, ChannelLevel
          <6> QED
            BY <6>1, <6>2
        <5> QED
          BY <3>1, <5>3, KeptIs DEF Target
      <4> QED
        BY <4>1, <4>2
    <3>3. \A r \in Of(p.todo) : f \in DOMAIN r => r[f] \in Kept(wanted'[f])
      <4>1. f \notin DOMAIN [STOP |-> "STOP"]
        BY DEF Coordinates
      <4> QED
        BY <2>1, <2>3, <3>2, <4>1
    <3>4. \E r \in Of(p.todo) : f \in DOMAIN r
      BY <2>1, <2>3
    <3>5. kind' = kind
      BY DEF Acquire
    <3>6. Keeps(task[t], f)' /\ Asks(task[t], f)'
      BY <1>3, <3>3, <3>4, <3>5 DEF Keeps, Asks, Kept
    <3> QED
      BY <1>5, <3>6 DEF Aimed
  <2>9. Steers(task[t])'
    BY <1>3, <2>4 DEF Steers
  <2> QED
    BY <1>5, <2>7, <2>8, <2>9 DEF Steered, Acquire, centralVars
<1> QED
  BY <1>7, <1>8, <1>9

\* What is left to send after a request.
LEMMA SteersLeft ==
    ASSUME kind \in Blinds, NEW p, Sends(p), p.todo # <<>>, Steers(p), NEW q, q.call = p.call, q.todo \in {Tail(p.todo), <<>>}
    PROVE  Steers(q)
<1>1. IsSequence(p.todo)
  BY DEF Sends, Todo, Measured, Positional
<1>2. IsSequence(Tail(p.todo)) /\ Of(Tail(p.todo)) \subseteq Of(p.todo)
  BY <1>1, TailIs
<1>3. CASE q.todo = <<>>
  BY <1>3, Short DEF Steers
<1>4. CASE q.todo = Tail(p.todo) /\ q.todo # <<>>
  <2>1. Head(q.todo) \in Of(q.todo) /\ Of(Tail(q.todo)) \subseteq Of(q.todo)
    BY <1>2, <1>4, TailIs
  <2> QED
    BY <1>2, <1>4, <2>1 DEF Steers
<1> QED
  BY <1>3, <1>4

\* The only caller that sends stays the only one.
LEMMA SenderStays ==
    ASSUME Typed, Steered, kind \in Blinds, NEW t \in Senders, NEW s, NEW i,
           \/ task' = [task EXCEPT ![t].todo = s]
           \/ task' = [task EXCEPT ![t].todo = s, ![t].intact = i]
    PROVE  /\ Senders = {t} /\ Senders' = {t}
           /\ task'[t].todo = s /\ task'[t].call = task[t].call
<1>1. Senders = {t}
  BY DEF Steered
<1>2. Sends(task[t]) /\ t \in Tasks
  BY StageIs DEF Typed, Senders
<1>3. DOMAIN task[t] = {"stage", "call", "todo", "intact", "meant"}
  BY <1>2 DEF Sends
<1>4. \A u \in Tasks \ {t} : task'[u] = task[u]
  BY DEF Typed, TasksTyped
<1>5. task'[t].todo = s /\ task'[t].call = task[t].call /\ task'[t].stage = task[t].stage
  <2>1. task = [u \in Tasks |-> task[u]]
    BY DEF Typed, TasksTyped
  <2>2. \/ task'[t] = [task[t] EXCEPT !.todo = s]
        \/ task'[t] = [[task[t] EXCEPT !.todo = s] EXCEPT !.intact = i]
    BY <1>2, <2>1
  <2> QED
    BY <1>3, <2>2
<1>6. Senders' = {t}
  BY <1>1, <1>4, <1>5 DEF Senders
<1> QED
  BY <1>1, <1>5, <1>6

LEMMA AnsweredSteers ==
    ASSUME Typed, Steered, kind \in Blinds, NEW t \in Tasks, Answered(t)
    PROVE  Steered'
<1> DEFINE p == task[t]
           r == Head(p.todo)
<1>1. t \in Senders /\ Sends(p) /\ p.todo # <<>> /\ task' = [task EXCEPT ![t].todo = Tail(p.todo)]
  BY StageIs DEF Typed, Answered, Senders, TasksTyped
<1>2. /\ Senders = {t} /\ Senders' = {t}
      /\ task'[t].todo = Tail(p.todo) /\ task'[t].call = p.call
  BY <1>1, SenderStays
<1>3. IsSequence(p.todo)
  BY <1>1 DEF Sends, Todo, Measured, Positional
<1>4. r \in Of(p.todo) /\ Of(p.todo) = {r} \cup Of(Tail(p.todo))
  BY <1>1, <1>3, TailIs
<1>5. Steers(p)
  BY <1>1 DEF Steered
<1>6. Steers(task[t])'
  <2>1. Steers(task'[t])
    BY <1>1, <1>2, <1>5, SteersLeft
  <2> QED
    BY <2>1 DEF Steers
<1>7. /\ goal' = CoverApplied(kind, at, goal, r) /\ unconfirmed' = Remembered(r)
      /\ DOMAIN goal = Coordinates /\ kind \in CoverKinds /\ kind # "garage"
      /\ \A f \in Coordinates : at[f] \in -1..200
  <2>1. kind \in Positional /\ kind # "garage"
    BY DEF Positional, Blinds
  <2> QED
    BY <2>1, FieldsAre, Parts DEF Answered, Obey, Typed, DeviceTyped, ValuesTyped
<1>8. MeantByStop(p.call)
  BY DEF Answered
<1>9. \A f \in Coordinates : wanted'[f] \in -1..200 \cup {None}
  BY <1>7, <1>8 DEF Steered, MeantByStop
<1>10. ASSUME NEW f \in Coordinates \ stopped', wanted'[f] # None PROVE Aimed(f)'
  <2>1. f \notin stopped /\ wanted'[f] = wanted[f] /\ (p.call.op = "stop" => at[f] = goal[f])
    BY <1>8, <1>10 DEF MeantByStop
  <2>2. Aimed(f)
    BY <1>10, <2>1 DEF Steered
  <2>3. UNCHANGED <<kind, report, shown>> /\ (f \notin DOMAIN r => unconfirmed'[f] = unconfirmed[f])
        /\ (f \in DOMAIN r => unconfirmed'[f] = r[f])
    BY <1>7 DEF Answered, Remembered
  <2>4. Keeps(p, f)
    BY <1>1, <2>2 DEF Aimed
  <2>5. Keeps(task[t], f)'
    BY <1>2, <1>4, <2>1, <2>3, <2>4 DEF Keeps, Kept
  <2>6. CASE \E q \in Of(Tail(p.todo)) : f \in DOMAIN q
    <3>1. Asks(task[t], f)'
      BY <1>2, <2>6 DEF Asks
    <3> QED
      BY <1>2, <2>5, <3>1 DEF Aimed
  <2>7. CASE ~ \E q \in Of(Tail(p.todo)) : f \in DOMAIN q
    <3>1. \/ p.call.op = "stop" /\ DOMAIN r \subseteq {"STOP"}
          \/ p.call.op # "stop" /\ DOMAIN r \subseteq Coordinates
      BY <1>1, <1>4, <1>5, <2>7 DEF Steers
    <3>2. goal'[f] = IF f \in DOMAIN r THEN r[f] ELSE goal[f]
      <4>1. CASE "STOP" \in DOMAIN r
        <5>1. goal' = at
          BY <1>7, <4>1 DEF CoverApplied
        <5>2. p.call.op = "stop" /\ f \notin DOMAIN r
          BY <3>1, <4>1 DEF Coordinates
        <5> QED
          BY <2>1, <5>1, <5>2
      <4>2. CASE "STOP" \notin DOMAIN r
        <5>1. goal' = [g \in DOMAIN goal |-> IF g \in DOMAIN r THEN r[g] ELSE goal[g]]
          BY <1>7, <4>2 DEF CoverApplied
        <5> QED
          BY <1>7, <5>1
      <4> QED
        BY <4>1, <4>2
    <3>3. CASE f \in DOMAIN r
      <4>1. r[f] \in Kept(wanted[f])
        BY <1>4, <2>4, <3>3 DEF Keeps
      <4>2. r[f] # None
        BY <1>9, <1>10, <2>1, <4>1, KeptIs
      <4>3. Resting(f)'
        BY <2>1, <2>3, <3>2, <3>3, <4>1, <4>2 DEF Resting, Kept
      <4> QED
        BY <1>2, <2>5, <4>3 DEF Aimed
    <3>4. CASE f \notin DOMAIN r
      <4>1. ~Asks(p, f)
        BY <1>4, <2>7, <3>4 DEF Asks
      <4>2. Resting(f)
        BY <1>2, <2>2, <4>1 DEF Aimed
      <4>3. Resting(f)'
        BY <2>1, <2>3, <3>2, <3>4, <4>2 DEF Resting, Kept
      <4> QED
        BY <1>2, <2>5, <4>3 DEF Aimed
    <3> QED
      BY <3>3, <3>4
  <2> QED
    BY <2>6, <2>7
<1> QED
  BY <1>2, <1>6, <1>9, <1>10 DEF Steered, Answered

LEMMA SteeredStep == Typed /\ Told /\ Steered /\ [Next]_vars => Steered'
<1> SUFFICES ASSUME Typed, Told, Steered, [Next]_vars, kind' \in Blinds PROVE Steered'
  BY DEF Steered
<1>1. kind' = kind
  BY DEF Next, vars, Skip, Refuse, Enter, ReadFails, Acquire, Answered, Fails, Return, Move, Report, Deliver, Forget, Expire
<1>2. kind \in Blinds
  BY <1>1
<1>3. Callers \subseteq Tasks
  BY TasksAssumption DEF Callers
<1>4. UNCHANGED <<uncertain, wanted, stopped, goal, unconfirmed, shown, report, task>> => Steered'
  BY <1>1, SteeredSame DEF Senders
<1>5. CASE UNCHANGED vars
  BY <1>4, <1>5 DEF vars
<1>6. ASSUME NEW t \in Tasks, NEW call \in Calls, Skip(t, call) \/ Refuse(t, call) PROVE Steered'
  BY <1>4, <1>6 DEF Skip, Refuse, deviceVars, centralVars, ghosts
<1>7. ASSUME NEW t \in Tasks, NEW call \in Calls, Enter(t, call) PROVE Steered'
  <2>1. task' = [task EXCEPT ![t] = [stage |-> "waiting", call |-> call]]
    BY <1>2, <1>7 DEF Enter
  <2>2. t \notin Senders
    BY <1>7 DEF Enter, MayCall, Senders, Idle
  <2>3. Senders' = Senders /\ \A u \in Senders' : task'[u] = task[u]
    BY <2>1, <2>2 DEF Senders, Typed, TasksTyped
  <2> QED
    BY <1>1, <1>7, <2>3, SteeredSame DEF Enter, deviceVars
<1>8. ASSUME NEW t \in Tasks, ReadFails(t) PROVE Steered'
  BY <1>2, <1>8 DEF ReadFails, Blinds
<1>9. ASSUME NEW t \in Tasks, Acquire(t) PROVE Steered'
  BY <1>2, <1>9, AcquireSteers
<1>10. ASSUME NEW t \in Tasks, Answered(t) PROVE Steered'
  BY <1>2, <1>10, AnsweredSteers
<1>11. ASSUME NEW t \in Tasks, Fails(t) PROVE Steered'
  <2>1. t \in Senders /\ Sends(task[t]) /\ task[t].todo # <<>>
        /\ task' = [task EXCEPT ![t].todo = AfterFailure(task[t].todo), ![t].intact = FALSE]
    BY <1>11, StageIs DEF Typed, Fails, Senders, TasksTyped
  <2>2. Senders' = {t} /\ task'[t].todo = AfterFailure(task[t].todo) /\ task'[t].call = task[t].call
    BY <1>2, <2>1, SenderStays
  <2>3. Steers(task[t])'
    <3>1. Steers(task[t]) /\ task'[t].todo \in {Tail(task[t].todo), <<>>}
      BY <1>2, <2>1, <2>2 DEF Steered, AfterFailure
    <3>2. Steers(task'[t])
      BY <1>2, <2>1, <2>2, <3>1, SteersLeft
    <3> QED
      BY <3>2 DEF Steers
  <2>4. wanted' = NoCoordinates /\ uncertain' = uncertain
    BY <1>11 DEF Fails, centralVars
  <2>5. \A f \in Coordinates : wanted'[f] = None
    BY <2>4 DEF NoCoordinates
  <2> QED
    BY <1>2, <2>2, <2>3, <2>4, <2>5 DEF Steered
<1>12. ASSUME NEW t \in Tasks, Return(t) PROVE Steered'
  <2>1. task' = [task EXCEPT ![t] = Idle] /\ task[t].todo = <<>>
    BY <1>12 DEF Return
  <2>2. Senders' = Senders \ {t} /\ \A u \in Senders' : task'[u] = task[u]
    BY <2>1 DEF Senders, Typed, TasksTyped, Idle
  <2> QED
    BY <1>1, <1>12, <2>1, <2>2, SteeredSame DEF Return, deviceVars, centralVars
<1>13. ASSUME NEW f \in MovingFields, Move(f) PROVE Steered'
  BY <1>4, <1>13 DEF Move, centralVars, ghosts
<1>14. ASSUME UNCHANGED <<uncertain, task, wanted, stopped>> \/ (UNCHANGED <<task, wanted, stopped>> /\ uncertain' = FALSE),
              \A f \in Coordinates \ stopped : wanted[f] # None /\ Resting(f) => Resting(f)'
       PROVE  Steered'
  <2>1. Senders' = Senders /\ uncertain' = FALSE
    BY <1>2, <1>14 DEF Senders, Steered
  <2>2. \A t \in Senders' : Steers(task[t])'
    BY <1>2, <1>14, <2>1 DEF Steered, Steers
  <2>3. ASSUME NEW f \in Coordinates \ stopped', wanted'[f] # None PROVE Aimed(f)'
    <3>1. Aimed(f) /\ wanted'[f] = wanted[f] /\ (Resting(f) => Resting(f)')
      BY <1>2, <1>14, <2>3 DEF Steered
    <3>2. \A t \in Senders' : Keeps(task[t], f)'
      BY <1>1, <1>14, <2>1, <3>1 DEF Aimed, Keeps, Kept
    <3>3. \A t \in Senders : Asks(task[t], f) => Asks(task[t], f)'
      BY <1>14 DEF Asks
    <3> QED
      BY <2>1, <3>1, <3>2, <3>3 DEF Aimed
  <2> QED
    BY <1>2, <1>14, <2>1, <2>2, <2>3 DEF Steered
<1>15. CASE Report
  <2>1. ASSUME NEW f \in Coordinates, Resting(f) PROVE Resting(f)'
    <3>1. report' = <<at>> /\ at = goal /\ UNCHANGED <<kind, goal, unconfirmed, shown, wanted>> /\ report = <<>>
      BY <1>15 DEF Report, centralVars, ghosts
    <3>2. report'[1] = goal
      BY <3>1
    <3> QED
      BY <2>1, <3>1, <3>2 DEF Resting, Kept
  <2> QED
    BY <1>14, <1>15, <2>1 DEF Report, centralVars, ghosts
<1>16. CASE Deliver
  <2>1. ASSUME NEW f \in Coordinates, Resting(f) PROVE Resting(f)'
    <3>1. unconfirmed'[f] = IF report[1][f] = unconfirmed[f] THEN None ELSE unconfirmed[f]
      BY <1>2, <1>16 DEF Deliver
    <3>2. shown' = report[1] /\ report' = <<>> /\ report # <<>> /\ UNCHANGED <<goal, wanted>>
      BY <1>16 DEF Deliver, deviceVars, ghosts
    <3> QED
      BY <1>1, <2>1, <3>1, <3>2 DEF Resting, Kept
  <2> QED
    BY <1>14, <1>16, <2>1 DEF Deliver, ghosts
<1>17. CASE Forget
  <2>1. shown = goal /\ report = <<>>
    BY <1>2, <1>17 DEF Forget, Quiet, Told, Steered, Blinds
  <2>2. ASSUME NEW f \in Coordinates, Resting(f) PROVE Resting(f)'
    BY <1>1, <1>17, <2>1, <2>2 DEF Forget, Resting, Kept, NoCoordinates, deviceVars, ghosts
  <2> QED
    BY <1>14, <1>17, <2>2 DEF Forget, ghosts
<1>18. CASE Expire
  <2>1. off = None
    BY <1>2, FieldsAre DEF Typed, DeviceTyped, Positional
  <2> QED
    BY <1>4, <1>18, <2>1 DEF Expire, deviceVars
<1> QED
  BY <1>3, <1>5, <1>6, <1>7, <1>8, <1>9, <1>10, <1>11, <1>12, <1>13, <1>15, <1>16, <1>17, <1>18 DEF Next

LEMMA SteeredKeeps == Typed /\ Steered => BlindKeepsCoordinates
<1> SUFFICES ASSUME Typed, Steered, NEW f \in Coordinates \ stopped, Quiet, kind \in Blinds, wanted[f] # None
             PROVE  at[f] \in Kept(wanted[f])
  BY DEF BlindKeepsCoordinates, InPlace
<1>1. Senders = {}
  BY DEF Quiet, Senders, Idle
<1>2. Resting(f)
  BY <1>1 DEF Steered, Aimed
<1> QED
  BY <1>2 DEF Resting, Quiet

\* A call for one coordinate of a blind leaves the other where the callers wanted it.
THEOREM CoordinatesKept == Spec => []BlindKeepsCoordinates
<1>1. Init => Typed /\ Told /\ Steered
  BY TypedInit, ToldInit, SteeredInit
<1>2. Typed /\ Told /\ Steered /\ [Next]_vars => Typed' /\ Told' /\ Steered'
  BY TypedStep, ToldStep, SteeredStep
<1>3. Typed /\ Steered => BlindKeepsCoordinates
  BY SteeredKeeps
<1> QED
  BY <1>1, <1>2, <1>3, PTL DEF Spec

-----------------------------------------------------------------------------
(* What a call sends takes effect.                                          *)

DoneAt(call, v) ==
    CASE kind \in CoverKinds   -> CoverDone(kind, call, v)
      [] kind \in LightKinds   -> LightDone(kind, call, v)
      [] kind \in LockKinds    -> LockDone(kind, call, v)
      [] kind \in ClimateKinds -> ClimateDone(kind, call, v)
      [] kind = "schedule"     -> ScheduleDone(call, v)

\* The parameters of the devices, where requests are merged into them.
Merging == LightKinds \cup {"buttonlock", "rflock", "siren", "schedule"}
Parameters ==
    CASE kind \in LightKinds -> LightFields(kind)
      [] kind = "buttonlock" -> {"BUTTON_LOCK"}
      [] kind = "rflock"     -> {"POWER"}
      [] kind = "siren"      -> {"ACOUSTIC", "OPTICAL"}
      [] kind = "schedule"   -> {"P1", "P2"}
Shaped ==
    /\ kind \in Merging => DOMAIN goal = Parameters
    /\ kind \in LightKinds => /\ DOMAIN at = Parameters
                              /\ timer = [time |-> timer.time, running |-> timer.running] /\ timer.time \in Times
    /\ kind = "schedule" => at = goal

\* A value for a parameter that the call can end with.
Fits(call, f, v) ==
    IF kind \in LightKinds THEN LightAsks(kind, call, f) => LightGood(kind, call, None, f, v)
    ELSE Given(call)[f] # None => Near(kind, v, Given(call)[f])

\* What is still to be sent to a cover or a light, level by level.
Fitting(p) ==
    /\ \A f \in DOMAIN goal : /\ \A r \in Of(p.todo) : f \in DOMAIN r => Fits(p.call, f, r[f])
                              /\ (Fits(p.call, f, goal[f]) \/ Asks(p, f))
    /\ kind \in {"cover", "window"} => \A r \in Of(p.todo) : "STOP" \in DOMAIN r => p.call.op = "stop"
Timely(p) ==
    kind \in LightKinds /\ p.call.op = "on" =>
        /\ \A r \in Of(p.todo) : LevelField(kind) \in DOMAIN r => DeviceTimer(kind, r) = p.meant
        /\ off = p.meant \/ Asks(p, LevelField(kind))

\* The other kinds send one request, or none.
Settles(call, r) == /\ DoneAt(call, Applied(r))
                    /\ kind = "garage" /\ call.level # None => r.COMMAND # "STOP"
                    /\ kind = "garage" => "STOP" \notin DOMAIN r
Alone(p) == \/ p.todo = <<>> /\ DoneAt(p.call, goal)
            \/ \E r : p.todo = <<r>> /\ Settles(p.call, r)

Reaches(p) == IF kind \in Measured THEN Fitting(p) /\ Timely(p) ELSE Alone(p)

\* Temperatures that are shown, or sent.
Warm(v) == v.SETPOINT \in 4..30
WarmRequest(r) == \A f \in {"SETPOINT", "MANU"} \cap DOMAIN r : r[f] \in 4..30
WarmTodo(p) == p.todo = <<>> \/ \E r : (p.todo = <<r>> /\ WarmRequest(r))
Warmed ==
    kind \in ClimateKinds =>
        /\ uncertain = FALSE /\ Warm(goal) /\ Warm(shown) /\ (report # <<>> => Warm(report[1]))
        /\ \A t \in Senders : WarmTodo(task[t])

Fulfilled(done) == /\ done.call \in Calls /\ DoneAt(done.call, goal)
                   /\ kind \in LightKinds /\ done.call.op = "on" => off = done.meant
Sent ==
    /\ \A t, u \in Senders : t = u
    /\ kind \notin Blinds => \A t \in Tasks \ Callers : task[t] = Idle
    /\ \A t \in Senders : task[t].intact => Reaches(task[t])
    /\ last # None => Fulfilled(last) /\ \A t \in Tasks : task[t] = Idle

LEMMA Apart ==
    /\ kind \in CoverKinds => kind \notin LightKinds \cup LockKinds \cup ClimateKinds /\ kind # "schedule"
    /\ kind \in LightKinds => kind \notin CoverKinds \cup LockKinds \cup ClimateKinds /\ kind # "schedule"
    /\ kind \in LockKinds => kind \notin CoverKinds \cup LightKinds \cup ClimateKinds /\ kind # "schedule"
    /\ kind \in ClimateKinds => kind \notin CoverKinds \cup LightKinds \cup LockKinds /\ kind # "schedule"
    /\ kind = "schedule" => kind \notin CoverKinds \cup LightKinds \cup LockKinds \cup ClimateKinds
    /\ kind \in Measured <=> kind \in (CoverKinds \cup LightKinds) \ {"garage"}
BY DEF CoverKinds, LightKinds, LockKinds, ClimateKinds, Measured, Positional, Blinds

LEMMA DoneIs ==
    ASSUME NEW call
    PROVE  /\ kind \in CoverKinds => \A v : DoneAt(call, v) <=> CoverDone(kind, call, v)
           /\ kind \in LightKinds => \A v : DoneAt(call, v) <=> LightDone(kind, call, v)
           /\ kind \in LockKinds => \A v : DoneAt(call, v) <=> LockDone(kind, call, v)
           /\ kind \in ClimateKinds => \A v : DoneAt(call, v) <=> ClimateDone(kind, call, v)
           /\ kind = "schedule" => \A v : DoneAt(call, v) <=> ScheduleDone(call, v)
<1>1. CASE kind \in CoverKinds
  BY <1>1, Apart DEF DoneAt
<1>2. CASE kind \in LightKinds
  BY <1>2, Apart DEF DoneAt
<1>3. CASE kind \in LockKinds
  BY <1>3, Apart DEF DoneAt
<1>4. CASE kind \in ClimateKinds
  BY <1>4, Apart DEF DoneAt
<1>5. CASE kind = "schedule"
  BY <1>5, Apart DEF DoneAt
<1> QED
  BY <1>1, <1>2, <1>3, <1>4, <1>5

LEMMA DoneHere == \A call : Done(call) <=> DoneAt(call, at)
BY DEF Done, DoneAt

\* Each request is made of the entries with a key.
LEMMA RequestOf ==
    ASSUME NEW entries, Listed(entries), NEW r \in Of(Requests(entries))
    PROVE  \E k \in KeysOf(entries) : Makes(entries, k, r) /\ r = Request(entries, Group(entries, k))
<1> DEFINE count == Cardinality(KeysOf(entries))
<1>1. \A k \in KeysOf(entries) : k[1] \in Int
  <2>1. \A e \in Of(entries) : Key(e)[1] \in Int
    BY DEF Listed, IsEntry, Key, Entry
  <2> QED
    BY <2>1 DEF KeysOf, Of
<1>2. IsSequence(entries)
  BY DEF Listed
<1>3. Requests(entries) = [n \in 1..count |-> Request(entries, Group(entries, NthKey(entries, n)))]
  BY DEF Requests
<1> HIDE DEF count
<1>4. PICK n \in 1..count : r = Request(entries, Group(entries, NthKey(entries, n)))
  BY <1>3 DEF Of
<1>5. NthKey(entries, n) \in KeysOf(entries)
  BY <1>1, <1>2, KeysOrdered DEF count
<1> QED
  BY <1>2, <1>4, <1>5, RequestIs

\* Entries with the same key make one request.
LEMMA OneRequest ==
    ASSUME NEW entries, Listed(entries), \A e \in Of(entries) : Key(e) = Own
    PROVE  \/ Requests(entries) = <<>> /\ Of(entries) = {}
           \/ \E r : /\ Requests(entries) = <<r>> /\ Of(entries) # {}
                     /\ r = [f \in DOMAIN r |-> r[f]] /\ DOMAIN r = Names(entries)
                     /\ \A f \in DOMAIN r : \E e \in Of(entries) : e.field = f /\ r[f] = e.value
<1> DEFINE keys == KeysOf(entries)
           rs == Requests(entries)
<1>1. keys = IF Of(entries) = {} THEN {} ELSE {Own}
  BY DEF KeysOf, Of
<1>2. rs = [n \in 1..Cardinality(keys) |-> Request(entries, Group(entries, NthKey(entries, n)))]
  BY DEF Requests
<1>3. CASE Of(entries) = {}
  <2>1. Cardinality(keys) = 0
    BY <1>1, <1>3, FS_EmptySet
  <2>2. rs = [n \in 1..0 |-> Request(entries, Group(entries, NthKey(entries, n)))]
    BY <1>2, <2>1
  <2> HIDE DEF rs
  <2>3. rs = <<>>
    BY <2>2
  <2> QED
    BY <1>3, <2>3 DEF rs
<1>4. CASE Of(entries) # {}
  <2>1. Cardinality(keys) = 1
    BY <1>1, <1>4, FS_Singleton
  <2> DEFINE r == Request(entries, Group(entries, NthKey(entries, 1)))
  <2>2. DOMAIN rs = {1} /\ rs[1] = r /\ rs = [n \in 1..1 |-> rs[n]]
    BY <1>2, <2>1
  <2>3. r \in Of(rs)
    BY <2>2 DEF Of
  <2> HIDE DEF rs, r
  <2>4. rs = <<r>>
    BY <2>2
  <2>5. PICK k \in KeysOf(entries) : Makes(entries, k, r)
    BY <2>3, RequestOf DEF rs
  <2>6. k = Own
    BY <2>5, <1>1, <1>4
  <2>7. DOMAIN r = Names(entries)
    BY <2>5, <2>6 DEF Makes, Names
  <2>8. \A f \in DOMAIN r : \E e \in Of(entries) : e.field = f /\ r[f] = e.value
    BY <2>5 DEF Makes
  <2>9. r = [f \in DOMAIN r |-> r[f]]
    BY <2>5 DEF Makes
  <2> QED
    BY <1>4, <2>4, <2>7, <2>8, <2>9 DEF rs
<1> QED
  BY <1>3, <1>4

\* The request that turns a light on carries the duration that was asked for.
LEMMA TimerSent ==
    ASSUME NEW k \in LightKinds, NEW call, call.op = "on", NEW time \in Times, NEW entries,
           Serves(k, call, time, entries), NEW r \in Of(Requests(entries)), LevelField(k) \in DOMAIN r
    PROVE  DeviceTimer(k, r) = time
<1>1. /\ Listed(entries)
      /\ \A e \in Of(entries) : LightGood(k, call, time, e.field, e.value)
      /\ \A e \in Of(entries) : e.field \in OwnFields(k) => Key(e) = Own
  BY DEF Serves, Suit
<1>0. LevelField(k) \in OwnFields(k) /\ "ON_TIME" \in OwnFields(k) /\ "ON_TIME_UNIT" \in OwnFields(k)
  BY DEF OwnFields
<1>2. PICK key \in KeysOf(entries) : Makes(entries, key, r) /\ r = Request(entries, Group(entries, key))
  BY <1>1, RequestOf
<1>3. key = Own
  <2>1. PICK e \in Of(entries) : Key(e) = key /\ e.field = LevelField(k)
    BY <1>2 DEF Makes
  <2> QED
    BY <1>0, <1>1, <2>1
<1>4. \A f \in DOMAIN r : \E e \in Of(entries) : e.field = f /\ r[f] = e.value
  BY <1>2 DEF Makes
<1>5. /\ "ON_TIME_UNIT" \in DOMAIN r => r["ON_TIME_UNIT"] = TimeUnit(time)
      /\ time = None /\ "ON_TIME" \in DOMAIN r => r["ON_TIME"] = "not used"
  <2>1. \A f \in DOMAIN r : LightGood(k, call, time, f, r[f])
    BY <1>1, <1>4
  <2>2. ASSUME "ON_TIME_UNIT" \in DOMAIN r PROVE r["ON_TIME_UNIT"] = TimeUnit(time)
    <3>1. LightGood(k, call, time, "ON_TIME_UNIT", r["ON_TIME_UNIT"])
      BY <2>1, <2>2
    <3> QED
      BY <3>1 DEF LightGood
  <2>3. ASSUME time = None, "ON_TIME" \in DOMAIN r PROVE r["ON_TIME"] = "not used"
    <3>1. LightGood(k, call, time, "ON_TIME", r["ON_TIME"])
      BY <2>1, <2>3
    <3> QED
      BY <2>3, <3>1 DEF LightGood
  <2> QED
    BY <2>2, <2>3
<1>6. CASE time = None
  BY <1>5, <1>6 DEF DeviceTimer
<1>7. CASE time # None
  <2>1. Lasts(k, time, entries) /\ time \in {"short", "long"}
    BY <1>7 DEF Serves, Times
  <2>2. "ON_TIME" \in DOMAIN r /\ r["ON_TIME"] = time
    BY <1>1, <1>2, <1>3, <2>1, LastIsSent DEF Lasts, Listed
  <2>3. NeedsUnit(k, time) => "ON_TIME_UNIT" \in DOMAIN r
    <3> SUFFICES ASSUME NeedsUnit(k, time) PROVE "ON_TIME_UNIT" \in DOMAIN r
      OBVIOUS
    <3>1. PICK e \in Of(entries) : e.field = "ON_TIME_UNIT"
      BY <2>1 DEF Lasts, Names
    <3>2. Key(e) = key
      BY <1>0, <1>1, <1>3, <3>1
    <3> QED
      BY <1>2, <3>1, <3>2 DEF Makes
  <2> DEFINE unit == IF "ON_TIME_UNIT" \in DOMAIN r THEN r["ON_TIME_UNIT"] ELSE "SECONDS"
  <2>4. k \in {"rgbw", "pwm", "dali", "fixed"} => unit = TimeUnit(time)
    BY <1>5, <2>3 DEF NeedsUnit
  <2>5. TimeUnit(time) = NeededUnit[time]
    BY <2>1 DEF TimeUnit, NeededUnit
  <2> QED
    BY <2>1, <2>2, <2>4, <2>5 DEF DeviceTimer
<1> QED
  BY <1>6, <1>7

LEMMA SendingIs ==
    ASSUME NEW call, IsSequence(Requests(Entries(call))), kind \notin Blinds \/ call.op = "stop"
    PROVE  /\ Sending(call).todo = Requests(Entries(call)) /\ Sending(call).call = call
           /\ Sending(call).stage = "sending" /\ Sending(call).intact = Settled
           /\ kind \in LightKinds /\ call.op = "on" => Sending(call).meant = Duration(call, timer)
<1>1. /\ Sending(call).todo = <<>> \o Requests(Entries(call)) /\ Sending(call).call = call
      /\ Sending(call).stage = "sending" /\ Sending(call).intact = Settled
      /\ kind \in LightKinds /\ call.op = "on" => Sending(call).meant = Duration(call, timer)
  BY DEF Sending, When
<1> QED
  BY <1>1, FirstIs

\* What a call asks for other than a duration suits it, whatever the duration.
LEMMA Timeless ==
    ASSUME NEW k \in LightKinds, NEW call, NEW f, LightAsks(k, call, f), NEW time, NEW v,
           LightGood(k, call, time, f, v)
    PROVE  LightGood(k, call, None, f, v)
<1>1. f \notin {"ON_TIME", "ON_TIME_UNIT"}
  BY DEF LightAsks, LevelField
<1> QED
  BY <1>1 DEF LightGood

LEMMA LightReaches ==
    ASSUME Typed, Shaped, kind \in LightKinds, NEW call \in Calls
    PROVE  Reaches(Sending(call))
<1> DEFINE es == Entries(call)
           rs == Requests(es)
           p == Sending(call)
           time == Duration(call, timer)
           level == LevelField(kind)
<1>1. call \in LightCalls(kind) /\ es = When(call.op # "setTimer", LightEntries(kind, call, shown, timer))
  BY Parts
<1>2. kind # "switch" => shown.LEVEL \in 0..2 \cup {None}
  BY FieldsAre DEF Typed, ReportTyped, ShownTyped, LevelField
<1>3. time \in Times
  BY <1>1, OptionsAre DEF Shaped, Duration
<1>4. kind \in Measured /\ kind \notin {"cover", "window"} /\ kind \notin Blinds
  BY DEF Measured, LightKinds, Blinds
<1>5. IsSequence(rs)
  BY <1>4, LightSends DEF Todo
<1>6. p.todo = rs /\ p.call = call /\ (call.op = "on" => p.meant = time)
  BY <1>4, <1>5, SendingIs
<1> HIDE DEF es, rs, p, time, level
<1>7. CASE call.op = "setTimer"
  <2>1. es = <<>>
    BY <1>1, <1>7 DEF When
  <2>2. rs = <<>>
    BY <2>1, OneRequest, ListedAre, Short DEF rs
  <2>3. Of(p.todo) = {}
    BY <1>6, <2>2, Short
  <2>4. ASSUME NEW f \in DOMAIN goal PROVE Fits(call, f, goal[f])
    <3> SUFFICES ASSUME LightAsks(kind, call, f) PROVE LightGood(kind, call, None, f, goal[f])
      BY DEF Fits
    <3>1. f = level
      BY <1>7 DEF LightAsks, level
    <3>2. goal[f] \in 0..2
      BY <3>1, FieldsAre DEF Typed, DeviceTyped, ValuesTyped, level
    <3> QED
      BY <1>7, <3>1, <3>2 DEF LightGood, LevelField, level
  <2>5. Fitting(p)
    BY <1>4, <1>6, <2>3, <2>4 DEF Fitting
  <2>6. Timely(p)
    BY <1>6, <1>7 DEF Timely
  <2> QED
    BY <1>4, <2>5, <2>6 DEF Reaches, p
<1>8. CASE call.op # "setTimer"
  <2>1. es = LightEntries(kind, call, shown, timer)
    BY <1>1, <1>8 DEF When
  <2>2. Serves(kind, call, time, es)
    BY <1>1, <1>2, <1>8, <2>1, LightEntriesServe, NoneAssumption DEF time
  <2>3. Listed(es) /\ \A e \in Of(es) : LightGood(kind, call, time, e.field, e.value)
    BY <2>2 DEF Serves, Suit
  <2>4. /\ \A r \in Of(rs) : \A f \in DOMAIN r : \E e \in Of(es) : e.field = f /\ r[f] = e.value
        /\ \A e \in Of(es) : \E r \in Of(rs) : e.field \in DOMAIN r
    BY <2>3, SentFor DEF rs
  <2>5. ASSUME NEW f, NEW r \in Of(rs), f \in DOMAIN r PROVE Fits(call, f, r[f])
    <3>1. LightGood(kind, call, time, f, r[f])
      BY <2>3, <2>4, <2>5
    <3> QED
      BY <3>1, Timeless DEF Fits
  <2>6. ASSUME NEW f, LightAsks(kind, call, f) PROVE \E r \in Of(rs) : f \in DOMAIN r
    <3>1. f \in Names(es)
      BY <2>2, <2>6 DEF Serves
    <3> QED
      BY <2>4, <3>1 DEF Names
  <2>7. ASSUME NEW f PROVE Fits(call, f, goal[f]) \/ \E r \in Of(rs) : f \in DOMAIN r
    BY <2>6 DEF Fits
  <2>8. Fitting(p)
    BY <1>4, <1>6, <2>5, <2>7 DEF Fitting, Asks
  <2>9. LightAsks(kind, call, level)
    BY DEF LightAsks, level
  <2>10. call.op = "on" => \A r \in Of(rs) : level \in DOMAIN r => DeviceTimer(kind, r) = time
    BY <1>3, <2>2, TimerSent DEF rs, level
  <2>11. Timely(p)
    BY <1>6, <2>6, <2>9, <2>10 DEF Timely, Asks, level
  <2> QED
    BY <1>4, <2>8, <2>11 DEF Reaches, p
<1> QED
  BY <1>7, <1>8

LEMMA LightFitsDone ==
    ASSUME Typed, Shaped, kind \in LightKinds, NEW call \in Calls, \A f \in DOMAIN goal : Fits(call, f, goal[f])
    PROVE  DoneAt(call, goal)
<1> DEFINE args == call.args
<1>1. call \in LightCalls(kind)
  BY Parts
<1>2. DOMAIN goal = LightFields(kind)
  BY DEF Shaped, Merging, Parameters, LightKinds
<1>3. \A f \in LightFields(kind) : LightAsks(kind, call, f) => LightGood(kind, call, None, f, goal[f])
  BY <1>2 DEF Fits
<1>4. LevelField(kind) \in LightFields(kind) /\ LightAsks(kind, call, LevelField(kind))
  BY DEF LightFields, LightAsks, LevelField, LightKinds
<1>5. LightGood(kind, call, None, LevelField(kind), goal[LevelField(kind)])
  BY <1>3, <1>4
<1>6. CASE call.op = "setTimer"
  BY <1>6, DoneIs DEF LightDone
<1>7. CASE call.op = "off"
  <2>1. goal[LevelField(kind)] = 0
    BY <1>5, <1>7 DEF LightGood
  <2> QED
    BY <1>7, <2>1, DoneIs DEF LightDone
<1>8. CASE call.op = "on"
  <2>1. /\ goal[LevelField(kind)] > 0
        /\ args.brightness # None => goal[LevelField(kind)] = args.brightness
    BY <1>5, <1>8 DEF LightGood
  <2>2. ASSUME args.color # None PROVE ShownColor(kind, goal) = args.color
    <3>1. kind \in {"color", "effect", "rgbw", "dali", "fixed"} /\ args.color \in {"white", "red"}
      BY <1>1, <2>2, OptionsAre
    <3> DEFINE f == IF kind \in {"rgbw", "dali"} THEN "HUE" ELSE "COLOR"
    <3>2. f \in LightFields(kind)
      BY <3>1 DEF LightFields
    <3>3. LightAsks(kind, call, f)
      BY <1>8, <2>2, <3>1 DEF LightAsks
    <3>4. LightGood(kind, call, None, f, goal[f])
      BY <1>3, <3>2, <3>3
    <3>5. CASE kind = "fixed"
      <4>1. goal["COLOR"] = "RED" <=> args.color = "red"
        BY <1>8, <2>2, <3>4, <3>5 DEF LightGood
      <4>2. ShownColor(kind, goal) = IF goal.COLOR = "RED" THEN "red" ELSE "white"
        BY <1>2, <3>5 DEF ShownColor, LightFields
      <4> QED
        BY <3>1, <4>1, <4>2
    <3>6. CASE kind \in {"color", "effect"}
      <4>1. goal["COLOR"] = args.color
        BY <1>8, <2>2, <3>4, <3>6 DEF LightGood
      <4>2. ColorField(kind) \in DOMAIN goal /\ kind # "fixed" /\ "HUE" \notin DOMAIN goal
        BY <1>2, <3>6 DEF ColorField, LightFields
      <4>3. ShownColor(kind, goal) = IF goal.COLOR = None THEN "white" ELSE goal.COLOR
        BY <3>6, <4>2 DEF ShownColor
      <4> QED
        BY <2>2, <4>1, <4>3
    <3>7. CASE kind \in {"rgbw", "dali"}
      <4>1. goal["HUE"] = args.color
        BY <1>8, <2>2, <3>4, <3>7 DEF LightGood
      <4>2. kind \notin {"color", "effect"} /\ kind # "fixed" /\ "HUE" \in DOMAIN goal
        BY <1>2, <3>2, <3>7
      <4>3. ShownColor(kind, goal) = goal.HUE
        BY <3>7, <4>2 DEF ShownColor
      <4> QED
        BY <4>1, <4>3
    <3> QED
      BY <3>1, <3>5, <3>6, <3>7
  <2>3. ASSUME args.kelvin # None PROVE ShownKelvin(kind, goal) = args.kelvin
    <3>1. kind \in {"temp", "rgbw", "dali"}
      BY <1>1, <2>3, OptionsAre
    <3> DEFINE f == IF kind = "temp" THEN "COLOR_LEVEL" ELSE "KELVIN"
    <3>2. f \in LightFields(kind)
      BY <3>1 DEF LightFields
    <3>3. LightAsks(kind, call, f)
      BY <1>8, <2>3, <3>1 DEF LightAsks
    <3>4. LightGood(kind, call, None, f, goal[f])
      BY <1>3, <3>2, <3>3
    <3>5. goal[f] = args.kelvin
      BY <1>8, <2>3, <3>1, <3>4 DEF LightGood
    <3>6. CASE kind = "temp"
      <4>1. "KELVIN" \notin DOMAIN goal
        BY <1>2, <3>6 DEF LightFields
      <4>2. ShownKelvin(kind, goal) = IF goal.COLOR_LEVEL = None THEN "warm" ELSE goal.COLOR_LEVEL
        BY <3>6, <4>1 DEF ShownKelvin
      <4> QED
        BY <2>3, <3>5, <3>6, <4>2
    <3>7. CASE kind # "temp"
      <4>1. ShownKelvin(kind, goal) = goal.KELVIN
        BY <1>2, <3>2, <3>7 DEF ShownKelvin
      <4> QED
        BY <3>5, <3>7, <4>1
    <3> QED
      BY <3>6, <3>7
  <2>4. ASSUME kind \in {"effect", "fixed"}, args.effect # None PROVE ShownEffect(kind, goal) = args.effect
    <3> DEFINE f == IF kind = "effect" THEN "PROGRAM" ELSE "BEHAVIOUR"
    <3>1. f \in LightFields(kind)
      BY <2>4 DEF LightFields
    <3>2. LightAsks(kind, call, f)
      BY <1>8, <2>4 DEF LightAsks
    <3>3. LightGood(kind, call, None, f, goal[f])
      BY <1>3, <3>1, <3>2
    <3>4. goal[f] = args.effect
      BY <1>8, <2>4, <3>3 DEF LightGood
    <3>5. kind = "fixed" => args.effect = "BLINKING"
      BY <1>1, <2>4, OptionsAre
    <3>6. CASE kind = "effect"
      BY <3>4, <3>6 DEF ShownEffect
    <3>7. CASE kind = "fixed"
      BY <3>4, <3>5, <3>7 DEF ShownEffect
    <3> QED
      BY <2>4, <3>6, <3>7
  <2>5. LightDone(kind, call, goal)
    BY <1>8, <2>1, <2>2, <2>3, <2>4 DEF LightDone
  <2> QED
    BY <2>5, DoneIs
<1> QED
  BY <1>1, <1>6, <1>7, <1>8, LightCallsAre

LEMMA CoverCallsAre ==
    ASSUME kind \in CoverKinds, NEW call \in Calls
    PROVE  /\ call.op \in {"stop", "set"} /\ (call.op = "stop" => call.level = None /\ call.tilt = None)
           /\ kind \notin Blinds => call.tilt = None
           /\ call.level \in 0..200 \cup {None} /\ call.tilt \in 0..200 \cup {None}
<1>1. call \in CoverCalls(kind)
  BY Parts
<1>2. CASE call = CoverCall("stop", None, None)
  BY <1>2 DEF CoverCall
<1>3. CASE call # CoverCall("stop", None, None)
  <2>1. PICK l \in Positions(kind) \cup {None}, t \in IF kind \in Blinds THEN Tilts \cup {None} ELSE {None} :
          call = CoverCall("set", l, t)
    BY <1>1, <1>3 DEF CoverCalls
  <2>2. l \in 0..200 \cup {None}
    BY PositionsAssumption DEF Positions
  <2>3. t \in 0..200 \cup {None} /\ (kind \notin Blinds => t = None)
    BY PositionsAssumption
  <2> QED
    BY <2>1, <2>2, <2>3 DEF CoverCall
<1> QED
  BY <1>2, <1>3

LEMMA CoverReaches ==
    ASSUME Typed, kind \in Positional, NEW call \in Calls
    PROVE  Reaches(Sending(call))
<1> DEFINE es == Entries(call)
           rs == Requests(es)
           p == Sending(call)
<1>1. kind \in CoverKinds /\ kind # "garage" /\ kind \in Measured /\ kind \notin LightKinds
  BY DEF Positional, Blinds, CoverKinds, Measured, LightKinds
<1>2. DOMAIN goal = Fields /\ Fields \subseteq Coordinates
  BY FieldsAre DEF Typed, DeviceTyped, ValuesTyped
<1>3. Timely(p)
  BY <1>1 DEF Timely
<1>4. p.call = call
  BY DEF Sending
<1>5. CASE call.op = "stop"
  <2>1. \A f \in Coordinates : \A v : Fits(call, f, v)
    BY <1>1, <1>5, CoverCallsAre DEF Fits, Given, Coordinates
  <2> QED
    BY <1>1, <1>2, <1>3, <1>4, <1>5, <2>1 DEF Reaches, Fitting
<1>6. CASE call.op = "set" /\ kind \in Blinds
  <2>1. /\ IsSequence(rs)
        /\ \A r \in Of(rs) : DOMAIN r \subseteq Coordinates /\ \A f \in DOMAIN r : r[f] = Target(call, f)
        /\ \A f \in Coordinates : \E r \in Of(rs) : f \in DOMAIN r
    BY <1>6, BlindSends
  <2>2. p.todo = <<>> \o rs \/ p.todo = <<[STOP |-> "STOP"]>> \o rs
    BY DEF Sending, When
  <2> HIDE DEF es, rs, p
  <2>3. Of(p.todo) = Of(rs) \cup {[STOP |-> "STOP"]} \/ Of(p.todo) = Of(rs)
    <3>1. /\ IsSequence(<<[STOP |-> "STOP"]>>) /\ Of(<<[STOP |-> "STOP"]>>) = {[STOP |-> "STOP"]}
          /\ IsSequence(<<>>) /\ Of(<<>>) = {}
      BY Short
    <3>2. /\ Of(<<[STOP |-> "STOP"]>> \o rs) = Of(<<[STOP |-> "STOP"]>>) \cup Of(rs)
          /\ Of(<<>> \o rs) = Of(<<>>) \cup Of(rs)
      BY <2>1, <3>1, Concat
    <3> QED
      BY <2>2, <3>1, <3>2
  <2>4. ASSUME NEW f \in Coordinates PROVE Fits(call, f, Target(call, f))
    <3> SUFFICES ASSUME Given(call)[f] # None PROVE Near(kind, Target(call, f), Given(call)[f])
      BY <1>1 DEF Fits
    <3>1. Target(call, f) = Coordinate(kind, Given(call)[f])
      BY DEF Target, BlindCoordinate
    <3> QED
      BY <1>6, <3>1 DEF Near, Blinds
  <2>5. \A f \in Coordinates : \A r \in Of(p.todo) : f \in DOMAIN r => Fits(call, f, r[f])
    <3>1. \A f \in Coordinates : f \notin DOMAIN [STOP |-> "STOP"]
      BY DEF Coordinates
    <3> QED
      BY <2>1, <2>3, <2>4, <3>1
  <2>6. \A f \in Coordinates : Asks(p, f)
    BY <2>1, <2>3 DEF Asks
  <2>7. kind \notin {"cover", "window"}
    BY <1>6 DEF Blinds
  <2>8. Fitting(p)
    BY <1>2, <1>4, <2>5, <2>6, <2>7 DEF Fitting, p
  <2> QED
    BY <1>1, <1>3, <2>8 DEF Reaches, p
<1>7. CASE call.op = "set" /\ kind \notin Blinds
  <2> DEFINE level == IF kind = "window" THEN WindowLevel(call.level) ELSE call.level
  <2>1. kind \in {"cover", "window"} /\ Fields = {"LEVEL"}
    BY <1>7, FieldsAre DEF Positional
  <2>2. es = When(call.level # None, <<Put("LEVEL", level)>>)
    BY <1>1, <1>7, Parts DEF CoverEntries
  <2>3. Fits(call, "LEVEL", level)
    BY <1>1, <2>1 DEF Fits, Given, Near, Coordinate
  <2> HIDE DEF level
  <2>4. Listed(es) /\ \A e \in Of(es) : e.field = "LEVEL" /\ e.value = level
    BY <2>2, ListedAre, PutIsEntry, Short DEF When
  <2>5. call.level # None => Put("LEVEL", level) \in Of(es)
    BY <2>2, Short DEF When
  <2> HIDE DEF es
  <2>6. /\ IsSequence(rs)
        /\ \A r \in Of(rs) : \A f \in DOMAIN r : \E e \in Of(es) : e.field = f /\ r[f] = e.value
        /\ \A e \in Of(es) : \E r \in Of(rs) : e.field \in DOMAIN r
    BY <2>4, SentFor
  <2>7. p.todo = rs
    BY <1>7, <2>6, SendingIs DEF es
  <2> HIDE DEF rs, p
  <2>8. \A r \in Of(rs) : \A f \in DOMAIN r : f = "LEVEL" /\ r[f] = level
    BY <2>4, <2>6
  <2>9. Fits(call, "LEVEL", goal["LEVEL"]) \/ Asks(p, "LEVEL")
    <3>1. CASE call.level = None
      BY <1>1, <3>1 DEF Fits, Given
    <3>2. CASE call.level # None
      BY <2>5, <2>6, <2>7, <3>2, PutIsEntry DEF Asks
    <3> QED
      BY <3>1, <3>2
  <2>10. Fitting(p)
    BY <1>2, <1>4, <2>1, <2>3, <2>7, <2>8, <2>9 DEF Fitting, p
  <2> QED
    BY <1>1, <1>3, <2>10 DEF Reaches, p
<1> QED
  BY <1>1, <1>5, <1>6, <1>7, CoverCallsAre

LEMMA CoverFitsDone ==
    ASSUME Typed, kind \in Positional, NEW call, \A f \in DOMAIN goal : Fits(call, f, goal[f])
    PROVE  DoneAt(call, goal)
<1>1. kind \in CoverKinds /\ kind # "garage" /\ kind \notin LightKinds
  BY DEF Positional, Blinds, CoverKinds, LightKinds
<1>2. CoverDone(kind, call, goal)
  BY <1>1 DEF CoverDone, Fits
<1> QED
  BY <1>1, <1>2, DoneIs

\* One entry makes one request.
LEMMA Single ==
    ASSUME NEW f, NEW v
    PROVE  Requests(<<Put(f, v)>>) = <<[g \in {f} |-> v]>>
<1> DEFINE es == <<Put(f, v)>>
<1>1. Listed(es) /\ Of(es) = {Put(f, v)} /\ Names(es) = {f} /\ \A e \in Of(es) : Key(e) = Own
  BY ListedAre, PutIsEntry, NamesAre, Short DEF Own
<1> HIDE DEF es
<1>2. PICK r : /\ Requests(es) = <<r>> /\ r = [g \in DOMAIN r |-> r[g]] /\ DOMAIN r = {f}
               /\ \A g \in DOMAIN r : \E e \in Of(es) : e.field = g /\ r[g] = e.value
  BY <1>1, OneRequest
<1>3. r[f] = v
  BY <1>1, <1>2, PutIsEntry
<1>4. r = [g \in {f} |-> v]
  BY <1>2, <1>3
<1> QED
  BY <1>2, <1>4 DEF es

LEMMA NoRequest == Requests(<<>>) = <<>>
BY OneRequest, ListedAre, Short

LEMMA GarageReaches ==
    ASSUME kind = "garage", NEW call \in Calls
    PROVE  Reaches(Sending(call))
<1> DEFINE p == Sending(call)
           target == GarageTarget(call.level)
<1>1. kind \in CoverKinds /\ kind \notin Measured /\ kind \notin Blinds
  BY DEF CoverKinds, Measured, Positional, LightKinds, Blinds
<1>2. \A v : DoneAt(call, v) <=> (call.level # None => v.DOOR = target)
  BY <1>1, DoneIs DEF CoverDone
<1>3. \A r : Applied(r) = CoverApplied(kind, at, goal, r)
  BY <1>1, Parts
<1>4. CASE call.op = "stop"
  <2>1. Entries(call) = <<Put("COMMAND", "STOP")>>
    BY <1>1, <1>4, Parts DEF CoverEntries
  <2>2. Requests(Entries(call)) = <<[g \in {"COMMAND"} |-> "STOP"]>>
    BY <2>1, Single
  <2>3. p.call = call /\ p.todo = <<[g \in {"COMMAND"} |-> "STOP"]>>
    BY <1>1, <2>2, SendingIs, Short
  <2>4. call.level = None
    BY <1>1, <1>4, CoverCallsAre
  <2> HIDE DEF p
  <2>5. Settles(call, [g \in {"COMMAND"} |-> "STOP"])
    BY <1>2, <2>4 DEF Settles
  <2> QED
    BY <1>1, <2>3, <2>5 DEF Reaches, Alone, p
<1>5. CASE call.op = "set" /\ call.level = None
  <2>1. Entries(call) = <<>>
    BY <1>1, <1>5, Parts DEF CoverEntries, When, Blinds
  <2>2. p.call = call /\ p.todo = <<>>
    BY <1>1, <2>1, NoRequest, SendingIs, Short
  <2> QED
    BY <1>1, <1>2, <1>5, <2>2 DEF Reaches, Alone
<1>6. CASE call.op = "set" /\ call.level # None
  <2> DEFINE r == [g \in {"COMMAND"} |-> target]
  <2>1. Entries(call) = <<Put("COMMAND", target)>>
    BY <1>1, <1>6, Parts DEF CoverEntries, When, Blinds
  <2>2. Requests(Entries(call)) = <<r>>
    BY <2>1, Single
  <2> HIDE DEF r
  <2>3. p.call = call /\ p.todo = <<r>>
    BY <1>1, <2>2, SendingIs, Short
  <2>4. target # "STOP"
    <3>1. call.level \in 0..200
      BY <1>1, <1>6, CoverCallsAre
    <3> QED
      BY <3>1 DEF GarageTarget
  <2> HIDE DEF p, target
  <2>5. r.COMMAND = target /\ "STOP" \notin DOMAIN r
    BY DEF r
  <2>6. Applied(r) = [DOOR |-> target]
    BY <1>3, <2>4, <2>5 DEF CoverApplied
  <2>7. Settles(call, r)
    BY <1>2, <2>4, <2>5, <2>6 DEF Settles, target
  <2> QED
    BY <1>1, <2>3, <2>7 DEF Reaches, Alone, p
<1> QED
  BY <1>1, <1>4, <1>5, <1>6, CoverCallsAre

LEMMA LockSettles ==
    ASSUME kind \in LockKinds, NEW call
    PROVE  /\ \A v : DoneAt(call, v) <=> LockDone(kind, call, v)
           /\ \A r : LockDone(kind, call, LockApplied(kind, goal, r)) => Settles(call, r)
           /\ kind \notin Measured /\ kind \notin Blinds /\ kind \notin LightKinds
<1>1. /\ kind \notin CoverKinds \cup LightKinds /\ kind # "garage" /\ kind \notin Measured /\ kind \notin Blinds
      /\ \A v : DoneAt(call, v) <=> LockDone(kind, call, v)
  BY Apart, DoneIs DEF CoverKinds, Blinds
<1>2. \A r : Applied(r) = LockApplied(kind, goal, r)
  BY Parts
<1> QED
  BY <1>1, <1>2 DEF Settles

\* One value is sent, or none.
LEMMA LockSends ==
    ASSUME kind \in LockKinds, NEW call, NEW f, NEW v, LockEntries(kind, call) = <<Put(f, v)>>,
           LockDone(kind, call, LockApplied(kind, goal, [g \in {f} |-> v]))
    PROVE  Reaches(Sending(call))
<1> DEFINE r == [g \in {f} |-> v]
           p == Sending(call)
<1>1. Requests(Entries(call)) = <<r>>
  <2>1. Entries(call) = <<Put(f, v)>>
    BY Parts
  <2>2. Requests(<<Put(f, v)>>) = <<r>>
    BY Single
  <2> QED
    BY <2>1, <2>2
<1>2. Settles(call, r)
  BY LockSettles
<1> HIDE DEF r
<1>3. p.call = call /\ p.todo = <<r>>
  BY <1>1, LockSettles, SendingIs, Short
<1> HIDE DEF p
<1>4. Alone(p)
  BY <1>2, <1>3 DEF Alone
<1> QED
  BY <1>4, LockSettles DEF Reaches, p

LEMMA SirenSends ==
    ASSUME kind = "siren", NEW call \in LockCalls(kind), DOMAIN goal = {"ACOUSTIC", "OPTICAL"}
    PROVE  Reaches(Sending(call))
<1> DEFINE a == Put("ACOUSTIC", Selected(call.tone))
           o == Put("OPTICAL", Selected(call.light))
           u == Put("UNIT", "default")
           d == Put("DURATION", "default")
           es == <<a, o, u, d>>
           p == Sending(call)
<1>1. kind \in LockKinds /\ Entries(call) = es
  BY Parts DEF LockKinds, LockEntries, SirenEntries
<1>2. Of(es) = {a, o, u, d} /\ IsSequence(es)
  BY Short
<1>3. /\ Key(a) = Own /\ Key(o) = Own /\ Key(u) = Own /\ Key(d) = Own
      /\ IsEntry(a) /\ IsEntry(o) /\ IsEntry(u) /\ IsEntry(d)
      /\ a.field = "ACOUSTIC" /\ o.field = "OPTICAL" /\ u.field = "UNIT" /\ d.field = "DURATION"
      /\ a.value = Selected(call.tone) /\ o.value = Selected(call.light)
  BY PutIsEntry DEF Own
<1> HIDE DEF a, o, u, d
<1>4. Listed(es) /\ \A e \in Of(es) : Key(e) = Own
  BY <1>2, <1>3 DEF Listed
<1> HIDE DEF es
<1>5. PICK r : /\ Requests(es) = <<r>> /\ DOMAIN r = Names(es)
               /\ \A f \in DOMAIN r : \E e \in Of(es) : e.field = f /\ r[f] = e.value
  BY <1>2, <1>4, OneRequest
<1>6. {"ACOUSTIC", "OPTICAL"} \subseteq DOMAIN r
  BY <1>2, <1>3, <1>5 DEF Names
<1>7. r["ACOUSTIC"] = Selected(call.tone) /\ r["OPTICAL"] = Selected(call.light)
  BY <1>2, <1>3, <1>5, <1>6
<1>8. LockDone(kind, call, LockApplied(kind, goal, r))
  <2> SUFFICES ASSUME call.op = "off"
               PROVE  LockApplied(kind, goal, r) = [ACOUSTIC |-> "DISABLE", OPTICAL |-> "DISABLE"]
    BY DEF LockDone
  <2>1. call.tone = None /\ call.light = None
    BY DEF LockCalls, LockCall
  <2>2. LockApplied(kind, goal, r) = [f \in DOMAIN goal |-> IF f \in DOMAIN r THEN r[f] ELSE goal[f]]
    BY DEF LockApplied
  <2> QED
    BY <1>6, <1>7, <2>1, <2>2 DEF Selected
<1>9. p.call = call /\ p.todo = <<r>>
  BY <1>1, <1>5, LockSettles, SendingIs, Short
<1>10. Settles(call, r)
  BY <1>1, <1>8, LockSettles
<1> HIDE DEF p
<1>11. Alone(p)
  BY <1>9, <1>10 DEF Alone
<1> QED
  BY <1>1, <1>11, LockSettles DEF Reaches, p

LEMMA LockReaches ==
    ASSUME Shaped, kind \in LockKinds, NEW call \in Calls
    PROVE  Reaches(Sending(call))
<1>1. call \in LockCalls(kind) /\ Entries(call) = LockEntries(kind, call)
  BY Parts
<1>2. CASE kind = "iplock"
  <2>1. call.op \in {"lock", "unlock", "open"}
    BY <1>1, <1>2 DEF LockCalls, LockCall
  <2> DEFINE v == CASE call.op = "lock"   -> "LOCKED"
                    [] call.op = "unlock" -> "UNLOCKED"
                    [] call.op = "open"   -> "OPEN"
             r == [g \in {"TARGET"} |-> v]
  <2>2. LockEntries(kind, call) = <<Put("TARGET", v)>>
    BY <1>2 DEF LockEntries, IpLockEntries
  <2>3. v = [lock |-> "LOCKED", unlock |-> "UNLOCKED", open |-> "OPEN"][call.op]
    BY <2>1
  <2> HIDE DEF v
  <2>4. LockApplied(kind, goal, r) = [LOCK_STATE |-> v]
    BY <1>2 DEF LockApplied
  <2>5. LockDone(kind, call, LockApplied(kind, goal, r))
    BY <1>2, <2>3, <2>4 DEF LockDone
  <2> QED
    BY <2>2, <2>5, LockSends
<1>3. CASE kind = "smoke"
  <2> DEFINE v == (call.op = "on")
             r == [g \in {"COMMAND"} |-> v]
  <2>1. LockEntries(kind, call) = <<Put("COMMAND", v)>>
    BY <1>3 DEF LockEntries, SmokeEntries
  <2>2. LockApplied(kind, goal, r) = [ALARM |-> v]
    BY <1>3, Zenon DEF LockApplied
  <2> HIDE DEF v, r
  <2>3. LockApplied(kind, goal, r).ALARM = v
    BY <2>2
  <2>4. LockDone(kind, call, LockApplied(kind, goal, r))
    BY <1>3, <2>3, Zenon DEF LockDone, v
  <2> QED
    BY <2>1, <2>4, LockSends DEF r
<1>4. CASE kind = "rflock"
  <2>0. DOMAIN goal = {"POWER"}
    BY <1>4 DEF Shaped, Merging, Parameters, LightKinds
  <2>1. CASE call.op = "open"
    <3> DEFINE r == [g \in {"OPEN"} |-> TRUE]
    <3>1. LockEntries(kind, call) = <<Put("OPEN", TRUE)>>
      BY <1>4, <2>1 DEF LockEntries, RfLockEntries
    <3>2. LockApplied(kind, goal, r) = [POWER |-> TRUE]
      BY <1>4 DEF LockApplied
    <3> HIDE DEF r
    <3>3. LockApplied(kind, goal, r).POWER
      BY <3>2
    <3>4. LockDone(kind, call, LockApplied(kind, goal, r))
      BY <1>4, <2>1, <3>3 DEF LockDone
    <3> QED
      BY <3>1, <3>4, LockSends DEF r
  <2>2. CASE call.op # "open"
    <3> DEFINE v == (call.op = "unlock")
               r == [g \in {"POWER"} |-> v]
    <3>1. LockEntries(kind, call) = <<Put("POWER", v)>>
      BY <1>4, <2>2 DEF LockEntries, RfLockEntries
    <3>2. LockApplied(kind, goal, r) = [f \in DOMAIN goal |-> IF f \in DOMAIN r THEN r[f] ELSE goal[f]]
      BY <1>4 DEF LockApplied
    <3>3. LockApplied(kind, goal, r)["POWER"] = v
      BY <2>0, <3>2
    <3>4. call.op \in {"lock", "unlock"}
      BY <1>1, <1>4, <2>2 DEF LockCalls, LockCall
    <3>5. v <=> call.op # "lock"
      BY <3>4
    <3> HIDE DEF v
    <3>6. LockDone(kind, call, LockApplied(kind, goal, r))
      BY <1>4, <3>3, <3>5 DEF LockDone
    <3> QED
      BY <3>1, <3>6, LockSends
  <2> QED
    BY <2>1, <2>2
<1>5. CASE kind = "buttonlock"
  <2>0. DOMAIN goal = {"BUTTON_LOCK"}
    BY <1>5 DEF Shaped, Merging, Parameters, LightKinds
  <2>1. CASE call.op = "open"
    <3> DEFINE p == Sending(call)
    <3>1. Requests(Entries(call)) = <<>>
      BY <1>1, <1>5, <2>1, NoRequest DEF LockEntries, ButtonLockEntries, When
    <3>2. p.call = call /\ p.todo = <<>>
      BY <3>1, LockSettles, SendingIs, Short
    <3>3. DoneAt(call, goal)
      BY <1>5, <2>1, LockSettles DEF LockDone
    <3> HIDE DEF p
    <3>4. Alone(p)
      BY <3>2, <3>3 DEF Alone
    <3> QED
      BY <3>4, LockSettles DEF Reaches, p
  <2>2. CASE call.op # "open"
    <3> DEFINE v == (call.op = "lock")
               r == [g \in {"BUTTON_LOCK"} |-> v]
    <3>1. LockEntries(kind, call) = <<Put("BUTTON_LOCK", v)>>
      BY <1>5, <2>2 DEF LockEntries, ButtonLockEntries, When
    <3>2. LockApplied(kind, goal, r) = [f \in DOMAIN goal |-> IF f \in DOMAIN r THEN r[f] ELSE goal[f]]
      BY <1>5 DEF LockApplied
    <3>3. LockApplied(kind, goal, r)["BUTTON_LOCK"] = v
      BY <2>0, <3>2
    <3>4. LockDone(kind, call, LockApplied(kind, goal, r))
      BY <1>5, <3>3, Zenon DEF LockDone
    <3> QED
      BY <3>1, <3>4, LockSends
  <2> QED
    BY <2>1, <2>2
<1>6. CASE kind = "siren"
  <2>1. DOMAIN goal = {"ACOUSTIC", "OPTICAL"}
    BY <1>6 DEF Shaped, Merging, Parameters, LightKinds
  <2> QED
    BY <1>1, <1>6, <2>1, SirenSends
<1> QED
  BY <1>2, <1>3, <1>4, <1>5, <1>6 DEF LockKinds

-----------------------------------------------------------------------------
(* What a thermostat is sent.                                               *)

Pairs(entries) == {<<e.field, e.value>> : e \in Of(entries)}
Owned(entries) == Listed(entries) /\ \A e \in Of(entries) : Key(e) = Own

LEMMA PairsAre ==
    /\ Owned(<<>>) /\ Pairs(<<>>) = {}
    /\ \A f, v : Owned(<<Put(f, v)>>) /\ Pairs(<<Put(f, v)>>) = {<<f, v>>}
    /\ \A s, t : Owned(s) /\ Owned(t) => Owned(s \o t) /\ Pairs(s \o t) = Pairs(s) \cup Pairs(t)
    /\ \A c, s : Owned(s) => Owned(When(c, s)) /\ Pairs(When(c, s)) = IF c THEN Pairs(s) ELSE {}
<1>1. Owned(<<>>) /\ Pairs(<<>>) = {}
  BY Short, ListedAre DEF Owned, Pairs
<1>2. ASSUME NEW f, NEW v PROVE Owned(<<Put(f, v)>>) /\ Pairs(<<Put(f, v)>>) = {<<f, v>>}
  BY Short, ListedAre, PutIsEntry DEF Owned, Pairs, Own
<1>3. ASSUME NEW s, NEW t, Owned(s), Owned(t)
      PROVE  Owned(s \o t) /\ Pairs(s \o t) = Pairs(s) \cup Pairs(t)
  BY <1>3, ListedAre DEF Owned, Pairs
<1>4. ASSUME NEW c, NEW s, Owned(s)
      PROVE  Owned(When(c, s)) /\ Pairs(When(c, s)) = IF c THEN Pairs(s) ELSE {}
  BY <1>1, <1>4 DEF When
<1> QED
  BY <1>1, <1>2, <1>3, <1>4

LEMMA PairsTrue ==
    /\ \A f : Owned(<<Put(f, TRUE)>>) /\ Pairs(<<Put(f, TRUE)>>) = {<<f, TRUE>>}
    /\ Owned(BoostOff) /\ Pairs(BoostOff) = {<<"BOOST", FALSE>>}
<1>1. ASSUME NEW f, NEW v PROVE Owned(<<Put(f, v)>>) /\ Pairs(<<Put(f, v)>>) = {<<f, v>>}
  BY PairsAre
<1>2. \A f : Owned(<<Put(f, TRUE)>>) /\ Pairs(<<Put(f, TRUE)>>) = {<<f, TRUE>>}
  BY <1>1, Zenon
<1>3. Owned(<<Put("BOOST", FALSE)>>) /\ Pairs(<<Put("BOOST", FALSE)>>) = {<<"BOOST", FALSE>>}
  BY <1>1, Zenon
<1> QED
  BY <1>2, <1>3, Zenon DEF BoostOff

LEMMA PairsSent ==
    ASSUME NEW entries, Owned(entries), Pairs(entries) # {}
    PROVE  \E r : /\ Requests(entries) = <<r>>
                  /\ DOMAIN r = {q[1] : q \in Pairs(entries)}
                  /\ \A f \in DOMAIN r : <<f, r[f]>> \in Pairs(entries)
<1>1. Of(entries) # {}
  BY DEF Pairs
<1>2. PICK r : /\ Requests(entries) = <<r>> /\ DOMAIN r = Names(entries)
               /\ \A f \in DOMAIN r : \E e \in Of(entries) : e.field = f /\ r[f] = e.value
  BY <1>1, OneRequest DEF Owned
<1>3. Names(entries) = {q[1] : q \in Pairs(entries)}
  <2>1. \A e \in Of(entries) : <<e.field, e.value>> \in Pairs(entries) /\ <<e.field, e.value>>[1] = e.field
    BY DEF Pairs
  <2>2. \A q \in Pairs(entries) : \E e \in Of(entries) : q[1] = e.field
    BY DEF Pairs
  <2> QED
    BY <2>1, <2>2 DEF Names
<1>4. \A f \in DOMAIN r : <<f, r[f]>> \in Pairs(entries)
  BY <1>2 DEF Pairs
<1> QED
  BY <1>2, <1>3, <1>4

\* What is sent to a thermostat reaches the aim of the call.
LEMMA ClimateSends ==
    ASSUME kind \in ClimateKinds, NEW call, NEW es, Entries(call) = es, Owned(es), Pairs(es) # {}
    PROVE  /\ \E r : /\ Sending(call).todo = <<r>> /\ Sending(call).call = call
                     /\ DOMAIN r = {q[1] : q \in Pairs(es)}
                     /\ \A f \in DOMAIN r : <<f, r[f]>> \in Pairs(es)
           /\ \A r : ClimateDone(kind, call, ClimateApplied(kind, goal, r)) => Settles(call, r)
           /\ Alone(Sending(call)) <=> Reaches(Sending(call))
<1>1. /\ kind \notin CoverKinds \cup LightKinds /\ kind # "garage" /\ kind \notin Measured /\ kind \notin Blinds
      /\ \A v : DoneAt(call, v) <=> ClimateDone(kind, call, v)
  BY Apart, DoneIs DEF CoverKinds, Blinds
<1>2. \A r : Applied(r) = ClimateApplied(kind, goal, r)
  BY Parts
<1>3. \A r : ClimateDone(kind, call, ClimateApplied(kind, goal, r)) => Settles(call, r)
  BY <1>1, <1>2 DEF Settles
<1>4. PICK r : /\ Requests(es) = <<r>>
               /\ DOMAIN r = {q[1] : q \in Pairs(es)}
               /\ \A f \in DOMAIN r : <<f, r[f]>> \in Pairs(es)
  BY PairsSent
<1>5. Sending(call).todo = <<r>> /\ Sending(call).call = call
  BY <1>1, <1>4, SendingIs, Short
<1> QED
  BY <1>1, <1>3, <1>4, <1>5 DEF Reaches

\* A request with these values.
Bears(r, pairs) == DOMAIN r = {q[1] : q \in pairs} /\ \A f \in DOMAIN r : <<f, r[f]>> \in pairs
Reached(call, r) == WarmRequest(r) /\ (shown = goal => ClimateDone(kind, call, ClimateApplied(kind, goal, r)))
Right(call, es) == Owned(es) /\ Pairs(es) # {} /\ \A r : Bears(r, Pairs(es)) => Reached(call, r)

LEMMA BearsAre ==
    ASSUME NEW r, NEW pairs, Bears(r, pairs)
    PROVE  /\ \A f, v : <<f, v>> \in pairs => f \in DOMAIN r
           /\ \A f \in DOMAIN r : <<f, r[f]>> \in pairs
<1>1. ASSUME NEW f, NEW v, <<f, v>> \in pairs PROVE f \in DOMAIN r
  <2>1. <<f, v>>[1] = f
    OBVIOUS
  <2> QED
    BY <1>1, <2>1 DEF Bears
<1> QED
  BY <1>1 DEF Bears

LEMMA RightReaches ==
    ASSUME kind \in ClimateKinds, NEW call, Right(call, Entries(call))
    PROVE  WarmTodo(Sending(call)) /\ (shown = goal => Reaches(Sending(call)))
<1> DEFINE p == Sending(call)
<1>1. PICK r : p.todo = <<r>> /\ p.call = call /\ Bears(r, Pairs(Entries(call)))
  BY ClimateSends DEF Right, Bears
<1>2. Reached(call, r)
  BY <1>1 DEF Right
<1>3. ClimateDone(kind, call, ClimateApplied(kind, goal, r)) => Settles(call, r)
  BY ClimateSends DEF Right
<1>4. Alone(p) <=> Reaches(p)
  BY ClimateSends DEF Right
<1> HIDE DEF p
<1>5. WarmTodo(p)
  BY <1>1, <1>2 DEF WarmTodo, Reached
<1>6. shown = goal => Alone(p)
  BY <1>1, <1>2, <1>3 DEF Alone, Reached
<1> QED
  BY <1>4, <1>5, <1>6 DEF p

LEMMA ClimateCallsAre ==
    ASSUME kind \in ClimateKinds, NEW call \in Calls
    PROVE  /\ call.op \in {"temperature", "mode", "away", "profile"}
           /\ call.op = "temperature" => call.arg \in {4, 17, 30, 31}
           /\ call.op # "temperature" => kind # "simple"
           /\ call.op = "mode" => call.arg \in {"auto", "heat", "off"}
           /\ call.op = "away" => call.arg \in BOOLEAN
           /\ call.op = "profile" => call.arg \in {"boost", "none"}
                                        \cup IF kind = "ip" THEN {"week1", "week2"} ELSE {"comfort", "eco"}
BY Parts DEF ClimateCalls, ClimateCall

LEMMA RightTemperature ==
    ASSUME kind \in ClimateKinds, NEW call \in Calls, call.op = "temperature", Changes(call), ~Refuses(call)
    PROVE  Right(call, Entries(call))
<1> DEFINE es == <<Put("SETPOINT", call.arg)>>
<1>1. Entries(call) = es
  BY Parts DEF ClimateEntries
<1>2. call.arg \in 4..30
  <2>1. ~ClimateRefuses(call)
    BY Apart DEF Refuses
  <2> QED
    BY <2>1 DEF ClimateRefuses, MinTemp, MaxTemp
<1>3. Owned(es) /\ Pairs(es) = {<<"SETPOINT", call.arg>>}
  BY PairsAre
<1> HIDE DEF es
<1>4. ASSUME NEW r, Bears(r, Pairs(es)) PROVE Reached(call, r)
  <2>1. DOMAIN r = {"SETPOINT"} /\ r["SETPOINT"] = call.arg
    BY <1>3, <1>4 DEF Bears
  <2>2. ClimateApplied(kind, goal, r).SETPOINT = call.arg
    BY <2>1 DEF ClimateApplied, ClimateKinds
  <2> QED
    BY <1>2, <2>1, <2>2 DEF Reached, WarmRequest, ClimateDone
<1> QED
  BY <1>1, <1>3, <1>4 DEF Right

LEMMA RightAway ==
    ASSUME kind \in {"rf", "ip"}, NEW call \in Calls, call.op = "away"
    PROVE  Right(call, Entries(call))
<1> DEFINE es == <<Put("PARTY", call.arg)>>
<1>0. kind \in ClimateKinds
  BY DEF ClimateKinds
<1>1. Entries(call) = es
  BY <1>0, Parts DEF ClimateEntries, AwayEntries
<1>2. call.arg \in BOOLEAN
  BY <1>0, ClimateCallsAre
<1>3. Owned(es) /\ Pairs(es) = {<<"PARTY", call.arg>>}
  BY PairsAre
<1> HIDE DEF es
<1>4. ASSUME NEW r, Bears(r, Pairs(es)) PROVE Reached(call, r)
  <2>1. DOMAIN r = {"PARTY"} /\ r["PARTY"] = call.arg
    BY <1>3, <1>4 DEF Bears
  <2> DEFINE v == ClimateApplied(kind, goal, r)
             control == IF call.arg THEN "AWAY" ELSE "AUTO"
  <2>2. kind = "rf" => v["CONTROL"] = control
    BY <2>1 DEF ClimateApplied
  <2>3. kind = "ip" => v.MODE = control
    BY <2>1 DEF ClimateApplied
  <2>4. control = "AWAY" <=> call.arg
    BY <1>2
  <2> HIDE DEF v, control
  <2>5. ((IF kind = "ip" THEN v.MODE ELSE v["CONTROL"]) = "AWAY") <=> call.arg
    BY <2>2, <2>3, <2>4
  <2>6. ClimateDone(kind, call, v)
    BY <2>5 DEF ClimateDone
  <2> QED
    BY <2>1, <2>6 DEF Reached, WarmRequest, v
<1> QED
  BY <1>1, <1>3, <1>4 DEF Right

LEMMA RightRfMode ==
    ASSUME kind = "rf", NEW call \in Calls, call.op = "mode", Warm(shown), uncertain = FALSE
    PROVE  Right(call, Entries(call))
<1> DEFINE es == RfModeEntries(call.arg, shown, uncertain)
           t == shown.SETPOINT
<1>0. kind \in ClimateKinds
  BY DEF ClimateKinds
<1>1. Entries(call) = es
  BY <1>0, Parts DEF ClimateEntries
<1>2. call.arg \in {"auto", "heat", "off"}
  BY <1>0, ClimateCallsAre
<1>3. t \in 4..30 /\ MinOrTarget(shown) \in 5..30
  BY DEF Warm, MinOrTarget, MinTemp
<1>4. \A v : (\A x : ClimateDone(kind, call, x) <=> Mode(kind, x) = call.arg)
             /\ (kind = "rf" => Mode(kind, v) = IF v.SETPOINT <= 4 THEN "off" ELSE IF v.CONTROL = "MANU" THEN "heat" ELSE "auto")
  BY DEF ClimateDone, Mode, OffTemperature
<1>5. CASE call.arg = "auto"
  <2>1. es = <<Put("AUTO", TRUE)>>
    BY <1>5 DEF RfModeEntries
  <2>2. Owned(es) /\ Pairs(es) = {<<"AUTO", TRUE>>}
    BY <2>1, PairsTrue
  <2> HIDE DEF es
  <2>3. ASSUME NEW r, Bears(r, Pairs(es)) PROVE Reached(call, r)
    <3>1. DOMAIN r = {"AUTO"}
      BY <2>2, <2>3 DEF Bears
    <3>2. ClimateApplied(kind, goal, r) = [SETPOINT |-> 17, CONTROL |-> "AUTO"]
      BY <3>1 DEF ClimateApplied, ProgramTemp
    <3> QED
      BY <1>4, <1>5, <3>1, <3>2 DEF Reached, WarmRequest
  <2> QED
    BY <1>1, <2>2, <2>3 DEF Right
<1>6. CASE call.arg = "heat"
  <2>1. es = <<Put("MANU", MinOrTarget(shown))>>
    BY <1>6 DEF RfModeEntries
  <2>2. Owned(es) /\ Pairs(es) = {<<"MANU", MinOrTarget(shown)>>}
    BY <2>1, PairsAre
  <2> HIDE DEF es
  <2>3. ASSUME NEW r, Bears(r, Pairs(es)) PROVE Reached(call, r)
    <3>1. DOMAIN r = {"MANU"} /\ r["MANU"] = MinOrTarget(shown)
      BY <2>2, <2>3 DEF Bears
    <3>2. ClimateApplied(kind, goal, r) = [SETPOINT |-> MinOrTarget(shown), CONTROL |-> "MANU"]
      BY <3>1 DEF ClimateApplied
    <3>3. Mode(kind, ClimateApplied(kind, goal, r)) = "heat"
      BY <1>3, <1>4, <3>2
    <3> QED
      BY <1>3, <1>4, <1>6, <3>1, <3>3 DEF Reached, WarmRequest
  <2> QED
    BY <1>1, <2>2, <2>3 DEF Right
<1>7. CASE call.arg = "off"
  <2>1. es = <<Put("MANU", t)>> \o When(t # 4, <<Put("SETPOINT", 4)>>)
    BY <1>7 DEF RfModeEntries, Temperature, OffTemperature
  <2> DEFINE rest == When(t # 4, <<Put("SETPOINT", 4)>>)
  <2>2. Owned(es) /\ Pairs(es) = {<<"MANU", t>>} \cup (IF t # 4 THEN {<<"SETPOINT", 4>>} ELSE {})
    <3>1. Owned(<<Put("MANU", t)>>) /\ Pairs(<<Put("MANU", t)>>) = {<<"MANU", t>>}
      BY PairsAre
    <3>2. Owned(rest) /\ Pairs(rest) = IF t # 4 THEN {<<"SETPOINT", 4>>} ELSE {}
      BY PairsAre
    <3> HIDE DEF rest, es
    <3> QED
      BY <2>1, <3>1, <3>2, PairsAre DEF rest
  <2> HIDE DEF es, rest
  <2>3. ASSUME NEW r, Bears(r, Pairs(es)) PROVE Reached(call, r)
    <3>1. /\ DOMAIN r = {"MANU"} \cup (IF t # 4 THEN {"SETPOINT"} ELSE {})
          /\ r["MANU"] = t /\ (t # 4 => r["SETPOINT"] = 4)
      <4>1. CASE t = 4
        BY <2>2, <2>3, <4>1 DEF Bears
      <4>2. CASE t # 4
        BY <2>2, <2>3, <4>2 DEF Bears
      <4> QED
        BY <4>1, <4>2
    <3>2. ClimateApplied(kind, goal, r).SETPOINT = 4
      BY <3>1 DEF ClimateApplied
    <3>3. Mode(kind, ClimateApplied(kind, goal, r)) = "off"
      BY <1>4, <3>2
    <3> QED
      BY <1>3, <1>4, <1>7, <3>1, <3>3 DEF Reached, WarmRequest
  <2> QED
    BY <1>1, <2>2, <2>3 DEF Right
<1> QED
  BY <1>2, <1>5, <1>6, <1>7

LEMMA RightRfProfile ==
    ASSUME kind = "rf", NEW call \in Calls, call.op = "profile", call.arg # "none"
    PROVE  Right(call, Entries(call))
<1> DEFINE f == [boost |-> "BOOST", comfort |-> "COMFORT", eco |-> "LOWERING"][call.arg]
           es == <<Put(f, TRUE)>>
<1>0. kind \in ClimateKinds
  BY DEF ClimateKinds
<1>1. Entries(call) = es
  BY <1>0, Parts DEF ClimateEntries, RfProfileEntries, When
<1>2. call.arg \in {"boost", "comfort", "eco"}
  BY <1>0, ClimateCallsAre
<1>3. Owned(es) /\ Pairs(es) = {<<f, TRUE>>}
  BY PairsTrue
<1> HIDE DEF es
<1>4. ASSUME NEW r, Bears(r, Pairs(es)) PROVE Reached(call, r)
  <2>1. DOMAIN r = {f}
    <3> HIDE DEF f
    <3> QED
      BY <1>3, <1>4 DEF Bears
  <2>2. WarmRequest(r)
    BY <1>2, <2>1 DEF WarmRequest
  <2>3. ClimateDone(kind, call, ClimateApplied(kind, goal, r))
    <3>1. CASE call.arg = "boost"
      <4>1. ClimateApplied(kind, goal, r).CONTROL = "BOOST"
        BY <2>1, <3>1 DEF ClimateApplied
      <4> QED
        BY <3>1, <4>1 DEF ClimateDone, Profile
    <3>2. CASE call.arg = "comfort"
      <4>1. ClimateApplied(kind, goal, r).SETPOINT = ComfortTemp
        BY <2>1, <3>2 DEF ClimateApplied
      <4> QED
        BY <3>2, <4>1 DEF ClimateDone
    <3>3. CASE call.arg = "eco"
      <4>1. ClimateApplied(kind, goal, r).SETPOINT = ProgramTemp
        BY <2>1, <3>3 DEF ClimateApplied
      <4> QED
        BY <3>3, <4>1 DEF ClimateDone
    <3> QED
      BY <1>2, <3>1, <3>2, <3>3
  <2> QED
    BY <2>2, <2>3 DEF Reached
<1> QED
  BY <1>1, <1>3, <1>4 DEF Right

\* What a thermostat of HmIP is told when its mode is set: the boost ends, if it is on.
LEMMA IpModePairs ==
    ASSUME NEW mode, Warm(shown), uncertain = FALSE
    PROVE  LET es == IpModeEntries(mode, shown, uncertain)
               t == IF mode = "heat" THEN MinOrTarget(shown) ELSE 4
           IN  /\ Owned(es)
               /\ Pairs(es) = (IF shown.BOOST THEN {<<"BOOST", FALSE>>} ELSE {})
                      \cup (IF mode = "auto" THEN {<<"CONTROL", "AUTO">>}
                            ELSE {<<"CONTROL", "MANU">>}
                                 \cup (IF t # shown.SETPOINT THEN {<<"SETPOINT", t>>} ELSE {}))
<1> DEFINE es == IpModeEntries(mode, shown, uncertain)
           t == IF mode = "heat" THEN MinOrTarget(shown) ELSE 4
           warm == When(t # shown.SETPOINT, <<Put("SETPOINT", t)>>)
           control(m) == <<Put("CONTROL", m)>>
           set == IF mode = "auto" THEN control("AUTO") ELSE control("MANU") \o warm
           quiet == When(shown.BOOST, BoostOff)
           warmPairs == IF t # shown.SETPOINT THEN {<<"SETPOINT", t>>} ELSE {}
           setPairs == IF mode = "auto" THEN {<<"CONTROL", "AUTO">>} ELSE {<<"CONTROL", "MANU">>} \cup warmPairs
           quietPairs == IF shown.BOOST THEN {<<"BOOST", FALSE>>} ELSE {}
<1>1. es = quiet \o set
  BY DEF IpModeEntries, Temperature, OffTemperature
<1>2. Owned(warm) /\ Pairs(warm) = warmPairs
  BY PairsAre
<1>3. \A m : Owned(control(m)) /\ Pairs(control(m)) = {<<"CONTROL", m>>}
  BY PairsAre
<1>4. Owned(quiet) /\ Pairs(quiet) = quietPairs
  BY PairsAre, PairsTrue
<1> HIDE DEF warm, control, quiet, es, warmPairs, quietPairs
<1>5. Owned(set) /\ Pairs(set) = setPairs
  <2>1. CASE mode = "auto"
    BY <1>3, <2>1
  <2>2. CASE mode # "auto"
    <3>1. Owned(control("MANU")) /\ Pairs(control("MANU")) = {<<"CONTROL", "MANU">>}
      BY <1>3
    <3>2. /\ Owned(control("MANU") \o warm)
          /\ Pairs(control("MANU") \o warm) = {<<"CONTROL", "MANU">>} \cup warmPairs
      BY <1>2, <3>1, PairsAre
    <3> QED
      BY <2>2, <3>2
  <2> QED
    BY <2>1, <2>2
<1> HIDE DEF set, setPairs
<1>6. Owned(es) /\ Pairs(es) = quietPairs \cup setPairs
  BY <1>1, <1>4, <1>5, PairsAre
<1> QED
  BY <1>6, Zenon DEF es, quietPairs, setPairs, warmPairs

LEMMA IpModeIs ==
    ASSUME kind = "ip"
    PROVE  \A v : Mode(kind, v) = IF v.SETPOINT <= 4 THEN "off" ELSE IF v.MODE = "MANU" THEN "heat" ELSE "auto"
BY DEF Mode, OffTemperature

LEMMA RightIpMode ==
    ASSUME kind = "ip", NEW call \in Calls, call.op = "mode", Warm(shown), uncertain = FALSE
    PROVE  Right(call, Entries(call))
<1> DEFINE es == IpModeEntries(call.arg, shown, uncertain)
           t == IF call.arg = "heat" THEN MinOrTarget(shown) ELSE 4
<1>0. kind \in ClimateKinds
  BY DEF ClimateKinds
<1>1. Entries(call) = es
  BY <1>0, Parts DEF ClimateEntries
<1>2. call.arg \in {"auto", "heat", "off"}
  BY <1>0, ClimateCallsAre
<1>3. /\ shown.SETPOINT \in 4..30 /\ t \in 4..30
      /\ call.arg = "heat" => t > 4
      /\ call.arg = "off" => t = 4
  BY DEF Warm, MinOrTarget, MinTemp
<1>4. /\ Owned(es)
      /\ Pairs(es) = (IF shown.BOOST THEN {<<"BOOST", FALSE>>} ELSE {})
               \cup (IF call.arg = "auto" THEN {<<"CONTROL", "AUTO">>}
                     ELSE {<<"CONTROL", "MANU">>} \cup (IF t # shown.SETPOINT THEN {<<"SETPOINT", t>>} ELSE {}))
  BY IpModePairs
<1>5. \A v : ClimateDone(kind, call, v) <=> Mode(kind, v) = call.arg
  BY DEF ClimateDone
<1> HIDE DEF es, t
<1>6. ASSUME NEW r, Bears(r, Pairs(es)) PROVE Reached(call, r)
  <2> DEFINE v == ClimateApplied(kind, goal, r)
  <2>1. /\ "CONTROL" \in DOMAIN r /\ DOMAIN r \subseteq {"BOOST", "CONTROL", "SETPOINT"}
        /\ r["CONTROL"] = IF call.arg = "auto" THEN "AUTO" ELSE "MANU"
        /\ "SETPOINT" \in DOMAIN r => r["SETPOINT"] = t /\ call.arg # "auto"
        /\ call.arg # "auto" /\ "SETPOINT" \notin DOMAIN r => t = shown.SETPOINT
    <3>1. CASE call.arg = "auto"
      <4>1. Pairs(es) \subseteq {<<"BOOST", FALSE>>, <<"CONTROL", "AUTO">>} /\ <<"CONTROL", "AUTO">> \in Pairs(es)
        BY <1>4, <3>1, Zenon
      <4>2. "CONTROL" \in DOMAIN r
        BY <1>6, <4>1, BearsAre
      <4>3. \A f \in DOMAIN r : <<f, r[f]>> \in {<<"BOOST", FALSE>>, <<"CONTROL", "AUTO">>}
        BY <1>6, <4>1, BearsAre
      <4>4. \A f \in DOMAIN r : f = "BOOST" \/ (f = "CONTROL" /\ r[f] = "AUTO")
        BY <4>3
      <4> QED
        BY <3>1, <4>2, <4>4
    <3>2. CASE call.arg # "auto"
      <4>1. /\ Pairs(es) \subseteq {<<"BOOST", FALSE>>, <<"CONTROL", "MANU">>, <<"SETPOINT", t>>}
            /\ <<"CONTROL", "MANU">> \in Pairs(es)
            /\ t # shown.SETPOINT => <<"SETPOINT", t>> \in Pairs(es)
        BY <1>4, <3>2, Zenon
      <4>2. "CONTROL" \in DOMAIN r /\ (t # shown.SETPOINT => "SETPOINT" \in DOMAIN r)
        BY <1>6, <4>1, BearsAre
      <4>3. \A f \in DOMAIN r : <<f, r[f]>> \in {<<"BOOST", FALSE>>, <<"CONTROL", "MANU">>, <<"SETPOINT", t>>}
        BY <1>6, <4>1, BearsAre
      <4>4. \A f \in DOMAIN r : f = "BOOST" \/ (f = "CONTROL" /\ r[f] = "MANU") \/ (f = "SETPOINT" /\ r[f] = t)
        BY <4>3
      <4> QED
        BY <3>2, <4>2, <4>4
    <3> QED
      BY <3>1, <3>2
  <2>2. v.MODE = r["CONTROL"]
    BY <2>1 DEF ClimateApplied
  <2>3. v.SETPOINT = IF "SETPOINT" \in DOMAIN r THEN t ELSE IF call.arg = "auto" THEN 17 ELSE goal.SETPOINT
    BY <2>1 DEF ClimateApplied, ProgramTemp
  <2>4. WarmRequest(r)
    BY <1>3, <2>1 DEF WarmRequest
  <2> HIDE DEF v
  <2>5. ASSUME shown = goal PROVE Mode(kind, v) = call.arg
    <3>1. v.SETPOINT = IF call.arg = "auto" THEN 17 ELSE t
      BY <2>1, <2>3, <2>5
    <3> QED
      BY <1>2, <1>3, <2>1, <2>2, <3>1, IpModeIs
  <2> QED
    BY <1>5, <2>4, <2>5 DEF Reached, v
<1>7. Pairs(es) # {}
  BY <1>4, Zenon
<1> QED
  BY <1>1, <1>4, <1>6, <1>7 DEF Right

LEMMA RightIpProfile ==
    ASSUME kind = "ip", NEW call \in Calls, call.op = "profile", Warm(shown), uncertain = FALSE
    PROVE  Right(call, Entries(call))
<1> DEFINE es == IpProfileEntries(call.arg, shown, uncertain)
<1>0. kind \in ClimateKinds
  BY DEF ClimateKinds
<1>1. Entries(call) = es
  BY <1>0, Parts DEF ClimateEntries
<1>2. call.arg \in {"boost", "none", "week1", "week2"}
  BY <1>0, ClimateCallsAre
<1>3. CASE call.arg = "boost"
  <2>1. es = <<Put("BOOST", TRUE)>>
    BY <1>3 DEF IpProfileEntries
  <2>2. Owned(es) /\ Pairs(es) = {<<"BOOST", TRUE>>}
    BY <2>1, PairsTrue
  <2> HIDE DEF es
  <2>3. ASSUME NEW r, Bears(r, Pairs(es)) PROVE Reached(call, r)
    <3>1. DOMAIN r = {"BOOST"}
      BY <2>2, <2>3 DEF Bears
    <3>2. r["BOOST"]
      <4>1. <<"BOOST", r["BOOST"]>> \in {<<"BOOST", TRUE>>}
        BY <2>2, <2>3, <3>1, BearsAre
      <4>2. r["BOOST"] = TRUE
        BY <4>1
      <4> QED
        BY <4>2
    <3>3. ClimateApplied(kind, goal, r).BOOST
      BY <3>1, <3>2 DEF ClimateApplied
    <3> QED
      BY <1>3, <3>1, <3>3 DEF Reached, WarmRequest, ClimateDone, Profile
  <2> QED
    BY <1>1, <2>2, <2>3 DEF Right
<1>4. CASE call.arg = "none"
  <2>1. es = BoostOff
    BY <1>4 DEF IpProfileEntries
  <2>2. Owned(es) /\ Pairs(es) = {<<"BOOST", FALSE>>}
    BY <2>1, PairsTrue
  <2> HIDE DEF es
  <2>3. ASSUME NEW r, Bears(r, Pairs(es)) PROVE Reached(call, r)
    <3>1. DOMAIN r = {"BOOST"}
      BY <2>2, <2>3 DEF Bears
    <3>2. ~r["BOOST"]
      <4>1. <<"BOOST", r["BOOST"]>> \in {<<"BOOST", FALSE>>}
        BY <2>2, <2>3, <3>1, BearsAre
      <4>2. r["BOOST"] = FALSE
        BY <4>1
      <4> QED
        BY <4>2
    <3>3. ~ClimateApplied(kind, goal, r).BOOST
      BY <3>1, <3>2 DEF ClimateApplied
    <3> QED
      BY <1>4, <3>1, <3>3 DEF Reached, WarmRequest, ClimateDone
  <2> QED
    BY <1>1, <2>2, <2>3 DEF Right
<1>5. CASE call.arg \in {"week1", "week2"}
  <2> DEFINE profile == <<Put("PROFILE", call.arg)>>
             auto == IpModeEntries("auto", shown, uncertain)
             manual == Mode("ip", shown) # "auto"
             first == When(manual, auto \o BoostOff)
  <2>1. es = first \o profile
    BY <1>5 DEF IpProfileEntries
  <2>2. Owned(profile) /\ Pairs(profile) = {<<"PROFILE", call.arg>>}
    BY PairsAre
  <2>3. /\ Owned(auto)
        /\ Pairs(auto) \subseteq {<<"BOOST", FALSE>>, <<"CONTROL", "AUTO">>} /\ <<"CONTROL", "AUTO">> \in Pairs(auto)
    <3>1. /\ Owned(auto)
          /\ Pairs(auto) = (IF shown.BOOST THEN {<<"BOOST", FALSE>>} ELSE {}) \cup {<<"CONTROL", "AUTO">>}
      <4> DEFINE t == IF "auto" = "heat" THEN MinOrTarget(shown) ELSE 4
      <4>1. /\ Owned(auto)
            /\ Pairs(auto) = (IF shown.BOOST THEN {<<"BOOST", FALSE>>} ELSE {})
               \cup (IF "auto" = "auto" THEN {<<"CONTROL", "AUTO">>}
                     ELSE {<<"CONTROL", "MANU">>} \cup (IF t # shown.SETPOINT THEN {<<"SETPOINT", t>>} ELSE {}))
        BY IpModePairs
      <4> QED
        BY <4>1, Zenon
    <3> QED
      BY <3>1, Zenon
  <2> HIDE DEF auto
  <2>4. /\ Owned(auto \o BoostOff)
        /\ Pairs(auto \o BoostOff) \subseteq {<<"BOOST", FALSE>>, <<"CONTROL", "AUTO">>}
        /\ <<"CONTROL", "AUTO">> \in Pairs(auto \o BoostOff)
    <3>1. Owned(auto \o BoostOff) /\ Pairs(auto \o BoostOff) = Pairs(auto) \cup {<<"BOOST", FALSE>>}
      <4>1. Owned(BoostOff) /\ Pairs(BoostOff) = {<<"BOOST", FALSE>>}
        BY PairsTrue
      <4>2. Owned(auto \o BoostOff) /\ Pairs(auto \o BoostOff) = Pairs(auto) \cup Pairs(BoostOff)
        <5>1. Owned(auto) /\ Owned(BoostOff)
          BY <2>3, <4>1
        <5> QED
          BY <5>1, PairsAre
      <4> QED
        BY <4>1, <4>2, Zenon
    <3> QED
      BY <2>3, <3>1, Zenon
  <2>5. Owned(first) /\ Pairs(first) = IF manual THEN Pairs(auto \o BoostOff) ELSE {}
    BY <2>4, PairsAre
  <2> HIDE DEF first, profile, es, manual
  <2>6. Owned(es) /\ Pairs(es) = Pairs(first) \cup {<<"PROFILE", call.arg>>}
    BY <2>1, <2>2, <2>5, PairsAre
  <2>7. ASSUME NEW r, Bears(r, Pairs(es)) PROVE Reached(call, r)
    <3> DEFINE v == ClimateApplied(kind, goal, r)
    <3>1. /\ "PROFILE" \in DOMAIN r /\ (manual => "CONTROL" \in DOMAIN r)
          /\ \A f \in DOMAIN r : <<f, r[f]>> \in Pairs(first) \cup {<<"PROFILE", call.arg>>}
      <4>1. <<"PROFILE", call.arg>> \in Pairs(es) /\ (manual => <<"CONTROL", "AUTO">> \in Pairs(es))
        BY <2>4, <2>5, <2>6, Zenon
      <4> QED
        BY <2>6, <2>7, <4>1, BearsAre
    <3>2. \A f \in DOMAIN r : /\ f = "BOOST" \/ (f = "CONTROL" /\ r[f] = "AUTO") \/ (f = "PROFILE" /\ r[f] = call.arg)
                              /\ f = "CONTROL" => manual
      <4> TAKE f \in DOMAIN r
      <4>1. \/ <<f, r[f]>> \in {<<"BOOST", FALSE>>, <<"CONTROL", "AUTO">>} /\ manual
            \/ <<f, r[f]>> = <<"PROFILE", call.arg>>
        BY <2>4, <2>5, <3>1, Zenon
      <4> QED
        BY <4>1
    <3>3. /\ v.PROFILE = call.arg
          /\ manual => v.MODE = "AUTO" /\ v.SETPOINT = 17
          /\ ~manual => v.MODE = goal.MODE /\ v.SETPOINT = goal.SETPOINT
      <4>1. v.PROFILE = call.arg
        BY <3>1, <3>2 DEF ClimateApplied
      <4>2. ASSUME manual PROVE v.MODE = "AUTO" /\ v.SETPOINT = 17
        BY <3>1, <3>2, <4>2 DEF ClimateApplied, ProgramTemp
      <4>3. ASSUME ~manual PROVE v.MODE = goal.MODE /\ v.SETPOINT = goal.SETPOINT
        BY <3>1, <3>2, <4>3 DEF ClimateApplied
      <4> QED
        BY <4>1, <4>2, <4>3
    <3> HIDE DEF v
    <3>4. ASSUME shown = goal PROVE Mode(kind, v) = "auto"
      <4>1. CASE manual
        BY <3>3, <4>1, IpModeIs
      <4>2. CASE ~manual
        <5>1. Mode(kind, goal) = "auto"
          BY <3>4, <4>2 DEF manual
        <5> QED
          BY <3>3, <4>2, <5>1, IpModeIs
      <4> QED
        BY <4>1, <4>2
    <3>5. WarmRequest(r)
      BY <3>2 DEF WarmRequest
    <3> QED
      BY <1>5, <3>3, <3>4, <3>5 DEF Reached, ClimateDone, v
  <2>8. Pairs(es) # {}
    BY <2>6, Zenon
  <2> QED
    BY <1>1, <2>6, <2>7, <2>8 DEF Right, es
<1> QED
  BY <1>2, <1>3, <1>4, <1>5

\* A call of a thermostat reaches its aim, if what is shown is what the thermostat has.
LEMMA ClimateReaches ==
    ASSUME kind \in ClimateKinds, NEW call \in Calls, Warm(shown), uncertain = FALSE, Changes(call), ~Refuses(call)
    PROVE  WarmTodo(Sending(call)) /\ (shown = goal => Reaches(Sending(call)))
<1> DEFINE p == Sending(call)
<1>1. CASE kind = "rf" /\ call.op = "profile" /\ call.arg = "none"
  <2>1. Requests(Entries(call)) = <<>>
    BY <1>1, Parts, NoRequest DEF ClimateEntries, RfProfileEntries, When
  <2>2. /\ kind \notin CoverKinds \cup LightKinds /\ kind \notin Measured /\ kind \notin Blinds
        /\ \A v : DoneAt(call, v) <=> ClimateDone(kind, call, v)
    BY Apart, DoneIs DEF CoverKinds, Blinds
  <2>3. p.todo = <<>> /\ p.call = call
    BY <2>1, <2>2, SendingIs, Short
  <2>4. DoneAt(call, goal)
    BY <1>1, <2>2 DEF ClimateDone
  <2> HIDE DEF p
  <2>5. WarmTodo(p) /\ Reaches(p)
    BY <2>2, <2>3, <2>4 DEF WarmTodo, Reaches, Alone
  <2> QED
    BY <2>5 DEF p
<1>2. CASE ~(kind = "rf" /\ call.op = "profile" /\ call.arg = "none")
  <2>1. Right(call, Entries(call))
    BY <1>2, ClimateCallsAre, RightTemperature, RightAway, RightRfMode, RightRfProfile, RightIpMode, RightIpProfile
       DEF ClimateKinds
  <2> QED
    BY <2>1, RightReaches
<1> QED
  BY <1>1, <1>2

-----------------------------------------------------------------------------
(* What the simple form of a weekday means.                                 *)

LEMMA Flattened ==
    /\ FlattenSeq(<<>>) = <<>>
    /\ \A s : FlattenSeq(<<s>>) = s
    /\ \A s, t : FlattenSeq(<<s, t>>) = s \o t
<1>1. FlattenSeq(<<>>) = <<>>
  BY DEF FlattenSeq
<1>2. ASSUME NEW s PROVE FlattenSeq(<<s>>) = s
  <2> DEFINE seqs == <<s>>
             f == [i \in 1..Len(seqs) |-> seqs[i]]
             Is(g) == g = [i \in 1..Len(seqs) |-> IF i = 1 THEN seqs[i] ELSE g[i - 1] \o seqs[i]]
             flatten == CHOOSE g : Is(g)
  <2>1. Len(seqs) = 1 /\ seqs[1] = s
    OBVIOUS
  <2> HIDE DEF seqs
  <2>2. Is(f)
    BY <2>1
  <2>3. Is(flatten)
    BY <2>2
  <2>4. flatten[1] = s
    <3> HIDE DEF flatten
    <3> QED
      BY <2>1, <2>3
  <2>5. FlattenSeq(seqs) = flatten[Len(seqs)]
    BY <2>1 DEF FlattenSeq
  <2> QED
    BY <2>1, <2>4, <2>5 DEF seqs
<1>3. ASSUME NEW s, NEW t PROVE FlattenSeq(<<s, t>>) = s \o t
  <2> DEFINE seqs == <<s, t>>
             f == [i \in 1..Len(seqs) |-> IF i = 1 THEN seqs[i] ELSE s \o t]
             Is(g) == g = [i \in 1..Len(seqs) |-> IF i = 1 THEN seqs[i] ELSE g[i - 1] \o seqs[i]]
             flatten == CHOOSE g : Is(g)
  <2>1. Len(seqs) = 2 /\ seqs[1] = s /\ seqs[2] = t
    OBVIOUS
  <2> HIDE DEF seqs
  <2>2. f = [i \in 1..2 |-> IF i = 1 THEN s ELSE s \o t]
    BY <2>1
  <2>3. Is(f)
    <3>1. f[1] = s
      BY <2>2
    <3>2. \A i \in 1..2 : i # 1 => i - 1 = 1
      OBVIOUS
    <3> HIDE DEF f
    <3> QED
      BY <2>1, <2>2, <3>1, <3>2
  <2>4. Is(flatten)
    BY <2>3
  <2>5. flatten[2] = s \o t
    <3> HIDE DEF flatten
    <3>1. flatten = [i \in 1..2 |-> IF i = 1 THEN seqs[i] ELSE flatten[i - 1] \o seqs[i]]
      BY <2>1, <2>4
    <3>2. flatten[1] = s
      BY <2>1, <3>1
    <3>3. flatten[2] = flatten[2 - 1] \o seqs[2]
      <4>1. 2 \in 1..2 /\ 2 # 1
        OBVIOUS
      <4> QED
        BY <3>1, <4>1, Zenon
    <3>4. 2 - 1 = 1
      OBVIOUS
    <3> QED
      BY <2>1, <3>2, <3>3, <3>4
  <2>6. FlattenSeq(seqs) = flatten[Len(seqs)]
    BY <2>1 DEF FlattenSeq
  <2> QED
    BY <2>1, <2>5, <2>6 DEF seqs
<1> QED
  BY <1>1, <1>2, <1>3

\* The lists of periods are sorted by their start.
LEMMA SortedAre ==
    /\ Sorted(<<>>) = <<>>
    /\ \A p : p.start \in Int => Sorted(<<p>>) = <<p>>
    /\ \A p, q : p.start \in Int /\ q.start \in Int =>
            /\ p.start < q.start => Sorted(<<p, q>>) = <<p, q>>
            /\ q.start < p.start => Sorted(<<p, q>>) = <<q, p>>
<1> DEFINE Starts(list) == {list[i].start : i \in DOMAIN list}
           NthStart(list, n) == CHOOSE s \in Starts(list) : Cardinality({r \in Starts(list) : r < s}) = n - 1
           Latest(list, start) == Max({i \in DOMAIN list : list[i].start = start})
<1>1. \A list : Sorted(list) = [n \in 1 .. Cardinality(Starts(list)) |-> list[Latest(list, NthStart(list, n))]]
  BY DEF Sorted
<1>2. \A i \in Int : Max({i}) = i
  BY DEF Max
<1>3. Sorted(<<>>) = <<>>
  <2>1. Starts(<<>>) = {}
    OBVIOUS
  <2>2. Cardinality(Starts(<<>>)) = 0
    BY <2>1, FS_EmptySet
  <2> HIDE DEF Starts, NthStart, Latest
  <2> QED
    BY <1>1, <2>2
<1>4. ASSUME NEW p, p.start \in Int PROVE Sorted(<<p>>) = <<p>>
  <2> DEFINE list == <<p>>
  <2>1. list[1] = p /\ DOMAIN list = {1}
    OBVIOUS
  <2> HIDE DEF list
  <2>2. Starts(list) = {p.start} /\ Cardinality(Starts(list)) = 1
    <3>1. Starts(list) = {p.start}
      BY <2>1
    <3> QED
      BY <3>1, FS_Singleton
  <2>3. {r \in Starts(list) : r < p.start} = {} /\ Cardinality({}) = 0
    BY <1>4, <2>2, FS_EmptySet
  <2>4. NthStart(list, 1) = p.start
    <3>1. NthStart(list, 1) \in {p.start}
      <4>1. p.start \in Starts(list) /\ Cardinality({r \in Starts(list) : r < p.start}) = 1 - 1
        BY <2>2, <2>3
      <4>2. NthStart(list, 1) \in Starts(list)
        BY <4>1
      <4> QED
        BY <2>2, <4>2
    <3> QED
      BY <3>1
  <2>5. Latest(list, p.start) = 1
    <3>1. {i \in DOMAIN list : list[i].start = p.start} = {1}
      BY <2>1
    <3> QED
      BY <1>2, <3>1
  <2> HIDE DEF NthStart, Latest, Starts
  <2>6. Sorted(list) = [n \in 1..1 |-> list[Latest(list, NthStart(list, n))]]
    BY <1>1, <2>2
  <2>7. Sorted(list) = [n \in 1..1 |-> p]
    BY <2>1, <2>4, <2>5, <2>6
  <2> QED
    BY <2>7 DEF list
<1>5. ASSUME NEW list, NEW a \in Int, NEW b \in Int, a < b, Starts(list) = {a, b}
      PROVE  Cardinality(Starts(list)) = 2 /\ NthStart(list, 1) = a /\ NthStart(list, 2) = b
  <2> DEFINE Below(s) == {r \in {a, b} : r < s}
  <2>1. Below(a) = {} /\ Below(b) = {a}
    BY <1>5
  <2>2. Cardinality({}) = 0 /\ Cardinality({a}) = 1
    BY FS_EmptySet, FS_Singleton
  <2>3. Cardinality({a, b}) = 2
    <3>1. b \notin {a}
      BY <1>5
    <3>2. {a} \cup {b} = {a, b}
      OBVIOUS
    <3>3. IsFiniteSet({a})
      BY FS_Singleton
    <3>4. Cardinality({a} \cup {b}) = Cardinality({a}) + 1
      BY <3>1, <3>3, FS_AddElement
    <3> QED
      BY <2>2, <3>2, <3>4
  <2>4. Cardinality(Below(a)) = 0 /\ Cardinality(Below(b)) = 1
    BY <2>1, <2>2
  <2> HIDE DEF Below
  <2>5. \A n : NthStart(list, n) = CHOOSE s \in {a, b} : Cardinality(Below(s)) = n - 1
    BY <1>5 DEF Below
  <2> HIDE DEF NthStart
  <2>6. NthStart(list, 1) = CHOOSE s \in {a, b} : Cardinality(Below(s)) = 0
    BY <2>5
  <2>7. NthStart(list, 2) = CHOOSE s \in {a, b} : Cardinality(Below(s)) = 1
    BY <2>5
  <2>8. (CHOOSE s \in {a, b} : Cardinality(Below(s)) = 0) = a
    BY <2>4
  <2>9. (CHOOSE s \in {a, b} : Cardinality(Below(s)) = 1) = b
    BY <2>4
  <2> QED
    BY <1>5, <2>3, <2>6, <2>7, <2>8, <2>9
<1>6. ASSUME NEW p, NEW q, p.start \in Int, q.start \in Int, p.start # q.start
      PROVE  Sorted(<<p, q>>) = IF p.start < q.start THEN <<p, q>> ELSE <<q, p>>
  <2> DEFINE list == <<p, q>>
  <2>1. list[1] = p /\ list[2] = q /\ DOMAIN list = {1, 2}
    OBVIOUS
  <2> HIDE DEF list
  <2>2. Starts(list) = {p.start, q.start}
    BY <2>1
  <2>3. Latest(list, p.start) = 1 /\ Latest(list, q.start) = 2
    <3>1. {i \in DOMAIN list : list[i].start = p.start} = {1} /\ {i \in DOMAIN list : list[i].start = q.start} = {2}
      BY <1>6, <2>1
    <3> QED
      BY <1>2, <3>1
  <2> HIDE DEF Latest, NthStart, Starts
  <2>4. CASE p.start < q.start
    <3>1. Cardinality(Starts(list)) = 2 /\ NthStart(list, 1) = p.start /\ NthStart(list, 2) = q.start
      BY <1>5, <1>6, <2>2, <2>4
    <3>2. Sorted(list) = [n \in 1..2 |-> list[Latest(list, NthStart(list, n))]]
      BY <1>1, <3>1
    <3>3. Sorted(list) = [n \in 1..2 |-> IF n = 1 THEN p ELSE q]
      BY <2>1, <2>3, <3>1, <3>2
    <3>4. Sorted(list) = <<p, q>>
      BY <3>3
    <3> QED
      BY <2>4, <3>4 DEF list
  <2>5. CASE q.start < p.start
    <3>0. Starts(list) = {q.start, p.start}
      BY <2>2, Zenon
    <3>1. Cardinality(Starts(list)) = 2 /\ NthStart(list, 1) = q.start /\ NthStart(list, 2) = p.start
      BY <1>5, <1>6, <3>0, <2>5
    <3>2. Sorted(list) = [n \in 1..2 |-> list[Latest(list, NthStart(list, n))]]
      BY <1>1, <3>1
    <3>3. Sorted(list) = [n \in 1..2 |-> IF n = 1 THEN q ELSE p]
      BY <2>1, <2>3, <3>1, <3>2
    <3>4. Sorted(list) = <<q, p>>
      BY <3>3
    <3> QED
      BY <1>6, <2>5, <3>4 DEF list
  <2> QED
    BY <1>6, <2>4, <2>5
<1>7. ASSUME NEW p, NEW q, p.start \in Int, q.start \in Int
      PROVE  /\ p.start < q.start => Sorted(<<p, q>>) = <<p, q>>
             /\ q.start < p.start => Sorted(<<p, q>>) = <<q, p>>
  <2>1. ASSUME p.start < q.start PROVE Sorted(<<p, q>>) = <<p, q>>
    <3>1. p.start # q.start
      BY <1>7, <2>1
    <3>2. Sorted(<<p, q>>) = IF p.start < q.start THEN <<p, q>> ELSE <<q, p>>
      BY <1>6, <1>7, <3>1
    <3> QED
      BY <2>1, <3>2, Zenon
  <2>2. ASSUME q.start < p.start PROVE Sorted(<<p, q>>) = <<q, p>>
    <3>1. p.start # q.start /\ ~(p.start < q.start)
      BY <1>7, <2>2
    <3>2. Sorted(<<p, q>>) = IF p.start < q.start THEN <<p, q>> ELSE <<q, p>>
      BY <1>6, <1>7, <3>1
    <3> QED
      BY <3>1, <3>2, Zenon
  <2> QED
    BY <2>1, <2>2
<1> QED
  BY <1>3, <1>4, <1>7

LEMMA Joined ==
    /\ \A a, b : <<a>> \o <<b>> = <<a, b>>
    /\ \A a, b, c : <<a, b>> \o <<c>> = <<a, b, c>> /\ <<a>> \o <<b, c>> = <<a, b, c>>
    /\ \A a, b, c, d : Len(<<a, b>> \o <<c, d>>) = 4
    /\ \A a, b, c : <<>> \o <<a>> = <<a>> /\ <<>> \o <<a, b, c>> = <<a, b, c>> /\ <<a, b, c>> \o <<>> = <<a, b, c>>
<1>0. ASSUME NEW S, NEW s \in Seq(S), NEW t \in Seq(S)
      PROVE  /\ s \o t \in Seq(S) /\ Len(s \o t) = Len(s) + Len(t)
             /\ \A i \in 1 .. Len(s) + Len(t) : (s \o t)[i] = IF i <= Len(s) THEN s[i] ELSE t[i - Len(s)]
  BY ConcatProperties
<1>1. ASSUME NEW a, NEW b PROVE <<a>> \o <<b>> = <<a, b>>
  <2> DEFINE S == {a, b}
             s == <<a>>
             t == <<b>>
             x == s \o t
  <2>1. s \in Seq(S) /\ t \in Seq(S) /\ Len(s) = 1 /\ Len(t) = 1 /\ s[1] = a /\ t[1] = b
    OBVIOUS
  <2> HIDE DEF S, s, t
  <2>2. x \in Seq(S) /\ Len(x) = 2 /\ \A i \in 1..2 : x[i] = IF i <= 1 THEN s[i] ELSE t[i - 1]
    <3>1. s \in Seq(S) /\ t \in Seq(S) /\ Len(s) = 1 /\ Len(t) = 1
      BY <2>1
    <3>2. /\ x \in Seq(S) /\ Len(x) = Len(s) + Len(t)
          /\ \A i \in 1 .. Len(s) + Len(t) : x[i] = IF i <= Len(s) THEN s[i] ELSE t[i - Len(s)]
      BY <1>0, <3>1
    <3> HIDE DEF x
    <3> QED
      BY <3>1, <3>2
  <2> HIDE DEF x
  <2>3. x[1] = a /\ x[2] = b
    BY <2>1, <2>2
  <2>4. x = <<x[1], x[2]>>
    BY <2>2
  <2> QED
    BY <2>3, <2>4 DEF x, s, t
<1>2. ASSUME NEW a, NEW b, NEW c PROVE <<a, b>> \o <<c>> = <<a, b, c>>
  <2> DEFINE S == {a, b, c}
             s == <<a, b>>
             t == <<c>>
             x == s \o t
  <2>1. s \in Seq(S) /\ t \in Seq(S) /\ Len(s) = 2 /\ Len(t) = 1 /\ s[1] = a /\ s[2] = b /\ t[1] = c
    OBVIOUS
  <2> HIDE DEF S, s, t
  <2>2. x \in Seq(S) /\ Len(x) = 3 /\ \A i \in 1..3 : x[i] = IF i <= 2 THEN s[i] ELSE t[i - 2]
    <3>1. s \in Seq(S) /\ t \in Seq(S) /\ Len(s) = 2 /\ Len(t) = 1
      BY <2>1
    <3>2. /\ x \in Seq(S) /\ Len(x) = Len(s) + Len(t)
          /\ \A i \in 1 .. Len(s) + Len(t) : x[i] = IF i <= Len(s) THEN s[i] ELSE t[i - Len(s)]
      BY <1>0, <3>1
    <3> HIDE DEF x
    <3> QED
      BY <3>1, <3>2
  <2> HIDE DEF x
  <2>3. x[1] = a /\ x[2] = b /\ x[3] = c
    BY <2>1, <2>2
  <2>4. x = <<x[1], x[2], x[3]>>
    BY <2>2
  <2> QED
    BY <2>3, <2>4 DEF x, s, t
<1>3. ASSUME NEW a, NEW b, NEW c PROVE <<a>> \o <<b, c>> = <<a, b, c>>
  <2> DEFINE S == {a, b, c}
             s == <<a>>
             t == <<b, c>>
             x == s \o t
  <2>1. s \in Seq(S) /\ t \in Seq(S) /\ Len(s) = 1 /\ Len(t) = 2 /\ s[1] = a /\ t[1] = b /\ t[2] = c
    OBVIOUS
  <2> HIDE DEF S, s, t
  <2>2. x \in Seq(S) /\ Len(x) = 3 /\ \A i \in 1..3 : x[i] = IF i <= 1 THEN s[i] ELSE t[i - 1]
    <3>1. s \in Seq(S) /\ t \in Seq(S) /\ Len(s) = 1 /\ Len(t) = 2
      BY <2>1
    <3>2. /\ x \in Seq(S) /\ Len(x) = Len(s) + Len(t)
          /\ \A i \in 1 .. Len(s) + Len(t) : x[i] = IF i <= Len(s) THEN s[i] ELSE t[i - Len(s)]
      BY <1>0, <3>1
    <3> HIDE DEF x
    <3> QED
      BY <3>1, <3>2
  <2> HIDE DEF x
  <2>3. x[1] = a /\ x[2] = b /\ x[3] = c
    BY <2>1, <2>2
  <2>4. x = <<x[1], x[2], x[3]>>
    BY <2>2
  <2> QED
    BY <2>3, <2>4 DEF x, s, t
<1>4. \A a, b, c, d : Len(<<a, b>> \o <<c, d>>) = 4
  OBVIOUS
<1>5. \A a, b, c : <<>> \o <<a>> = <<a>> /\ <<>> \o <<a, b, c>> = <<a, b, c>> /\ <<a, b, c>> \o <<>> = <<a, b, c>>
  <2> TAKE a, b, c
  <2>1. <<a>> \in Seq({a, b, c}) /\ <<a, b, c>> \in Seq({a, b, c})
    OBVIOUS
  <2> QED
    BY <2>1, ConcatEmptySeq
<1> QED
  BY <1>1, <1>2, <1>3, <1>4, <1>5

\* The weekday is filled up with slots of the base temperature.
LEMMA Filled ==
    ASSUME NEW base
    PROVE  LET rest == Slot(DayEnd, base) IN
           /\ FilledUp(base, <<>>) = <<rest, rest, rest>>
           /\ \A a : FilledUp(base, <<a>>) = <<a, rest, rest>>
           /\ \A a, b : FilledUp(base, <<a, b>>) = <<a, b, rest>>
           /\ \A a, b, c : FilledUp(base, <<a, b, c>>) = <<a, b, c>>
           /\ \A s : Len(s) = 4 => FilledUp(base, s) = s \o <<>>
<1> DEFINE rest == Slot(DayEnd, base)
           Fill(n) == [i \in 1..n |-> rest]
<1>1. \A s : FilledUp(base, s) = s \o Fill(3 - Len(s))
  BY DEF FilledUp, Slots
<1>2. Fill(0) = <<>> /\ Fill(1) = <<rest>> /\ Fill(2) = <<rest, rest>> /\ Fill(3) = <<rest, rest, rest>>
  OBVIOUS
<1>3. Fill(-1) = <<>>
  OBVIOUS
<1> HIDE DEF rest, Fill
<1>4. FilledUp(base, <<>>) = <<rest, rest, rest>>
  <2>1. Len(<<>>) = 0 /\ 3 - 0 = 3
    OBVIOUS
  <2>2. FilledUp(base, <<>>) = <<>> \o Fill(3 - Len(<<>>))
    BY <1>1
  <2>3. FilledUp(base, <<>>) = <<>> \o <<rest, rest, rest>>
    BY <1>2, <2>1, <2>2
  <2>4. <<>> \o <<rest, rest, rest>> = <<rest, rest, rest>>
    <3>1. <<rest, rest, rest>> \in Seq({rest})
      OBVIOUS
    <3> QED
      BY <3>1, ConcatEmptySeq
  <2> QED
    BY <2>3, <2>4
<1>5. \A a : FilledUp(base, <<a>>) = <<a, rest, rest>>
  <2> TAKE a
  <2>1. Len(<<a>>) = 1 /\ 3 - 1 = 2
    OBVIOUS
  <2>2. FilledUp(base, <<a>>) = <<a>> \o <<rest, rest>>
    BY <1>1, <1>2, <2>1
  <2> QED
    BY <2>2, Joined
<1>6. \A a, b : FilledUp(base, <<a, b>>) = <<a, b, rest>>
  <2> TAKE a, b
  <2>1. Len(<<a, b>>) = 2 /\ 3 - 2 = 1
    OBVIOUS
  <2>2. FilledUp(base, <<a, b>>) = <<a, b>> \o <<rest>>
    BY <1>1, <1>2, <2>1
  <2> QED
    BY <2>2, Joined
<1>7. \A a, b, c : FilledUp(base, <<a, b, c>>) = <<a, b, c>>
  <2> TAKE a, b, c
  <2>1. Len(<<a, b, c>>) = 3 /\ 3 - 3 = 0
    OBVIOUS
  <2>2. FilledUp(base, <<a, b, c>>) = <<a, b, c>> \o <<>>
    BY <1>1, <1>2, <2>1
  <2> QED
    BY <2>2, Joined
<1>8. ASSUME NEW s, Len(s) = 4 PROVE FilledUp(base, s) = s \o <<>>
  <2>1. 3 - Len(s) = -1
    BY <1>8
  <2> QED
    BY <1>1, <1>3, <2>1
<1> QED
  BY <1>4, <1>5, <1>6, <1>7, <1>8 DEF rest

Piece(base, p, before) == When(p.start > before, <<Slot(p.start, base)>>) \o <<Slot(p.end, p.temp)>>

LEMMA SlotsAre ==
    ASSUME NEW base
    PROVE  /\ SlotsOf(base, <<>>) = <<>>
           /\ \A p : SlotsOf(base, <<p>>) = Piece(base, p, 0)
           /\ \A p, q : SlotsOf(base, <<p, q>>) = Piece(base, p, 0) \o Piece(base, q, p.end)
<1>1. \A ps : SlotsOf(base, ps) = FlattenSeq([n \in DOMAIN ps |-> Piece(base, ps[n], EndBefore(ps, n))])
  BY DEF SlotsOf, Piece
<1>2. SlotsOf(base, <<>>) = <<>>
  <2>1. [n \in DOMAIN <<>> |-> Piece(base, <<>>[n], EndBefore(<<>>, n))] = <<>>
    OBVIOUS
  <2> QED
    BY <1>1, <2>1, Flattened
<1>3. ASSUME NEW p PROVE SlotsOf(base, <<p>>) = Piece(base, p, 0)
  <2> DEFINE ps == <<p>>
  <2>1. DOMAIN ps = 1..1 /\ ps[1] = p
    OBVIOUS
  <2> HIDE DEF ps
  <2>2. EndBefore(ps, 1) = 0
    BY DEF EndBefore
  <2>3. [n \in DOMAIN ps |-> Piece(base, ps[n], EndBefore(ps, n))] = <<Piece(base, p, 0)>>
    BY <2>1, <2>2
  <2>4. SlotsOf(base, ps) = FlattenSeq(<<Piece(base, p, 0)>>)
    BY <1>1, <2>3
  <2> QED
    BY <2>4, Flattened DEF ps
<1>4. ASSUME NEW p, NEW q PROVE SlotsOf(base, <<p, q>>) = Piece(base, p, 0) \o Piece(base, q, p.end)
  <2> DEFINE ps == <<p, q>>
  <2>1. DOMAIN ps = 1..2 /\ ps[1] = p /\ ps[2] = q
    OBVIOUS
  <2> HIDE DEF ps
  <2>2. EndBefore(ps, 1) = 0 /\ EndBefore(ps, 2) = p.end
    BY <2>1 DEF EndBefore
  <2>3. [n \in DOMAIN ps |-> Piece(base, ps[n], EndBefore(ps, n))] = <<Piece(base, p, 0), Piece(base, q, p.end)>>
    BY <2>1, <2>2
  <2>4. SlotsOf(base, ps) = FlattenSeq(<<Piece(base, p, 0), Piece(base, q, p.end)>>)
    BY <1>1, <2>3
  <2> QED
    BY <2>4, Flattened DEF ps
<1> QED
  BY <1>2, <1>3, <1>4

\* Which temperature a weekday of three slots has at a time.
LEMMA HeatedIs ==
    ASSUME NEW a, NEW b, NEW c, a.end \in Int, b.end \in Int, c.end \in Int, NEW time \in Int, c.end > time
    PROVE  Heated(<<a, b, c>>, time) = IF a.end > time THEN a.temp ELSE IF b.end > time THEN b.temp ELSE c.temp
<1> DEFINE slots == <<a, b, c>>
           later == {n \in DOMAIN slots : slots[n].end > time}
           first == IF a.end > time THEN 1 ELSE IF b.end > time THEN 2 ELSE 3
<1>1. DOMAIN slots = 1..3 /\ slots[1] = a /\ slots[2] = b /\ slots[3] = c
  OBVIOUS
<1> HIDE DEF slots
<1>2. later \subseteq Int /\ first \in later /\ \A n \in later : first <= n
  BY <1>1
<1>3. Min(later) = first
  BY <1>2 DEF Min
<1>4. Heated(slots, time) = slots[Min(later)].temp
  BY DEF Heated
<1> HIDE DEF later
<1> QED
  BY <1>1, <1>3, <1>4 DEF slots

Spans(p) == p.start \in Int /\ p.end \in Int /\ 0 <= p.start /\ p.start < p.end
Covers(p, time) == p.start <= time /\ time < p.end

LEMMA PieceIs ==
    ASSUME NEW base, NEW p, NEW before
    PROVE  Piece(base, p, before) = IF p.start > before THEN <<Slot(p.start, base), Slot(p.end, p.temp)>>
                                    ELSE <<Slot(p.end, p.temp)>>
<1> DEFINE gap == Slot(p.start, base)
           slot == Slot(p.end, p.temp)
<1>1. Piece(base, p, before) = IF p.start > before THEN <<gap>> \o <<slot>> ELSE <<>> \o <<slot>>
  BY DEF Piece, When
<1> HIDE DEF gap, slot
<1>2. <<gap>> \o <<slot>> = <<gap, slot>> /\ <<>> \o <<slot>> = <<slot>>
  BY Joined
<1> QED
  BY <1>1, <1>2 DEF gap, slot

LEMMA OneHeats ==
    ASSUME NEW base, NEW p, Spans(p), NEW time \in 0..3
    PROVE  Heated(FilledUp(base, SlotsOf(base, <<p>>)), time) = IF Covers(p, time) THEN p.temp ELSE base
<1> DEFINE gap == Slot(p.start, base)
           slot == Slot(p.end, p.temp)
           rest == Slot(DayEnd, base)
           day == FilledUp(base, SlotsOf(base, <<p>>))
<1>1. /\ gap.end = p.start /\ gap.temp = base /\ slot.end = p.end /\ slot.temp = p.temp
      /\ rest.end = 4 /\ rest.temp = base
  BY DEF Slot, DayEnd
<1>2. SlotsOf(base, <<p>>) = IF p.start > 0 THEN <<gap, slot>> ELSE <<slot>>
  BY SlotsAre, PieceIs
<1> HIDE DEF gap, slot
<1>3. CASE p.start > 0
  <2>1. day = <<gap, slot, rest>>
    BY <1>2, <1>3, Filled
  <2> HIDE DEF day, rest
  <2>2. Heated(<<gap, slot, rest>>, time) =
            IF gap.end > time THEN gap.temp ELSE IF slot.end > time THEN slot.temp ELSE rest.temp
    BY <1>1, HeatedIs DEF Spans
  <2> QED
    BY <1>1, <2>1, <2>2 DEF Spans, Covers, day
<1>4. CASE ~(p.start > 0)
  <2>1. day = <<slot, rest, rest>>
    BY <1>2, <1>4, Filled
  <2> HIDE DEF day, rest
  <2>2. Heated(<<slot, rest, rest>>, time) =
            IF slot.end > time THEN slot.temp ELSE IF rest.end > time THEN rest.temp ELSE rest.temp
    BY <1>1, HeatedIs DEF Spans
  <2> QED
    BY <1>1, <1>4, <2>1, <2>2 DEF Spans, Covers, day
<1> QED
  BY <1>3, <1>4

LEMMA TwoHeat ==
    ASSUME NEW base, NEW p, NEW q, Spans(p), Spans(q), p.end <= q.start, NEW time \in 0..3,
           Len(FilledUp(base, SlotsOf(base, <<p, q>>))) = 3,
           ReachesTheEnd(FilledUp(base, SlotsOf(base, <<p, q>>)))
    PROVE  Heated(FilledUp(base, SlotsOf(base, <<p, q>>)), time)
             = IF Covers(p, time) THEN p.temp ELSE IF Covers(q, time) THEN q.temp ELSE base
<1> DEFINE gap(x) == Slot(x.start, base)
           slot(x) == Slot(x.end, x.temp)
           a == gap(p)
           b == slot(p)
           c == gap(q)
           d == slot(q)
           rest == Slot(DayEnd, base)
           slots == SlotsOf(base, <<p, q>>)
           day == FilledUp(base, slots)
           first == IF p.start > 0 THEN <<a, b>> ELSE <<b>>
           second == IF q.start > p.end THEN <<c, d>> ELSE <<d>>
<1>1. /\ a.end = p.start /\ a.temp = base /\ b.end = p.end /\ b.temp = p.temp
      /\ c.end = q.start /\ c.temp = base /\ d.end = q.end /\ d.temp = q.temp
      /\ rest.end = 4 /\ rest.temp = base
  BY DEF Slot, DayEnd
<1>2. slots = first \o second
  <2>1. slots = Piece(base, p, 0) \o Piece(base, q, p.end)
    BY SlotsAre
  <2>2. Piece(base, p, 0) = first /\ Piece(base, q, p.end) = second
    BY PieceIs
  <2> QED
    BY <2>1, <2>2
<1>3. Spans(p) /\ Spans(q) /\ p.end <= q.start /\ time \in 0..3
  OBVIOUS
<1>4. /\ \A x, y, z : /\ x.end \in Int /\ y.end \in Int /\ z.end \in Int /\ day = <<x, y, z>>
                      => /\ z.end > time
                         /\ Heated(day, time) = IF x.end > time THEN x.temp ELSE IF y.end > time THEN y.temp ELSE z.temp
  <2> SUFFICES ASSUME NEW x, NEW y, NEW z, x.end \in Int, y.end \in Int, z.end \in Int, day = <<x, y, z>>
               PROVE  /\ z.end > time
                      /\ Heated(day, time) = IF x.end > time THEN x.temp ELSE IF y.end > time THEN y.temp ELSE z.temp
    OBVIOUS
  <2>1. ReachesTheEnd(day)
    OBVIOUS
  <2> HIDE DEF day
  <2>2. day[Len(day)] = z
    OBVIOUS
  <2>3. z.end >= 4
    BY <2>1, <2>2 DEF ReachesTheEnd, DayEnd
  <2>4. z.end > time
    BY <2>3
  <2>5. Heated(<<x, y, z>>, time) = IF x.end > time THEN x.temp ELSE IF y.end > time THEN y.temp ELSE z.temp
    BY <2>4, HeatedIs
  <2> QED
    BY <2>4, <2>5
<1>9. \A x, y, z : FilledUp(base, <<x, y, z>>) = <<x, y, z>>
  BY Filled, Zenon
<1>5. CASE p.start > 0 /\ q.start > p.end
  <2>1. slots = <<a, b>> \o <<c, d>>
    BY <1>2, <1>5
  <2> HIDE DEF a, b, c, d, slots
  <2>2. Len(slots) = 4
    BY <2>1, Joined
  <2>3. day = slots \o <<>>
    BY <2>2, Filled
  <2>4. Len(slots \o <<>>) = Len(slots)
    <3>1. slots \in Seq({a, b, c, d})
      BY <2>1
    <3> QED
      BY <3>1, ConcatEmptySeq
  <2>5. Len(day) = 3
    BY DEF slots
  <2> QED
    BY <2>2, <2>3, <2>4, <2>5
<1>6. CASE p.start > 0 /\ ~(q.start > p.end)
  <2>1. slots = <<a, b>> \o <<d>>
    BY <1>2, <1>6
  <2> HIDE DEF a, b, c, d, slots, rest
  <2>2. day = <<a, b, d>>
    <3>1. slots = <<a, b, d>>
      BY <2>1, Joined
    <3>2. FilledUp(base, <<a, b, d>>) = <<a, b, d>>
      BY <1>9
    <3> QED
      BY <3>1, <3>2
  <2> HIDE DEF day
  <2>3. Heated(day, time) = IF a.end > time THEN a.temp ELSE IF b.end > time THEN b.temp ELSE d.temp
    BY <1>1, <1>3, <1>4, <2>2 DEF Spans
  <2>4. d.end > time
    BY <1>1, <1>3, <1>4, <2>2 DEF Spans
  <2> QED
    BY <1>1, <1>3, <1>6, <2>3, <2>4 DEF Spans, Covers, day, slots
<1>7. CASE ~(p.start > 0) /\ q.start > p.end
  <2>1. slots = <<b>> \o <<c, d>>
    BY <1>2, <1>7
  <2> HIDE DEF a, b, c, d, slots, rest
  <2>2. day = <<b, c, d>>
    <3>1. slots = <<b, c, d>>
      BY <2>1, Joined
    <3>2. FilledUp(base, <<b, c, d>>) = <<b, c, d>>
      BY <1>9
    <3> QED
      BY <3>1, <3>2
  <2> HIDE DEF day
  <2>3. Heated(day, time) = IF b.end > time THEN b.temp ELSE IF c.end > time THEN c.temp ELSE d.temp
    BY <1>1, <1>3, <1>4, <2>2 DEF Spans
  <2>4. d.end > time
    BY <1>1, <1>3, <1>4, <2>2 DEF Spans
  <2> QED
    BY <1>1, <1>3, <1>7, <2>3, <2>4 DEF Spans, Covers, day, slots
<1>8. CASE ~(p.start > 0) /\ ~(q.start > p.end)
  <2>1. slots = <<b>> \o <<d>>
    BY <1>2, <1>8
  <2>2. day = <<b, d, rest>>
    <3>1. slots = <<b, d>>
      BY <2>1, Joined
    <3> HIDE DEF a, b, c, d, slots
    <3> QED
      BY <3>1, Filled
  <2> HIDE DEF a, b, c, d, slots, rest, day
  <2>3. Heated(day, time) = IF b.end > time THEN b.temp ELSE IF d.end > time THEN d.temp ELSE rest.temp
    BY <1>1, <1>3, <1>4, <2>2 DEF Spans
  <2> QED
    BY <1>1, <1>3, <1>8, <2>3 DEF Spans, Covers, day, slots
<1> QED
  BY <1>5, <1>6, <1>7, <1>8

LEMMA PeriodsAre == \A p \in Periods : p.start \in Int /\ p.end \in Int
BY DEF Periods, Period

LEMMA AskedIs ==
    ASSUME NEW call, NEW time \in Int
    PROVE  /\ call.data = <<>> => Asked(call, time) = call.base
           /\ \A p : call.data = <<p>> => Asked(call, time) = IF Covers(p, time) THEN p.temp ELSE call.base
           /\ \A p, q : call.data = <<p, q>> /\ ~(Covers(p, time) /\ Covers(q, time)) =>
                  Asked(call, time) = IF Covers(p, time) THEN p.temp ELSE IF Covers(q, time) THEN q.temp ELSE call.base
<1> DEFINE covering == {i \in DOMAIN call.data : Covers(call.data[i], time)}
           chosen == CHOOSE i \in covering : TRUE
<1>1. Asked(call, time) = IF covering = {} THEN call.base ELSE call.data[chosen].temp
  BY DEF Asked, Covers
<1>2. covering # {} => chosen \in covering
  OBVIOUS
<1>3. ASSUME call.data = <<>> PROVE Asked(call, time) = call.base
  <2>1. covering = {}
    BY <1>3
  <2> QED
    BY <1>1, <2>1
<1> HIDE DEF chosen
<1>4. ASSUME NEW p, call.data = <<p>> PROVE Asked(call, time) = IF Covers(p, time) THEN p.temp ELSE call.base
  <2>1. covering = IF Covers(p, time) THEN {1} ELSE {}
    BY <1>4
  <2>2. Covers(p, time) => chosen = 1
    BY <1>2, <2>1
  <2> HIDE DEF covering
  <2>3. call.data[1] = p
    BY <1>4
  <2> QED
    BY <1>1, <2>1, <2>2, <2>3
<1>5. ASSUME NEW p, NEW q, call.data = <<p, q>>, ~(Covers(p, time) /\ Covers(q, time))
      PROVE  Asked(call, time) = IF Covers(p, time) THEN p.temp ELSE IF Covers(q, time) THEN q.temp ELSE call.base
  <2>1. covering = IF Covers(p, time) THEN {1} ELSE IF Covers(q, time) THEN {2} ELSE {}
    BY <1>5
  <2>2. (Covers(p, time) => chosen = 1) /\ (Covers(q, time) => chosen = 2)
    BY <1>2, <1>5, <2>1
  <2> HIDE DEF covering
  <2>3. call.data[1] = p /\ call.data[2] = q
    BY <1>5
  <2> QED
    BY <1>1, <1>5, <2>1, <2>2, <2>3
<1> QED
  BY <1>3, <1>4, <1>5

\* The simple form is converted to a weekday that means the same.
LEMMA SimpleMeans ==
    ASSUME NEW call \in ScheduleCalls, call.op = "simple", NEW supported0, ~ScheduleRefuses(call, supported0),
           NEW stored, ReachesTheEnd(Weekday(call, stored)), ~SameStart(call.data), NEW time \in 0..3
    PROVE  Heated(Weekday(call, stored), time) = Asked(call, time)
<1> DEFINE base == call.base
           list == call.data
           day == FilledUp(base, SlotsOf(base, Sorted(list)))
<1>1. \A s : Weekday(call, s) = day
  BY DEF Weekday
<1>2. ValidSimple(base, Sorted(list)) /\ Len(day) = 3
  <2>1. ValidSimple(base, Sorted(list)) /\ ValidWeekday(day)
    BY <1>1 DEF ScheduleRefuses
  <2> QED
    BY <2>1 DEF ValidWeekday, Slots
<1>3. list \in Lists
  BY DEF ScheduleCalls, ScheduleCall, Lists
<1>4. ReachesTheEnd(day)
  BY <1>1
<1>5. ASSUME NEW p, Sorted(list) = <<p>>, p \in Periods PROVE Spans(p)
  <2> DEFINE ps == <<p>>
  <2>1. 1 \in DOMAIN ps /\ ps[1] = p
    OBVIOUS
  <2> HIDE DEF ps
  <2>2. ps[1].start < ps[1].end /\ ps[1].start >= EndBefore(ps, 1)
    <3>1. ValidSimple(base, ps)
      BY <1>2, <1>5 DEF ps
    <3> QED
      BY <2>1, <3>1 DEF ValidSimple
  <2> QED
    BY <1>5, <2>1, <2>2, PeriodsAre DEF Spans, EndBefore
<1>6. ASSUME NEW p, NEW q, Sorted(list) = <<p, q>>, p \in Periods, q \in Periods
      PROVE  Spans(p) /\ Spans(q) /\ p.end <= q.start
  <2> DEFINE ps == <<p, q>>
  <2>1. 1 \in DOMAIN ps /\ ps[1] = p /\ 2 \in DOMAIN ps /\ ps[2] = q
    OBVIOUS
  <2> HIDE DEF ps
  <2>2. ValidSimple(base, ps)
    BY <1>2, <1>6 DEF ps
  <2>3. ps[1].start < ps[1].end /\ ps[1].start >= EndBefore(ps, 1)
    BY <2>1, <2>2 DEF ValidSimple
  <2>4. ps[2].start < ps[2].end /\ ps[2].start >= EndBefore(ps, 2)
    BY <2>1, <2>2 DEF ValidSimple
  <2>5. EndBefore(ps, 1) = 0 /\ EndBefore(ps, 2) = p.end
    BY <2>1 DEF EndBefore
  <2> QED
    BY <1>6, <2>1, <2>3, <2>4, <2>5, PeriodsAre DEF Spans
<1>7. CASE list = <<>>
  <2> DEFINE rest == Slot(DayEnd, base)
  <2>1. rest.end = 4 /\ rest.temp = base
    BY DEF Slot, DayEnd
  <2>2. day = <<rest, rest, rest>>
    BY <1>7, SortedAre, SlotsAre, Filled
  <2> HIDE DEF rest
  <2>3. Heated(<<rest, rest, rest>>, time) =
            IF rest.end > time THEN rest.temp ELSE IF rest.end > time THEN rest.temp ELSE rest.temp
    BY <2>1, HeatedIs
  <2> QED
    BY <1>1, <1>7, <2>1, <2>2, <2>3, AskedIs
<1>8. ASSUME NEW p \in Periods, list = <<p>> PROVE Heated(day, time) = Asked(call, time)
  <2>1. Sorted(list) = <<p>>
    BY <1>8, SortedAre, PeriodsAre
  <2>2. Spans(p)
    BY <1>5, <2>1
  <2>3. Heated(FilledUp(base, SlotsOf(base, <<p>>)), time) = IF Covers(p, time) THEN p.temp ELSE base
    BY <2>2, OneHeats
  <2>4. Asked(call, time) = IF Covers(p, time) THEN p.temp ELSE base
    BY <1>8, AskedIs
  <2> QED
    BY <2>1, <2>3, <2>4, Zenon
<1>9. ASSUME NEW p \in Periods, NEW q \in Periods, list = <<p, q>> PROVE Heated(day, time) = Asked(call, time)
  <2>0. p.start \in Int /\ q.start \in Int
    BY PeriodsAre
  <2>1. p.start # q.start
    <3>1. 1 \in DOMAIN list /\ 2 \in DOMAIN list /\ list[1] = p /\ list[2] = q
      BY <1>9
    <3> QED
      BY <3>1 DEF SameStart
  <2>2. ASSUME NEW x \in {p, q}, NEW y \in {p, q}, Sorted(list) = <<x, y>>
        PROVE  /\ Heated(day, time) = IF Covers(x, time) THEN x.temp ELSE IF Covers(y, time) THEN y.temp ELSE base
               /\ ~(Covers(x, time) /\ Covers(y, time))
    <3>1. Spans(x) /\ Spans(y) /\ x.end <= y.start
      BY <1>6, <2>2
    <3>2. day = FilledUp(base, SlotsOf(base, <<x, y>>))
      BY <2>2
    <3>3. Heated(FilledUp(base, SlotsOf(base, <<x, y>>)), time)
             = IF Covers(x, time) THEN x.temp ELSE IF Covers(y, time) THEN y.temp ELSE base
      <4> HIDE DEF day
      <4> QED
        BY <1>2, <1>4, <3>1, <3>2, TwoHeat
    <3>4. ~(Covers(x, time) /\ Covers(y, time))
      BY <3>1 DEF Spans, Covers
    <3> QED
      BY <3>2, <3>3, <3>4, Zenon
  <2>3. CASE p.start < q.start
    <3>1. Sorted(list) = <<p, q>>
      BY <1>9, <2>0, <2>3, SortedAre
    <3>2. /\ Heated(day, time) = IF Covers(p, time) THEN p.temp ELSE IF Covers(q, time) THEN q.temp ELSE base
          /\ ~(Covers(p, time) /\ Covers(q, time))
      BY <2>2, <3>1, Zenon
    <3>3. Asked(call, time) = IF Covers(p, time) THEN p.temp ELSE IF Covers(q, time) THEN q.temp ELSE base
      BY <1>9, <3>2, AskedIs
    <3> HIDE DEF day, base
    <3> QED
      BY <3>2, <3>3
  <2>4. CASE q.start < p.start
    <3>1. Sorted(list) = <<q, p>>
      BY <1>9, <2>0, <2>4, SortedAre
    <3>2. /\ Heated(day, time) = IF Covers(q, time) THEN q.temp ELSE IF Covers(p, time) THEN p.temp ELSE base
          /\ ~(Covers(q, time) /\ Covers(p, time))
      BY <2>2, <3>1, Zenon
    <3>3. Asked(call, time) = IF Covers(p, time) THEN p.temp ELSE IF Covers(q, time) THEN q.temp ELSE base
      BY <1>9, <3>2, AskedIs
    <3> HIDE DEF day, base
    <3> QED
      BY <3>2, <3>3
  <2> QED
    BY <2>0, <2>1, <2>3, <2>4
<1> HIDE DEF day
<1>10. Heated(day, time) = Asked(call, time)
  <2>1. \/ list = <<>>
        \/ \E p \in Periods : list = <<p>>
        \/ \E p \in Periods, q \in Periods : list = <<p, q>>
    <3> HIDE DEF list
    <3> QED
      BY <1>3 DEF Lists
  <2> QED
    BY <1>1, <1>7, <1>8, <1>9, <2>1
<1> QED
  BY <1>1, <1>10

LEMMA ScheduleParts ==
    ASSUME kind = "schedule"
    PROVE  /\ Calls = ScheduleCalls
           /\ \A c : Refuses(c) = ScheduleRefuses(c, supported) /\ Entries(c) = ScheduleEntries(c, at)
                     /\ Applied(c) = ScheduleApplied(goal, c)
                     /\ \A v : DoneAt(c, v) <=> ScheduleDone(c, v)
           /\ kind \notin Measured /\ kind \notin Blinds /\ kind \notin LightKinds /\ kind # "garage"
<1>1. kind \notin CoverKinds \cup LightKinds \cup LockKinds \cup ClimateKinds /\ kind \notin Measured /\ kind \notin Blinds
  BY Apart DEF CoverKinds, Blinds
<1>2. \A c : \A v : DoneAt(c, v) <=> ScheduleDone(c, v)
  BY DoneIs
<1> QED
  BY <1>1, <1>2 DEF Calls, Refuses, Entries, Applied

LEMMA ScheduleReaches ==
    ASSUME Shaped, kind = "schedule", NEW call \in Calls, ~Refuses(call)
    PROVE  Reaches(Sending(call))
<1> DEFINE field == IF call.op = "copy" THEN "P2" ELSE "P1"
           day == Weekday(call, at)
           r == [g \in {field} |-> day]
           v == Applied(r)
           p == Sending(call)
<1>1. /\ call \in ScheduleCalls /\ ~ScheduleRefuses(call, supported) /\ Entries(call) = <<Put(field, day)>>
      /\ v = [f \in DOMAIN goal |-> IF f \in DOMAIN r THEN r[f] ELSE goal[f]]
  <2>1. call \in ScheduleCalls /\ ~ScheduleRefuses(call, supported)
    BY ScheduleParts
  <2>2. Entries(call) = <<Put(field, day)>>
    <3>1. Entries(call) = ScheduleEntries(call, at)
      BY ScheduleParts
    <3> QED
      BY <3>1 DEF ScheduleEntries
  <2>3. v = [f \in DOMAIN goal |-> IF f \in DOMAIN r THEN r[f] ELSE goal[f]]
    <3> HIDE DEF r
    <3>1. v = ScheduleApplied(goal, r)
      BY ScheduleParts
    <3> QED
      BY <3>1 DEF ScheduleApplied
  <2> QED
    BY <2>1, <2>2, <2>3
<1>2. DOMAIN goal = {"P1", "P2"} /\ at = goal
  BY DEF Shaped, Merging, Parameters, LightKinds
<1>3. p.todo = <<r>> /\ p.call = call
  <2>1. Requests(Entries(call)) = <<r>>
    <3>1. Requests(<<Put(field, day)>>) = <<r>>
      BY Single
    <3> QED
      BY <1>1, <3>1
  <2> HIDE DEF r
  <2> QED
    BY <2>1, ScheduleParts, SendingIs, Short
<1>4. call.op \in {"simple", "weekday", "copy"}
  BY <1>1 DEF ScheduleCalls, ScheduleCall
<1> HIDE DEF day
<1>5. v[field] = day /\ (field = "P2" => v["P1"] = goal["P1"])
  BY <1>1, <1>2
<1> HIDE DEF v
<1>6. ScheduleDone(call, v)
  <2>1. CASE call.op = "simple"
    <3>1. v.P1 = day
      BY <1>5, <2>1
    <3>2. ASSUME ReachesTheEnd(v.P1), ~SameStart(call.data), NEW time \in 0 .. DayEnd - 1
          PROVE  Heated(v.P1, time) = Asked(call, time)
      <4>1. time \in 0..3
        BY <3>2 DEF DayEnd
      <4> QED
        BY <1>1, <2>1, <3>1, <3>2, <4>1, SimpleMeans DEF day
    <3> QED
      BY <2>1, <3>2 DEF ScheduleDone
  <2>2. CASE call.op = "weekday"
    BY <1>5, <2>2 DEF ScheduleDone, day, Weekday
  <2>3. CASE call.op = "copy"
    BY <1>2, <1>5, <2>3 DEF ScheduleDone, day, Weekday
  <2> QED
    BY <1>4, <2>1, <2>2, <2>3
<1>7. Settles(call, r)
  BY <1>6, ScheduleParts DEF Settles, v
<1> HIDE DEF r, p
<1>8. Alone(p)
  BY <1>3, <1>7 DEF Alone
<1> QED
  BY <1>8, ScheduleParts DEF Reaches, p

-----------------------------------------------------------------------------
(* What a call sends, when it begins to send.                               *)

LEMMA LooksAre ==
    /\ kind \in ClimateKinds => \A call \in Calls : LooksAtState(call)
    /\ kind \in LightKinds => Parameters = LightFields(kind)
<1>1. ASSUME kind \in ClimateKinds, NEW call \in Calls PROVE LooksAtState(call)
  BY <1>1, Apart, ClimateCallsAre DEF LooksAtState
<1>2. kind \in LightKinds => Parameters = LightFields(kind)
  BY DEF Parameters, LightKinds
<1> QED
  BY <1>1, <1>2

LEMMA CallReaches ==
    ASSUME Typed, Told, Shaped, Warmed, NEW call \in Calls, ~Refuses(call),
           LooksAtState(call) => Changes(call) \/ uncertain
    PROVE  /\ Settled => Reaches(Sending(call))
           /\ kind \in ClimateKinds => WarmTodo(Sending(call))
<1>1. kind \in CoverKinds \cup LightKinds \cup LockKinds \cup ClimateKinds \cup {"schedule"}
  BY KindsAssumption DEF Typed
<1>2. CASE kind \in CoverKinds
  <2>1. kind \notin ClimateKinds /\ (kind = "garage" \/ kind \in Positional)
    BY <1>2 DEF CoverKinds, Positional, Blinds, ClimateKinds
  <2> QED
    BY <2>1, GarageReaches, CoverReaches
<1>3. CASE kind \in LightKinds
  BY <1>3, Apart, LightReaches
<1>4. CASE kind \in LockKinds
  BY <1>4, Apart, LockReaches
<1>5. CASE kind = "schedule"
  BY <1>5, Apart, ScheduleReaches
<1>6. CASE kind \in ClimateKinds
  <2>1. uncertain = FALSE /\ Warm(shown)
    BY <1>6 DEF Warmed
  <2>2. Changes(call)
    BY <1>6, <2>1, LooksAre
  <2>3. Settled => shown = goal
    BY <1>6, <2>1, Apart DEF Settled, Told
  <2> QED
    BY <1>6, <2>1, <2>2, <2>3, ClimateReaches
<1> QED
  BY <1>1, <1>2, <1>3, <1>4, <1>5, <1>6

-----------------------------------------------------------------------------
(* The device keeps its parameters.                                         *)

TimerShaped(tm) == tm = [time |-> tm.time, running |-> tm.running] /\ tm.time \in Times

LEMMA ShapedIs ==
    Shaped <=> /\ kind \in Merging => DOMAIN goal = Parameters
               /\ kind \in LightKinds => DOMAIN at = Parameters /\ TimerShaped(timer)
               /\ kind = "schedule" => at = goal
BY DEF Shaped, TimerShaped

LEMMA ShapedInit == Init => Shaped
<1> SUFFICES ASSUME Init PROVE Shaped
  OBVIOUS
<1>1. kind \in Kinds /\ at \in States /\ goal = at /\ timer = NoTimer
  BY DEF Init
<1>2. TimerShaped(timer)
  BY <1>1 DEF TimerShaped, NoTimer, Times
<1>3. kind \in Merging => DOMAIN at = Parameters
  <2>1. CASE kind \in LightKinds
    <3>1. at \in LightStates(kind)
      BY <1>1, <2>1, Parts
    <3> QED
      BY <2>1, <3>1, LooksAre DEF LightStates, LightFields, LightKinds
  <2>2. CASE kind \in {"buttonlock", "rflock", "siren"}
    <3>1. at \in LockStates(kind) /\ kind \in LockKinds
      BY <1>1, <2>2, Apart DEF States, LockKinds
    <3> QED
      BY <2>2, <3>1, Apart DEF LockStates, Parameters
  <2>3. CASE kind = "schedule"
    <3>1. at \in ScheduleStates
      BY <1>1, <2>3, Apart DEF States
    <3> QED
      BY <2>3, <3>1, Apart DEF ScheduleStates, Parameters
  <2> QED
    BY <2>1, <2>2, <2>3 DEF Merging
<1>4. LightKinds \subseteq Merging
  BY DEF Merging
<1>5. DOMAIN goal = DOMAIN at
  BY <1>1
<1> QED
  BY <1>1, <1>2, <1>3, <1>4, <1>5, ShapedIs

\* A request is merged into the parameters.
LEMMA ObeyShapes ==
    ASSUME Shaped, kind' = kind, timer' = timer, NEW r, Obey(r)
    PROVE  Shaped'
<1>1. goal' = Applied(r) /\ at' = [f \in DOMAIN at |-> IF kind \in CoverKinds THEN at[f] ELSE goal'[f]]
  BY DEF Obey
<1>2. Parameters' = Parameters
  BY DEF Parameters
<1>3. kind \in LightKinds \cup {"schedule"} => goal' = [f \in DOMAIN goal |-> IF f \in DOMAIN r THEN r[f] ELSE goal[f]]
  BY <1>1, Parts, ScheduleParts DEF LightApplied, ScheduleApplied
<1>4. kind \in Merging => DOMAIN goal' = Parameters
  <2>1. CASE kind \in LightKinds \cup {"schedule"}
    BY <1>3, <2>1 DEF Shaped, Merging
  <2>2. CASE kind \in {"buttonlock", "rflock", "siren"}
    <3>1. goal' = LockApplied(kind, goal, r) /\ DOMAIN goal = Parameters
      BY <1>1, <2>2, Parts DEF LockKinds, Shaped, Merging
    <3>2. kind = "rflock" => Parameters = {"POWER"}
      BY DEF Parameters, LightKinds
    <3> QED
      BY <2>2, <3>1, <3>2 DEF LockApplied
  <2> QED
    BY <2>1, <2>2 DEF Merging
<1>5. kind \in LightKinds => DOMAIN at' = Parameters /\ TimerShaped(timer)
  BY <1>1, ShapedIs
<1>6. kind = "schedule" => at' = goal'
  <2> HAVE kind = "schedule"
  <2>1. at' = [f \in DOMAIN goal |-> goal'[f]]
    BY <1>1, Apart DEF Shaped
  <2> QED
    BY <1>3, <2>1
<1> QED
  BY <1>2, <1>4, <1>5, <1>6 DEF Shaped, TimerShaped

LEMMA ShapedStep == Typed /\ Shaped /\ [Next]_vars => Shaped'
<1> SUFFICES ASSUME Typed, Shaped, [Next]_vars PROVE Shaped'
  OBVIOUS
<1>0. kind' = kind
  BY DEF Next, vars, Skip, Refuse, Enter, ReadFails, Acquire, Answered, Fails, Return, Move, Report, Deliver, Forget, Expire
<1>1. Parameters' = Parameters
  BY <1>0 DEF Parameters
<1>2. UNCHANGED <<at, goal, timer>> => Shaped'
  BY <1>0, <1>1 DEF Shaped
<1>3. UNCHANGED <<at, goal>> /\ (kind \in LightKinds => TimerShaped(timer')) => Shaped'
  BY <1>0, <1>1 DEF Shaped, TimerShaped
<1>4. ASSUME NEW call \in Calls, NEW c \in BOOLEAN, kind \in LightKinds PROVE TimerShaped(Leaves(call, c))
  <2> DEFINE d == Duration(call, timer)
  <2>1. call \in LightCalls(kind) /\ TimerShaped(timer)
    BY <1>4, Parts, ShapedIs
  <2>2. call.op \in {"on", "off", "setTimer"} /\ call.args.onTime \in Times
    BY <1>4, <2>1, LightCallsAre, OptionsAre
  <2>3. d \in Times
    BY <2>1, <2>2 DEF Duration, TimerShaped
  <2>4. \A time \in Times : TimerShaped(SetTimer(time))
    BY DEF TimerShaped, SetTimer
  <2>5. \A tm : TimerShaped(Started(tm))
    BY DEF TimerShaped, Started, NoTimer, Times
  <2>6. TimerShaped(NoTimer)
    BY DEF TimerShaped, NoTimer, Times
  <2>7. TimerShaped(TimerSeen(kind, call, timer))
    <3>1. TimerSeen(kind, call, timer) \in {NoTimer, SetTimer(call.args.onTime), Started(timer), timer}
      BY <1>4 DEF TimerSeen, TakesTimerFirst
    <3> QED
      BY <2>1, <2>2, <2>4, <2>5, <2>6, <3>1
  <2>8. TimerLeft(kind, call, timer, c)
          \in {SetTimer(call.args.onTime), NoTimer, Started(SetTimer(d)), TimerSeen(kind, call, timer)}
    BY <2>2 DEF TimerLeft
  <2>9. Leaves(call, c) = TimerLeft(kind, call, timer, c)
    BY <1>4 DEF Leaves
  <2> QED
    BY <2>2, <2>4, <2>5, <2>6, <2>7, <2>8, <2>9
<1>5. ASSUME NEW t, NEW call \in Calls, Skip(t, call) \/ Enter(t, call) PROVE Shaped'
  BY <1>3, <1>4, <1>5 DEF Skip, Enter, deviceVars
<1>6. ASSUME NEW t, NEW call, Refuse(t, call) PROVE Shaped'
  BY <1>2, <1>6 DEF Refuse, deviceVars, centralVars
<1>7. ASSUME NEW t, ReadFails(t) \/ Acquire(t) \/ Return(t) PROVE Shaped'
  BY <1>2, <1>7 DEF ReadFails, Acquire, Return, deviceVars, centralVars
<1>8. ASSUME NEW t, Answered(t) PROVE Shaped'
  BY <1>0, <1>8, ObeyShapes DEF Answered
<1>9. ASSUME NEW t, Fails(t) PROVE Shaped'
  BY <1>0, <1>2, <1>9, ObeyShapes DEF Fails, deviceVars, centralVars
<1>10. ASSUME NEW f, Move(f) PROVE Shaped'
  <2>1. goal' = goal /\ timer' = timer /\ at[f] # goal[f] /\ \E v : at' = [at EXCEPT ![f] = v]
    BY <1>10 DEF Move, centralVars
  <2>2. DOMAIN at' = DOMAIN at /\ kind # "schedule"
    BY <2>1 DEF Shaped
  <2> QED
    BY <1>0, <1>1, <2>1, <2>2 DEF Shaped
<1>11. CASE Report
  BY <1>2, <1>11 DEF Report, centralVars
<1>12. CASE Deliver \/ Forget
  BY <1>2, <1>12 DEF Deliver, Forget, deviceVars
<1>13. CASE Expire
  <2>1. kind \in LightKinds => TimerShaped(timer')
    <3>1. timer' = [timer EXCEPT !.running = FALSE]
      BY <1>13 DEF Expire
    <3> QED
      BY <3>1, ShapedIs DEF TimerShaped
  <2>2. CASE off = None
    BY <1>3, <1>13, <2>1, <2>2 DEF Expire, deviceVars
  <2>3. CASE off # None
    <3>1. kind \in LightKinds
      BY <2>3 DEF Typed, DeviceTyped
    <3>2. DOMAIN at' = DOMAIN at /\ goal' = at'
      BY <1>13, <2>3 DEF Expire
    <3>3. kind # "schedule"
      BY <3>1, Apart
    <3> QED
      BY <1>0, <1>1, <2>1, <3>1, <3>2, <3>3 DEF Shaped, TimerShaped
  <2> QED
    BY <2>2, <2>3
<1>14. CASE UNCHANGED vars
  BY <1>2, <1>14 DEF vars
<1> QED
  BY <1>5, <1>6, <1>7, <1>8, <1>9, <1>10, <1>11, <1>12, <1>13, <1>14 DEF Next

-----------------------------------------------------------------------------
(* The temperatures of a thermostat.                                        *)

LEMMA AppliedWarm ==
    ASSUME kind \in ClimateKinds, Warm(goal), NEW r, WarmRequest(r)
    PROVE  Warm(Applied(r))
<1> DEFINE Has(f) == f \in DOMAIN r
           byMode == CASE Has("MANU") -> r.MANU
                       [] Has("AUTO") \/ Has("LOWERING") -> ProgramTemp
                       [] Has("CONTROL") /\ r["CONTROL"] = "AUTO" -> ProgramTemp
                       [] Has("COMFORT") -> ComfortTemp
                       [] Has("PARTY") -> IF r.PARTY THEN MinTemp ELSE ProgramTemp
                       [] OTHER -> goal.SETPOINT
           setpoint == IF Has("SETPOINT") THEN r.SETPOINT ELSE byMode
<1>1. byMode \in 4..30
  <2>1. Has("MANU") => r.MANU \in 4..30
    BY DEF WarmRequest
  <2>2. ProgramTemp \in 4..30 /\ ComfortTemp \in 4..30 /\ MinTemp \in 4..30 /\ goal.SETPOINT \in 4..30
    BY DEF ProgramTemp, ComfortTemp, MinTemp, Warm
  <2> QED
    BY <2>1, <2>2
<1>2. setpoint \in 4..30
  BY <1>1 DEF WarmRequest
<1>3. ClimateApplied(kind, goal, r).SETPOINT = setpoint
  BY DEF ClimateApplied, ClimateKinds
<1> QED
  BY <1>2, <1>3, Parts DEF Warm

LEMMA WarmedInit == Init => Warmed
<1> SUFFICES ASSUME Init, kind \in ClimateKinds PROVE Warmed
  BY DEF Warmed
<1>1. goal = at /\ at \in States /\ uncertain = FALSE /\ report = <<>> /\ shown = at
  BY DEF Init
<1>2. States = ClimateStates(kind)
  BY Apart DEF States
<1>3. Warm(at)
  <2>1. at.SETPOINT \in {4, 5, 17, 21}
    BY <1>1, <1>2 DEF ClimateStates, ClimateKinds
  <2> QED
    BY <2>1 DEF Warm
<1>4. Senders = {}
  BY DEF Init, Senders, Idle
<1> QED
  BY <1>1, <1>3, <1>4 DEF Warmed

\* A request is taken by a thermostat.
LEMMA ObeyWarms ==
    ASSUME Typed, Warmed, kind \in ClimateKinds, NEW t \in Senders, task[t].todo # <<>>, Obey(Head(task[t].todo))
    PROVE  Warm(goal')
<1>1. WarmTodo(task[t]) /\ Warm(goal)
  BY DEF Warmed
<1>2. PICK r : task[t].todo = <<r>> /\ WarmRequest(r)
  BY <1>1 DEF WarmTodo
<1>3. Head(task[t].todo) = r
  BY <1>2
<1> QED
  BY <1>1, <1>2, <1>3, AppliedWarm DEF Obey

\* What is left of one request.
LEMMA OneLeft ==
    ASSUME NEW r
    PROVE  Head(<<r>>) = r /\ Tail(<<r>>) = <<>> /\ AfterFailure(<<r>>) = <<>>
<1>1. Head(<<r>>) = r /\ Tail(<<r>>) = <<>>
  OBVIOUS
<1> QED
  BY <1>1 DEF AfterFailure

\* What a caller has still to send, when something of it was sent.
LEMMA SenderIs ==
    ASSUME Typed, NEW t \in Senders, NEW s, NEW i,
           \/ task' = [task EXCEPT ![t].todo = s]
           \/ task' = [task EXCEPT ![t].todo = s, ![t].intact = i]
    PROVE  /\ Senders' = Senders /\ \A u \in Tasks \ {t} : task'[u] = task[u]
           /\ task'[t].todo = s /\ task'[t].call = task[t].call /\ task'[t].meant = task[t].meant
<1>1. Sends(task[t]) /\ t \in Tasks
  BY StageIs DEF Typed, Senders
<1>2. DOMAIN task[t] = {"stage", "call", "todo", "intact", "meant"}
  BY <1>1 DEF Sends
<1>3. task = [u \in Tasks |-> task[u]]
  BY DEF Typed, TasksTyped
<1>4. \A u \in Tasks \ {t} : task'[u] = task[u]
  BY <1>3
<1>5. \/ task'[t] = [task[t] EXCEPT !.todo = s]
      \/ task'[t] = [[task[t] EXCEPT !.todo = s] EXCEPT !.intact = i]
  BY <1>1, <1>3
<1>6. task'[t].stage = task[t].stage
  BY <1>2, <1>5
<1>7. /\ task'[t].todo = s /\ task'[t].call = task[t].call /\ task'[t].meant = task[t].meant
  BY <1>2, <1>5
<1>8. Senders' = Senders
  BY <1>4, <1>6 DEF Senders
<1> QED
  BY <1>4, <1>7, <1>8

LEMMA Intact ==
    ASSUME Typed, NEW t \in Senders, NEW s
    PROVE  /\ task' = [task EXCEPT ![t].todo = s] => task'[t].intact = task[t].intact
           /\ task' = [task EXCEPT ![t].todo = s, ![t].intact = FALSE] => task'[t].intact = FALSE
<1>1. Sends(task[t]) /\ t \in Tasks
  BY StageIs DEF Typed, Senders
<1>2. DOMAIN task[t] = {"stage", "call", "todo", "intact", "meant"}
  BY <1>1 DEF Sends
<1>3. task = [u \in Tasks |-> task[u]]
  BY DEF Typed, TasksTyped
<1>4. task' = [task EXCEPT ![t].todo = s] => task'[t] = [task[t] EXCEPT !.todo = s]
  BY <1>1, <1>3
<1>5. task' = [task EXCEPT ![t].todo = s, ![t].intact = FALSE]
        => task'[t] = [[task[t] EXCEPT !.todo = s] EXCEPT !.intact = FALSE]
  BY <1>1, <1>3
<1> QED
  BY <1>2, <1>4, <1>5

LEMMA WarmedStep == Typed /\ Told /\ Shaped /\ Warmed /\ [Next]_vars => Warmed'
<1> SUFFICES ASSUME Typed, Told, Shaped, Warmed, [Next]_vars, kind' \in ClimateKinds PROVE Warmed'
  BY DEF Warmed
<1>1. kind' = kind
  BY DEF Next, vars, Skip, Refuse, Enter, ReadFails, Acquire, Answered, Fails, Return, Move, Report, Deliver, Forget, Expire
<1>2. kind \in ClimateKinds /\ kind \notin Blinds
  BY <1>1, Apart DEF CoverKinds, Blinds
<1>3. /\ uncertain = FALSE /\ Warm(goal) /\ Warm(shown) /\ (report # <<>> => Warm(report[1]))
      /\ \A t \in Senders : WarmTodo(task[t])
  BY <1>2 DEF Warmed
<1>4. ASSUME uncertain' = FALSE, Warm(goal'), UNCHANGED <<shown, report>>,
             \A t \in Senders' : WarmTodo(task'[t])
      PROVE  Warmed'
  BY <1>3, <1>4 DEF Warmed, Warm, WarmTodo
<1>5. UNCHANGED <<uncertain, goal, shown, report, task>> => Warmed'
  BY <1>3, <1>4 DEF Senders
<1>6. Callers \subseteq Tasks
  BY TasksAssumption DEF Callers
<1>7. ASSUME NEW t, NEW call, Skip(t, call) \/ Refuse(t, call) PROVE Warmed'
  BY <1>5, <1>7 DEF Skip, Refuse, deviceVars, centralVars
<1>8. ASSUME NEW t \in Tasks, NEW call \in Calls, Enter(t, call) PROVE Warmed'
  <2> DEFINE p == Sending(call)
  <2>1. ~Refuses(call) /\ (LooksAtState(call) => Changes(call) \/ uncertain)
        /\ task' = [task EXCEPT ![t] = p] /\ UNCHANGED <<uncertain, goal, shown, report>>
    BY <1>2, <1>8 DEF Enter, deviceVars
  <2>2. WarmTodo(p)
    BY <1>2, <2>1, CallReaches
  <2> HIDE DEF p
  <2>3. \A u \in Tasks : task'[u] = IF u = t THEN p ELSE task[u]
    BY <2>1 DEF Typed, TasksTyped
  <2>4. \A u \in Senders' : WarmTodo(task'[u])
    BY <1>3, <2>2, <2>3 DEF Senders
  <2> QED
    BY <1>3, <1>4, <2>1, <2>4
<1>9. ASSUME NEW t, ReadFails(t) PROVE Warmed'
  BY <1>5, <1>9 DEF ReadFails, deviceVars
<1>10. ASSUME NEW t \in Tasks, Acquire(t) PROVE Warmed'
  <2> DEFINE p == Sending(task[t].call)
  <2>1. Waits(task[t])
    BY <1>10, StageIs DEF Acquire, Typed
  <2> QED
    BY <1>2, <2>1 DEF Waits
<1>11. ASSUME NEW t \in Senders, task[t].todo # <<>>, NEW s \in {Tail(task[t].todo), AfterFailure(task[t].todo)},
              Senders' = Senders, task'[t].todo = s, \A u \in Tasks \ {t} : task'[u] = task[u],
              Obey(Head(task[t].todo)) \/ UNCHANGED goal, UNCHANGED <<uncertain, shown, report>>
       PROVE  Warmed'
  <2>1. s = <<>>
    <3>1. \E r : task[t].todo = <<r>>
      BY <1>3, <1>11 DEF WarmTodo
    <3> QED
      BY <1>11, <3>1, OneLeft
  <2>2. \A u \in Senders' : WarmTodo(task'[u])
    BY <1>3, <1>11, <2>1 DEF WarmTodo, Senders
  <2>3. Warm(goal')
    BY <1>2, <1>3, <1>11, ObeyWarms
  <2> QED
    BY <1>3, <1>4, <1>11, <2>2, <2>3
<1>12. ASSUME NEW t \in Tasks, Answered(t) PROVE Warmed'
  <2>1. task' = [task EXCEPT ![t].todo = Tail(task[t].todo)] /\ t \in Senders /\ task[t].todo # <<>>
    BY <1>12 DEF Answered, Typed, TasksTyped, Senders
  <2>2. Senders' = Senders /\ task'[t].todo = Tail(task[t].todo) /\ \A u \in Tasks \ {t} : task'[u] = task[u]
    BY <2>1, SenderIs
  <2> QED
    BY <1>11, <1>12, <2>1, <2>2 DEF Answered
<1>13. ASSUME NEW t \in Tasks, Fails(t) PROVE Warmed'
  <2>1. task' = [task EXCEPT ![t].todo = AfterFailure(task[t].todo), ![t].intact = FALSE] /\ t \in Senders
        /\ task[t].todo # <<>>
    BY <1>13 DEF Fails, Typed, TasksTyped, Senders
  <2>2. Senders' = Senders /\ task'[t].todo = AfterFailure(task[t].todo) /\ \A u \in Tasks \ {t} : task'[u] = task[u]
    BY <2>1, SenderIs
  <2> QED
    BY <1>11, <1>13, <2>1, <2>2 DEF Fails, deviceVars, centralVars
<1>14. ASSUME NEW t \in Tasks, Return(t) PROVE Warmed'
  <2>1. task' = [task EXCEPT ![t] = Idle] /\ UNCHANGED <<uncertain, goal, shown, report>>
    BY <1>14 DEF Return, deviceVars, centralVars
  <2>2. \A u \in Senders' : u \in Senders /\ task'[u] = task[u]
    BY <2>1 DEF Senders, Typed, TasksTyped, Idle
  <2> QED
    BY <1>3, <1>4, <2>1, <2>2
<1>15. ASSUME NEW f, Move(f) PROVE Warmed'
  BY <1>5, <1>15 DEF Move, centralVars
<1>16. CASE Report
  <2>1. report' = <<at>> /\ at = goal /\ UNCHANGED <<uncertain, goal, shown, task>>
    BY <1>16 DEF Report, centralVars
  <2>2. report'[1] = goal
    BY <2>1
  <2> QED
    BY <1>3, <2>1, <2>2 DEF Warmed, Warm, WarmTodo, Senders
<1>17. CASE Deliver
  <2>1. shown' = report[1] /\ report # <<>> /\ report' = <<>> /\ uncertain' = FALSE /\ UNCHANGED <<goal, task>>
    BY <1>17 DEF Deliver, deviceVars
  <2> QED
    BY <1>3, <2>1 DEF Warmed, Warm, WarmTodo, Senders
<1>18. CASE Forget
  BY <1>5, <1>18 DEF Forget, deviceVars
<1>19. CASE Expire
  <2>1. off = None
    BY <1>2, Apart DEF Typed, DeviceTyped
  <2> QED
    BY <1>5, <1>19, <2>1 DEF Expire, deviceVars
<1>20. CASE UNCHANGED vars
  BY <1>5, <1>20 DEF vars
<1> QED
  BY <1>6, <1>7, <1>8, <1>9, <1>10, <1>12, <1>13, <1>14, <1>15, <1>16, <1>17, <1>18, <1>19, <1>20 DEF Next

-----------------------------------------------------------------------------
(* What is sent keeps reaching the aim.                                     *)

\* A step that changes neither the goal of the device nor its timer.
LEMMA SameReach ==
    ASSUME UNCHANGED <<kind, goal, at, off>>
    PROVE  /\ \A t : Reaches(task[t])' <=> Reaches(task'[t])
           /\ Fulfilled(last)' <=> Fulfilled(last')
<1>1. \A c, v : DoneAt(c, v)' <=> DoneAt(c, v)
  BY DEF DoneAt
<1>2. \A t : Fitting(task[t])' <=> Fitting(task'[t])
  BY DEF Fitting, Fits, Asks
<1>3. \A t : Timely(task[t])' <=> Timely(task'[t])
  BY DEF Timely, Asks
<1>4. \A t : Alone(task[t])' <=> Alone(task'[t])
  BY DEF Alone, Settles, DoneAt, Applied
<1>5. Fulfilled(last)' <=> Fulfilled(last')
  BY DEF Fulfilled, DoneAt, Calls
<1>6. Measured' = Measured
  BY DEF Measured
<1> QED
  BY <1>2, <1>3, <1>4, <1>5, <1>6 DEF Reaches

LEMMA SentInit == Init => Sent
<1> SUFFICES ASSUME Init PROVE Sent
  OBVIOUS
<1>1. task = [t \in Tasks |-> Idle] /\ last = None
  BY DEF Init
<1>2. Senders = {}
  BY <1>1 DEF Senders, Idle
<1> QED
  BY <1>1, <1>2 DEF Sent

\* A request is taken by a cover, a blind or a light.
LEMMA AnsweredFits ==
    ASSUME Typed, Steered, Shaped, kind' = kind, kind \in Measured, NEW t \in Senders, task[t].todo # <<>>,
           Obey(Head(task[t].todo)), Fitting(task[t]),
           task'[t].call = task[t].call, task'[t].todo = Tail(task[t].todo)
    PROVE  Fitting(task[t])'
<1> DEFINE p == task[t]
           r == Head(p.todo)
           q == task'[t]
<1>1. Sends(p) /\ t \in Tasks
  BY StageIs DEF Typed, Senders
<1>2. IsSequence(p.todo) /\ r \in Of(p.todo) /\ Of(p.todo) = {r} \cup Of(q.todo)
  BY <1>1, TailIs DEF Sends, Todo
<1>3. p.call \in Calls
  BY <1>1 DEF Sends
<1>4. DOMAIN goal' = DOMAIN goal
  <2>1. CASE kind \in LightKinds
    BY <2>1, Parts DEF Obey, LightApplied
  <2>2. CASE kind \in Positional
    <3>1. kind \in CoverKinds /\ kind # "garage" /\ DOMAIN at = Fields /\ DOMAIN goal = Fields
      BY <2>2, FieldsAre DEF Positional, Blinds, CoverKinds, Typed, DeviceTyped, ValuesTyped
    <3> QED
      BY <3>1, Parts DEF Obey, CoverApplied
  <2> QED
    BY <2>1, <2>2 DEF Measured
<1>5. kind \in Positional /\ p.call.op = "stop" => \A f \in DOMAIN goal : \A v : Fits(p.call, f, v)
  <2> HAVE kind \in Positional /\ p.call.op = "stop"
  <2>1. kind \in CoverKinds /\ kind \notin LightKinds /\ DOMAIN goal \subseteq Coordinates
    BY FieldsAre, Apart DEF Positional, Blinds, CoverKinds, Typed, DeviceTyped, ValuesTyped
  <2>2. p.call.level = None /\ p.call.tilt = None
    BY <1>3, <2>1, CoverCallsAre
  <2> HIDE DEF p
  <2> QED
    BY <2>1, <2>2 DEF Fits, Given, Coordinates
<1> HIDE DEF p, q, r
<1>6. ASSUME NEW f \in DOMAIN goal
      PROVE  Fits(p.call, f, goal'[f]) \/ \E s \in Of(q.todo) : f \in DOMAIN s
  <2>1. /\ \A s \in Of(p.todo) : f \in DOMAIN s => Fits(p.call, f, s[f])
        /\ Fits(p.call, f, goal[f]) \/ \E s \in Of(p.todo) : f \in DOMAIN s
    BY DEF Fitting, Asks, p
  <2>2. CASE goal' = [g \in DOMAIN goal |-> IF g \in DOMAIN r THEN r[g] ELSE goal[g]]
    BY <1>2, <2>1, <2>2
  <2>3. CASE kind \in Positional /\ "STOP" \in DOMAIN r
    <3>1. CASE p.call.op = "stop"
      BY <1>5, <2>3, <3>1
    <3>2. CASE p.call.op # "stop"
      <4>1. kind \in Blinds
        BY <1>2, <2>3, <3>2 DEF Fitting, Positional, p
      <4>2. Steers(p)
        BY <4>1 DEF Steered, p
      <4>3. "STOP" \notin Coordinates /\ f \in Coordinates
        BY <4>1, FieldsAre DEF Coordinates, Typed, DeviceTyped, ValuesTyped, Positional
      <4>4. \E s \in Of(Tail(p.todo)) : f \in DOMAIN s
        BY <2>3, <3>2, <4>2, <4>3 DEF Steers, p, r
      <4> QED
        BY <4>4 DEF p, q
    <3> QED
      BY <3>1, <3>2
  <2>4. CASE kind \in LightKinds
    <3>1. goal' = [g \in DOMAIN goal |-> IF g \in DOMAIN r THEN r[g] ELSE goal[g]]
      BY <2>4, Parts DEF Obey, LightApplied, r, p
    <3> QED
      BY <2>2, <3>1
  <2>5. CASE kind \in Positional /\ "STOP" \notin DOMAIN r
    <3>1. kind \in CoverKinds /\ kind # "garage"
      BY <2>5 DEF Positional, Blinds, CoverKinds
    <3>2. goal' = CoverApplied(kind, at, goal, r)
      BY <3>1, Parts DEF Obey, r, p
    <3>3. goal' = [g \in DOMAIN goal |-> IF g \in DOMAIN r THEN r[g] ELSE goal[g]]
      BY <2>5, <3>1, <3>2 DEF CoverApplied
    <3> QED
      BY <2>2, <3>3
  <2> QED
    BY <2>3, <2>4, <2>5 DEF Measured
<1>7. ASSUME NEW f \in DOMAIN goal', NEW s \in Of(q.todo), f \in DOMAIN s PROVE Fits(p.call, f, s[f])
  BY <1>2, <1>4, <1>7 DEF Fitting, p
<1>8. kind \in {"cover", "window"} => \A s \in Of(q.todo) : "STOP" \in DOMAIN s => p.call.op = "stop"
  BY <1>2 DEF Fitting, p
<1>9. q.call = p.call
  BY DEF p, q
<1> QED
  BY <1>4, <1>6, <1>7, <1>8, <1>9 DEF Fitting, Fits, Asks, q

LEMMA AnsweredTimely ==
    ASSUME Typed, kind' = kind, kind \in Measured, NEW t \in Senders, task[t].todo # <<>>,
           Obey(Head(task[t].todo)), Timely(task[t]),
           task'[t].call = task[t].call, task'[t].todo = Tail(task[t].todo), task'[t].meant = task[t].meant
    PROVE  Timely(task[t])'
<1> DEFINE p == task[t]
           r == Head(p.todo)
           q == task'[t]
<1>1. Sends(p) /\ t \in Tasks
  BY StageIs DEF Typed, Senders
<1>2. IsSequence(p.todo) /\ r \in Of(p.todo) /\ Of(p.todo) = {r} \cup Of(q.todo)
  BY <1>1, TailIs DEF Sends, Todo
<1> SUFFICES ASSUME kind \in LightKinds, p.call.op = "on"
             PROVE  /\ \A s \in Of(q.todo) : LevelField(kind) \in DOMAIN s => DeviceTimer(kind, s) = q.meant
                    /\ off' = q.meant \/ \E s \in Of(q.todo) : LevelField(kind) \in DOMAIN s
  BY DEF Timely, Asks
<1>3. /\ \A s \in Of(p.todo) : LevelField(kind) \in DOMAIN s => DeviceTimer(kind, s) = p.meant
      /\ off = p.meant \/ \E s \in Of(p.todo) : LevelField(kind) \in DOMAIN s
  BY DEF Timely, Asks
<1>4. off' = IF LevelField(kind) \in DOMAIN r THEN DeviceTimer(kind, r) ELSE off
  BY DEF Obey
<1>5. q.meant = p.meant
  OBVIOUS
<1> HIDE DEF p, q, r
<1> QED
  BY <1>2, <1>3, <1>4, <1>5

\* The one request is taken.
LEMMA AnsweredAlone ==
    ASSUME kind' = kind, NEW t, task[t].todo # <<>>, Obey(Head(task[t].todo)), Alone(task[t]),
           task'[t].call = task[t].call, task'[t].todo = Tail(task[t].todo)
    PROVE  Alone(task[t])'
<1>1. PICK r : task[t].todo = <<r>> /\ Settles(task[t].call, r)
  BY DEF Alone
<1>2. Head(task[t].todo) = r /\ task'[t].todo = <<>>
  BY <1>1, OneLeft
<1>3. DoneAt(task[t].call, goal')
  BY <1>1, <1>2 DEF Settles, Obey
<1>4. DoneAt(task[t].call, goal)'
  BY <1>3 DEF DoneAt
<1> QED
  BY <1>2, <1>4 DEF Alone

\* A garage door runs, while a request is on its way.
LEMMA MoveAlone ==
    ASSUME Typed, UNCHANGED <<kind, goal, task>>, kind \notin Measured, NEW t, Alone(task[t])
    PROVE  Alone(task[t])'
<1>1. \A c, v : DoneAt(c, v)' <=> DoneAt(c, v)
  BY DEF DoneAt
<1>2. CASE task[t].todo = <<>> /\ DoneAt(task[t].call, goal)
  <2>1. DoneAt(task[t].call, goal)'
    BY <1>2 DEF DoneAt
  <2> QED
    BY <1>2, <2>1 DEF Alone
<1>3. ASSUME NEW r, task[t].todo = <<r>>, Settles(task[t].call, r) PROVE Alone(task[t])'
  <2> DEFINE c == task[t].call
  <2>1. DoneAt(c, Applied(r)') 
    <3>1. CASE kind = "garage"
      <4>1. kind \in CoverKinds
        BY <3>1 DEF CoverKinds
      <4>2. CASE c.level = None
        <5>1. \A v : DoneAt(c, v)
          BY <3>1, <4>1, <4>2, DoneIs DEF CoverDone
        <5> QED
          BY <5>1
      <4>3. CASE c.level # None
        <5>1. "STOP" \notin DOMAIN r /\ r.COMMAND # "STOP"
          BY <1>3, <3>1, <4>3 DEF Settles
        <5>2. Applied(r)' = Applied(r)
          BY <3>1, <4>1, <5>1 DEF Applied, CoverApplied
        <5> QED
          BY <1>3, <5>2 DEF Settles
      <4> QED
        BY <4>2, <4>3
    <3>2. CASE kind # "garage"
      <4>1. kind \in LockKinds \/ kind \in ClimateKinds \/ kind = "schedule"
        BY <3>2, Apart, KindsAssumption DEF Typed
      <4>2. Applied(r)' = Applied(r)
        BY <4>1, Apart DEF Applied
      <4> QED
        BY <1>3, <4>2 DEF Settles
    <3> QED
      BY <3>1, <3>2
  <2>2. DoneAt(c, Applied(r))'
    BY <2>1 DEF DoneAt
  <2>3. Settles(c, r)'
    BY <1>3, <2>2 DEF Settles
  <2> QED
    BY <1>3, <2>3 DEF Alone
<1> QED
  BY <1>2, <1>3 DEF Alone

LEMMA AnsweredReaches ==
    ASSUME Typed, Steered, Shaped, kind' = kind, NEW t \in Senders, task[t].todo # <<>>,
           Obey(Head(task[t].todo)), Reaches(task[t]),
           task'[t].call = task[t].call, task'[t].todo = Tail(task[t].todo), task'[t].meant = task[t].meant
    PROVE  Reaches(task[t])'
<1>1. Measured' = Measured
  BY DEF Measured
<1>2. CASE kind \in Measured
  <2>1. Fitting(task[t])' /\ Timely(task[t])'
    BY <1>2, AnsweredFits, AnsweredTimely DEF Reaches
  <2> QED
    BY <1>1, <1>2, <2>1 DEF Reaches
<1>3. CASE kind \notin Measured
  <2>1. Alone(task[t])'
    BY <1>3, AnsweredAlone DEF Reaches
  <2> QED
    BY <1>1, <1>3, <2>1 DEF Reaches
<1> QED
  BY <1>2, <1>3

\* When a cover runs, what is sent keeps its meaning.
LEMMA MoveReaches ==
    ASSUME Typed, UNCHANGED <<kind, goal, off, task>>, NEW t, Reaches(task[t])
    PROVE  Reaches(task[t])'
<1>1. Measured' = Measured
  BY DEF Measured
<1>2. CASE kind \in Measured
  <2>1. Fitting(task[t]) /\ Timely(task[t])
    BY <1>2 DEF Reaches
  <2>2. Fitting(task[t])'
    BY <2>1 DEF Fitting, Fits, Asks
  <2>3. Timely(task[t])'
    BY <2>1 DEF Timely, Asks
  <2> QED
    BY <1>1, <1>2, <2>2, <2>3 DEF Reaches
<1>3. CASE kind \notin Measured
  <2>1. Alone(task[t])'
    BY <1>3, MoveAlone DEF Reaches
  <2> QED
    BY <1>1, <1>3, <2>1 DEF Reaches
<1> QED
  BY <1>2, <1>3

\* A call that has sent everything.
LEMMA NothingLeft ==
    ASSUME Typed, Shaped, NEW t \in Senders, task[t].todo = <<>>, Reaches(task[t])
    PROVE  Fulfilled([call |-> task[t].call, meant |-> task[t].meant])
<1> DEFINE p == task[t]
<1>1. p.call \in Calls
  BY StageIs DEF Typed, Senders, Sends
<1>2. DoneAt(p.call, goal) /\ (kind \in LightKinds /\ p.call.op = "on" => off = p.meant)
  <2>1. CASE kind \in Measured
    <3>1. Fitting(p) /\ Timely(p) /\ Of(p.todo) = {}
      BY <2>1, Short DEF Reaches
    <3> HIDE DEF p
    <3>2. \A f \in DOMAIN goal : Fits(p.call, f, goal[f])
      BY <3>1 DEF Fitting, Asks
    <3>3. kind \in LightKinds /\ p.call.op = "on" => off = p.meant
      BY <3>1 DEF Timely, Asks
    <3>4. DoneAt(p.call, goal)
      BY <1>1, <2>1, <3>2, LightFitsDone, CoverFitsDone DEF Measured
    <3> QED
      BY <3>3, <3>4
  <2>2. CASE kind \notin Measured
    <3>1. Alone(p) /\ kind \notin LightKinds
      BY <2>2 DEF Reaches, Measured
    <3>2. \A r : <<>> # <<r>>
      OBVIOUS
    <3> QED
      BY <3>1, <3>2 DEF Alone
  <2> QED
    BY <2>1, <2>2
<1> QED
  BY <1>1, <1>2 DEF Fulfilled

LEMMA OneCaller == kind \notin Blinds => \A t, u \in Callers : t = u
BY DEF Callers

\* One caller begins to send.
LEMMA BeginsSending ==
    ASSUME Typed, Sent, Senders = {}, NEW t \in Callers, NEW call \in Calls,
           task' = [task EXCEPT ![t] = Sending(call)], Settled => Reaches(Sending(call)),
           UNCHANGED <<kind, goal, at, off>>, last' = None
    PROVE  Sent'
<1> DEFINE p == Sending(call)
<1>1. Callers \subseteq Tasks /\ Callers' = Callers
  BY TasksAssumption DEF Callers
<1>2. \A u \in Tasks : task'[u] = IF u = t THEN p ELSE task[u]
  BY <1>1 DEF Typed, TasksTyped
<1>3. p.stage = "sending" /\ p.intact = Settled
  BY DEF Sending
<1> HIDE DEF p
<1>4. Senders' = {t}
  BY <1>1, <1>2, <1>3 DEF Senders
<1>5. kind' \notin Blinds' => \A u \in Tasks \ Callers' : task'[u] = Idle
  BY <1>1, <1>2 DEF Sent, Blinds
<1>6. task'[t].intact => Reaches(task[t])'
  BY <1>1, <1>2, <1>3, SameReach DEF p
<1> QED
  BY <1>1, <1>4, <1>5, <1>6 DEF Sent

LEMMA SentStep == Typed /\ Told /\ Steered /\ Shaped /\ Warmed /\ Sent /\ [Next]_vars => Sent'
<1> SUFFICES ASSUME Typed, Told, Steered, Shaped, Warmed, Sent, [Next]_vars PROVE Sent'
  OBVIOUS
<1>1. kind' = kind
  BY DEF Next, vars, Skip, Refuse, Enter, ReadFails, Acquire, Answered, Fails, Return, Move, Report, Deliver, Forget, Expire
<1>2. Callers \subseteq Tasks /\ Callers' = Callers
  BY <1>1, TasksAssumption DEF Callers
<1>3. /\ \A t, u \in Senders : t = u
      /\ kind \notin Blinds => \A t \in Tasks \ Callers : task[t] = Idle
      /\ \A t \in Senders : task[t].intact => Reaches(task[t])
      /\ last # None => Fulfilled(last) /\ \A t \in Tasks : task[t] = Idle
  BY DEF Sent
<1>4. (\A t \in Tasks : task[t] = Idle) => Senders = {}
  BY DEF Senders, Idle
<1>5. ASSUME UNCHANGED <<goal, at, off, task, last>> PROVE Sent'
  <2>1. Senders' = Senders
    BY <1>5 DEF Senders
  <2>2. \A t \in Senders : task'[t].intact => Reaches(task[t])'
    BY <1>1, <1>3, <1>5, SameReach
  <2>3. last' # None => Fulfilled(last)' /\ \A t \in Tasks : task'[t] = Idle
    BY <1>1, <1>3, <1>5, SameReach
  <2> QED
    BY <1>1, <1>2, <1>3, <1>5, <2>1, <2>2, <2>3 DEF Sent
<1>6. ASSUME NEW t \in Callers, NEW call \in Calls, Skip(t, call) \/ Refuse(t, call) PROVE Sent'
  BY <1>5, <1>6 DEF Skip, Refuse, deviceVars, centralVars, ghosts
<1>7. ASSUME NEW t \in Callers, NEW call \in Calls, Enter(t, call) PROVE Sent'
  <2>1. /\ ~Refuses(call) /\ (LooksAtState(call) => Changes(call) \/ uncertain) /\ task[t] = Idle
        /\ task' = [task EXCEPT ![t] = IF kind \in Blinds THEN [stage |-> "waiting", call |-> call] ELSE Sending(call)]
        /\ UNCHANGED <<goal, at, off>> /\ last' = None
    BY <1>7 DEF Enter, MayCall, deviceVars
  <2>2. CASE kind \notin Blinds
    <3>1. \A u \in Tasks : task[u] = Idle
      BY <1>3, <2>1, <2>2, OneCaller
    <3>2. Settled => Reaches(Sending(call))
      BY <2>1, CallReaches
    <3> QED
      BY <1>1, <1>4, <2>1, <2>2, <3>1, <3>2, BeginsSending
  <2>3. CASE kind \in Blinds
    <3>1. \A u \in Tasks : task'[u] = IF u = t THEN [stage |-> "waiting", call |-> call] ELSE task[u]
      BY <2>1, <2>3 DEF Typed, TasksTyped
    <3>2. Senders' = Senders /\ \A u \in Senders : task'[u] = task[u]
      BY <2>1, <3>1 DEF Senders, Idle
    <3>3. \A u \in Senders : task'[u].intact => Reaches(task[u])'
      BY <1>1, <1>3, <2>1, <3>2, SameReach
    <3> QED
      BY <1>1, <1>3, <2>1, <2>3, <3>2, <3>3 DEF Sent
  <2> QED
    BY <2>2, <2>3
<1>8. ASSUME NEW t \in Callers, ReadFails(t) PROVE Sent'
  BY <1>5, <1>8 DEF ReadFails, deviceVars, ghosts
<1>9. ASSUME NEW t \in Callers, Acquire(t) PROVE Sent'
  <2> DEFINE call == task[t].call
  <2>1. kind \in Blinds /\ call \in Calls
    BY <1>2, <1>9, StageIs DEF Acquire, Typed, Waits
  <2>2. Senders = {}
    BY <1>9 DEF Acquire, LockFree, Senders
  <2>3. task' = [task EXCEPT ![t] = Sending(call)] /\ UNCHANGED <<goal, at, off, last>>
    BY <1>9 DEF Acquire, deviceVars
  <2>4. last = None
    <3>1. task[t] # Idle
      BY <1>9 DEF Acquire, Idle
    <3> QED
      BY <1>2, <1>3, <3>1
  <2>5. Reaches(Sending(call))
    BY <2>1, CoverReaches DEF Positional
  <2> HIDE DEF call
  <2> QED
    BY <1>1, <2>1, <2>2, <2>3, <2>4, <2>5, BeginsSending
<1>10. ASSUME NEW t \in Tasks, task[t].stage = "sending", Senders' = Senders,
              \A u \in Tasks \ {t} : task'[u] = task[u],
              task'[t].intact => Reaches(task[t])', last' = last, t \in Callers
       PROVE  Sent'
  <2>1. t \in Senders /\ Senders = {t}
    BY <1>3, <1>10 DEF Senders
  <2>2. last = None
    BY <1>3, <1>4, <2>1
  <2> QED
    BY <1>1, <1>2, <1>3, <1>10, <2>1, <2>2 DEF Sent
<1>11. ASSUME NEW t \in Callers, Answered(t) PROVE Sent'
  <2>1. /\ task' = [task EXCEPT ![t].todo = Tail(task[t].todo)] /\ t \in Senders /\ task[t].todo # <<>>
        /\ Obey(Head(task[t].todo)) /\ last' = last /\ task[t].stage = "sending"
    BY <1>2, <1>11 DEF Answered, Typed, TasksTyped, Senders
  <2>2. /\ Senders' = Senders /\ \A u \in Tasks \ {t} : task'[u] = task[u]
        /\ task'[t].todo = Tail(task[t].todo) /\ task'[t].call = task[t].call /\ task'[t].meant = task[t].meant
        /\ task'[t].intact = task[t].intact
    BY <2>1, SenderIs, Intact
  <2>3. task'[t].intact => Reaches(task[t])'
    BY <1>1, <1>3, <2>1, <2>2, AnsweredReaches
  <2> QED
    BY <1>2, <1>10, <2>1, <2>2, <2>3
<1>12. ASSUME NEW t \in Callers, Fails(t) PROVE Sent'
  <2>1. /\ task' = [task EXCEPT ![t].todo = AfterFailure(task[t].todo), ![t].intact = FALSE] /\ t \in Senders
        /\ last' = last /\ task[t].stage = "sending"
    BY <1>2, <1>12 DEF Fails, Typed, TasksTyped, Senders
  <2>2. /\ Senders' = Senders /\ \A u \in Tasks \ {t} : task'[u] = task[u]
        /\ task'[t].intact = FALSE
    BY <2>1, SenderIs, Intact
  <2> QED
    BY <1>2, <1>10, <2>1, <2>2
<1>13. ASSUME NEW t \in Callers, Return(t) PROVE Sent'
  <2>1. /\ task' = [task EXCEPT ![t] = Idle] /\ t \in Senders /\ task[t].todo = <<>> /\ UNCHANGED <<goal, at, off>>
        /\ last' = IF task[t].intact /\ \A u \in Tasks \ {t} : task[u] = Idle
                   THEN [call |-> task[t].call, meant |-> task[t].meant] ELSE None
    BY <1>2, <1>13 DEF Return, deviceVars, Senders
  <2>2. \A u \in Tasks : task'[u] = IF u = t THEN Idle ELSE task[u]
    BY <2>1 DEF Typed, TasksTyped
  <2>3. Senders' = {}
    BY <1>3, <2>1, <2>2 DEF Senders, Idle
  <2>4. ASSUME last' # None PROVE Fulfilled(last)' /\ \A u \in Tasks : task'[u] = Idle
    <3>1. /\ task[t].intact /\ \A u \in Tasks \ {t} : task[u] = Idle
          /\ last' = [call |-> task[t].call, meant |-> task[t].meant]
      BY <2>1, <2>4
    <3>2. Fulfilled(last')
      BY <1>3, <2>1, <3>1, NothingLeft
    <3> QED
      BY <1>1, <2>1, <2>2, <3>1, <3>2, SameReach
  <2> QED
    BY <1>1, <1>2, <1>3, <2>2, <2>3, <2>4 DEF Sent
<1>14. ASSUME NEW f \in MovingFields, Move(f) PROVE Sent'
  <2>1. UNCHANGED <<goal, off, task, last>>
    BY <1>14 DEF Move, ghosts
  <2>2. Senders' = Senders
    BY <2>1 DEF Senders
  <2>3. \A t \in Senders : task'[t].intact => Reaches(task[t])'
    BY <1>1, <1>3, <2>1, MoveReaches
  <2>4. Fulfilled(last)' <=> Fulfilled(last)
    BY <1>1, <2>1 DEF Fulfilled, DoneAt, Calls
  <2> QED
    BY <1>1, <1>2, <1>3, <2>1, <2>2, <2>3, <2>4 DEF Sent
<1>15. CASE Report
  BY <1>5, <1>15 DEF Report, ghosts
<1>16. CASE Deliver
  BY <1>5, <1>16 DEF Deliver, deviceVars, ghosts
<1>17. CASE Forget
  BY <1>5, <1>17 DEF Forget, deviceVars, ghosts
<1>18. CASE Expire
  <2>1. CASE off = None
    BY <1>5, <1>18, <2>1 DEF Expire, deviceVars
  <2>2. CASE off # None
    <3>1. last' = None /\ task' = task /\ \A t \in Tasks : task[t] = Idle
      BY <1>18, <2>2 DEF Expire
    <3>2. Senders' = {}
      BY <1>4, <3>1 DEF Senders
    <3> QED
      BY <1>1, <1>2, <1>3, <3>1, <3>2 DEF Sent
  <2> QED
    BY <2>1, <2>2
<1>19. CASE UNCHANGED vars
  BY <1>5, <1>19 DEF vars
<1> QED
  BY <1>6, <1>7, <1>8, <1>9, <1>11, <1>12, <1>13, <1>14, <1>15, <1>16, <1>17, <1>18, <1>19 DEF Next

LEMMA SentDone == Sent => SentTakesEffect
<1> SUFFICES ASSUME Sent, last # None, Quiet
             PROVE  Done(last.call) /\ (kind \in LightKinds /\ last.call.op = "on" => off = last.meant)
  BY DEF SentTakesEffect
<1>1. Fulfilled(last) /\ at = goal
  BY DEF Sent, Quiet
<1> QED
  BY <1>1, DoneHere DEF Fulfilled

\* A call whose requests were all answered reaches its aim, if no other call follows it.
THEOREM SentReachesAim == Spec => []SentTakesEffect
<1>1. Init => Typed /\ Told /\ Steered /\ Shaped /\ Warmed /\ Sent
  BY TypedInit, ToldInit, SteeredInit, ShapedInit, WarmedInit, SentInit
<1>2. Typed /\ Told /\ Steered /\ Shaped /\ Warmed /\ Sent /\ [Next]_vars
        => Typed' /\ Told' /\ Steered' /\ Shaped' /\ Warmed' /\ Sent'
  BY TypedStep, ToldStep, SteeredStep, ShapedStep, WarmedStep, SentStep
<1>3. Sent => SentTakesEffect
  BY SentDone
<1> QED
  BY <1>1, <1>2, <1>3, PTL DEF Spec

=============================================================================
