--------------------------- MODULE CreationProofs ---------------------------
(***************************************************************************)
(* The data points of one device, for any device, profiles, lines and      *)
(* bounds: events reach the objects of the living device and no others, a  *)
(* line of the user takes effect, and of what is no field of a custom data *)
(* point exactly what the profiles list is shown.                          *)
(***************************************************************************)
EXTENDS Creation, FiniteSetTheorems, TLAPS

-----------------------------------------------------------------------------
(* The inductive invariant. *)

Types ==
    /\ device \in Devices
    /\ file \in SUBSET Lines[device] /\ raw \in {None} \cup SUBSET Lines[device]
    /\ points \in [Keys -> Attributes \cup {None}]
    /\ edits \in Nat

\* The cached description is the one of the backend, but for a MASTER parameter
\* without operations, which creation may have given some.
Cached == \A k \in Keys : ops[k] = D(k).ops \/ (D(k).ops = {} /\ ops[k] = {"R", "W"})

\* Without a process there is no device, without a device no data point.
Absent ==
    /\ raw = None => created = 0 /\ subs = [k \in {} |-> {}]
    /\ created = 0 => points = NoPoints /\ events = {}

\* A data point reports what its parameter reports: its subscription can be
\* found again when it goes.
Reporting == \A k \in Keys : points[k] # None /\ "E" \in D(k).ops => "E" \in points[k].ops

\* What the lines of the running process ask for was un-ignored at creation.
Granted ==
    Exists => \A line \in raw : \A k \in Asked(line) :
                CanBePoint(k) => points[k] # None /\ points[k].unIgnored

\* Of a device with custom data points, what creation forced on the generic
\* ones shows those that are listed.
Shows == {"CDP_VISIBLE", "DATA_POINT"}
Plainly(made, k) == made[k] # None /\ ~made[k].sensor
ShowsListed(usages, made, done) ==
    \A k \in Keys : Plainly(made, k) =>
      /\ usages[k] \in Shows \cup {None, "NO_CREATE"}
      /\ usages[k] \in Shows <=> k \in AllFound(made, done)
Forced ==
    Exists /\ HasCustomDefinition(Lists(raw)) => ShowsListed(forced, points, Listed)

IInv ==
    Types /\ Cached /\ Absent /\ Reporting /\ EventsReachTheLiving /\ Granted /\ Forced

-----------------------------------------------------------------------------
(* Visibility: a line of the user wins over the tables.                     *)

LEMMA StartsWithItself == ASSUME NEW m \in Seq(STRING) PROVE StartsWith(m, m)
BY DEF StartsWith

\* What the lines add to the tables, for a line that asks for the key.
LEMMA AskedUnIgnored ==
    ASSUME NEW lines, NEW line \in lines, device \in Devices,
           NEW k \in Asked(line), k[2] \in {"VALUES", "MASTER"}
    PROVE  CustomUnIgnored(Lists(lines), Model[device], k)
<1> DEFINE l == Lists(lines)  m == Model[device]
<1>1. CASE line.form = "plain"
  <2>1. Details(line) = line
    BY <1>1 DEF Details
  <2>2. line \in OfForm(lines, "plain")
    BY <1>1, <2>1 DEF OfForm
  <2>3. line.parameter \in l.plain
    BY <2>2 DEF Lists
  <2> QED
    BY <1>1, <2>3 DEF Asked, CustomUnIgnored
<1>2. CASE line.form = "entry"
  <2>1. /\ k[2] = line.paramset /\ k[3] = line.parameter
        /\ line.model \in {All, m} /\ line.channel \in {All, k[1]}
        /\ k[2] = "MASTER" => line.model # All /\ line.channel # All
    BY <1>2 DEF Asked
  <2>2. CASE line.model = All /\ line.channel = All /\ line.paramset = "VALUES"
    <3>1. Details(line) = Plain(line.parameter)
      BY <1>2, <2>2 DEF Details
    <3>2. Plain(line.parameter) \in OfForm(lines, "plain")
      BY <3>1 DEF OfForm, Plain
    <3>3. line.parameter \in l.plain
      BY <3>2 DEF Lists, Plain
    <3> QED
      BY <2>1, <2>2, <3>3 DEF CustomUnIgnored
  <2>3. CASE ~(line.model = All /\ line.channel = All /\ line.paramset = "VALUES")
    <3>1. Details(line) = line
      BY <1>2, <2>3 DEF Details
    <3>2. line \in Entries(lines)
      BY <1>2, <3>1 DEF Entries, OfForm
    <3>3. ~Refused(line)
      BY <2>1 DEF Refused
    <3>4. line \in l.entries
      BY <3>2, <3>3 DEF Lists
    <3>5. <<line.model, line.channel>> \in Places(m, k)
      <4>1. CASE k[2] = "VALUES"
        BY <2>1, <4>1 DEF Places
      <4>2. CASE k[2] = "MASTER"
        BY <2>1, <4>2 DEF Places
      <4> QED
        BY <4>1, <4>2
    <3> QED
      BY <2>1, <3>4, <3>5 DEF CustomUnIgnored
  <2> QED
    BY <2>2, <2>3
<1> QED
  BY <1>1, <1>2 DEF Asked

\* A line for a MASTER parameter is an entry that parameter_is_ignored finds.
LEMMA MasterEntry ==
    ASSUME NEW lines \in SUBSET Lines[device], NEW line \in lines, device \in Devices,
           NEW k \in Asked(line), k[2] = "MASTER"
    PROVE  /\ Entry(k[3], "MASTER", Model[device], k[1]) \in Lists(lines).entries
           /\ [model |-> Model[device], channels |-> {k[1]}] \in Lists(lines).masters
           /\ Model[device] # All
<1>1. /\ line.form = "entry" /\ k[2] = line.paramset /\ k[3] = line.parameter
      /\ line.model = Model[device] /\ line.model # All
      /\ line.channel = k[1] /\ line.channel # All
  BY DEF Asked
<1>2. line \in LineKinds
  BY LinesAssumption
<1>3. line \in [form : {"entry"}, parameter : STRING, paramset : STRING,
                model : Seq(STRING) \cup {All}, channel : Int \cup {None, All}]
  BY <1>1, <1>2 DEF LineKinds, Malformed
<1>4. line = Entry(k[3], "MASTER", Model[device], k[1])
  BY <1>1, <1>3 DEF Entry
<1>5. Details(line) = line /\ ~Refused(line)
  BY <1>1 DEF Details, Refused
<1>6. line \in Entries(lines)
  BY <1>1, <1>5 DEF Entries, OfForm
<1>7. line \in Lists(lines).entries
  BY <1>5, <1>6 DEF Lists
<1>8. [model |-> line.model, channels |-> {line.channel}] \in Lists(lines).masters
  BY <1>1, <1>6 DEF Lists
<1> QED
  BY <1>1, <1>4, <1>7, <1>8

LEMMA AskedConsidered ==
    ASSUME NEW lines \in SUBSET Lines[device], NEW line \in lines, device \in Devices,
           NEW k \in Asked(line), k[2] \in {"VALUES", "MASTER"}
    PROVE  k \in Considered(Lists(lines)) /\ UnIgnored(Lists(lines), Model[device], k)
<1> DEFINE l == Lists(lines)  m == Model[device]
<1>0. k \in Keys /\ m \in Seq(STRING)
  BY DescriptionsAssumption DEF Asked
<1>1. UnIgnored(l, m, k)
  BY AskedUnIgnored DEF UnIgnored, ListedUnIgnored
<1>2. CASE k[2] = "VALUES"
  <2>1. RelevantParamset(l, m, k[1], k[2])
    BY <1>2 DEF RelevantParamset
  <2>2. ~Ignored(l, m, k, Required)
    BY <1>1, <1>2 DEF Ignored
  <2> QED
    BY <1>0, <1>1, <1>2, <2>1, <2>2 DEF Considered
<1>3. CASE k[2] = "MASTER"
  <2>1. /\ Entry(k[3], "MASTER", m, k[1]) \in l.entries
        /\ [model |-> m, channels |-> {k[1]}] \in l.masters /\ m # All
    BY <1>3, MasterEntry
  <2>2. StartsWith(m, m)
    BY <1>0, StartsWithItself
  <2>3. RelevantParamset(l, m, k[1], k[2])
    <3> DEFINE r == [model |-> m, channels |-> {k[1]}]
    <3>1. r \in l.masters /\ k[1] \in r.channels /\ r.model # All /\ StartsWith(m, r.model)
      BY <2>1, <2>2
    <3> QED
      BY <1>3, <3>1 DEF RelevantParamset
  <2>4. ~Ignored(l, m, k, Required)
    BY <1>3, <2>1 DEF Ignored
  <2> QED
    BY <1>0, <1>1, <2>3, <2>4 DEF Considered
<1> QED
  BY <1>2, <1>3

-----------------------------------------------------------------------------
(* Creation of the device.                                                  *)

LEMMA SameDevice ==
    ASSUME device' = device
    PROVE  /\ Keys' = Keys /\ NoPoints' = NoPoints
           /\ \A k : D(k)' = D(k) /\ (CanBePoint(k)' <=> CanBePoint(k))
           /\ \A line : Asked(line)' = Asked(line)
BY DEF Keys, D, NoPoints, CanBePoint, Asked

\* What the tables say depends on the device only.
LEMMA SameCustom ==
    ASSUME device' = device
    PROVE  /\ HasCustomDefinition(Lists(raw))' <=> HasCustomDefinition(Lists(raw'))
           /\ \A l : HasCustomDefinition(l)' <=> HasCustomDefinition(l)
           /\ Listed' = Listed
           /\ ShowsListed(forced, points, Listed)' <=> ShowsListed(forced', points', Listed)
<1>1. Listed' = Listed
  BY DEF Listed, NoCustom
<1> QED
  BY <1>1, SameDevice DEF HasCustomDefinition, ShowsListed

\* A description as it is cached.
AsCached(known) == \A k \in Keys : known[k] = D(k).ops \/ (D(k).ops = {} /\ known[k] = {"R", "W"})

LEMMA PatchedIs ==
    ASSUME NEW known, AsCached(known), NEW l
    PROVE  /\ AsCached(Patched(l, known))
           /\ \A k \in Considered(l) : k[2] = "MASTER" => Patched(l, known)[k] # {}
BY DEF AsCached, Patched, Considered

LEMMA RawIs == AsCached(Raw)
BY DEF AsCached, Raw

LEMMA CachedOps ==
    ASSUME device \in Devices, NEW o, AsCached(o)
    PROVE  \A k \in Keys : o[k] \in SUBSET Operations
BY DescriptionsAssumption DEF AsCached, Keys, D, Operations

LEMMA GenericIs ==
    ASSUME device \in Devices, NEW o, AsCached(o), NEW l
    PROVE  /\ Generic(l, o) \in [Keys -> Attributes \cup {None}]
           /\ \A k \in Keys : Generic(l, o)[k] # None =>
                /\ Generic(l, o)[k].ops = o[k]
                /\ Generic(l, o)[k].unIgnored <=> CustomUnIgnored(l, Model[device], k)
           /\ \A k \in Keys : k \in Considered(l) /\ IsPoint(l, k, o[k]) => Generic(l, o)[k] # None
<1> DEFINE made(k) == [ops |-> o[k], sensor |-> SwitchToSensor(l, k),
                       unIgnored |-> CustomUnIgnored(l, Model[device], k)]
<1>1. \A k : SwitchToSensor(l, k) \in BOOLEAN
  BY DEF SwitchToSensor
<1>2. \A k : CustomUnIgnored(l, Model[device], k) \in BOOLEAN
  BY DEF CustomUnIgnored
<1>3. \A k \in Keys : made(k) \in Attributes
  BY <1>1, <1>2, CachedOps DEF Attributes
<1>4. \A k \in Keys : made(k) # None
  BY <1>3, NoneAssumption
<1>5. \A k \in Keys : made(k).ops = o[k] /\ made(k).unIgnored = CustomUnIgnored(l, Model[device], k)
  OBVIOUS
<1>6. Generic(l, o) =
        [k \in Keys |-> IF k \in Considered(l) /\ IsPoint(l, k, o[k]) THEN made(k) ELSE None]
  BY DEF Generic
<1> HIDE DEF made
<1>7. Generic(l, o) \in [Keys -> Attributes \cup {None}]
  BY <1>3, <1>6
<1>8. \A k \in Keys : Generic(l, o)[k] = made(k) \/ Generic(l, o)[k] = None
  BY <1>6
<1>9. \A k \in Keys : k \in Considered(l) /\ IsPoint(l, k, o[k]) => Generic(l, o)[k] = made(k)
  BY <1>6
<1> QED
  BY <1>4, <1>5, <1>7, <1>8, <1>9

\* What a line asks for and can be a data point becomes one.
LEMMA LineCreates ==
    ASSUME device \in Devices, NEW lines \in SUBSET Lines[device], NEW line \in lines,
           NEW known, AsCached(known), NEW k \in Asked(line), CanBePoint(k)
    PROVE  LET l == Lists(lines) IN
           /\ Generic(l, Patched(l, known))[k] # None
           /\ Generic(l, Patched(l, known))[k].unIgnored
<1> DEFINE l == Lists(lines)  o == Patched(l, known)
<1>1. k[2] \in {"VALUES", "MASTER"} /\ k \in Keys
  BY DEF CanBePoint, Asked
<1>2. k \in Considered(l) /\ UnIgnored(l, Model[device], k)
  BY <1>1, AskedConsidered
<1>3. CustomUnIgnored(l, Model[device], k)
  BY <1>1, AskedUnIgnored
<1>4. AsCached(o) /\ (k[2] = "MASTER" => o[k] # {})
  BY <1>2, PatchedIs
<1>5. {"E", "W"} \cap o[k] # {} /\ (k[3] \in ClickEvents => "W" \in o[k])
  <2>1. CASE {"E", "W"} \cap D(k).ops # {} /\ (k[3] \in ClickEvents => "W" \in D(k).ops)
    <3>1. o[k] = D(k).ops
      BY <1>1, <1>4, <2>1 DEF AsCached
    <3> QED
      BY <2>1, <3>1
  <2>2. CASE k[2] = "MASTER" /\ D(k).ops = {}
    <3>1. o[k] = {"R", "W"}
      BY <1>1, <1>4, <2>2 DEF AsCached
    <3> QED
      BY <3>1
  <2> QED
    BY <2>1, <2>2 DEF CanBePoint
<1>6. IsPoint(l, k, o[k])
  BY <1>2, <1>5 DEF IsPoint, CanBePoint
<1> HIDE DEF l, o
<1>7. /\ Generic(l, o)[k] # None
      /\ Generic(l, o)[k].unIgnored <=> CustomUnIgnored(l, Model[device], k)
  BY <1>1, <1>2, <1>4, <1>6, GenericIs
<1> QED
  BY <1>3, <1>7 DEF l, o

\* Who gets the events of a key.
Living(k, pts, evs, number) ==
    (IF pts[k] # None THEN {<<"point", number>>} ELSE {})
    \cup (IF k \in evs THEN {<<"event", number>>} ELSE {})

LEMMA SubscribedIs ==
    ASSUME NEW pts, NEW evs, NEW number, device' = device, subs' = Subscribed(pts, evs, number),
           NEW k \in Keys, pts[k] # None => "E" \in pts[k].ops
    PROVE  Handlers(k)' = Handlers(k) \cup Living(k, pts, evs, number)
<1> DEFINE of(x) == (IF pts[x] # None /\ {"R", "E"} \cap pts[x].ops # {}
                     THEN {<<"point", number>>} ELSE {})
                    \cup (IF x \in evs THEN {<<"event", number>>} ELSE {})
<1>1. subs' = [x \in {y \in Keys : Handlers(y) \cup of(y) # {}} |-> Handlers(x) \cup of(x)]
  BY DEF Subscribed
<1>2. of(k) = Living(k, pts, evs, number)
  BY DEF Living
<1> HIDE DEF of
<1>3. CASE Handlers(k) \cup of(k) # {}
  <2>1. k \in DOMAIN subs' /\ subs'[k] = Handlers(k) \cup of(k)
    BY <1>1, <1>3
  <2> QED
    BY <1>2, <2>1 DEF Handlers
<1>4. CASE Handlers(k) \cup of(k) = {}
  <2>1. k \notin DOMAIN subs'
    BY <1>1, <1>4
  <2> QED
    BY <1>2, <1>4, <2>1 DEF Handlers
<1> QED
  BY <1>3, <1>4

LEMMA LeftIs ==
    ASSUME subs' = LeftHandlers, NEW k \in Keys,
           k \in events \/ (points[k] # None /\ "E" \in points[k].ops) \/ Handlers(k) = {}
    PROVE  Handlers(k)' = {}
<1> DEFINE gone == {x \in Keys : x \in events \/ (points[x] # None /\ "E" \in points[x].ops)}
<1>1. subs' = [x \in DOMAIN subs \ gone |-> subs[x]]
  BY DEF LeftHandlers
<1>2. CASE k \in gone
  <2>1. k \notin DOMAIN subs'
    BY <1>1, <1>2
  <2> QED
    BY <2>1 DEF Handlers
<1>3. CASE k \notin gone
  <2>1. Handlers(k) = {}
    BY <1>3
  <2>2. k \in DOMAIN subs' => k \in DOMAIN subs /\ subs'[k] = subs[k]
    BY <1>1
  <2> QED
    BY <2>1, <2>2 DEF Handlers
<1> QED
  BY <1>2, <1>3

-----------------------------------------------------------------------------
(* Induction over the natural numbers, as a fact about sets: the library's  *)
(* well-founded order of finite sets gives every set of numbers a least     *)
(* element.                                                                 *)

LEMMA LeastNumber ==
    ASSUME NEW S \in SUBSET Nat, S # {}
    PROVE  \E m \in S : \A n \in S : m <= n
<1> DEFINE T == {0..n : n \in S}
<1>1. T \subseteq FiniteSubsetsOf(Nat) /\ T # {}
  <2>1. \A n \in S : 0..n \in SUBSET Nat /\ IsFiniteSet(0..n)
    BY FS_Interval
  <2> QED
    BY <2>1 DEF FiniteSubsetsOf
<1> HIDE DEF T
<1>2. IsWellFoundedOn(StrictSubsetOrdering(Nat), FiniteSubsetsOf(Nat))
  BY FS_StrictSubsetOrderingWellFounded
<1>3. PICK X \in T : \A Y \in T : ~(<<Y, X>> \in StrictSubsetOrdering(Nat))
  BY <1>1, <1>2, WFMin
<1>4. PICK m \in S : X = 0..m
  BY DEF T
<1>5. ASSUME NEW n \in S PROVE m <= n
  <2>1. SUFFICES ASSUME n < m PROVE FALSE
    OBVIOUS
  <2>2. 0..n \in T /\ 0..n \in SUBSET Nat /\ X \in SUBSET Nat
    BY <1>4 DEF T
  <2>3. 0..n \subseteq X /\ m \in X /\ m \notin 0..n
    BY <1>4, <2>1
  <2>4. <<0..n, X>> \in StrictSubsetOrdering(Nat)
    BY <2>2, <2>3 DEF StrictSubsetOrdering
  <2> QED
    BY <1>3, <2>2, <2>4
<1> QED
  BY <1>5

LEMMA Induction ==
    ASSUME NEW S, 0 \in S, \A n \in Nat : n \in S => n + 1 \in S
    PROVE  \A n \in Nat : n \in S
<1> DEFINE Missing == Nat \ S
<1>1. SUFFICES ASSUME Missing # {} PROVE FALSE
  OBVIOUS
<1>2. PICK m \in Missing : \A n \in Missing : m <= n
  BY <1>1, LeastNumber
<1>3. m # 0 /\ m - 1 \in Nat /\ m - 1 \notin Missing
  BY <1>2
<1>4. (m - 1) + 1 \in S
  BY <1>3
<1> QED
  BY <1>2, <1>4

-----------------------------------------------------------------------------
(* What the profiles force on the generic data points: the two loops of     *)
(* create_custom_data_points as the functions they compute.                 *)

Chs == Channels[device]
Cfs == Configs[device]

OneChannel(acc, start, made, config, n) ==
    IF n = 0 THEN start ELSE MakeCustom(acc[n - 1], made, config, Chs[n])
OneConfig(acc, start, made, n) ==
    IF n = 0 THEN start ELSE OfChannels(acc[n - 1], made, Cfs[n])

LEMMA ChannelsFold ==
    ASSUME NEW start, NEW made, NEW config, NEW m \in Nat
    PROVE  \E acc : acc = [n \in 0..m |-> OneChannel(acc, start, made, config, n)]
<1> DEFINE S == {k \in Nat :
                  \E acc : acc = [n \in 0..k |-> OneChannel(acc, start, made, config, n)]}
<1>1. 0 \in S
  <2> DEFINE f == [n \in 0..0 |-> start]
  <2>1. f = [n \in 0..0 |-> OneChannel(f, start, made, config, n)]
    BY DEF OneChannel
  <2> QED
    BY <2>1
<1>2. ASSUME NEW k \in Nat, k \in S PROVE k + 1 \in S
  <2>1. PICK f : f = [n \in 0..k |-> OneChannel(f, start, made, config, n)]
    BY <1>2
  <2> DEFINE last == OneChannel(f, start, made, config, k + 1)
             g == [n \in 0..(k + 1) |-> IF n = k + 1 THEN last ELSE f[n]]
             h == [n \in 0..(k + 1) |-> OneChannel(g, start, made, config, n)]
  <2>2. \A n \in 0..k : g[n] = f[n] /\ f[n] = OneChannel(f, start, made, config, n)
    BY <2>1
  <2>3. ASSUME NEW n \in 0..(k + 1)
        PROVE  OneChannel(g, start, made, config, n) = OneChannel(f, start, made, config, n)
    <3>1. CASE n = 0
      BY <3>1 DEF OneChannel
    <3>2. CASE n # 0
      <4>1. n - 1 \in 0..k
        BY <3>2
      <4>2. g[n - 1] = f[n - 1]
        BY <2>2, <4>1
      <4> HIDE DEF g
      <4> QED
        BY <4>2 DEF OneChannel
    <3> QED
      BY <3>1, <3>2
  <2>4. ASSUME NEW n \in 0..(k + 1) PROVE g[n] = h[n]
    <3>1. h[n] = OneChannel(f, start, made, config, n)
      BY <2>3
    <3>2. n = k + 1 \/ n \in 0..k
      OBVIOUS
    <3> QED
      BY <2>2, <3>1, <3>2
  <2>5. DOMAIN g = 0..(k + 1) /\ g = [n \in DOMAIN g |-> g[n]]
        /\ DOMAIN h = 0..(k + 1) /\ h = [n \in DOMAIN h |-> h[n]]
    OBVIOUS
  <2>6. g = h
    <3> HIDE DEF g, h
    <3> QED
      BY <2>4, <2>5
  <2>7. \E x : x = [n \in 0..(k + 1) |-> OneChannel(x, start, made, config, n)]
    BY <2>6
  <2> QED
    BY <2>7
<1> HIDE DEF S
<1>3. m \in S
  BY <1>1, <1>2, Induction
<1> QED
  BY <1>3 DEF S

LEMMA ConfigsFold ==
    ASSUME NEW start, NEW made, NEW m \in Nat
    PROVE  \E acc : acc = [n \in 0..m |-> OneConfig(acc, start, made, n)]
<1> DEFINE S == {k \in Nat :
                  \E acc : acc = [n \in 0..k |-> OneConfig(acc, start, made, n)]}
<1>1. 0 \in S
  <2> DEFINE f == [n \in 0..0 |-> start]
  <2>1. f = [n \in 0..0 |-> OneConfig(f, start, made, n)]
    BY DEF OneConfig
  <2> QED
    BY <2>1
<1>2. ASSUME NEW k \in Nat, k \in S PROVE k + 1 \in S
  <2>1. PICK f : f = [n \in 0..k |-> OneConfig(f, start, made, n)]
    BY <1>2
  <2> DEFINE last == OneConfig(f, start, made, k + 1)
             g == [n \in 0..(k + 1) |-> IF n = k + 1 THEN last ELSE f[n]]
             h == [n \in 0..(k + 1) |-> OneConfig(g, start, made, n)]
  <2>2. \A n \in 0..k : g[n] = f[n] /\ f[n] = OneConfig(f, start, made, n)
    BY <2>1
  <2>3. ASSUME NEW n \in 0..(k + 1)
        PROVE  OneConfig(g, start, made, n) = OneConfig(f, start, made, n)
    <3>1. CASE n = 0
      BY <3>1 DEF OneConfig
    <3>2. CASE n # 0
      <4>1. n - 1 \in 0..k
        BY <3>2
      <4>2. g[n - 1] = f[n - 1]
        BY <2>2, <4>1
      <4> HIDE DEF g
      <4> QED
        BY <4>2 DEF OneConfig
    <3> QED
      BY <3>1, <3>2
  <2>4. ASSUME NEW n \in 0..(k + 1) PROVE g[n] = h[n]
    <3>1. h[n] = OneConfig(f, start, made, n)
      BY <2>3
    <3>2. n = k + 1 \/ n \in 0..k
      OBVIOUS
    <3> QED
      BY <2>2, <3>1, <3>2
  <2>5. DOMAIN g = 0..(k + 1) /\ g = [n \in DOMAIN g |-> g[n]]
        /\ DOMAIN h = 0..(k + 1) /\ h = [n \in DOMAIN h |-> h[n]]
    OBVIOUS
  <2>6. g = h
    <3> HIDE DEF g, h
    <3> QED
      BY <2>4, <2>5
  <2>7. \E x : x = [n \in 0..(k + 1) |-> OneConfig(x, start, made, n)]
    BY <2>6
  <2> QED
    BY <2>7
<1> HIDE DEF S
<1>3. m \in S
  BY <1>1, <1>2, Induction
<1> QED
  BY <1>3 DEF S

-----------------------------------------------------------------------------
(* What one custom data point lists, hides and forces.                      *)

TheConfigs == {Cfs[i] : i \in DOMAIN Cfs}
Pairs(fields) == \A f \in fields : f = <<f[1], f[2]>>

LEMMA FoundPair ==
    ASSUME NEW made, NEW fields, Pairs(fields), NEW k
    PROVE  /\ k \in AllFound(made, fields) => <<k[1], k[3]>> \in fields
           /\ \A more : k \in AllFound(made, fields) /\ <<k[1], k[3]>> \in more
                          => k \in AllFound(made, more)
<1>1. ASSUME k \in AllFound(made, fields) PROVE <<k[1], k[3]>> \in fields /\ k \in Found(made, k[1], k[3])
  <2>1. PICK f \in fields : k \in Found(made, f[1], f[2])
    BY <1>1 DEF AllFound
  <2>2. k[1] = f[1] /\ k[3] = f[2] /\ f = <<f[1], f[2]>>
    BY <2>1 DEF Found, Pairs
  <2> QED
    BY <2>1, <2>2
<1>2. ASSUME NEW more, k \in Found(made, k[1], k[3]), <<k[1], k[3]>> \in more
      PROVE  k \in AllFound(made, more)
  <2> DEFINE f == <<k[1], k[3]>>
  <2>1. f \in more /\ k \in Found(made, f[1], f[2])
    BY <1>2
  <2> QED
    BY <2>1 DEF AllFound
<1> QED
  BY <1>1, <1>2

LEMMA FoundUnion ==
    ASSUME NEW made, NEW A, NEW B
    PROVE  AllFound(made, A \cup B) = AllFound(made, A) \cup AllFound(made, B)
BY DEF AllFound

LEMMA ConfigTypes ==
    ASSUME device \in Devices
    PROVE  /\ TheConfigs \subseteq ConfigType /\ Defaults \subseteq Fields
           /\ Len(Chs) \in Nat /\ DOMAIN Chs = 1..Len(Chs)
           /\ Len(Cfs) \in Nat /\ DOMAIN Cfs = 1..Len(Cfs)
<1>1. Chs \in Seq(Int \cup {None}) /\ Cfs \in Seq(ConfigType) /\ Defaults \subseteq Fields
  BY TablesAssumption DEF Chs, Cfs
<1> HIDE DEF Chs, Cfs
<1>2. \A i \in DOMAIN Cfs : Cfs[i] \in ConfigType
  BY <1>1
<1> QED
  BY <1>1, <1>2 DEF TheConfigs

\* of a configuration, what the arithmetic on channels needs
LEMMA ConfigIs ==
    ASSUME NEW config \in ConfigType
    PROVE  /\ config.profile.primary \in Int \cup {None} /\ config.profile.secondary \subseteq Int
           /\ config.channels \subseteq Int \cup {None}
           /\ config.additional \subseteq Fields
           /\ config.profile.visible \subseteq Fields /\ config.profile.additional \subseteq Fields
BY DEF ConfigType

LEMMA ListsRebased ==
    ASSUME NEW config, NEW channel
    PROVE  LET p == config.profile
               groups == {c \in config.channels : channel \in Group(config, c)}
           IN  ListedAt(config, channel) =
                 config.additional \cup (IF p.defaults THEN Defaults ELSE {})
                 \cup Repeated(channel, p.visibleRepeatable)
                 \cup UNION {Rebased(p.visible \cup p.additional, Shift(c, p.primary)) : c \in groups}
BY DEF ListedAt, Rebased

LEMMA ListedPairs ==
    ASSUME NEW config \in ConfigType, Defaults \subseteq Fields, NEW channel
    PROVE  Pairs(ListedAt(config, channel))
<1>1. Pairs(config.additional) /\ Pairs(Defaults)
  BY ConfigIs DEF Pairs, Fields
<1>2. Pairs(Repeated(channel, config.profile.visibleRepeatable))
  BY DEF Pairs, Repeated
<1>3. \A fields, base : Pairs({<<Counted(f[1], base), f[2]>> : f \in fields})
  BY DEF Pairs
<1> QED
  BY <1>1, <1>2, <1>3 DEF ListedAt, Pairs

LEMMA ShiftIs ==
    ASSUME NEW a \in Int \cup {None}, NEW b \in Int \cup {None}
    PROVE  /\ Shift(a, b) = Shift(b, a) /\ (Shift(a, b) = None <=> a = None \/ b = None)
           /\ a # None /\ b # None => Shift(a, b) = a + b /\ Shift(a, b) \in Int
BY NoneAssumption DEF Shift

\* The sub-device groups of all configurations: each channel has one base.
Bases ==
    {b \in Int \X Int :
       \E config \in TheConfigs : \E c \in config.channels \ {None} :
         /\ config.profile.primary # None
         /\ b[1] \in Group(config, c) /\ b[2] = Shift(c, config.profile.primary)}

LEMMA OneBase ==
    ASSUME device \in Devices, NEW b \in Bases, NEW e \in Bases, b[1] = e[1]
    PROVE  b[2] = e[2]
<1>1. PICK A \in TheConfigs : \E c \in A.channels \ {None} :
        b[1] \in Group(A, c) /\ b[2] = Shift(c, A.profile.primary)
  BY DEF Bases
<1>2. PICK B \in TheConfigs : \E d \in B.channels \ {None} :
        e[1] \in Group(B, d) /\ e[2] = Shift(d, B.profile.primary)
  BY DEF Bases
<1>3. b[1] # None
  BY NoneAssumption DEF Bases
<1>4. \A a \in A.channels \ {None}, x \in B.channels \ {None} :
        Group(A, a) \cap Group(B, x) \subseteq {None}
        \/ Shift(a, A.profile.primary) = Shift(x, B.profile.primary)
  BY GroupsAssumption DEF TheConfigs, Cfs
<1> QED
  BY <1>1, <1>2, <1>3, <1>4

LEMMA SubDevicesIs ==
    ASSUME device \in Devices, NEW config \in TheConfigs, NEW base \in SUBSET Bases
    PROVE  SubDevices(base, config) \in SUBSET Bases
<1> DEFINE primary == config.profile.primary
           secondary == config.profile.secondary
           new == {<<c + o, c + primary>> : o \in secondary \cup {primary},
                                            c \in config.channels \ {None}}
<1>1. /\ primary \in Int \cup {None} /\ secondary \subseteq Int
      /\ config.channels \subseteq Int \cup {None}
  BY ConfigTypes, ConfigIs
<1>2. CASE primary = None
  BY <1>2 DEF SubDevices
<1>3. CASE primary # None
  <2>1. ASSUME NEW o \in secondary \cup {primary}, NEW c \in config.channels \ {None}
        PROVE  <<c + o, c + primary>> \in Bases
    <3> DEFINE b == <<c + o, c + primary>>
    <3>1. /\ c + o \in Int /\ c + primary \in Int
          /\ Shift(c, o) = c + o /\ Shift(c, primary) = c + primary
      BY <1>1, <1>3, NoneAssumption DEF Shift
    <3>2. c + o \in Group(config, c)
      BY <3>1 DEF Group
    <3>3. b \in Int \X Int /\ b[1] \in Group(config, c) /\ b[2] = Shift(c, primary)
      BY <3>1, <3>2
    <3> QED
      BY <1>3, <3>3 DEF Bases
  <2>2. new \subseteq Bases
    BY <2>1
  <2>3. SubDevices(base, config) \subseteq base \cup new
    BY <1>3 DEF SubDevices
  <2> QED
    BY <2>2, <2>3
<1> QED
  BY <1>2, <1>3

\* The channels of a group when they are looked at.
LEMMA BaseIs ==
    ASSUME device \in Devices, NEW config \in TheConfigs, NEW base \in SUBSET Bases,
           NEW channel \in RelevantChannels(config)
    PROVE  /\ \E c \in config.channels : channel \in Group(config, c)
           /\ \A c \in config.channels : channel \in Group(config, c) =>
                BaseOf(SubDevices(base, config), channel) = Shift(c, config.profile.primary)
<1> DEFINE primary == config.profile.primary
           secondary == config.profile.secondary
           sub == SubDevices(base, config)
<1>1. /\ primary \in Int \cup {None} /\ secondary \subseteq Int
      /\ config.channels \subseteq Int \cup {None}
  BY ConfigTypes, ConfigIs
<1>2. primary = None => secondary = {}
  BY GroupsAssumption DEF TheConfigs, Cfs
<1>3. \E c \in config.channels : channel \in Group(config, c)
  <2>1. PICK d \in {primary} \cup secondary, c \in config.channels : channel = Shift(d, c)
    BY DEF RelevantChannels
  <2>2. channel = Shift(c, d)
    BY <1>1, <2>1, ShiftIs
  <2> QED
    BY <2>1, <2>2 DEF Group
<1>4. ASSUME NEW c \in config.channels, channel \in Group(config, c)
      PROVE  BaseOf(sub, channel) = Shift(c, primary)
  <2>1. PICK o \in {primary} \cup secondary : channel = Shift(c, o)
    BY <1>4 DEF Group
  <2>2. sub \subseteq Bases
    BY SubDevicesIs
  <2>3. CASE primary = None \/ c = None
    <3>1. channel = None /\ Shift(c, primary) = None
      BY <1>1, <1>2, <2>1, <2>3, ShiftIs
    <3>2. ~\E b \in sub : b[1] = None
      BY <2>2, NoneAssumption DEF Bases
    <3> QED
      BY <3>1, <3>2 DEF BaseOf
  <2>4. CASE primary # None /\ c # None
    <3>0. c \in Int /\ primary \in Int /\ o \in Int
      BY <1>1, <2>1, <2>4
    <3>1. channel = c + o /\ Shift(c, primary) = c + primary
      BY <2>1, <3>0, NoneAssumption DEF Shift
    <3> DEFINE pair == <<channel, Shift(c, primary)>>
    <3>2. pair \in Bases
      BY <1>4, <2>4, <3>0, <3>1 DEF Bases
    <3>3. \E b \in sub : b[1] = channel
      <4> DEFINE added == {<<x + y, x + primary>> : y \in secondary \cup {primary},
                                                    x \in config.channels \ {None}}
      <4>1. pair \in added
        <5>1. pair = <<c + o, c + primary>>
          BY <3>1
        <5> QED
          BY <2>1, <2>4, <5>1
      <4>2. sub = base \cup {n \in added : ~\E b \in base : b[1] = n[1]}
        <5>1. sub = IF primary = None THEN base
                    ELSE base \cup {n \in added : ~\E b \in base : b[1] = n[1]}
          BY DEF SubDevices
        <5> QED
          BY <2>4, <5>1
      <4> HIDE DEF added, sub
      <4>3. pair[1] = channel
        OBVIOUS
      <4>4. CASE \E b \in base : b[1] = channel
        BY <4>2, <4>4
      <4>5. CASE ~\E b \in base : b[1] = channel
        BY <4>1, <4>2, <4>3, <4>5
      <4> QED
        BY <4>4, <4>5
    <3>4. PICK b \in sub : b[1] = channel /\ BaseOf(sub, channel) = b[2]
      BY <3>3 DEF BaseOf
    <3>5. b[2] = pair[2]
      BY <2>2, <3>2, <3>4, OneBase
    <3> QED
      BY <3>4, <3>5
  <2> QED
    BY <2>3, <2>4
<1> QED
  BY <1>3, <1>4

-----------------------------------------------------------------------------
(* The usages after some channels were taken in: of a parameter that is no  *)
(* sensor, shown exactly if one of them lists it.                           *)

Ever ==
    UNION {UNION {ListedAt(config, c) : c \in RelevantChannels(config)} : config \in TheConfigs}

Good(acc, made, done) ==
    /\ DOMAIN acc = {"base", "forced", "custom"}
    /\ acc.base \in SUBSET Bases
    /\ DOMAIN acc.forced = Keys
    /\ ShowsListed(acc.forced, made, done)

LEMMA NotShowing == None \notin Shows /\ "NO_CREATE" \notin Shows
BY NoneAssumption DEF Shows

LEMMA ForceIs ==
    ASSUME NEW usages, NEW keys, NEW usage, DOMAIN usages = Keys
    PROVE  /\ DOMAIN ForceUsage(usages, keys, usage) = Keys
           /\ \A k \in Keys : ForceUsage(usages, keys, usage)[k] = IF k \in keys THEN usage ELSE usages[k]
BY DEF ForceUsage

\* A channel of a group lists the fields counted from the base of the group.
LEMMA ListedAtIs ==
    ASSUME NEW config, NEW channel, NEW base,
           \E c \in config.channels : channel \in Group(config, c),
           \A c \in config.channels :
             channel \in Group(config, c) => base = Shift(c, config.profile.primary)
    PROVE  ListedAt(config, channel) =
             config.additional \cup Repeated(channel, config.profile.visibleRepeatable)
             \cup Rebased(config.profile.visible, base)
             \cup (Rebased(config.profile.additional, base)
                   \cup (IF config.profile.defaults THEN Defaults ELSE {}))
<1> DEFINE p == config.profile
           groups == {c \in config.channels : channel \in Group(config, c)}
           fields == Rebased(p.visible \cup p.additional, base)
<1>1. UNION {Rebased(p.visible \cup p.additional, Shift(c, p.primary)) : c \in groups} = fields
  <2>1. groups # {}
    OBVIOUS
  <2>2. \A c \in groups : Rebased(p.visible \cup p.additional, Shift(c, p.primary)) = fields
    OBVIOUS
  <2> HIDE DEF groups, fields
  <2> QED
    BY <2>1, <2>2
<1>2. fields = Rebased(p.visible, base) \cup Rebased(p.additional, base)
  BY DEF Rebased
<1> QED
  BY <1>1, <1>2, ListsRebased

\* One custom data point: what it hides and another lists it lists itself.
LEMMA InitIs ==
    ASSUME device \in Devices, NEW config \in TheConfigs, NEW channel \in RelevantChannels(config),
           NEW base, NEW made, NEW usages, DOMAIN usages = Keys, NEW done \in SUBSET Ever,
           ShowsListed(usages, made, done),
           \E c \in config.channels : channel \in Group(config, c),
           \A c \in config.channels :
             channel \in Group(config, c) => base = Shift(c, config.profile.primary)
    PROVE  LET after == InitDataPoints(made, usages, config, channel, base).forced IN
           /\ DOMAIN after = Keys
           /\ ShowsListed(after, made, done \cup ListedAt(config, channel))
<1> DEFINE p == config.profile
           hidden == AllFound(made, Repeated(channel, p.repeatable))
           visible == AllFound(made, Repeated(channel, p.visibleRepeatable))
           shown == AllFound(made, Rebased(p.visible, base))
           additional == AllFound(made, config.additional)
           marked == AllFound(made, Rebased(p.additional, base)
                                    \cup (IF p.defaults THEN Defaults ELSE {}))
           first == ForceUsage(usages, Switches(made, hidden), "NO_CREATE")
           second == ForceUsage(first, Switches(made, visible), "CDP_VISIBLE")
           third == ForceUsage(second, additional, "DATA_POINT")
           fourth == ForceUsage(third, Switches(made, shown), "CDP_VISIBLE")
           after == ForceUsage(fourth, marked, "DATA_POINT")
<1>1. InitDataPoints(made, usages, config, channel, base).forced = after
  BY DEF InitDataPoints
<1>2. AllFound(made, ListedAt(config, channel)) = additional \cup visible \cup shown \cup marked
  <2>1. ListedAt(config, channel) =
          config.additional \cup Repeated(channel, p.visibleRepeatable)
          \cup Rebased(p.visible, base)
          \cup (Rebased(p.additional, base) \cup (IF p.defaults THEN Defaults ELSE {}))
    BY ListedAtIs
  <2> DEFINE A == config.additional
             B == Repeated(channel, p.visibleRepeatable)
             C == Rebased(p.visible, base)
             E == Rebased(p.additional, base) \cup (IF p.defaults THEN Defaults ELSE {})
  <2> HIDE DEF A, B, C, E
  <2>2. AllFound(made, A \cup B \cup C \cup E)
          = AllFound(made, A) \cup AllFound(made, B) \cup AllFound(made, C) \cup AllFound(made, E)
    <3>1. AllFound(made, (A \cup B \cup C) \cup E)
            = AllFound(made, (A \cup B) \cup C) \cup AllFound(made, E)
      BY FoundUnion
    <3>2. AllFound(made, (A \cup B) \cup C) = AllFound(made, A \cup B) \cup AllFound(made, C)
      BY FoundUnion
    <3>3. AllFound(made, A \cup B) = AllFound(made, A) \cup AllFound(made, B)
      BY FoundUnion
    <3> QED
      BY <3>1, <3>2, <3>3
  <2>3. ListedAt(config, channel) = A \cup B \cup C \cup E
    BY <2>1 DEF A, B, C, E
  <2>4. AllFound(made, B) = visible /\ AllFound(made, A) = additional
        /\ AllFound(made, C) = shown /\ AllFound(made, E) = marked
    BY DEF A, B, C, E
  <2> HIDE DEF visible, additional, shown, marked
  <2> QED
    BY <2>2, <2>3, <2>4
<1>3. ASSUME NEW k \in hidden, k \in AllFound(made, done)
      PROVE  k \in AllFound(made, ListedAt(config, channel))
  <2>1. Pairs(Repeated(channel, p.repeatable))
    BY DEF Pairs, Repeated
  <2>2. Pairs(done)
    <3>1. \A b \in TheConfigs : \A e : Pairs(ListedAt(b, e))
      BY ConfigTypes, ListedPairs
    <3> QED
      BY <3>1 DEF Ever, Pairs
  <2>3. <<k[1], k[3]>> \in Repeated(channel, p.repeatable)
    BY <2>1, FoundPair
  <2>4. <<k[1], k[3]>> \in done
    BY <1>3, <2>2, FoundPair
  <2>5. PICK b \in TheConfigs : \E e \in RelevantChannels(b) : <<k[1], k[3]>> \in ListedAt(b, e)
    BY <2>4 DEF Ever
  <2>6. \A e \in RelevantChannels(b) :
          Repeated(channel, p.repeatable) \cap ListedAt(b, e) \subseteq ListedAt(config, channel)
    BY HidingAssumption DEF TheConfigs, Cfs
  <2>7. <<k[1], k[3]>> \in ListedAt(config, channel)
    BY <2>3, <2>5, <2>6
  <2> QED
    BY <1>3, <2>2, <2>7, FoundPair
<1>4. AllFound(made, done \cup ListedAt(config, channel))
        = AllFound(made, done) \cup AllFound(made, ListedAt(config, channel))
  BY FoundUnion
<1> HIDE DEF hidden, visible, shown, additional, marked
<1>5. DOMAIN first = Keys /\ DOMAIN second = Keys /\ DOMAIN third = Keys /\ DOMAIN fourth = Keys
      /\ DOMAIN after = Keys
  BY DEF ForceUsage
<1>6. ASSUME NEW k \in Keys, Plainly(made, k)
      PROVE  after[k] = IF k \in marked THEN "DATA_POINT" ELSE IF k \in shown THEN "CDP_VISIBLE"
                         ELSE IF k \in additional THEN "DATA_POINT"
                         ELSE IF k \in visible THEN "CDP_VISIBLE"
                         ELSE IF k \in hidden THEN "NO_CREATE" ELSE usages[k]
  <2>1. \A keys : k \in Switches(made, keys) <=> k \in keys
    BY <1>6 DEF Switches, Plainly
  <2>2. first[k] = IF k \in hidden THEN "NO_CREATE" ELSE usages[k]
    BY <2>1 DEF ForceUsage
  <2>3. second[k] = IF k \in visible THEN "CDP_VISIBLE" ELSE first[k]
    BY <1>5, <2>1, ForceIs
  <2>4. third[k] = IF k \in additional THEN "DATA_POINT" ELSE second[k]
    BY <1>5, ForceIs
  <2>5. fourth[k] = IF k \in shown THEN "CDP_VISIBLE" ELSE third[k]
    BY <1>5, <2>1, ForceIs
  <2>6. after[k] = IF k \in marked THEN "DATA_POINT" ELSE fourth[k]
    BY <1>5, ForceIs
  <2> HIDE DEF first, second, third, fourth, after
  <2> QED
    BY <2>2, <2>3, <2>4, <2>5, <2>6
<1> HIDE DEF after
<1>7. ShowsListed(after, made, done \cup ListedAt(config, channel))
  <2> SUFFICES ASSUME NEW k \in Keys, Plainly(made, k)
               PROVE  /\ after[k] \in Shows \cup {None, "NO_CREATE"}
                      /\ after[k] \in Shows
                           <=> k \in AllFound(made, done \cup ListedAt(config, channel))
    BY DEF ShowsListed
  <2>1. /\ usages[k] \in Shows \cup {None, "NO_CREATE"}
        /\ usages[k] \in Shows <=> k \in AllFound(made, done)
    BY DEF ShowsListed
  <2>2. None \notin Shows /\ "NO_CREATE" \notin Shows
    BY NotShowing
  <2> QED
    BY <1>2, <1>3, <1>4, <1>6, <2>1, <2>2 DEF Shows
<1> QED
  BY <1>1, <1>5, <1>7

\* What the channel adds to what is listed.
Gives(config, channel) ==
    IF channel \in RelevantChannels(config) THEN ListedAt(config, channel) ELSE {}

LEMMA MakeIs ==
    ASSUME device \in Devices, NEW config \in TheConfigs, NEW channel, NEW made, NEW acc,
           NEW done \in SUBSET Ever, Good(acc, made, done)
    PROVE  Good(MakeCustom(acc, made, config, channel), made, done \cup Gives(config, channel))
<1> DEFINE sub == SubDevices(acc.base, config)
           base == BaseOf(sub, channel)
           next == MakeCustom(acc, made, config, channel)
<1>1. sub \in SUBSET Bases
  BY SubDevicesIs DEF Good
<1>2. CASE channel \notin RelevantChannels(config)
  <2>1. next = [acc EXCEPT !.base = sub] /\ Gives(config, channel) = {}
    BY <1>2 DEF MakeCustom, Gives
  <2>2. DOMAIN next = DOMAIN acc /\ next.base = sub /\ next.forced = acc.forced
    BY <2>1 DEF Good
  <2> QED
    BY <1>1, <2>1, <2>2 DEF Good
<1>3. CASE channel \in RelevantChannels(config)
  <2> DEFINE new == InitDataPoints(made, acc.forced, config, channel, base).forced
  <2>1. DOMAIN next = {"base", "forced", "custom"} /\ next.base = sub /\ next.forced = new
    BY <1>3 DEF MakeCustom
  <2>2. /\ \E c \in config.channels : channel \in Group(config, c)
        /\ \A c \in config.channels :
             channel \in Group(config, c) => base = Shift(c, config.profile.primary)
    BY <1>3, BaseIs DEF Good
  <2>3. DOMAIN new = Keys /\ ShowsListed(new, made, done \cup ListedAt(config, channel))
    <3> HIDE DEF base
    <3> QED
      BY <1>3, <2>2, InitIs DEF Good
  <2> QED
    BY <1>1, <1>3, <2>1, <2>3 DEF Good, Gives
<1> QED
  BY <1>2, <1>3

LEMMA GivesEver ==
    ASSUME NEW config \in TheConfigs, NEW channel
    PROVE  Gives(config, channel) \in SUBSET Ever
BY DEF Gives, Ever

\* All channels, in the order of the device.
Given(config, n) == UNION {Gives(config, Chs[i]) : i \in 1..n}

LEMMA GivenNext ==
    ASSUME NEW config, NEW n \in Nat
    PROVE  /\ Given(config, 0) = {}
           /\ Given(config, n + 1) = Given(config, n) \cup Gives(config, Chs[n + 1])
<1>1. 1..(n + 1) = (1..n) \cup {n + 1} /\ 1..0 = {}
  OBVIOUS
<1> QED
  BY <1>1 DEF Given

LEMMA ChannelsKeep ==
    ASSUME device \in Devices, NEW config \in TheConfigs, NEW made, NEW start,
           NEW done \in SUBSET Ever, Good(start, made, done)
    PROVE  Good(OfChannels(start, made, config), made, done \cup Given(config, Len(Chs)))
<1> DEFINE Solves(f) == f = [n \in 0..Len(Chs) |-> OneChannel(f, start, made, config, n)]
           acc == CHOOSE f : Solves(f)
<1>1. Len(Chs) \in Nat
  BY ConfigTypes
<1>2. Solves(acc)
  BY <1>1, ChannelsFold
<1>3. OfChannels(start, made, config) = acc[Len(Chs)]
  BY DEF OfChannels, OneChannel, Chs
<1> HIDE DEF acc
<1>4. \A n \in 0..Len(Chs) : acc[n] = OneChannel(acc, start, made, config, n)
  BY <1>2
<1> HIDE DEF Solves
<1> DEFINE S == {n \in Nat : n <= Len(Chs) => Good(acc[n], made, done \cup Given(config, n))}
<1>5. 0 \in S
  <2>1. acc[0] = start
    BY <1>1, <1>4 DEF OneChannel
  <2>2. done \cup Given(config, 0) = done
    BY GivenNext
  <2> QED
    BY <2>1, <2>2
<1>6. ASSUME NEW n \in Nat, n \in S PROVE n + 1 \in S
  <2> SUFFICES ASSUME n + 1 <= Len(Chs)
               PROVE  Good(acc[n + 1], made, done \cup Given(config, n + 1))
    OBVIOUS
  <2>1. Good(acc[n], made, done \cup Given(config, n))
    BY <1>1, <1>6
  <2>2. acc[n + 1] = MakeCustom(acc[n], made, config, Chs[n + 1])
    <3>1. n + 1 \in 0..Len(Chs) /\ n + 1 # 0 /\ (n + 1) - 1 = n
      BY <1>1
    <3> QED
      BY <1>4, <3>1 DEF OneChannel
  <2>3. done \cup Given(config, n) \in SUBSET Ever
    BY GivesEver DEF Given
  <2>4. Good(MakeCustom(acc[n], made, config, Chs[n + 1]), made,
             (done \cup Given(config, n)) \cup Gives(config, Chs[n + 1]))
    BY <2>1, <2>3, MakeIs
  <2>5. (done \cup Given(config, n)) \cup Gives(config, Chs[n + 1]) = done \cup Given(config, n + 1)
    BY GivenNext
  <2> QED
    BY <2>2, <2>4, <2>5
<1> HIDE DEF S
<1>7. Len(Chs) \in S
  BY <1>1, <1>5, <1>6, Induction
<1> QED
  BY <1>1, <1>3, <1>7 DEF S

\* All configurations, in their order.
GivenBy(n) == UNION {Given(Cfs[i], Len(Chs)) : i \in 1..n}

LEMMA GivenByNext ==
    ASSUME NEW n \in Nat
    PROVE  GivenBy(0) = {} /\ GivenBy(n + 1) = GivenBy(n) \cup Given(Cfs[n + 1], Len(Chs))
<1>1. 1..(n + 1) = (1..n) \cup {n + 1} /\ 1..0 = {}
  OBVIOUS
<1> QED
  BY <1>1 DEF GivenBy

LEMMA ListedIs == ASSUME device \in Devices PROVE Listed = GivenBy(Len(Cfs))
<1>1. DOMAIN Chs = 1..Len(Chs) /\ DOMAIN Cfs = 1..Len(Cfs)
  BY ConfigTypes
<1>2. DOMAIN NoCustom = {Chs[i] : i \in 1..Len(Chs)}
  BY <1>1 DEF NoCustom, Chs
<1>3. \A config : Given(config, Len(Chs))
                    = UNION {ListedAt(config, c) : c \in RelevantChannels(config) \cap DOMAIN NoCustom}
  BY <1>2 DEF Given, Gives
<1>4. Listed = UNION {Given(Cfs[i], Len(Chs)) : i \in DOMAIN Cfs}
  BY <1>3 DEF Listed, Cfs
<1> QED
  BY <1>1, <1>4 DEF GivenBy

LEMMA ConfigsKeep ==
    ASSUME device \in Devices, NEW made, NEW start, Good(start, made, {})
    PROVE  Good(OfConfigs(start, made), made, Listed)
<1> DEFINE Solves(f) == f = [n \in 0..Len(Cfs) |-> OneConfig(f, start, made, n)]
           acc == CHOOSE f : Solves(f)
<1>1. Len(Cfs) \in Nat /\ DOMAIN Cfs = 1..Len(Cfs)
  BY ConfigTypes
<1>2. Solves(acc)
  BY <1>1, ConfigsFold
<1>3. OfConfigs(start, made) = acc[Len(Cfs)]
  BY DEF OfConfigs, OneConfig, Cfs
<1> HIDE DEF acc
<1>4. \A n \in 0..Len(Cfs) : acc[n] = OneConfig(acc, start, made, n)
  BY <1>2
<1> HIDE DEF Solves
<1> DEFINE S == {n \in Nat : n <= Len(Cfs) => Good(acc[n], made, GivenBy(n))}
<1>5. 0 \in S
  <2>1. acc[0] = start
    BY <1>1, <1>4 DEF OneConfig
  <2> QED
    BY <2>1, GivenByNext
<1>6. ASSUME NEW n \in Nat, n \in S PROVE n + 1 \in S
  <2> SUFFICES ASSUME n + 1 <= Len(Cfs) PROVE Good(acc[n + 1], made, GivenBy(n + 1))
    OBVIOUS
  <2>1. Good(acc[n], made, GivenBy(n))
    BY <1>1, <1>6
  <2>2. acc[n + 1] = OfChannels(acc[n], made, Cfs[n + 1])
    <3>1. n + 1 \in 0..Len(Cfs) /\ n + 1 # 0 /\ (n + 1) - 1 = n
      BY <1>1
    <3> QED
      BY <1>4, <3>1 DEF OneConfig
  <2>3. \A i \in 1..(n + 1) : Cfs[i] \in TheConfigs
    BY <1>1 DEF TheConfigs
  <2>4. \A i \in 1..n : Cfs[i] \in TheConfigs
    BY <2>3
  <2>5. GivenBy(n) \in SUBSET Ever
    BY <2>4, GivesEver DEF GivenBy, Given
  <2>6. Good(OfChannels(acc[n], made, Cfs[n + 1]), made, GivenBy(n) \cup Given(Cfs[n + 1], Len(Chs)))
    BY <2>1, <2>3, <2>5, ChannelsKeep
  <2> QED
    BY <2>2, <2>6, GivenByNext
<1> HIDE DEF S
<1>7. Len(Cfs) \in S
  BY <1>1, <1>5, <1>6, Induction
<1> QED
  BY <1>1, <1>3, <1>7, ListedIs DEF S

\* After create_custom_data_points.
LEMMA CustomIs ==
    ASSUME device \in Devices, NEW l, NEW made, HasCustomDefinition(l)
    PROVE  ShowsListed(CreateCustom(l, made).forced, made, Listed)
<1> DEFINE none == [base |-> {}, forced |-> NoPoints, custom |-> NoCustom]
<1>1. CreateCustom(l, made) = OfConfigs(none, made)
  BY DEF CreateCustom
<1>2. AllFound(made, {}) = {}
  BY DEF AllFound
<1>3. None \notin Shows
  BY NotShowing
<1>4. Good(none, made, {})
  BY <1>2, <1>3 DEF Good, ShowsListed, NoPoints
<1> QED
  BY <1>1, <1>4, ConfigsKeep DEF Good

\* The properties that say what the objects of a device are.
Safe == Cached /\ Reporting /\ EventsReachTheLiving /\ Granted /\ Forced

\* A device is created where there is none, of descriptions as they are cached.
LEMMA CreatedSafe ==
    ASSUME device \in Devices, device' = device, Absent, EventsReachTheLiving, created = 0,
           NEW lines \in SUBSET Lines[device], raw' = lines,
           NEW known, AsCached(known), NEW number, CreateDevice(Lists(lines), known, number)
    PROVE  Safe' /\ points' \in [Keys -> Attributes \cup {None}]' /\ created' = number
<1> DEFINE l == Lists(lines)  o == Patched(l, known)  made == Generic(l, o)
<1>1. /\ ops' = o /\ points' = made /\ events' = Events(l, o) /\ created' = number
      /\ subs' = Subscribed(made, Events(l, o), number)
      /\ forced' = CreateCustom(l, made).forced
  BY DEF CreateDevice
<1>2. AsCached(o)
  BY PatchedIs
<1>3. /\ made \in [Keys -> Attributes \cup {None}]
      /\ \A k \in Keys : made[k] # None => made[k].ops = o[k]
  BY <1>2, GenericIs
<1>4. \A line \in lines : \A k \in Asked(line) :
        CanBePoint(k) => made[k] # None /\ made[k].unIgnored
  BY LineCreates
<1> HIDE DEF l, o, made
<1>5. \A k \in Keys : made[k] # None /\ "E" \in D(k).ops => "E" \in made[k].ops
  BY <1>2, <1>3 DEF AsCached
<1>6. Cached'
  BY <1>1, <1>2, SameDevice DEF Cached, AsCached
<1>7. Reporting'
  BY <1>1, <1>5, SameDevice DEF Reporting
<1>8. EventsReachTheLiving'
  <2> SUFFICES ASSUME NEW k \in Keys, "E" \in D(k).ops
               PROVE  Handlers(k)' = Living(k, points', events', created')
    BY SameDevice DEF EventsReachTheLiving, Living
  <2>1. Handlers(k) = {}
    BY DEF EventsReachTheLiving, Absent, NoPoints
  <2>2. Handlers(k)' = Handlers(k) \cup Living(k, made, Events(l, o), number)
    BY <1>1, <1>5, SubscribedIs
  <2> QED
    BY <1>1, <2>1, <2>2
<1>9. Granted'
  BY <1>1, <1>4, SameDevice DEF Granted
<1>10. Forced'
  <2>1. HasCustomDefinition(l) => ShowsListed(forced', made, Listed)
    BY <1>1, CustomIs
  <2>2. HasCustomDefinition(Lists(raw))' <=> HasCustomDefinition(l)
    BY DEF HasCustomDefinition, l
  <2> QED
    BY <1>1, <2>1, <2>2, SameCustom DEF Forced
<1> QED
  BY <1>1, <1>3, <1>6, <1>7, <1>8, <1>9, <1>10, SameDevice DEF Safe

-----------------------------------------------------------------------------
(* The steps.                                                               *)

\* A step that leaves descriptions, objects and the process alone.
LEMMA Untouched ==
    ASSUME IInv, UNCHANGED <<device, file, raw, objects>>, edits' \in Nat, Cached'
    PROVE  IInv'
<1>1. Types'
  BY SameDevice DEF IInv, Types, objects
<1>2. Absent'
  BY SameDevice DEF IInv, Absent, objects
<1>3. Reporting'
  BY SameDevice DEF IInv, Reporting, objects
<1>4. EventsReachTheLiving'
  BY SameDevice DEF IInv, EventsReachTheLiving, Handlers, objects
<1>5. Granted'
  BY SameDevice DEF IInv, Granted, Exists, objects
<1>6. Forced'
  BY SameCustom DEF IInv, Forced, Exists, objects
<1> QED
  BY <1>1, <1>2, <1>3, <1>4, <1>5, <1>6 DEF IInv

LEMMA CachedStays == ASSUME Cached, UNCHANGED <<device, ops>> PROVE Cached'
BY SameDevice DEF Cached

LEMMA EditLinesStep == IInv /\ EditLines => IInv'
<1> SUFFICES ASSUME IInv, EditLines PROVE IInv'
  OBVIOUS
<1> USE DEF EditLines, Edit, Running, user, objects
<1>1. /\ device' = device /\ file' \in SUBSET Lines[device] /\ edits' \in Nat
      /\ UNCHANGED <<raw, points, forced, events, custom, subs, created, ops>>
  BY DEF IInv, Types
<1>2. Types'
  BY <1>1, SameDevice DEF IInv, Types
<1>3. Cached'
  BY <1>1, CachedStays DEF IInv
<1>4. Absent'
  BY <1>1, SameDevice DEF IInv, Absent
<1>5. Reporting'
  BY <1>1, SameDevice DEF IInv, Reporting
<1>6. EventsReachTheLiving'
  BY <1>1, SameDevice DEF IInv, EventsReachTheLiving, Handlers
<1>7. Granted'
  BY <1>1, SameDevice DEF IInv, Granted, Exists
<1>8. Forced'
  BY <1>1, SameCustom DEF IInv, Forced, Exists
<1> QED
  BY <1>2, <1>3, <1>4, <1>5, <1>6, <1>7, <1>8 DEF IInv

LEMMA StartStep == IInv /\ Start => IInv'
<1> SUFFICES ASSUME IInv, Start PROVE IInv'
  OBVIOUS
<1>1. /\ raw = None /\ raw' = file /\ CreateDevice(Lists(file), ops, 1)
      /\ UNCHANGED <<device, file, edits>>
  BY DEF Start, Running, user
<1>2. /\ device \in Devices /\ file \in SUBSET Lines[device] /\ edits \in Nat
      /\ created = 0 /\ AsCached(ops)
  BY <1>1 DEF IInv, Types, Absent, Cached, AsCached
<1>3. Safe' /\ points' \in [Keys -> Attributes \cup {None}]' /\ created' = 1
  BY <1>1, <1>2, CreatedSafe DEF IInv
<1>4. Types'
  BY <1>1, <1>2, <1>3 DEF Types
<1>5. raw' # None
  BY <1>1, <1>2, NoneAssumption
<1>6. Absent'
  BY <1>3, <1>5 DEF Absent
<1> QED
  BY <1>3, <1>4, <1>6 DEF IInv, Safe

LEMMA PairStep == IInv /\ Pair => IInv'
<1> SUFFICES ASSUME IInv, Pair PROVE IInv'
  OBVIOUS
<1>1. /\ raw # None /\ created = 0 /\ raw' = raw /\ CreateDevice(Lists(raw), Raw, edits + 1)
      /\ UNCHANGED <<device, file, edits>>
  BY DEF Pair, Running, Exists, user
<1>2. /\ device \in Devices /\ file \in SUBSET Lines[device] /\ edits \in Nat
      /\ raw \in SUBSET Lines[device]
  BY <1>1 DEF IInv, Types
<1>3. Safe' /\ points' \in [Keys -> Attributes \cup {None}]' /\ created' = edits + 1
  BY <1>1, <1>2, CreatedSafe, RawIs DEF IInv
<1>4. Types'
  BY <1>1, <1>2, <1>3 DEF Types
<1>5. Absent'
  BY <1>1, <1>2, <1>3 DEF Absent
<1> QED
  BY <1>3, <1>4, <1>5 DEF IInv, Safe

\* Where the objects are gone, no event of a data point is subscribed.
LEMMA Gone ==
    ASSUME Types, device' = device, file' = file, raw' \in {None, raw}, edits' \in Nat, Cached',
           points' = NoPoints, events' = {}, created' = 0,
           raw' = None => subs' = [k \in {} |-> {}],
           \A k \in Keys : "E" \in D(k).ops => Handlers(k)' = {}
    PROVE  IInv'
<1>1. NoPoints \in [Keys -> Attributes \cup {None}] /\ \A k \in Keys : points'[k] = None
  BY DEF NoPoints
<1>2. Types'
  BY <1>1, SameDevice DEF Types
<1>3. Absent'
  BY SameDevice DEF Absent
<1>4. Reporting'
  BY <1>1, SameDevice DEF Reporting
<1>5. EventsReachTheLiving'
  BY <1>1, SameDevice DEF EventsReachTheLiving
<1>6. Granted' /\ Forced'
  BY DEF Granted, Forced, Exists
<1> QED
  BY <1>2, <1>3, <1>4, <1>5, <1>6 DEF IInv

LEMMA StopStep == IInv /\ Stop => IInv'
<1> SUFFICES ASSUME IInv, Stop PROVE IInv'
  OBVIOUS
<1>1. /\ raw' = None /\ points' = NoPoints /\ events' = {} /\ created' = 0
      /\ subs' = [k \in {} |-> {}] /\ ops' = IF Exists THEN ops ELSE Raw
      /\ UNCHANGED <<device, file, edits>>
  BY DEF Stop, user
<1>2. Cached'
  BY <1>1, RawIs, SameDevice DEF IInv, Cached, AsCached
<1>3. \A k : Handlers(k)' = {}
  BY <1>1 DEF Handlers
<1> QED
  BY <1>1, <1>2, <1>3, Gone DEF IInv, Types

LEMMA UnpairStep == IInv /\ Unpair => IInv'
<1> SUFFICES ASSUME IInv, Unpair PROVE IInv'
  OBVIOUS
<1>1. /\ subs' = LeftHandlers /\ points' = NoPoints /\ events' = {} /\ created' = 0
      /\ created # 0 /\ edits' = edits + 1 /\ UNCHANGED <<device, file, raw, ops>>
  BY DEF Unpair, Exists, Edit, user
<1>2. Cached'
  BY <1>1, CachedStays DEF IInv
<1>3. ASSUME NEW k \in Keys, "E" \in D(k).ops PROVE Handlers(k)' = {}
  <2>1. points[k] # None => "E" \in points[k].ops
    BY <1>3 DEF IInv, Reporting
  <2>2. points[k] = None /\ k \notin events => Handlers(k) = {}
    BY <1>3 DEF IInv, EventsReachTheLiving
  <2> QED
    BY <1>1, <2>1, <2>2, LeftIs
<1>4. raw' # None /\ edits' \in Nat
  BY <1>1 DEF IInv, Absent, Types
<1> QED
  BY <1>1, <1>2, <1>3, <1>4, Gone DEF IInv

LEMMA FetchStep == ASSUME IInv, NEW i, Fetch(i) PROVE IInv'
<1>1. UNCHANGED <<device, file, raw, objects, edits>>
  BY DEF Fetch, user
<1>2. Cached'
  <2>1. PICK failed \in Failing(TRUE) :
          ops' = [k \in Keys |-> IF ~failed /\ <<k[1], k[2]>> = Head(reload[i].todo)
                                THEN D(k).ops ELSE ops[k]]
    BY DEF Fetch
  <2>2. \A k \in Keys : ops'[k] = D(k).ops \/ ops'[k] = ops[k]
    BY <2>1
  <2> QED
    BY <1>1, <2>2, SameDevice DEF IInv, Cached
<1> QED
  BY <1>1, <1>2, Untouched DEF IInv, Types

LEMMA ReloadEndsStep == ASSUME IInv, NEW i, ReloadEnds(i) PROVE IInv'
<1> DEFINE renewed(k) == [points[k] EXCEPT !.ops = ops[k]]
<1>1. /\ UNCHANGED <<device, file, raw, ops, forced, events, subs, created, edits>>
      /\ points' = [k \in Keys |-> IF points[k] = None \/ reload[i].of # created
                                  THEN points[k] ELSE renewed(k)]
  BY DEF ReloadEnds, user
<1>2. \A k \in Keys : ops[k] \in SUBSET Operations /\ ("E" \in D(k).ops => "E" \in ops[k])
  BY CachedOps DEF IInv, Types, Cached, AsCached
<1>3. ASSUME NEW k \in Keys, points[k] # None
      PROVE  renewed(k) \in Attributes /\ renewed(k) # None
             /\ renewed(k).ops = ops[k] /\ renewed(k).unIgnored = points[k].unIgnored
             /\ renewed(k).sensor = points[k].sensor
  <2>1. points[k] \in Attributes
    BY <1>3 DEF IInv, Types
  <2>2. renewed(k) \in Attributes /\ renewed(k).ops = ops[k]
        /\ renewed(k).unIgnored = points[k].unIgnored /\ renewed(k).sensor = points[k].sensor
    BY <1>2, <2>1 DEF Attributes
  <2> QED
    BY <2>2, NoneAssumption
<1> HIDE DEF renewed
<1>4. \A k \in Keys :
        /\ points'[k] \in Attributes \cup {None}
        /\ points'[k] = None <=> points[k] = None
        /\ points[k] # None => points'[k].unIgnored = points[k].unIgnored
                               /\ points'[k].sensor = points[k].sensor
        /\ points'[k] = points[k] \/ (points[k] # None /\ points'[k].ops = ops[k])
  BY <1>1, <1>3 DEF IInv, Types
<1>5. Types'
  BY <1>1, <1>4, SameDevice DEF IInv, Types
<1>6. Cached'
  BY <1>1, CachedStays DEF IInv
<1>7. Absent'
  <2>1. created = 0 => points' = NoPoints
    BY <1>1 DEF IInv, Absent, NoPoints
  <2> QED
    BY <1>1, <2>1, SameDevice DEF IInv, Absent
<1>8. Reporting'
  BY <1>1, <1>2, <1>4, SameDevice DEF IInv, Reporting
<1>9. EventsReachTheLiving'
  BY <1>1, <1>4, SameDevice DEF IInv, EventsReachTheLiving, Handlers
<1>10. Granted'
  <2>1. \A line : Asked(line) \subseteq Keys
    BY DEF Asked
  <2> QED
    BY <1>1, <1>4, <2>1, SameDevice DEF IInv, Granted, Exists
<1>11. Forced'
  <2>1. DOMAIN points = Keys /\ DOMAIN points' = Keys
    BY <1>1 DEF IInv, Types
  <2>2. \A c, x : Found(points', c, x) = Found(points, c, x)
    BY <1>4, <2>1 DEF Found
  <2>3. \A fields : AllFound(points', fields) = AllFound(points, fields)
    BY <2>2 DEF AllFound
  <2>4. \A k \in Keys : Plainly(points', k) <=> Plainly(points, k)
    BY <1>4 DEF Plainly
  <2>5. ShowsListed(forced, points, Listed) => ShowsListed(forced', points', Listed)
    BY <1>1, <2>3, <2>4 DEF ShowsListed
  <2> QED
    BY <1>1, <2>5, SameCustom DEF IInv, Forced, Exists
<1> QED
  BY <1>5, <1>6, <1>7, <1>8, <1>9, <1>10, <1>11 DEF IInv

LEMMA Inductive == Spec => []IInv
<1>1. Init => IInv
  <2> SUFFICES ASSUME Init PROVE IInv
    OBVIOUS
  <2>1. Types
    BY DEF Init, Types, NoPoints
  <2>2. Cached
    BY RawIs DEF Init, Cached, AsCached
  <2>3. Absent
    BY DEF Init, Absent
  <2>4. Reporting /\ EventsReachTheLiving
    BY DEF Init, Reporting, EventsReachTheLiving, NoPoints, Handlers
  <2>5. Granted /\ Forced
    BY DEF Init, Granted, Forced, Exists
  <2> QED
    BY <2>1, <2>2, <2>3, <2>4, <2>5 DEF IInv
<1>2. IInv /\ [Next]_vars => IInv'
  <2> SUFFICES ASSUME IInv, [Next]_vars PROVE IInv'
    OBVIOUS
  <2>1. CASE Reconfigure
    <3>1. UNCHANGED <<device, file, raw, objects, ops>> /\ edits' = edits + 1
      BY <2>1 DEF Reconfigure, Edit, user
    <3> QED
      BY <3>1, Untouched, CachedStays DEF IInv, Types
  <2>2. CASE Lose \/ PendingEvent
    <3>1. UNCHANGED <<device, file, raw, objects, ops, edits>>
      BY <2>2 DEF Lose, PendingEvent, user
    <3> QED
      BY <3>1, Untouched, CachedStays DEF IInv, Types
  <2>3. CASE UNCHANGED vars
    <3>1. UNCHANGED <<device, file, raw, objects, ops, edits>>
      BY <2>3 DEF vars, objects
    <3> QED
      BY <3>1, Untouched, CachedStays DEF IInv, Types
  <2> QED
    BY <2>1, <2>2, <2>3, EditLinesStep, StartStep, StopStep, UnpairStep, PairStep, FetchStep,
       ReloadEndsStep DEF Next
<1> QED
  BY <1>1, <1>2, PTL DEF Spec

\* The events of a parameter go to the objects of the living device and to no
\* other, for any device, however often it is removed, paired again and
\* configured, and the process restarted (remove_event_subscription).
THEOREM EventsReach == Spec => []EventsReachTheLiving
BY Inductive, PTL DEF IInv

\* A line of the user that the process has loaded gives each parameter it asks
\* for a data point that is shown, for any device and profiles, and whatever the
\* other lines, the mode of the channel and the reloads of descriptions are.
THEOREM LinesWin == Spec => []LineTakesEffect
<1>1. IInv => LineTakesEffect
  <2> SUFFICES ASSUME IInv, Exists, NEW line \in raw, NEW k \in Asked(line), CanBePoint(k)
               PROVE  points[k] # None /\ Usage(k) = "DATA_POINT"
    BY DEF LineTakesEffect
  <2> QED
    BY DEF IInv, Granted, Usage
<1> QED
  BY <1>1, Inductive, PTL

\* A device with custom data points shows of its other parameters those that
\* its profiles list and no other, for any profiles, however its groups of
\* channels are numbered and in whatever order the configurations hide and show
\* what they share (create_custom_data_points, _init_data_points).
THEOREM OnlyListed == Spec => []OnlyListedShown
<1>1. IInv => OnlyListedShown
  <2> SUFFICES ASSUME IInv, Exists, HasCustomDefinition(Lists(raw)), ~AllowUndefined,
                      NEW k \in Keys, points[k] # None, ~points[k].sensor, ~points[k].unIgnored,
                      EnabledByMode(k, shownMode) = None
               PROVE  k \in Shown <=> k \in AllFound(points, Listed)
    BY DEF OnlyListedShown
  <2>1. /\ forced[k] \in Shows \cup {None, "NO_CREATE"}
        /\ forced[k] \in Shows <=> k \in AllFound(points, Listed)
    BY DEF IInv, Forced, ShowsListed, Plainly
  <2>2. Usage(k) = IF forced[k] # None THEN forced[k] ELSE "NO_CREATE"
    BY DEF Usage
  <2>3. None \notin Shows /\ "NO_CREATE" \notin Shows
    BY NotShowing
  <2>4. k \in Shown <=> forced[k] \in Shows
    BY <2>1, <2>2, <2>3 DEF Shown
  <2> QED
    BY <2>1, <2>4
<1> QED
  BY <1>1, Inductive, PTL
=============================================================================
