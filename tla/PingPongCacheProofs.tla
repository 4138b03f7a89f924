------------------------- MODULE PingPongCacheProofs -------------------------
(***************************************************************************)
(* Proofs about PingPongCache: whatever the limit, the time to live and    *)
(* the clock do, a mismatch above the limit is reported and logged.        *)
(***************************************************************************)
EXTENDS PingPongCache, FiniteSetTheorems, TLAPS

(* The inductive invariant: the types and the three properties. *)
Inv == TypeOK /\ MismatchIsReported /\ LogMatchesReport /\ UnknownIsLogged

(* A set of time stamps is finite; what the clean-up keeps is no larger. *)
LEMMA StampsFinite ==
  ASSUME NEW S \in SUBSET Stamps
  PROVE  IsFiniteSet(S) /\ Cardinality(S) \in 0..(MaxNow + 1)
<1>1. IsFiniteSet(Stamps) /\ Cardinality(Stamps) = MaxNow + 1
  BY FS_Interval, ClockAssumption DEF Stamps
<1>2. IsFiniteSet(S) /\ Cardinality(S) <= Cardinality(Stamps)
  BY <1>1, FS_Subset
<1>3. Cardinality(S) \in Nat
  BY <1>2, FS_CardinalityType
<1> QED BY <1>1, <1>2, <1>3, ClockAssumption

LEMMA CleanedShrinks ==
  ASSUME NEW S \in SUBSET Stamps
  PROVE  Cleaned(S) \in SUBSET Stamps /\ Cardinality(Cleaned(S)) <= Cardinality(S)
<1>1. Cleaned(S) \subseteq S
  BY DEF Cleaned
<1> QED BY <1>1, StampsFinite, FS_Subset

LEMMA CheckPendingInv ==
  ASSUME Inv, NEW p \in SUBSET Stamps, CheckPending(p),
         now' \in Stamps, jumps' \in 0..MaxJumps, flight' \subseteq Stamps
  PROVE  Inv'
<1> DEFINE kept == Cleaned(p)
<1>1. kept \in SUBSET Stamps /\ Cardinality(kept) <= Cardinality(p)
  BY CleanedShrinks
<1>2. /\ Cardinality(kept) \in Nat /\ Cardinality(p) \in 0..(MaxNow + 1)
  BY <1>1, StampsFinite
<1>3. unknown \in SUBSET Stamps
  BY DEF Inv, TypeOK
<1>4. /\ Cleaned(unknown) \in SUBSET Stamps
      /\ Cardinality(Cleaned(unknown)) <= Cardinality(unknown)
  BY <1>3, CleanedShrinks
<1>5. Cardinality(unknown) \in Nat /\ Cardinality(Cleaned(unknown)) \in Nat
  BY <1>3, <1>4, StampsFinite
<1>6. pending' = kept
  BY DEF CheckPending
<1>7. UnknownIsLogged'
  <2>1. unknown' = unknown \/ unknown' = Cleaned(unknown)
    BY DEF CheckPending
  <2>2. unknownLogged' = unknownLogged
    BY DEF CheckPending
  <2>3. Cardinality(unknown') <= Cardinality(unknown) /\ Cardinality(unknown') \in Nat
    BY <2>1, <1>4, <1>5
  <2> QED BY <2>2, <2>3, <1>5, DeltaAssumption DEF Inv, UnknownIsLogged
<1>8. unknown' \subseteq Stamps /\ unknownLogged' \in BOOLEAN
  BY <1>3, <1>4 DEF CheckPending, Inv, TypeOK
<1>9. CASE Low(kept)
  <2>1. shown' = 0 /\ pendingLogged' = FALSE
    BY <1>9 DEF CheckPending, NoMismatch
  <2>2. Cardinality(kept) <= AllowedDelta
    BY <1>9, <1>2, DeltaAssumption DEF Low
  <2>3. MismatchIsReported'
    BY <2>2, <1>2, <1>6, DeltaAssumption DEF MismatchIsReported
  <2>4. LogMatchesReport'
    BY <2>1 DEF LogMatchesReport
  <2>5. shown' \in 0..(MaxNow + 1)
    BY <2>1, ClockAssumption
  <2>6. pendingLogged' \in BOOLEAN
    BY <2>1
  <2> QED BY <2>3, <2>4, <2>5, <2>6, <1>1, <1>6, <1>7, <1>8 DEF Inv, TypeOK
<1>10. CASE ~Low(kept) /\ High(kept)
  <2>1. shown' = Cardinality(p) /\ pendingLogged' = TRUE
    BY <1>10 DEF CheckPending, Mismatch
  <2>2. Cardinality(kept) > AllowedDelta
    BY <1>10 DEF High
  <2> QED BY <2>1, <2>2, <1>1, <1>2, <1>6, <1>7, <1>8, DeltaAssumption
          DEF Inv, TypeOK, MismatchIsReported, LogMatchesReport
<1>11. CASE ~Low(kept) /\ ~High(kept)
  <2>1. shown' = shown /\ pendingLogged' = pendingLogged
    BY <1>11 DEF CheckPending
  <2>2. Cardinality(kept) <= AllowedDelta
    BY <1>11, <1>2, DeltaAssumption DEF High
  <2> QED BY <2>1, <2>2, <1>1, <1>2, <1>6, <1>7, <1>8, DeltaAssumption
          DEF Inv, TypeOK, MismatchIsReported, LogMatchesReport
<1> QED BY <1>9, <1>10, <1>11

LEMMA CheckUnknownInv ==
  ASSUME Inv, NEW u \in SUBSET Stamps, CheckUnknown(u),
         now' \in Stamps, jumps' \in 0..MaxJumps, flight' \subseteq Stamps
  PROVE  Inv'
<1> DEFINE kept == Cleaned(u)
<1>1. /\ kept \in SUBSET Stamps /\ Cardinality(kept) \in Nat
  BY CleanedShrinks, StampsFinite
<1>2. pending \in SUBSET Stamps
  BY DEF Inv, TypeOK
<1>3. /\ pending' \in SUBSET Stamps /\ Cardinality(pending') <= Cardinality(pending)
      /\ Cardinality(pending) \in Nat /\ Cardinality(pending') \in Nat
  BY <1>2, CleanedShrinks, StampsFinite DEF CheckUnknown
<1>4. shown' = shown /\ pendingLogged' = pendingLogged /\ unknown' = kept
  BY DEF CheckUnknown
<1>5. MismatchIsReported'
  BY <1>3, <1>4, DeltaAssumption DEF Inv, TypeOK, MismatchIsReported
<1>6. UnknownIsLogged' /\ unknownLogged' \in BOOLEAN
  <2>1. Low(kept) => ~(Cardinality(kept) > AllowedDelta)
    BY <1>1, DeltaAssumption DEF Low
  <2>2. High(kept) <=> Cardinality(kept) > AllowedDelta
    BY DEF High
  <2>3. CASE Low(kept)
    <3>1. unknownLogged' = FALSE
      BY <2>3, <2>1, <2>2, Zenon DEF CheckUnknown
    <3> QED BY <3>1, <2>1, <2>3, <1>4 DEF UnknownIsLogged
  <2>4. CASE ~Low(kept) /\ High(kept)
    <3>1. unknownLogged' = TRUE
      BY <2>4, Zenon DEF CheckUnknown
    <3> QED BY <3>1 DEF UnknownIsLogged
  <2>5. CASE ~Low(kept) /\ ~High(kept)
    <3>1. unknownLogged' = unknownLogged
      BY <2>5, Zenon DEF CheckUnknown
    <3> QED BY <3>1, <2>2, <2>5, <1>4 DEF UnknownIsLogged, Inv, TypeOK
  <2> QED BY <2>3, <2>4, <2>5
<1> QED BY <1>1, <1>3, <1>4, <1>5, <1>6 DEF Inv, TypeOK, LogMatchesReport

LEMMA EmptyIsSmall == Cardinality({}) = 0
BY FS_EmptySet

LEMMA InvInit == Init => Inv
<1> SUFFICES ASSUME Init PROVE Inv
  OBVIOUS
<1>1. ~(Cardinality(pending) > AllowedDelta) /\ ~(Cardinality(unknown) > AllowedDelta)
  BY EmptyIsSmall, DeltaAssumption DEF Init
<1>2. 0 \in Stamps /\ 0 \in 0..MaxJumps /\ 0 \in 0..(MaxNow + 1)
  BY ClockAssumption DEF Stamps
<1>3. TypeOK
  BY <1>2 DEF Init, TypeOK
<1> QED BY <1>1, <1>3
        DEF Init, Inv, MismatchIsReported, LogMatchesReport, UnknownIsLogged

LEMMA InvStep == Inv /\ [Next]_vars => Inv'
<1> SUFFICES ASSUME Inv, [Next]_vars PROVE Inv'
  OBVIOUS
<1> USE DEF TypeOK
<1>1. CASE HandleSendPing
  <2>1. pending \cup {now} \in SUBSET Stamps
    BY DEF Inv
  <2>2. now' \in Stamps /\ jumps' \in 0..MaxJumps /\ flight' \subseteq Stamps
    BY <1>1 DEF HandleSendPing, Inv
  <2> QED BY <1>1, <2>1, <2>2, CheckPendingInv DEF HandleSendPing
<1>2. ASSUME NEW ts \in Stamps, HandleReceivedPong(ts) \/ HandleForeignPong(ts)
      PROVE  Inv'
  <2>1. pending \ {ts} \in SUBSET Stamps /\ unknown \cup {ts} \in SUBSET Stamps
    BY DEF Inv
  <2>2. now' \in Stamps /\ jumps' \in 0..MaxJumps /\ flight' \subseteq Stamps
    BY <1>2 DEF HandleReceivedPong, HandleForeignPong, Inv
  <2>3. CheckPending(pending \ {ts}) \/ CheckUnknown(unknown \cup {ts})
    BY <1>2 DEF HandleReceivedPong, HandleForeignPong
  <2>4. CASE CheckPending(pending \ {ts})
    BY <2>1, <2>2, <2>4, CheckPendingInv
  <2>5. CASE CheckUnknown(unknown \cup {ts})
    BY <2>1, <2>2, <2>5, CheckUnknownInv
  <2> QED BY <2>3, <2>4, <2>5
<1>3. CASE Clear
  <2>1. ~(Cardinality(pending') > AllowedDelta) /\ ~(Cardinality(unknown') > AllowedDelta)
    BY <1>3, EmptyIsSmall, DeltaAssumption DEF Clear
  <2>2. TypeOK'
    BY <1>3 DEF Clear, Inv
  <2> QED BY <1>3, <2>1, <2>2
          DEF Clear, Inv, MismatchIsReported, LogMatchesReport, UnknownIsLogged
<1>4. CASE UNCHANGED cacheVars /\ now' \in Stamps /\ jumps' \in 0..MaxJumps
           /\ flight' \subseteq Stamps
  BY <1>4 DEF cacheVars, Inv, MismatchIsReported, LogMatchesReport, UnknownIsLogged
<1>5. CASE Tick
  BY <1>4, <1>5, ClockAssumption DEF Tick, Inv, Stamps
<1>6. CASE ClockSet
  BY <1>4, <1>6, ClockAssumption DEF ClockSet, Inv
<1>7. ASSUME NEW ts \in Stamps, LostPong(ts) PROVE Inv'
  BY <1>4, <1>7 DEF LostPong, Inv
<1>8. CASE UNCHANGED vars
  BY <1>4, <1>8 DEF vars, Inv
<1> QED BY <1>1, <1>2, <1>3, <1>5, <1>6, <1>7, <1>8 DEF Next

LEMMA InvAlways == Spec => []Inv
BY InvInit, InvStep, PTL DEF Spec

(* Every variable of the cache keeps its type; the count shown is never more than
   the number of time stamps there are. *)
THEOREM TypeCorrect == Spec => []TypeOK
BY InvAlways, PTL DEF Inv

(* More pings without an answer than allowed are always reported, with no less
   than their number. *)
THEOREM MismatchReported == Spec => []MismatchIsReported
BY InvAlways, PTL DEF Inv

(* A warning in the log stands for a mismatch the integration has been shown. *)
THEOREM LogAgrees == Spec => []LogMatchesReport
BY InvAlways, PTL DEF Inv

(* More unknown PONGs than allowed are always logged. *)
THEOREM UnknownLogged == Spec => []UnknownIsLogged
BY InvAlways, PTL DEF Inv
=============================================================================
