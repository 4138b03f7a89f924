------------------------ MODULE PersistentCacheProofs ------------------------
(***************************************************************************)
(* One cache file by itself, whatever changes the dictionary and whenever  *)
(* the process dies: types, the semaphore around the file, and what the    *)
(* hash and the file say of the dictionary.                                *)
(***************************************************************************)
EXTENDS PersistentCache, TLAPS

\* The dictionary, the hash and the file keep to the possible contents.
LEMMA TypeInit ==
  ASSUME Empty \in Content
  PROVE  Init => TypeOK
BY DEF Init, Fresh, TypeOK, Stages, Absent

LEMMA TypeStep ==
  ASSUME Empty \in Content, \A c \in Content : Stored(c) \in Content
  PROVE  TypeOK /\ [Next]_vars => TypeOK'
<1> SUFFICES ASSUME TypeOK, [Next]_vars PROVE TypeOK'
  OBVIOUS
<1> USE DEF TypeOK, Stages
<1>1. ASSUME NEW c \in Content, Change(c) PROVE TypeOK'
  BY <1>1 DEF Change
<1>2. ASSUME NEW p \in Users, SaveBegin(p) PROVE TypeOK'
  BY <1>2 DEF SaveBegin
<1>3. ASSUME NEW p \in Users, SaveWake(p) PROVE TypeOK'
  BY <1>3 DEF SaveWake
<1>4. ASSUME NEW p \in Users, SaveOpen(p) PROVE TypeOK'
  BY <1>4 DEF SaveOpen
<1>5. ASSUME NEW p \in Users, SaveWrite(p) PROVE TypeOK'
  <2>1. disk' \in {Absent, Cut} \cup {Whole(c) : c \in Content}
    BY <1>5 DEF SaveWrite
  <2>2. QED
    BY <2>1, <1>5 DEF SaveWrite
<1>6. ASSUME NEW p \in Users, LoadBegin(p) PROVE TypeOK'
  BY <1>6 DEF LoadBegin
<1>7. ASSUME NEW p \in Users, LoadRead(p) PROVE TypeOK'
  <2>1. disk.of \in Content
    BY DEF Absent, Cut, Whole
  <2>2. QED
    BY <2>1, <1>7 DEF LoadRead
<1>8. CASE Clear
  BY <1>8 DEF Clear
<1>9. CASE Crash
  BY <1>9 DEF Crash
<1>10. CASE UNCHANGED vars
  BY <1>10 DEF vars
<1>11. QED
  BY <1>1, <1>2, <1>3, <1>4, <1>5, <1>6, <1>7, <1>8, <1>9, <1>10 DEF Next

\* The dictionary, the hash and the file always hold a possible content.
THEOREM CacheTypes ==
  ASSUME Empty \in Content, \A c \in Content : Stored(c) \in Content
  PROVE  Spec => []TypeOK
<1>1. Init => TypeOK
  BY TypeInit
<1>2. TypeOK /\ [Next]_vars => TypeOK'
  BY TypeStep
<1>3. QED
  BY <1>1, <1>2, PTL DEF Spec

\* _sema_save_or_load: one save or load at a time.
LEMMA HolderStep == TypeOK /\ OneHolder /\ [Next]_vars => OneHolder'
<1> SUFFICES ASSUME TypeOK, OneHolder, [Next]_vars PROVE OneHolder'
  OBVIOUS
<1> USE DEF TypeOK, OneHolder, Holders
<1>1. ASSUME NEW c \in Content, Change(c) PROVE OneHolder'
  BY <1>1 DEF Change
<1>2. ASSUME NEW p \in Users, SaveBegin(p) PROVE OneHolder'
  BY <1>2 DEF SaveBegin
<1>3. ASSUME NEW p \in Users, SaveWake(p) PROVE OneHolder'
  BY <1>3 DEF SaveWake
<1>4. ASSUME NEW p \in Users, SaveOpen(p) PROVE OneHolder'
  BY <1>4 DEF SaveOpen
<1>5. ASSUME NEW p \in Users, SaveWrite(p) PROVE OneHolder'
  BY <1>5 DEF SaveWrite
<1>6. ASSUME NEW p \in Users, LoadBegin(p) PROVE OneHolder'
  BY <1>6 DEF LoadBegin
<1>7. ASSUME NEW p \in Users, LoadRead(p) PROVE OneHolder'
  BY <1>7 DEF LoadRead
<1>8. CASE Clear
  BY <1>8 DEF Clear
<1>9. CASE Crash
  BY <1>9 DEF Crash
<1>10. CASE UNCHANGED vars
  BY <1>10 DEF vars
<1>11. QED
  BY <1>1, <1>2, <1>3, <1>4, <1>5, <1>6, <1>7, <1>8, <1>9, <1>10 DEF Next

---------------------------------------------------------------------------
(* What the file and the hash say of the dictionary, as long as nobody     *)
(* clears the cache and the process does not die.                          *)

Ordinary ==
  \/ \E c \in Content : Change(c)
  \/ \E p \in Users :
       \/ SaveBegin(p) \/ SaveWake(p) \/ SaveOpen(p) \/ SaveWrite(p)
       \/ LoadBegin(p) \/ LoadRead(p)
  \/ UNCHANGED vars

\* The file is cut short only by a save that is about to write it.
CutWhileWriting == disk = Cut <=> \E p \in Users : io[p] = "write"

LEMMA FileKinds ==
  /\ Absent # Cut /\ Absent.of = Empty
  /\ \A c : Whole(c) # Absent /\ Whole(c) # Cut /\ Whole(c).of = c
            /\ Whole(c).file = "whole"
  /\ TypeOK => disk.of \in Content \cup {Empty}
  /\ TypeOK /\ disk # Absent /\ disk # Cut => disk.file = "whole"
BY DEF Absent, Cut, Whole, TypeOK

LEMMA CutStep ==
  ASSUME TypeOK, OneHolder, CutWhileWriting, Ordinary
  PROVE  CutWhileWriting'
<1> USE FileKinds DEF TypeOK, OneHolder, Holders, CutWhileWriting, Stages
<1>1. ASSUME NEW c \in Content, Change(c) PROVE CutWhileWriting'
  BY <1>1 DEF Change, Cut
<1>2. ASSUME NEW p \in Users, SaveBegin(p) \/ SaveWake(p) \/ LoadBegin(p) PROVE CutWhileWriting'
  <2>1. disk' = disk /\ \A q \in Users : io'[q] = "write" <=> io[q] = "write"
    BY <1>2 DEF SaveBegin, SaveWake, LoadBegin
  <2> QED
    BY <2>1 DEF Cut
<1>3. ASSUME NEW p \in Users, SaveOpen(p) PROVE CutWhileWriting'
  BY <1>3 DEF SaveOpen, Cut
<1>4. ASSUME NEW p \in Users, SaveWrite(p) PROVE CutWhileWriting'
  <2>1. \A q \in Users : io'[q] # "write"
    BY <1>4 DEF SaveWrite
  <2>2. disk' # Cut
    BY <1>4 DEF SaveWrite
  <2> QED
    BY <2>1, <2>2 DEF Cut
<1>5. ASSUME NEW p \in Users, LoadRead(p) PROVE CutWhileWriting'
  <2>1. disk' = disk /\ \A q \in Users : io'[q] = "write" <=> io[q] = "write"
    BY <1>5 DEF LoadRead
  <2> QED
    BY <2>1 DEF Cut
<1>6. CASE UNCHANGED vars
  BY <1>6 DEF vars, Cut
<1> QED
  BY <1>1, <1>2, <1>3, <1>4, <1>5, <1>6 DEF Ordinary

\* Only clear() deletes the file.
LEMMA FileStays ==
  ASSUME Ordinary, disk # Absent
  PROVE  disk' # Absent
BY FileKinds DEF Ordinary, Change, SaveBegin, SaveWake, SaveOpen, SaveWrite, LoadBegin, LoadRead, vars

\* The file holds what a dump makes of a dictionary.
Dumped == disk.of = Stored(disk.of)

LEMMA DumpedStep ==
  ASSUME Stored(Empty) = Empty, \A c \in Content : Stored(Stored(c)) = Stored(c)
  PROVE  TypeOK /\ Dumped /\ [Next]_vars => Dumped'
<1> SUFFICES ASSUME TypeOK, Dumped, [Next]_vars PROVE disk'.of = Stored(disk'.of)
  BY DEF Dumped
<1>1. disk.of = Stored(disk.of) /\ Absent.of = Empty /\ Cut.of = Empty /\ mem \in Content
  BY DEF Dumped, TypeOK, Absent, Cut
<1>2. ASSUME NEW p \in Users, SaveWrite(p) PROVE disk'.of = Stored(disk'.of)
  BY <1>1, <1>2, FileKinds DEF SaveWrite
<1>3. ASSUME NEW p \in Users, SaveOpen(p) PROVE disk'.of = Stored(disk'.of)
  BY <1>1, <1>3 DEF SaveOpen
<1>4. CASE Clear
  BY <1>1, <1>4 DEF Clear
<1>5. ASSUME \/ \E c \in Content : Change(c)
             \/ \E p \in Users : SaveBegin(p) \/ SaveWake(p) \/ LoadBegin(p) \/ LoadRead(p)
             \/ Crash \/ UNCHANGED vars
      PROVE  disk'.of = Stored(disk'.of)
  <2>1. disk' = disk
    BY <1>5 DEF Change, SaveBegin, SaveWake, LoadBegin, LoadRead, Crash, vars
  <2> QED
    BY <1>1, <2>1
<1> QED
  BY <1>2, <1>3, <1>4, <1>5 DEF Next

\* The hash of the last save is not above what the file holds, nor that above
\* the dictionary, in an order in which the dictionary grows.
Chain(Leq) ==
  /\ disk # Cut => <<saved, disk.of>> \in Leq /\ <<disk.of, mem>> \in Leq
  /\ \A p \in Users : io[p] \in {"wait", "open", "write"} => <<hash[p], mem>> \in Leq

LEMMA ChainStep ==
  ASSUME TypeOK, OneHolder, CutWhileWriting, Ordinary,
         NEW Leq,
         \A c \in Content : <<c, c>> \in Leq,
         \A b, c, d \in Content \cup {Empty} :
           <<b, c>> \in Leq /\ <<c, d>> \in Leq => <<b, d>> \in Leq,
         \A c \in Content : /\ Stored(c) \in Content
                            /\ <<c, Stored(c)>> \in Leq /\ <<Stored(c), c>> \in Leq,
         Chain(Leq), <<mem, mem'>> \in Leq, mem' \in Content
  PROVE  Chain(Leq)'
<1>0. /\ disk.of \in Content \cup {Empty} /\ mem \in Content /\ saved \in Content
      /\ io \in [Users -> Stages] /\ hash \in [Users -> Content]
      /\ disk # Cut => <<saved, disk.of>> \in Leq /\ <<disk.of, mem>> \in Leq
      /\ \A p \in Users : io[p] \in {"wait", "open", "write"} => <<hash[p], mem>> \in Leq
  BY FileKinds DEF TypeOK, Chain
<1>1. /\ disk # Cut => <<disk.of, mem'>> \in Leq
      /\ \A p \in Users : io[p] \in {"wait", "open", "write"} => <<hash[p], mem'>> \in Leq
  BY <1>0
<1> DEFINE Goal == /\ disk' # Cut => <<saved', disk'.of>> \in Leq /\ <<disk'.of, mem'>> \in Leq
                   /\ \A p \in Users : io'[p] \in {"wait", "open", "write"} => <<hash'[p], mem'>> \in Leq
<1>2. ASSUME NEW c \in Content, Change(c) PROVE Goal
  BY <1>0, <1>1, <1>2 DEF Change
<1>3. ASSUME NEW p \in Users, SaveBegin(p) PROVE Goal
  <2>1. /\ disk' = disk /\ saved' = saved /\ mem' = mem
        /\ \A q \in Users : IF q = p THEN hash'[q] = mem ELSE hash'[q] = hash[q] /\ io'[q] = io[q]
    BY <1>0, <1>3 DEF SaveBegin
  <2> QED
    BY <1>0, <1>1, <2>1
<1>4. ASSUME NEW p \in Users, SaveWake(p) \/ LoadBegin(p) PROVE Goal
  <2>1. /\ disk' = disk /\ saved' = saved /\ hash' = hash
        /\ \A q \in Users : io'[q] \in {"wait", "open", "write"} => io[q] \in {"wait", "open", "write"}
    BY <1>0, <1>4 DEF SaveWake, LoadBegin
  <2> QED
    BY <1>0, <1>1, <2>1
<1>5. ASSUME NEW p \in Users, SaveOpen(p) PROVE Goal
  <2>1. /\ disk' = Cut /\ hash' = hash
        /\ \A q \in Users : io'[q] \in {"wait", "open", "write"} => io[q] \in {"wait", "open", "write"}
    BY <1>0, <1>5 DEF SaveOpen
  <2> QED
    BY <1>1, <2>1
<1>6. ASSUME NEW p \in Users, SaveWrite(p) PROVE Goal
  <2>1. disk = Cut
    BY <1>6 DEF SaveWrite, CutWhileWriting
  <2>2. /\ disk'.of = Stored(mem) /\ mem' = mem /\ saved' = hash[p]
        /\ <<hash[p], mem>> \in Leq /\ hash[p] \in Content
    BY <1>0, <1>6, <2>1, FileKinds DEF SaveWrite
  <2>4. <<saved', disk'.of>> \in Leq /\ <<disk'.of, mem'>> \in Leq
    BY <1>0, <2>2
  <2>3. \A q \in Users : io'[q] \in {"wait", "open", "write"} =>
          io[q] \in {"wait", "open", "write"} /\ hash'[q] = hash[q]
    BY <1>0, <1>6 DEF SaveWrite
  <2> QED
    BY <1>0, <1>1, <2>2, <2>3, <2>4
<1>7. ASSUME NEW p \in Users, LoadRead(p) PROVE Goal
  <2>1. /\ disk' = disk /\ hash' = hash
        /\ \/ saved' = saved
           \/ saved' = disk.of /\ mem' = disk.of /\ disk.file = "whole"
    BY <1>7 DEF LoadRead
  <2>2. \A q \in Users : io'[q] \in {"wait", "open", "write"} => io[q] \in {"wait", "open", "write"}
    BY <1>0, <1>7 DEF LoadRead
  <2> QED
    BY <1>0, <1>1, <2>1, <2>2
<1>8. ASSUME UNCHANGED vars PROVE Goal
  <2>1. mem' = mem /\ saved' = saved /\ disk' = disk /\ io' = io /\ hash' = hash
    BY <1>8 DEF vars
  <2> QED
    BY <1>0, <2>1
<1>9. Goal
  <2> HIDE DEF Goal
  <2> QED
    BY <1>2, <1>3, <1>4, <1>5, <1>6, <1>7, <1>8 DEF Ordinary
<1> QED
  BY <1>9 DEF Chain, Cut

\* The hash is that of the content of the file.
Exact == disk # Cut => disk.of = saved

LEMMA ExactStep ==
  ASSUME TypeOK, CutWhileWriting, Ordinary, Exact,
         \A c \in Content : Stored(c) = c,
         \A p \in Users : SaveWrite(p) => hash[p] = mem
  PROVE  Exact'
<1> SUFFICES ASSUME disk' # Cut PROVE disk'.of = saved'
  BY DEF Exact, Cut
<1>1. ASSUME NEW c \in Content, Change(c) PROVE disk'.of = saved'
  BY <1>1 DEF Change, Exact
<1>2. ASSUME NEW p \in Users, SaveBegin(p) \/ SaveWake(p) \/ SaveOpen(p) \/ LoadBegin(p)
      PROVE  disk'.of = saved'
  BY <1>2 DEF SaveBegin, SaveWake, SaveOpen, LoadBegin, Exact
<1>3. ASSUME NEW p \in Users, SaveWrite(p) PROVE disk'.of = saved'
  <2>1. disk = Cut /\ hash[p] = mem
    BY <1>3 DEF SaveWrite, CutWhileWriting
  <2> QED
    BY <1>3, <2>1, FileKinds DEF SaveWrite, TypeOK
<1>4. ASSUME NEW p \in Users, LoadRead(p) PROVE disk'.of = saved'
  BY <1>4 DEF LoadRead, Exact
<1>5. CASE UNCHANGED vars
  BY <1>5 DEF vars, Exact
<1> QED
  BY <1>1, <1>2, <1>3, <1>4, <1>5 DEF Ordinary
=============================================================================
