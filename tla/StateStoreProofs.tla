--------------------------- MODULE StateStoreProofs ---------------------------
(***************************************************************************)
(* The transactional store is one atomic log, for any number of processes, *)
(* any commands, any window and every crash, ceiling and damaged row, as   *)
(* long as documents are changed inside a mutation (no Outsiders).         *)
(*                                                                         *)
(* The key is what a document says of the events table (Counts): how many  *)
(* of its events the document has counted, and that the events it still    *)
(* holds whole are those.  The row counts all of them; a copy that a       *)
(* reader took earlier counts a prefix.  Then the history that readers are *)
(* shown is the table, once there is a revision (HistoryIsTable).          *)
(***************************************************************************)
EXTENDS StateStore, SequenceTheorems, WellFoundedInduction, TLAPS

-----------------------------------------------------------------------------
(* Sequences *)

\* A set of numbers that is not empty has a least one.
LEMMA LeastNumber ==
  ASSUME NEW T \in SUBSET Nat, T # {}
  PROVE  \E x \in T : \A y \in T : x <= y
<1>1. \E x \in T : \A y \in T : ~ (<<y, x>> \in OpToRel(<, Nat))
  BY NatLessThanWellFounded, WFMin
<1>2. PICK x \in T : \A y \in T : ~ (y < x)
  BY <1>1 DEF OpToRel
<1>3. QED
  BY <1>2

\* Where the first e of s is, and what is left without it.
LEMMA FirstPlace ==
  ASSUME NEW S, NEW s \in Seq(S), NEW e, \E i \in 1 .. Len(s) : s[i] = e
  PROVE  \E k \in 1 .. Len(s) :
           /\ s[k] = e /\ \A i \in 1 .. Len(s) : s[i] = e => k <= i
           /\ RemoveFirst(s, e) = SubSeq(s, 1, k - 1) \o SubSeq(s, k + 1, Len(s))
<1> DEFINE I == {i \in 1 .. Len(s) : s[i] = e}
<1>1. I # {} /\ I \in SUBSET Nat
  OBVIOUS
<1>2. \E x \in I : \A y \in I : x <= y
  BY <1>1, LeastNumber
<1>3. Min(I) \in I /\ \A y \in I : Min(I) <= y
  BY <1>2 DEF Min
<1>4. RemoveFirst(s, e) = RemoveAt(s, Min(I))
  BY <1>1 DEF RemoveFirst, SelectInSeq
<1>5. QED
  BY <1>3, <1>4 DEF RemoveAt

LEMMA NothingToRemove ==
  ASSUME NEW S, NEW s \in Seq(S), NEW e, \A i \in 1 .. Len(s) : s[i] # e
  PROVE  RemoveFirst(s, e) = s
BY DEF RemoveFirst

LEMMA AppendSeq ==
  ASSUME NEW S, NEW s \in Seq(S), NEW c \in S
  PROVE  /\ Append(s, c) \in Seq(S) /\ Len(Append(s, c)) = Len(s) + 1 /\ Len(s) \in Nat
         /\ \A i \in 1 .. Len(s) : Append(s, c)[i] = s[i]
         /\ Append(s, c)[Len(s) + 1] = c
BY AppendProperties, LenProperties

LEMMA ConcatAppend ==
  ASSUME NEW S, NEW s \in Seq(S), NEW t \in Seq(S), NEW c \in S
  PROVE  s \o Append(t, c) = Append(s \o t, c)
<1>1. s \o t \in Seq(S) /\ Append(t, c) \in Seq(S) /\ <<c>> \in Seq(S)
  BY AppendSeq, ConcatProperties
<1>2. Append(t, c) = t \o <<c>> /\ Append(s \o t, c) = (s \o t) \o <<c>>
  BY <1>1, AppendIsConcat
<1>3. QED
  BY <1>1, <1>2, ConcatAssociative

\* Appending another element commutes with removing the first e.
LEMMA RemoveThenAppend ==
  ASSUME NEW S, NEW s \in Seq(S), NEW c \in S, NEW e, c # e
  PROVE  RemoveFirst(Append(s, c), e) = Append(RemoveFirst(s, e), c)
<1> DEFINE I(t) == {i \in 1 .. Len(t) : t[i] = e}
           t == Append(s, c)
<1>1. I(t) = I(s)
  BY AppendSeq
<1>2. CASE I(s) = {}
  <2>1. RemoveFirst(t, e) = t /\ RemoveFirst(s, e) = s
    <3>1. (\A i \in 1 .. Len(s) : s[i] # e) /\ (\A i \in 1 .. Len(t) : t[i] # e)
      BY <1>1, <1>2
    <3>2. t \in Seq(S)
      BY AppendSeq
    <3> HIDE DEF t
    <3>3. QED
      BY <3>1, <3>2, NothingToRemove
  <2>2. QED
    BY <2>1
<1>3. CASE I(s) # {}
  <2>1. PICK k \in 1 .. Len(s) :
          /\ s[k] = e /\ \A i \in 1 .. Len(s) : s[i] = e => k <= i
          /\ RemoveFirst(s, e) = SubSeq(s, 1, k - 1) \o SubSeq(s, k + 1, Len(s))
    BY <1>3, FirstPlace
  <2>2. RemoveFirst(t, e) = SubSeq(t, 1, k - 1) \o SubSeq(t, k + 1, Len(t))
    <3>1. PICK m \in 1 .. Len(t) :
            /\ t[m] = e /\ \A i \in 1 .. Len(t) : t[i] = e => m <= i
            /\ RemoveFirst(t, e) = SubSeq(t, 1, m - 1) \o SubSeq(t, m + 1, Len(t))
      <4>1. t \in Seq(S) /\ \E i \in 1 .. Len(t) : t[i] = e
        BY <1>1, <1>3, AppendSeq
      <4> HIDE DEF t
      <4>2. QED
        BY <4>1, FirstPlace
    <3>2. m = k
      <4>1. m \in I(s) /\ k \in I(t)
        BY <1>1, <2>1, <3>1
      <4>2. m \in Nat /\ k \in Nat /\ m <= k /\ k <= m
        BY <1>1, <2>1, <3>1, <4>1
      <4>3. QED
        BY <4>2
    <3>3. QED
      BY <3>1, <3>2
  <2>3. SubSeq(t, 1, k - 1) = SubSeq(s, 1, k - 1)
    BY <2>1, AppendSeq
  <2>4. SubSeq(t, k + 1, Len(t)) = Append(SubSeq(s, k + 1, Len(s)), c)
    <3>0. k \in 1 .. Len(s)
      BY <2>1
    <3>1. Len(t) = Len(s) + 1 /\ Len(s) \in Nat /\ t \in Seq(S)
      BY AppendSeq
    <3>2. SubSeq(s, k + 1, Len(s)) \in Seq(S) /\ Len(SubSeq(s, k + 1, Len(s))) = Len(s) - k
      BY <3>0, <3>1
    <3>3. SubSeq(t, k + 1, Len(t)) \in Seq(S) /\ Len(SubSeq(t, k + 1, Len(t))) = Len(s) - k + 1
      BY <3>0, <3>1
    <3>4. \A i \in 1 .. Len(s) - k + 1 : SubSeq(t, k + 1, Len(t))[i] = t[k + i]
      BY <3>0, <3>1
    <3>5. \A i \in 1 .. Len(s) - k : SubSeq(s, k + 1, Len(s))[i] = s[k + i]
      BY <3>0, <3>1
    <3>6. \A i \in 1 .. Len(s) - k + 1 : t[k + i] = IF i = Len(s) - k + 1 THEN c ELSE s[k + i]
      BY <3>0, <3>1, AppendSeq
    <3> DEFINE a == SubSeq(t, k + 1, Len(t))
               b == Append(SubSeq(s, k + 1, Len(s)), c)
    <3>7. /\ b \in Seq(S) /\ Len(b) = Len(s) - k + 1 /\ b[Len(s) - k + 1] = c
          /\ \A i \in 1 .. Len(s) - k : b[i] = s[k + i]
      BY <3>2, <3>5, AppendSeq
    <3>8. \A i \in 1 .. Len(s) - k + 1 : a[i] = b[i]
      BY <3>0, <3>1, <3>4, <3>6, <3>7
    <3> HIDE DEF a, b
    <3>9. a = b
      BY <3>3, <3>7, <3>8, SeqEqual, ZenonT(40) DEF a
    <3>10. QED
      BY <3>9 DEF a, b
  <2>5. /\ SubSeq(s, 1, k - 1) \in Seq(S) /\ SubSeq(s, k + 1, Len(s)) \in Seq(S)
    BY <2>1, LenProperties, SMTT(20)
  <2> DEFINE a == SubSeq(s, 1, k - 1)
             b == SubSeq(s, k + 1, Len(s))
  <2>6. RemoveFirst(t, e) = a \o Append(b, c) /\ RemoveFirst(s, e) = a \o b
    BY <2>1, <2>2, <2>3, <2>4
  <2>7. a \in Seq(S) /\ b \in Seq(S)
    BY <2>5
  <2> HIDE DEF a, b, t
  <2>8. RemoveFirst(t, e) = Append(a \o b, c)
    BY <2>6, <2>7, ConcatAppend
  <2>9. QED
    BY <2>6, <2>8 DEF t
<1>4. QED
  BY <1>2, <1>3

\* Appending the first e and removing it again.
LEMMA AppendThenRemove ==
  ASSUME NEW S, NEW s \in Seq(S), NEW e \in S, \A i \in 1 .. Len(s) : s[i] # e
  PROVE  RemoveFirst(Append(s, e), e) = s
<1> DEFINE t == Append(s, e)
<1>1. t \in Seq(S) /\ Len(t) = Len(s) + 1 /\ Len(s) \in Nat
  BY AppendSeq
<1>2. t[Len(s) + 1] = e /\ \A i \in 1 .. Len(s) : t[i] # e
  BY AppendSeq
<1>3. SubSeq(t, 1, Len(s)) = s
  <2>1. SubSeq(t, 1, Len(s)) \in Seq(S) /\ Len(SubSeq(t, 1, Len(s))) = Len(s)
    BY <1>1
  <2>2. \A i \in 1 .. Len(s) : SubSeq(t, 1, Len(s))[i] = s[i]
    BY <1>1, AppendSeq
  <2>3. QED
    BY <2>1, <2>2, SeqEqual
<1> HIDE DEF t
<1>4. PICK k \in 1 .. Len(t) :
        t[k] = e /\ RemoveFirst(t, e) = SubSeq(t, 1, k - 1) \o SubSeq(t, k + 1, Len(t))
  <2>1. \E i \in 1 .. Len(t) : t[i] = e
    BY <1>1, <1>2
  <2>2. QED
    BY <1>1, <2>1, FirstPlace
<1>5. k = Len(s) + 1
  BY <1>1, <1>2, <1>4
<1>6. SubSeq(t, k + 1, Len(t)) = <<>> /\ SubSeq(t, 1, k - 1) = s
  <2>1. k + 1 \in Int /\ Len(t) \in Int /\ Len(t) < k + 1 /\ k - 1 = Len(s)
    BY <1>1, <1>5
  <2>2. QED
    BY <1>3, <2>1, SubSeqEmpty
<1>7. RemoveFirst(t, e) = s
  BY <1>4, <1>6, ConcatEmptySeq
<1>8. QED
  BY <1>7 DEF t

\* The beginning of a sequence is the beginning of what it grows into.
LEMMA PrefixOfAppend ==
  ASSUME NEW S, NEW s \in Seq(S), NEW c \in S, NEW m \in 0 .. Len(s)
  PROVE  SubSeq(Append(s, c), 1, m) = SubSeq(s, 1, m)
<1>1. Append(s, c) \in Seq(S) /\ Len(Append(s, c)) = Len(s) + 1 /\ Len(s) \in Nat
  BY AppendSeq
<1>2. \A i \in 1 .. m : SubSeq(Append(s, c), 1, m)[i] = SubSeq(s, 1, m)[i]
  BY <1>1, AppendSeq
<1>3. SubSeq(Append(s, c), 1, m) \in Seq(S) /\ SubSeq(s, 1, m) \in Seq(S)
  BY <1>1
<1>4. Len(SubSeq(Append(s, c), 1, m)) = m /\ Len(SubSeq(s, 1, m)) = m
  BY <1>1
<1>5. QED
  BY <1>2, <1>3, <1>4, SeqEqual

-----------------------------------------------------------------------------
(* Documents *)

\* What the proofs are about: an event is named after the command it is the effect of, or
\* came with the file; the names the store uses itself are nobody's.
Named(Legacy) ==
  /\ Commands \cap {FullMark, ImportId, "none", "read"} = {}
  /\ Legacy \cap (Commands \cup {FullMark}) = {}

\* A file from before the database is a whole document of a run that was not failed by the
\* ceiling; one that is absent or garbled holds no events.
FromBefore(Legacy) ==
  \A f \in Files :
    /\ f \in [holds : {"document", "nothing", "garbage"},
              doc : [events : Seq(Legacy), dropped : {0}, failed : {FALSE}]]
    /\ f.holds # "document" => f.doc.events = <<>>

Event(Legacy) == Commands \cup Legacy
Docs(Legacy) == [events : Seq(Event(Legacy) \cup {FullMark}), dropped : Nat, failed : BOOLEAN]

\* the events of d that are in the table too
Counted(d) == Total(d) - (IF d.failed THEN 1 ELSE 0)

\* Document d has counted a beginning of the table t, and the events it holds are those and
\* the mark, as long as it has dropped none.
Counts(d, t) ==
  /\ Counted(d) \in 0 .. Len(t)
  /\ d.dropped > 0 => Len(d.events) <= Counted(d)
  /\ d.dropped = 0 => Ours(d.events) = SubSeq(t, 1, Counted(d))
  /\ ~d.failed => \A i \in 1 .. Len(d.events) : d.events[i] # FullMark

LEMMA DocFields ==
  ASSUME NEW Legacy, NEW d \in Docs(Legacy)
  PROVE  /\ d.events \in Seq(Event(Legacy) \cup {FullMark}) /\ d.dropped \in Nat /\ d.failed \in BOOLEAN
         /\ Len(d.events) \in Nat /\ Total(d) \in Nat /\ Counted(d) \in Int
         /\ d = [events |-> d.events, dropped |-> d.dropped, failed |-> d.failed]
BY DEF Docs, Total, Counted

LEMMA AddedEvent ==
  ASSUME NEW Legacy, NEW d \in Docs(Legacy), NEW x
  PROVE  [d EXCEPT !.events = Append(@, x)]
           = [events |-> Append(d.events, x), dropped |-> d.dropped, failed |-> d.failed]
<1> DEFINE a == Append(d.events, x)
<1>1. DOMAIN d = {"events", "dropped", "failed"}
  BY DEF Docs
<1>2. [d EXCEPT !.events = a] = [events |-> a, dropped |-> d.dropped, failed |-> d.failed]
  <2> HIDE DEF a
  <2>1. QED
    BY <1>1
<1>3. QED
  BY <1>2

LEMMA MarkedFields ==
  ASSUME NEW Legacy, NEW d \in Docs(Legacy), NEW d1,
         Append(d.events, FullMark) \in Seq(Event(Legacy) \cup {FullMark}),
         d1 = Marked(d)
  PROVE  /\ d1 \in Docs(Legacy) /\ d1.events = Append(d.events, FullMark)
         /\ d1.dropped = d.dropped /\ d1.failed
BY DEF Docs, Marked

\* windowStateEvents changes neither what a document counts nor what it says of the table,
\* and keeps the newest event.
LEMMA WindowKeepsCount ==
  ASSUME NEW Legacy, NEW d \in Docs(Legacy), NEW t, Counts(d, t), Window \in Nat \ {0}
  PROVE  /\ Windowed(d) \in Docs(Legacy) /\ Counts(Windowed(d), t)
         /\ Total(Windowed(d)) = Total(d) /\ Windowed(d).failed = d.failed
         /\ Len(d.events) > 0 =>
              /\ Len(Windowed(d).events) > 0
              /\ Windowed(d).events[Len(Windowed(d).events)] = d.events[Len(d.events)]
<1> DEFINE E == Event(Legacy) \cup {FullMark}
           removed == Len(d.events) - Window
           kept == SubSeq(d.events, removed + 1, Len(d.events))
<1>1. d.events \in Seq(E) /\ Len(d.events) \in Nat /\ d.dropped \in Nat /\ d.failed \in BOOLEAN
  BY DocFields
<1>2. CASE removed <= 0
  BY <1>1, <1>2 DEF Windowed
<1>3. CASE removed > 0
  <2>1. kept \in Seq(E) /\ Len(kept) = Window
    BY <1>1, <1>3
  <2>2. \A i \in 1 .. Window : kept[i] = d.events[removed + i]
    BY <1>1, <1>3
  <2> HIDE DEF kept
  <2>3. Windowed(d) = [events |-> kept, dropped |-> d.dropped + removed, failed |-> d.failed]
    <3>1. Windowed(d) = [d EXCEPT !.events = kept, !.dropped = d.dropped + removed]
      BY <1>1, <1>3, DocFields DEF Windowed, kept
    <3>2. QED
      BY <3>1, DocFields
  <2>4. Total(Windowed(d)) = Total(d)
    BY <1>1, <2>1, <2>3 DEF Total
  <2>5. Counted(Windowed(d)) = Counted(d) /\ Counted(d) >= Window
    BY <1>1, <1>3, <2>3, <2>4 DEF Counted, Total
  <2>6. Counts(Windowed(d), t)
    <3>1. Windowed(d).dropped > 0 /\ Len(Windowed(d).events) <= Counted(d)
      BY <1>1, <1>3, <2>1, <2>3, <2>5
    <3>2. ~d.failed => \A i \in 1 .. Len(kept) : kept[i] # FullMark
      BY <1>1, <1>3, <2>1, <2>2 DEF Counts
    <3>3. QED
      BY <1>1, <1>3, <2>3, <2>5, <3>1, <3>2 DEF Counts
  <2>7. Windowed(d) \in Docs(Legacy)
    BY <1>1, <1>3, <2>1, <2>3 DEF Docs
  <2>8. kept[Window] = d.events[Len(d.events)]
    BY <1>1, <1>3, <2>2
  <2>9. QED
    BY <1>1, <2>1, <2>3, <2>4, <2>6, <2>7, <2>8
<1>4. QED
  BY <1>1, <1>2, <1>3

\* A command's event added to a document that has counted the whole table.
LEMMA CommandCounts ==
  ASSUME NEW Legacy, Named(Legacy), NEW d \in Docs(Legacy), NEW t \in Seq(Event(Legacy)),
         Counts(d, t), Counted(d) = Len(t), NEW c \in Commands,
         NEW d1, d1 = [d EXCEPT !.events = Append(@, c)]
  PROVE  /\ d1 \in Docs(Legacy) /\ Counts(d1, Append(t, c)) /\ Counted(d1) = Len(t) + 1
         /\ Total(d1) = Total(d) + 1
         /\ Len(d1.events) > 0 /\ d1.events[Len(d1.events)] = c
<1> DEFINE E == Event(Legacy) \cup {FullMark}
<1>1. /\ d.events \in Seq(E) /\ Len(d.events) \in Nat /\ d.dropped \in Nat /\ d.failed \in BOOLEAN
      /\ c \in E /\ c \in Event(Legacy) /\ c # FullMark
  BY DocFields DEF Event, Named
<1>2. d1 = [events |-> Append(d.events, c), dropped |-> d.dropped, failed |-> d.failed]
  BY AddedEvent
<1>3. /\ Append(d.events, c) \in Seq(E) /\ Len(Append(d.events, c)) = Len(d.events) + 1
      /\ \A i \in 1 .. Len(d.events) : Append(d.events, c)[i] = d.events[i]
      /\ Append(d.events, c)[Len(d.events) + 1] = c
  BY <1>1, AppendSeq
<1>4. /\ Append(t, c) \in Seq(Event(Legacy)) /\ Len(Append(t, c)) = Len(t) + 1 /\ Len(t) \in Nat
  BY <1>1, AppendSeq
<1>5. Total(d1) = Total(d) + 1 /\ Counted(d1) = Len(t) + 1
  BY <1>1, <1>2, <1>3, <1>4 DEF Total, Counted
<1>6. d1.dropped = 0 => Ours(d1.events) = SubSeq(Append(t, c), 1, Counted(d1))
  <2> SUFFICES ASSUME d.dropped = 0
               PROVE  RemoveFirst(Append(d.events, c), FullMark) = SubSeq(Append(t, c), 1, Len(t) + 1)
    BY <1>2, <1>5 DEF Ours
  <2>1. RemoveFirst(Append(d.events, c), FullMark) = Append(RemoveFirst(d.events, FullMark), c)
    BY <1>1, RemoveThenAppend
  <2>2. RemoveFirst(d.events, FullMark) = SubSeq(t, 1, Len(t)) /\ SubSeq(t, 1, Len(t)) = t
    BY SubSeqFull DEF Counts, Ours
  <2>3. SubSeq(Append(t, c), 1, Len(t) + 1) = Append(t, c)
    BY <1>4, SubSeqFull
  <2>4. QED
    BY <2>1, <2>2, <2>3
<1>7. ~d1.failed => \A i \in 1 .. Len(d1.events) : d1.events[i] # FullMark
  BY <1>1, <1>2, <1>3 DEF Counts
<1>8. d1.dropped > 0 => Len(d1.events) <= Counted(d1)
  BY <1>1, <1>2, <1>3, <1>4, <1>5 DEF Counts
<1>9. d1 \in Docs(Legacy)
  BY <1>1, <1>2, <1>3 DEF Docs
<1>10. Counts(d1, Append(t, c))
  <2>1. Counted(d1) \in 0 .. Len(Append(t, c))
    BY <1>4, <1>5
  <2>2. QED
    BY <1>6, <1>7, <1>8, <2>1 DEF Counts
<1>11. Len(d1.events) > 0 /\ d1.events[Len(d1.events)] = c
  BY <1>1, <1>2, <1>3
<1>12. QED
  BY <1>5, <1>9, <1>10, <1>11

\* The ceiling's mark counts for nothing.
LEMMA MarkCounts ==
  ASSUME NEW Legacy, NEW d \in Docs(Legacy), NEW t \in Seq(Event(Legacy)), Counts(d, t), ~d.failed,
         NEW d1, d1 = Marked(d)
  PROVE  d1 \in Docs(Legacy) /\ Counts(d1, t) /\ Counted(d1) = Counted(d)
<1> DEFINE E == Event(Legacy) \cup {FullMark}
<1>1. /\ d.events \in Seq(E) /\ Len(d.events) \in Nat /\ d.dropped \in Nat /\ FullMark \in E
  BY DocFields
<1>3. Append(d.events, FullMark) \in Seq(E) /\ Len(Append(d.events, FullMark)) = Len(d.events) + 1
  BY <1>1, AppendSeq
<1>2. d1 \in Docs(Legacy) /\ d1.events = Append(d.events, FullMark) /\ d1.dropped = d.dropped /\ d1.failed
  BY <1>3, MarkedFields
<1>4. Counted(d1) = Counted(d) /\ Counted(d) = d.dropped + Len(d.events)
  <2>1. Counted(d) = d.dropped + Len(d.events)
    BY <1>1 DEF Total, Counted
  <2>2. d1.failed /\ d1.dropped = d.dropped /\ Len(d1.events) = Len(d.events) + 1
    BY <1>2, <1>3
  <2>3. Counted(d1) = d.dropped + (Len(d.events) + 1) - 1
    BY <1>1, <2>2 DEF Total, Counted
  <2>4. QED
    BY <1>1, <2>1, <2>3
<1>5. Ours(d1.events) = d.events /\ Ours(d.events) = d.events
  <2>1. \A i \in 1 .. Len(d.events) : d.events[i] # FullMark
    BY DEF Counts
  <2>2. QED
    BY <1>1, <1>2, <2>1, AppendThenRemove, NothingToRemove DEF Ours
<1>6. d1.dropped > 0 => Len(d1.events) <= Counted(d1)
  BY <1>1, <1>2, <1>3, <1>4
<1>7. QED
  BY <1>1, <1>2, <1>3, <1>4, <1>5, <1>6 DEF Counts, Docs

\* What a document says of the table stays true when the table grows.
LEMMA CountsStay ==
  ASSUME NEW Legacy, NEW d, NEW t \in Seq(Event(Legacy)), Counts(d, t), NEW c \in Event(Legacy)
  PROVE  Counts(d, Append(t, c))
<1>1. Len(Append(t, c)) = Len(t) + 1 /\ Len(t) \in Nat /\ Counted(d) \in 0 .. Len(t)
  BY AppendSeq DEF Counts
<1>2. SubSeq(Append(t, c), 1, Counted(d)) = SubSeq(t, 1, Counted(d))
  BY <1>1, PrefixOfAppend
<1>3. QED
  BY <1>1, <1>2 DEF Counts

\* projectEvents after a command: the table gains the command's event.
LEMMA ProjectsCommand ==
  ASSUME NEW Legacy, NEW d \in Docs(Legacy), NEW t \in Seq(Event(Legacy)), NEW prior \in Nat,
         NEW c \in Event(Legacy),
         Total(d) = prior + 1, Len(d.events) > 0, d.events[Len(d.events)] = c
  PROVE  Projected(t, prior, d) = Append(t, c)
<1> DEFINE n == Len(d.events)
           E == Event(Legacy) \cup {FullMark}
<1>1. d.events \in Seq(E) /\ n \in Nat /\ n > 0 /\ Total(d) - prior = 1
  BY DocFields
<1>2. (IF 1 < n THEN n - 1 ELSE 0) + 1 = n
  BY <1>1
<1>3. Projected(t, prior, d) = t \o SubSeq(d.events, n, n)
  <2>1. ~ (Total(d) - prior <= 0)
    BY <1>1
  <2>2. Projected(t, prior, d)
          = t \o SubSeq(d.events, (IF 1 < n THEN n - 1 ELSE 0) + 1, n)
    BY <1>1, <2>1 DEF Projected
  <2>3. QED
    BY <1>2, <2>2
<1>4. SubSeq(d.events, n, n) = <<c>>
  <2> DEFINE last == SubSeq(d.events, n, n)
  <2>1. last \in Seq(E) /\ Len(last) = 1 /\ last[1] = c
    BY <1>1
  <2>2. <<c>> \in Seq(E) /\ Len(<<c>>) = 1 /\ <<c>>[1] = c
    BY DEF Event
  <2> HIDE DEF last
  <2>3. last = <<c>>
    BY <2>1, <2>2, SeqEqual
  <2>4. QED
    BY <2>3 DEF last
<1>5. QED
  BY <1>3, <1>4, AppendIsConcat

\* rehydrateEvents: what a reader is shown of a document is a beginning of the table, with
\* all that the document has counted.
LEMMA ShownIsPrefix ==
  ASSUME NEW Legacy, Named(Legacy), NEW d \in Docs(Legacy), NEW t \in Seq(Event(Legacy)), Counts(d, t)
  PROVE  /\ Rehydrated(d, t) \in Seq(Event(Legacy) \cup {FullMark})
         /\ \E n \in Counted(d) .. Len(t) : Ours(Rehydrated(d, t)) = SubSeq(t, 1, n)
<1>1. d.events \in Seq(Event(Legacy) \cup {FullMark}) /\ d.dropped \in Nat /\ Len(t) \in Nat
      /\ Counted(d) \in 0 .. Len(t) /\ Len(d.events) \in Nat
  <2>1. Counted(d) \in 0 .. Len(t)
    BY DEF Counts
  <2>2. QED
    BY <2>1, DocFields, LenProperties
<1>2. t \in Seq(Event(Legacy) \cup {FullMark})
  BY SeqMonotonic
<1>3. CASE d.dropped = 0
  BY <1>1, <1>3 DEF Rehydrated, Counts
<1>4. CASE d.dropped > 0
  <2>1. Rehydrated(d, t) = t
    BY <1>1, <1>4 DEF Rehydrated, Counts
  <2>2. \A i \in 1 .. Len(t) : t[i] # FullMark
    BY ElementOfSeq DEF Named, Event
  <2>3. Ours(t) = SubSeq(t, 1, Len(t))
    BY <2>2, NothingToRemove, SubSeqFull DEF Ours
  <2>4. QED
    BY <1>1, <1>2, <2>1, <2>3
<1>5. QED
  BY <1>1, <1>3, <1>4

\* importLegacyState: the whole history of the file becomes the table.
LEMMA ImportCounts ==
  ASSUME NEW Legacy, Named(Legacy), FromBefore(Legacy), NEW f \in Files
  PROVE  /\ f.doc \in Docs(Legacy) /\ f.doc.events \in Seq(Event(Legacy))
         /\ f.holds \in {"document", "nothing", "garbage"}
         /\ f = [holds |-> f.holds, doc |-> f.doc]
         /\ f.holds # "document" => f.doc.events = <<>>
         /\ \A i \in 1 .. Len(f.doc.events) : f.doc.events[i] \notin Commands
         /\ Counts(f.doc, f.doc.events) /\ Counted(f.doc) = Len(f.doc.events)
         /\ Projected(<<>>, 0, f.doc) = f.doc.events
<1> DEFINE d == f.doc
           s == d.events
<1>1. /\ f \in [holds : {"document", "nothing", "garbage"},
               doc : [events : Seq(Legacy), dropped : {0}, failed : {FALSE}]]
      /\ f.holds # "document" => f.doc.events = <<>>
  BY DEF FromBefore
<1>2. s \in Seq(Legacy) /\ d.dropped = 0 /\ d.failed = FALSE /\ Len(s) \in Nat
      /\ d = [events |-> s, dropped |-> 0, failed |-> FALSE]
  BY <1>1, LenProperties
<1>3. s \in Seq(Event(Legacy)) /\ s \in Seq(Event(Legacy) \cup {FullMark})
  BY <1>2, SeqMonotonic DEF Event
<1>4. \A i \in 1 .. Len(s) : s[i] \in Legacy
  BY <1>2, ElementOfSeq
<1>5. \A i \in 1 .. Len(s) : s[i] \notin Commands /\ s[i] # FullMark
  BY <1>4 DEF Named
<1>6. Ours(s) = s /\ SubSeq(s, 1, Len(s)) = s
  BY <1>3, <1>5, NothingToRemove, SubSeqFull DEF Ours
<1>0. d.events = s
  OBVIOUS
<1> HIDE DEF d, s
<1>7. Total(d) = Len(s) /\ Counted(d) = Len(s)
  <2>1. Total(d) = Len(s)
    BY <1>0, <1>2 DEF Total
  <2>2. QED
    BY <1>2, <2>1 DEF Counted
<1>8. d \in Docs(Legacy)
  BY <1>2, <1>3 DEF Docs
<1>9. Counts(d, s)
  BY <1>2, <1>5, <1>6, <1>7 DEF Counts, s
<1>10. Projected(<<>>, 0, d) = s
  <2>1. CASE Len(s) = 0
    <3>1. s = <<>>
      BY <1>2, <2>1, EmptySeq
    <3>2. QED
      BY <1>7, <2>1, <3>1 DEF Projected
  <2>2. CASE Len(s) > 0
    <3>1. ~ (Total(d) - 0 <= 0) /\ Total(d) - 0 = Len(s) /\ (IF Len(s) < Len(s) THEN Len(s) - Len(s) ELSE 0) + 1 = 1
      BY <1>2, <1>7, <2>2
    <3>2. Projected(<<>>, 0, d) = <<>> \o SubSeq(s, 1, Len(s))
      BY <3>1 DEF Projected, s
    <3>3. QED
      BY <1>3, <1>6, <3>2, ConcatEmptySeq
  <2>3. QED
    BY <1>2, <2>1, <2>2
<1>11. QED
  BY <1>1, <1>3, <1>5, <1>7, <1>8, <1>9, <1>10 DEF d, s

-----------------------------------------------------------------------------
(* The invariant *)

Pcs == {"idle", "touch", "import", "imported", "transact", "peek", "export", "rehydrate", "holding"}

Calls(Legacy) ==
  [pc : Pcs, cmd : Commands \cup {"none", "read"}, doc : Docs(Legacy), out : Docs(Legacy)]

\* What a call of a process may hold, when revs are recorded, t is the table and f the file.
CallOK(Legacy, c, revs, t, f) ==
  /\ c.pc \in Looking \cup {"import"} => c.cmd \in Commands \cup {"read"}
  /\ c.pc = "transact" => c.cmd \in Commands /\ (revs = {} => f.holds # "document")
  /\ c.pc = "import" /\ revs = {} => f.holds = "document" /\ c.doc = f.doc
  /\ c.pc \in {"imported", "export", "rehydrate", "holding"} => revs # {}
  /\ c.pc \in {"rehydrate", "holding"} => Counts(c.doc, t)
  /\ c.pc = "holding" => \E n \in Counted(c.doc) .. Len(t) : Ours(c.out.events) = SubSeq(t, 1, n)

\* Before the first revision there is no row, no event and the file as it was found; the row
\* counts the whole table, and the ledger has every command that is in it.
StoreOK(Legacy) ==
  /\ row \in [rev : Nat, doc : Docs(Legacy), ok : BOOLEAN]
  /\ table \in Seq(Event(Legacy))
  /\ file \in [holds : {"document", "nothing", "garbage"}, doc : Docs(Legacy)]
  /\ revisions # {} => 1 \in revisions
  /\ row.rev > 0 => revisions # {}
  /\ row.rev = 0 => row = NoRow
  /\ revisions = {} => table = <<>> /\ file \in Files
  /\ \A i \in 1 .. Len(table) : table[i] \in Commands => table[i] \in ledger
  /\ row.rev > 0 \/ revisions = {} => Counts(row.doc, table) /\ Counted(row.doc) = Len(table)

StoreInv(Legacy) ==
  /\ StoreOK(Legacy)
  /\ call \in [Procs -> Calls(Legacy)]
  /\ \A p \in Procs : CallOK(Legacy, call[p], revisions, table, file)

LEMMA IdleCall ==
  ASSUME NEW Legacy
  PROVE  Empty \in Docs(Legacy) /\ Idle \in Calls(Legacy)
         /\ \A revs, t, f : CallOK(Legacy, Idle, revs, t, f)
<1>1. Empty \in Docs(Legacy)
  BY DEF Empty, Docs
<1>2. Idle \in Calls(Legacy)
  BY <1>1 DEF Idle, Calls, Pcs
<1>3. QED
  BY <1>1, <1>2 DEF CallOK, Idle, Looking

\* The table and the revisions grow: what other calls hold stays right.
LEMMA CallGrows ==
  ASSUME NEW Legacy, NEW c, NEW revs, NEW revs2, NEW t \in Seq(Event(Legacy)), NEW t2, NEW f, NEW f2,
         CallOK(Legacy, c, revs, t, f), revs2 # {},
         \/ revs = {}
         \/ t2 = t
         \/ \E x \in Event(Legacy) : t2 = Append(t, x)
  PROVE  CallOK(Legacy, c, revs2, t2, f2)
<1>1. CASE revs = {}
  BY <1>1 DEF CallOK
<1>2. CASE t2 = t
  BY <1>2 DEF CallOK
<1>3. CASE \E x \in Event(Legacy) : t2 = Append(t, x)
  <2>1. PICK x \in Event(Legacy) : t2 = Append(t, x)
    BY <1>3
  <2>2. c.pc \in {"rehydrate", "holding"} => Counts(c.doc, t2)
    BY <2>1, CountsStay DEF CallOK
  <2>3. ASSUME c.pc = "holding"
        PROVE  \E n \in Counted(c.doc) .. Len(t2) : Ours(c.out.events) = SubSeq(t2, 1, n)
    <3>1. Counts(c.doc, t)
      BY <2>3 DEF CallOK
    <3>2. PICK n \in Counted(c.doc) .. Len(t) : Ours(c.out.events) = SubSeq(t, 1, n)
      BY <2>3 DEF CallOK
    <3>3. Counted(c.doc) \in 0 .. Len(t) /\ Len(t) \in Nat /\ Len(t2) = Len(t) + 1
      BY <2>1, <3>1, AppendSeq DEF Counts
    <3>4. n \in 0 .. Len(t) /\ n \in Counted(c.doc) .. Len(t2)
      BY <3>2, <3>3
    <3>5. SubSeq(t2, 1, n) = SubSeq(t, 1, n)
      BY <2>1, <3>4, PrefixOfAppend
    <3>6. QED
      BY <3>2, <3>4, <3>5
  <2>4. QED
    BY <2>2, <2>3 DEF CallOK
<1>4. QED
  BY <1>1, <1>2, <1>3

LEMMA GotoFields ==
  ASSUME NEW Legacy, call \in [Procs -> Calls(Legacy)], NEW p \in Procs, NEW pc \in Pcs, Goto(p, pc)
  PROVE  /\ call' \in [Procs -> Calls(Legacy)]
         /\ \A q \in Procs \ {p} : call'[q] = call[q]
         /\ call'[p].pc = pc /\ call'[p].cmd = call[p].cmd
         /\ call'[p].doc = call[p].doc /\ call'[p].out = call[p].out
BY DEF Goto, Calls

LEMMA ReturnFields ==
  ASSUME NEW Legacy, call \in [Procs -> Calls(Legacy)], NEW p \in Procs, Return(p)
  PROVE  /\ call' \in [Procs -> Calls(Legacy)]
         /\ \A q \in Procs \ {p} : call'[q] = call[q]
         /\ call'[p] = Idle
BY IdleCall DEF Return

LEMMA KeepFields ==
  ASSUME NEW Legacy, call \in [Procs -> Calls(Legacy)], NEW p \in Procs, NEW pc \in Pcs,
         NEW d \in Docs(Legacy), call' = [call EXCEPT ![p].pc = pc, ![p].doc = d]
  PROVE  /\ call' \in [Procs -> Calls(Legacy)]
         /\ \A q \in Procs \ {p} : call'[q] = call[q]
         /\ call'[p].pc = pc /\ call'[p].cmd = call[p].cmd
         /\ call'[p].doc = d /\ call'[p].out = call[p].out
BY DEF Calls

LEMMA TakesRow ==
  ASSUME NEW Legacy, call \in [Procs -> Calls(Legacy)], NEW p \in Procs, row.doc \in Docs(Legacy),
         TouchRow(p), call[p].cmd = "read"
  PROVE  /\ call' \in [Procs -> Calls(Legacy)]
         /\ \A q \in Procs \ {p} : call'[q] = call[q]
         /\ call'[p].pc = "rehydrate" /\ call'[p].cmd = call[p].cmd /\ call'[p].doc = row.doc
BY DEF TouchRow, Calls, Pcs

LEMMA TakesFile ==
  ASSUME NEW Legacy, call \in [Procs -> Calls(Legacy)], NEW p \in Procs, file.doc \in Docs(Legacy),
         TouchFile(p)
  PROVE  /\ call' \in [Procs -> Calls(Legacy)]
         /\ \A q \in Procs \ {p} : call'[q] = call[q]
         /\ call'[p].pc = "import" /\ call'[p].cmd = call[p].cmd /\ call'[p].doc = file.doc
BY DEF TouchFile, Calls, Pcs

LEMMA TakesTable ==
  ASSUME NEW Legacy, call \in [Procs -> Calls(Legacy)], NEW p \in Procs, NEW out \in Docs(Legacy),
         call' = [call EXCEPT ![p].pc = "holding", ![p].out = out]
  PROVE  /\ call' \in [Procs -> Calls(Legacy)]
         /\ \A q \in Procs \ {p} : call'[q] = call[q]
         /\ call'[p].pc = "holding" /\ call'[p].doc = call[p].doc /\ call'[p].out = out
BY DEF Calls, Pcs

LEMMA BeginFields ==
  ASSUME NEW Legacy, call \in [Procs -> Calls(Legacy)], NEW p \in Procs,
         NEW c \in Commands \cup {"read"},
         call' = [call EXCEPT ![p] = [Idle EXCEPT !.pc = "touch", !.cmd = c]]
  PROVE  /\ call' \in [Procs -> Calls(Legacy)]
         /\ \A q \in Procs \ {p} : call'[q] = call[q]
         /\ call'[p].pc = "touch" /\ call'[p].cmd = c
<1> DEFINE i == [Idle EXCEPT !.pc = "touch", !.cmd = c]
<1>1. i \in Calls(Legacy) /\ i.pc = "touch" /\ i.cmd = c
  BY IdleCall DEF Calls, Pcs
<1> HIDE DEF i
<1>2. call' = [call EXCEPT ![p] = i]
  BY DEF i
<1>3. QED
  BY <1>1, <1>2

-----------------------------------------------------------------------------
(* What a step does *)

Hypotheses(Legacy) == Outsiders = {} /\ Window \in Nat \ {0} /\ Named(Legacy) /\ FromBefore(Legacy)

\* The calls that leave the store's files alone.
LEMMA CallAlone ==
  ASSUME NEW Legacy, Hypotheses(Legacy), StoreInv(Legacy), NEW p \in Procs,
         \/ \E c \in Commands : Present(p, c) \/ WriteBack(p, c)
         \/ StartRead(p) \/ TouchRow(p) \/ TouchNothing(p) \/ TouchFile(p) \/ ImportDamaged(p)
         \/ Replay(p) \/ Abort(p) \/ Peek(p) \/ Rehydrate(p) \/ Finish(p) \/ Crash(p)
  PROVE  /\ call' \in [Procs -> Calls(Legacy)]
         /\ \A q \in Procs \ {p} : call'[q] = call[q]
         /\ CallOK(Legacy, call'[p], revisions, table, file)
         /\ UNCHANGED <<storage, file>>
<1>0. /\ call \in [Procs -> Calls(Legacy)] /\ CallOK(Legacy, call[p], revisions, table, file)
      /\ StoreOK(Legacy) /\ Outsiders = {}
  BY DEF StoreInv, Hypotheses
<1>1. CASE \E c \in Commands : Present(p, c)
  <2>1. PICK c \in Commands : Present(p, c)
    BY <1>1
  <2>2. call' = [call EXCEPT ![p] = [Idle EXCEPT !.pc = "touch", !.cmd = c]] /\ UNCHANGED <<storage, file>>
    BY <2>1 DEF Present
  <2>3. call' \in [Procs -> Calls(Legacy)] /\ (\A q \in Procs \ {p} : call'[q] = call[q])
        /\ call'[p].pc = "touch" /\ call'[p].cmd = c
    BY <1>0, <2>2, BeginFields
  <2>4. CallOK(Legacy, call'[p], revisions, table, file)
    BY <2>3 DEF CallOK, Looking
  <2>5. QED
    BY <2>2, <2>3, <2>4
<1>2. CASE StartRead(p)
  <2>2. call' = [call EXCEPT ![p] = [Idle EXCEPT !.pc = "touch", !.cmd = "read"]] /\ UNCHANGED <<storage, file>>
    BY <1>2 DEF StartRead
  <2>3. call' \in [Procs -> Calls(Legacy)] /\ (\A q \in Procs \ {p} : call'[q] = call[q])
        /\ call'[p].pc = "touch" /\ call'[p].cmd = "read"
    BY <1>0, <2>2, BeginFields
  <2>4. CallOK(Legacy, call'[p], revisions, table, file)
    BY <2>3 DEF CallOK, Looking
  <2>5. QED
    BY <2>2, <2>3, <2>4
<1>3. CASE TouchRow(p)
  <2>1. /\ UNCHANGED <<storage, file>> /\ row.rev > 0 /\ revisions # {} /\ row.doc \in Docs(Legacy)
        /\ Counts(row.doc, table) /\ call[p].pc \in Looking /\ call[p].cmd \in Commands \cup {"read"}
    BY <1>0, <1>3 DEF TouchRow, StoreOK, CallOK
  <2>2. CASE call[p].cmd = "read"
    <3>1. /\ call' \in [Procs -> Calls(Legacy)] /\ (\A q \in Procs \ {p} : call'[q] = call[q])
          /\ call'[p].pc = "rehydrate" /\ call'[p].doc = row.doc
      <4>1. row.doc \in Docs(Legacy) /\ call \in [Procs -> Calls(Legacy)]
        BY <1>0, <2>1
      <4>2. QED
        BY <1>3, <2>2, <4>1, TakesRow
    <3>2. CallOK(Legacy, call'[p], revisions, table, file)
      BY <2>1, <3>1 DEF CallOK, Looking
    <3>3. QED
      BY <2>1, <3>1, <3>2
  <2>3. CASE call[p].cmd # "read"
    <3>1. /\ call' \in [Procs -> Calls(Legacy)] /\ (\A q \in Procs \ {p} : call'[q] = call[q])
          /\ call'[p].pc = "transact" /\ call'[p].cmd = call[p].cmd
      <4>1. Goto(p, "transact") /\ "transact" \in Pcs
        BY <1>3, <2>3 DEF TouchRow, Pcs
      <4>2. QED
        BY <1>0, <4>1, GotoFields
    <3>2. CallOK(Legacy, call'[p], revisions, table, file)
      BY <2>1, <2>3, <3>1 DEF CallOK, Looking
    <3>3. QED
      BY <2>1, <3>1, <3>2
  <2>4. QED
    BY <2>2, <2>3
<1>4. CASE TouchNothing(p)
  <2>1. /\ UNCHANGED <<storage, file>> /\ call[p].pc \in Looking /\ call[p].cmd \in Commands \cup {"read"}
        /\ call[p].pc = "imported" => revisions # {}
    BY <1>0, <1>4 DEF TouchNothing, CallOK
  <2>2. CASE (call[p].pc = "imported" \/ file = Absent) /\ call[p].cmd # "read"
    <3>1. /\ call' \in [Procs -> Calls(Legacy)] /\ (\A q \in Procs \ {p} : call'[q] = call[q])
          /\ call'[p].pc = "transact" /\ call'[p].cmd = call[p].cmd
      <4>1. Goto(p, "transact") /\ "transact" \in Pcs
        BY <1>4, <2>2 DEF TouchNothing, Pcs
      <4>2. QED
        BY <1>0, <4>1, GotoFields
    <3>2. revisions = {} => file.holds # "document"
      BY <2>1, <2>2 DEF Absent
    <3>3. CallOK(Legacy, call'[p], revisions, table, file)
      BY <2>1, <2>2, <3>1, <3>2 DEF CallOK, Looking
    <3>4. QED
      BY <2>1, <3>1, <3>3
  <2>3. CASE ~ ((call[p].pc = "imported" \/ file = Absent) /\ call[p].cmd # "read")
    <3>1. Return(p)
      BY <1>4, <2>3 DEF TouchNothing
    <3>2. QED
      BY <1>0, <2>1, <3>1, ReturnFields, IdleCall
  <2>4. QED
    BY <2>2, <2>3
<1>5. CASE TouchFile(p)
  <2>1. /\ UNCHANGED <<storage, file>> /\ call[p].pc = "touch" /\ call[p].cmd \in Commands \cup {"read"}
        /\ file.holds = "document" /\ file.doc \in Docs(Legacy) /\ "import" \in Pcs
    BY <1>0, <1>5 DEF TouchFile, CallOK, StoreOK, Looking, Pcs
  <2>2. /\ call' \in [Procs -> Calls(Legacy)] /\ (\A q \in Procs \ {p} : call'[q] = call[q])
        /\ call'[p].pc = "import" /\ call'[p].doc = file.doc /\ call'[p].cmd = call[p].cmd
    <3>1. file.doc \in Docs(Legacy) /\ call \in [Procs -> Calls(Legacy)]
      BY <1>0, <2>1
    <3>2. QED
      BY <1>5, <3>1, TakesFile
  <2>3. CallOK(Legacy, call'[p], revisions, table, file)
    BY <2>1, <2>2 DEF CallOK, Looking
  <2>4. QED
    BY <2>1, <2>2, <2>3
<1>6. CASE ImportDamaged(p) \/ Abort(p) \/ Finish(p) \/ Crash(p)
  <2>1. Return(p) /\ UNCHANGED <<storage, file>>
    BY <1>6 DEF ImportDamaged, Abort, Finish, Crash
  <2>2. QED
    BY <1>0, <2>1, ReturnFields, IdleCall
<1>7. CASE Replay(p)
  <2>1. Goto(p, "peek") /\ "peek" \in Pcs /\ UNCHANGED <<storage, file>>
    BY <1>7 DEF Replay, Pcs
  <2>2. /\ call' \in [Procs -> Calls(Legacy)] /\ (\A q \in Procs \ {p} : call'[q] = call[q])
        /\ call'[p].pc = "peek"
    BY <1>0, <2>1, GotoFields
  <2>3. CallOK(Legacy, call'[p], revisions, table, file)
    BY <2>2 DEF CallOK, Looking
  <2>4. QED
    BY <2>1, <2>2, <2>3
<1>8. CASE Peek(p)
  <2>1. UNCHANGED <<storage, file>> /\ row.doc \in Docs(Legacy) /\ (row.rev > 0 => revisions # {})
    BY <1>0, <1>8 DEF Peek, StoreOK
  <2>2. CASE row.rev > 0
    <3>1. call' = [call EXCEPT ![p].pc = "export", ![p].doc = row.doc] /\ "export" \in Pcs
      BY <1>8, <2>2 DEF Peek, Pcs
    <3>2. /\ call' \in [Procs -> Calls(Legacy)] /\ (\A q \in Procs \ {p} : call'[q] = call[q])
          /\ call'[p].pc = "export"
      BY <1>0, <2>1, <3>1, KeepFields
    <3>3. CallOK(Legacy, call'[p], revisions, table, file)
      BY <2>1, <2>2, <3>2 DEF CallOK, Looking
    <3>4. QED
      BY <2>1, <3>2, <3>3
  <2>3. CASE ~ (row.rev > 0)
    <3>1. Return(p)
      BY <1>8, <2>3 DEF Peek
    <3>2. QED
      BY <1>0, <2>1, <3>1, ReturnFields, IdleCall
  <2>4. QED
    BY <2>2, <2>3
<1>9. CASE Rehydrate(p)
  <2> DEFINE d == call[p].doc
             out == [d EXCEPT !.events = Rehydrated(d, table)]
  <2>1. /\ UNCHANGED <<storage, file>> /\ call[p].pc = "rehydrate" /\ revisions # {} /\ "holding" \in Pcs
        /\ call' = [call EXCEPT ![p].pc = "holding", ![p].out = out]
        /\ d \in Docs(Legacy) /\ Counts(d, table) /\ table \in Seq(Event(Legacy))
    BY <1>0, <1>9 DEF Rehydrate, CallOK, StoreOK, Pcs, Calls
  <2>2. /\ Rehydrated(d, table) \in Seq(Event(Legacy) \cup {FullMark})
        /\ \E n \in Counted(d) .. Len(table) : Ours(Rehydrated(d, table)) = SubSeq(table, 1, n)
    BY <2>1, ShownIsPrefix DEF Hypotheses
  <2>3. out \in Docs(Legacy) /\ out.events = Rehydrated(d, table)
    BY <2>1, <2>2 DEF Docs
  <2>4. /\ call' \in [Procs -> Calls(Legacy)] /\ (\A q \in Procs \ {p} : call'[q] = call[q])
        /\ call'[p].pc = "holding" /\ call'[p].doc = d /\ call'[p].out = out
    <3> HIDE DEF out
    <3>1. /\ "holding" \in Pcs /\ call' = [call EXCEPT ![p].pc = "holding", ![p].out = out]
          /\ out \in Docs(Legacy) /\ call \in [Procs -> Calls(Legacy)]
      BY <1>0, <2>1, <2>3
    <3>2. QED
      BY <3>1, TakesTable
  <2> HIDE DEF d, out
  <2>5. CallOK(Legacy, call'[p], revisions, table, file)
    BY <2>1, <2>2, <2>3, <2>4 DEF CallOK, Looking
  <2>6. QED
    BY <2>1, <2>4, <2>5
<1>10. ~ (\E c \in Commands : WriteBack(p, c))
  BY <1>0 DEF WriteBack
<1>11. QED
  BY <1>1, <1>2, <1>3, <1>4, <1>5, <1>6, <1>7, <1>8, <1>9, <1>10

\* The invariant after a step of p that grows the table at most.
LEMMA InvFromParts ==
  ASSUME NEW Legacy, StoreInv(Legacy), StoreOK(Legacy)', call' \in [Procs -> Calls(Legacy)],
         NEW p \in Procs, \A q \in Procs \ {p} : call'[q] = call[q],
         CallOK(Legacy, call'[p], revisions', table', file'),
         \/ revisions' = revisions /\ table' = table /\ file' = file
         \/ /\ revisions' # {}
            /\ revisions = {} \/ table' = table \/ \E x \in Event(Legacy) : table' = Append(table, x)
  PROVE  StoreInv(Legacy)'
<1>1. /\ table \in Seq(Event(Legacy))
      /\ \A q \in Procs : CallOK(Legacy, call[q], revisions, table, file)
  BY DEF StoreInv, StoreOK
<1>2. ASSUME NEW q \in Procs
      PROVE  CallOK(Legacy, call'[q], revisions', table', file')
  <2>1. CASE q = p
    BY <2>1
  <2>2. CASE q # p
    <3>1. call'[q] = call[q] /\ CallOK(Legacy, call[q], revisions, table, file)
      BY <1>1, <2>2
    <3>2. CASE revisions' = revisions /\ table' = table /\ file' = file
      BY <3>1, <3>2
    <3>3. CASE revisions' # {} /\ (revisions = {} \/ table' = table \/ \E x \in Event(Legacy) : table' = Append(table, x))
      BY <1>1, <3>1, <3>3, CallGrows
    <3>4. QED
      BY <3>2, <3>3
  <2>3. QED
    BY <2>1, <2>2
<1>3. QED
  BY <1>2 DEF StoreInv

\* A row that does not parse is dropped; there was a revision, and there still is.
LEMMA QuarantineKeeps ==
  ASSUME NEW Legacy, StoreInv(Legacy), NEW p \in Procs, Quarantine(p)
  PROVE  StoreInv(Legacy)' /\ UNCHANGED <<revisions, table, file>> /\ row.rev > 0 /\ ~row.ok
         /\ row'.rev = 0 /\ revisions # {}
<1>1. /\ call \in [Procs -> Calls(Legacy)] /\ StoreOK(Legacy) /\ Return(p) /\ row' = NoRow
      /\ UNCHANGED <<revisions, table, ledger, file>> /\ row.rev > 0 /\ ~row.ok
  BY DEF StoreInv, Quarantine
<1>2. /\ call' \in [Procs -> Calls(Legacy)] /\ (\A q \in Procs \ {p} : call'[q] = call[q])
      /\ call'[p] = Idle
  BY <1>1, ReturnFields
<1>3. row'.rev = 0 /\ row'.ok /\ NoRow \in [rev : Nat, doc : Docs(Legacy), ok : BOOLEAN]
  BY <1>1, IdleCall DEF NoRow
<1>4. revisions # {}
  BY <1>1 DEF StoreOK
<1>5. StoreOK(Legacy)'
  BY <1>1, <1>3, <1>4 DEF StoreOK
<1>6. StoreInv(Legacy)'
  BY <1>1, <1>2, <1>5, IdleCall, InvFromParts
<1>7. QED
  BY <1>1, <1>3, <1>4, <1>6

LEMMA NextRow ==
  ASSUME NEW D, NEW r \in [rev : Nat, doc : D, ok : BOOLEAN], NEW d \in D,
         NEW r2, r2 = [r EXCEPT !.rev = @ + 1, !.doc = d]
  PROVE  /\ r2 \in [rev : Nat, doc : D, ok : BOOLEAN]
         /\ r2.rev = r.rev + 1 /\ r2.doc = d /\ r2.ok = r.ok
<1> DEFINE x == r.rev + 1
<1>1. x \in Nat /\ r2 = [r EXCEPT !.rev = x, !.doc = d]
  OBVIOUS
<1> HIDE DEF x
<1>2. r2 \in [rev : Nat, doc : D, ok : BOOLEAN] /\ r2.rev = x /\ r2.doc = d /\ r2.ok = r.ok
  BY <1>1
<1>3. QED
  BY <1>2 DEF x

LEMMA CeilingFields ==
  ASSUME NEW Legacy, row \in [rev : Nat, doc : Docs(Legacy), ok : BOOLEAN], NEW p, HitCeiling(p), row.rev > 0,
         NEW d1, d1 = Marked(row.doc), Windowed(d1) \in Docs(Legacy)
  PROVE  /\ row' \in [rev : Nat, doc : Docs(Legacy), ok : BOOLEAN]
         /\ row'.rev = row.rev + 1 /\ row'.doc = Windowed(d1) /\ row'.ok = row.ok
<1>1. row' = [row EXCEPT !.rev = @ + 1, !.doc = Windowed(d1)]
  BY DEF HitCeiling
<1>2. QED
  BY <1>1, NextRow

\* The ceiling: the mark enters the row, and the table is not written.
LEMMA CeilingKeeps ==
  ASSUME NEW Legacy, Hypotheses(Legacy), StoreInv(Legacy), NEW p \in Procs, HitCeiling(p)
  PROVE  StoreInv(Legacy)' /\ UNCHANGED <<revisions, table, file>>
         /\ (row'.rev > 0 <=> row.rev > 0) /\ row'.ok = row.ok
<1>1. /\ call \in [Procs -> Calls(Legacy)] /\ StoreOK(Legacy) /\ Return(p)
      /\ UNCHANGED <<revisions, table, ledger, file>> /\ ~row.doc.failed
  BY DEF StoreInv, HitCeiling, MeetsCeiling
<1>2. /\ call' \in [Procs -> Calls(Legacy)] /\ (\A q \in Procs \ {p} : call'[q] = call[q])
      /\ call'[p] = Idle
  BY <1>1, ReturnFields
<1>3. /\ row \in [rev : Nat, doc : Docs(Legacy), ok : BOOLEAN] /\ table \in Seq(Event(Legacy))
  BY <1>1 DEF StoreOK
<1>4. CASE row.rev > 0
  <2> DEFINE d1 == Marked(row.doc)
             d2 == Windowed(d1)
  <2>2. Counts(row.doc, table) /\ Counted(row.doc) = Len(table) /\ row.doc \in Docs(Legacy) /\ revisions # {}
    BY <1>1, <1>3, <1>4 DEF StoreOK
  <2>3. d1 \in Docs(Legacy) /\ Counts(d1, table) /\ Counted(d1) = Len(table)
    BY <1>1, <1>3, <2>2, MarkCounts
  <2>4. d2 \in Docs(Legacy) /\ Counts(d2, table) /\ Total(d2) = Total(d1) /\ d2.failed = d1.failed
    <3> HIDE DEF d1
    <3>1. QED
      BY <2>3, WindowKeepsCount DEF Hypotheses
  <2>1. /\ row' \in [rev : Nat, doc : Docs(Legacy), ok : BOOLEAN]
        /\ row'.rev = row.rev + 1 /\ row'.doc = d2 /\ row'.ok = row.ok
    <3> HIDE DEF d1
    <3>1. d1 = Marked(row.doc)
      BY DEF d1
    <3>2. QED
      BY <1>3, <1>4, <2>4, <3>1, CeilingFields
  <2> HIDE DEF d1, d2
  <2>5. Counted(d2) = Len(table)
    BY <2>3, <2>4 DEF Counted
  <2>6. /\ row' \in [rev : Nat, doc : Docs(Legacy), ok : BOOLEAN] /\ row'.rev > 0 /\ row'.rev # 0
        /\ row'.doc = d2 /\ row'.ok = row.ok
    BY <1>3, <1>4, <2>1, <2>4
  <2>7. StoreOK(Legacy)'
    BY <1>1, <2>2, <2>4, <2>5, <2>6 DEF StoreOK
  <2>8. StoreInv(Legacy)'
    BY <1>1, <1>2, <2>7, IdleCall, InvFromParts
  <2>9. QED
    BY <1>1, <1>4, <2>6, <2>8
<1>5. CASE ~ (row.rev > 0)
  <2>1. row' = row
    BY <1>5 DEF HitCeiling
  <2>2. StoreOK(Legacy)'
    BY <1>1, <2>1 DEF StoreOK
  <2>3. StoreInv(Legacy)'
    BY <1>1, <1>2, <2>2, IdleCall, InvFromParts
  <2>4. QED
    BY <1>1, <2>1, <2>3
<1>6. QED
  BY <1>4, <1>5

LEMMA NoChangeKeeps ==
  ASSUME NEW Legacy, StoreInv(Legacy), NEW p \in Procs, NoChange(p)
  PROVE  StoreInv(Legacy)' /\ UNCHANGED <<row, revisions, table, file>>
<1>1. /\ call \in [Procs -> Calls(Legacy)] /\ StoreOK(Legacy) /\ Goto(p, "peek") /\ "peek" \in Pcs
      /\ UNCHANGED <<row, revisions, table, file>> /\ ledger' = ledger \cup {call[p].cmd}
  BY DEF StoreInv, NoChange, Pcs
<1>2. /\ call' \in [Procs -> Calls(Legacy)] /\ (\A q \in Procs \ {p} : call'[q] = call[q])
      /\ call'[p].pc = "peek"
  BY <1>1, GotoFields
<1>3. StoreOK(Legacy)'
  BY <1>1 DEF StoreOK
<1>4. CallOK(Legacy, call'[p], revisions', table', file')
  BY <1>2 DEF CallOK, Looking
<1>5. QED
  BY <1>1, <1>2, <1>3, <1>4, InvFromParts

\* The export comes after a revision, so the file is not the history any more.
LEMMA ExportKeeps ==
  ASSUME NEW Legacy, StoreInv(Legacy), NEW p \in Procs, Export(p)
  PROVE  StoreInv(Legacy)' /\ UNCHANGED <<row, revisions, table>> /\ revisions # {}
<1>1. /\ call \in [Procs -> Calls(Legacy)] /\ StoreOK(Legacy) /\ Return(p)
      /\ UNCHANGED <<row, revisions, table, ledger>> /\ file' = File(call[p].doc)
      /\ CallOK(Legacy, call[p], revisions, table, file) /\ call[p].pc = "export"
  BY DEF StoreInv, Export, storage
<1>2. /\ call' \in [Procs -> Calls(Legacy)] /\ (\A q \in Procs \ {p} : call'[q] = call[q])
      /\ call'[p] = Idle
  BY <1>1, ReturnFields
<1>3. revisions # {} /\ call[p].doc \in Docs(Legacy)
  BY <1>1 DEF CallOK, Calls
<1>4. file' \in [holds : {"document", "nothing", "garbage"}, doc : Docs(Legacy)]
  BY <1>1, <1>3 DEF File
<1>5. StoreOK(Legacy)'
  BY <1>1, <1>3, <1>4 DEF StoreOK
<1>6. QED
  BY <1>1, <1>2, <1>3, <1>5, IdleCall, InvFromParts

\* The import: nothing when there is a row or a revision by now, else the file's history.
LEMMA ImportKeeps ==
  ASSUME NEW Legacy, Hypotheses(Legacy), StoreInv(Legacy), NEW p \in Procs, ImportLegacy(p)
  PROVE  /\ StoreInv(Legacy)' /\ UNCHANGED file
         /\ \/ UNCHANGED <<row, revisions, table>>
            \/ /\ revisions = {} /\ revisions' # {} /\ row.rev = 0 /\ row'.rev > 0 /\ row'.ok
               /\ table' = file.doc.events
<1>1. /\ call \in [Procs -> Calls(Legacy)] /\ StoreOK(Legacy) /\ UNCHANGED file
      /\ CallOK(Legacy, call[p], revisions, table, file) /\ call[p].pc = "import"
      /\ call[p].cmd \in Commands \cup {"read"}
  BY DEF StoreInv, ImportLegacy, CallOK
<1>2. CASE row.rev > 0 /\ row.ok /\ Goto(p, "imported") /\ UNCHANGED storage
  <2>1. /\ call' \in [Procs -> Calls(Legacy)] /\ (\A q \in Procs \ {p} : call'[q] = call[q])
        /\ call'[p].pc = "imported" /\ call'[p].cmd = call[p].cmd
    <3>1. "imported" \in Pcs
      BY DEF Pcs
    <3>2. QED
      BY <1>1, <1>2, <3>1, GotoFields
  <2>2. StoreOK(Legacy)' /\ revisions # {} /\ UNCHANGED <<row, revisions, table>>
    BY <1>1, <1>2 DEF StoreOK, storage
  <2>3. CallOK(Legacy, call'[p], revisions', table', file')
    BY <1>1, <2>1, <2>2 DEF CallOK, Looking
  <2>4. QED
    BY <1>1, <2>1, <2>2, <2>3, InvFromParts
<1>3. CASE Return(p) /\ UNCHANGED storage
  <2>1. /\ call' \in [Procs -> Calls(Legacy)] /\ (\A q \in Procs \ {p} : call'[q] = call[q])
        /\ call'[p] = Idle
    BY <1>1, <1>3, ReturnFields
  <2>2. StoreOK(Legacy)' /\ UNCHANGED <<row, revisions, table>>
    BY <1>1, <1>3 DEF StoreOK, storage
  <2>3. QED
    BY <1>1, <2>1, <2>2, IdleCall, InvFromParts
<1>4. CASE /\ row.rev = 0 /\ 1 \notin revisions
           /\ row' = [rev |-> 1, doc |-> Windowed(call[p].doc), ok |-> TRUE]
           /\ revisions' = revisions \cup {1}
           /\ table' = Projected(table, 0, call[p].doc)
           /\ ledger' = ledger \cup {ImportId}
           /\ Goto(p, "imported")
  <2> DEFINE d == file.doc
             d2 == Windowed(d)
  <2>1. revisions = {} /\ table = <<>> /\ file \in Files /\ call[p].doc = d
    BY <1>1, <1>4 DEF StoreOK, CallOK
  <2>2. /\ d \in Docs(Legacy) /\ d.events \in Seq(Event(Legacy))
        /\ \A i \in 1 .. Len(d.events) : d.events[i] \notin Commands
        /\ Counts(d, d.events) /\ Counted(d) = Len(d.events)
        /\ Projected(<<>>, 0, d) = d.events
    BY <2>1, ImportCounts DEF Hypotheses
  <2>3. table' = d.events /\ revisions' = {1}
    BY <1>4, <2>1, <2>2
  <2>4. d2 \in Docs(Legacy) /\ Counts(d2, d.events) /\ Total(d2) = Total(d) /\ d2.failed = d.failed
    BY <2>2, WindowKeepsCount DEF Hypotheses
  <2>5. row' = [rev |-> 1, doc |-> d2, ok |-> TRUE]
    BY <1>4, <2>1
  <2> HIDE DEF d, d2
  <2>6. Counted(d2) = Len(d.events)
    BY <2>2, <2>4 DEF Counted
  <2>7. /\ row' \in [rev : Nat, doc : Docs(Legacy), ok : BOOLEAN] /\ row'.rev = 1
        /\ row'.doc = d2 /\ row'.ok
    BY <2>4, <2>5
  <2>8. StoreOK(Legacy)'
    BY <1>1, <2>2, <2>3, <2>4, <2>6, <2>7 DEF StoreOK
  <2>9. /\ call' \in [Procs -> Calls(Legacy)] /\ (\A q \in Procs \ {p} : call'[q] = call[q])
        /\ call'[p].pc = "imported" /\ call'[p].cmd = call[p].cmd
    <3>1. "imported" \in Pcs
      BY DEF Pcs
    <3>2. QED
      BY <1>1, <1>4, <3>1, GotoFields
  <2>10. CallOK(Legacy, call'[p], revisions', table', file')
    BY <1>1, <2>3, <2>9 DEF CallOK, Looking
  <2>11. StoreInv(Legacy)'
    BY <2>1, <2>3, <2>8, <2>9, <2>10, InvFromParts
  <2>12. QED
    BY <1>1, <1>4, <2>1, <2>3, <2>7, <2>11 DEF d
<1>5. QED
  BY <1>2, <1>3, <1>4 DEF ImportLegacy

\* The commit of a new revision: the command's event is the table's new end.
LEMMA CommitKeeps ==
  ASSUME NEW Legacy, Hypotheses(Legacy), StoreInv(Legacy), NEW p \in Procs, Commit(p)
  PROVE  /\ StoreInv(Legacy)' /\ UNCHANGED file
         /\ row.ok /\ row'.ok /\ row'.rev > 0 /\ revisions' # {}
         /\ row.rev > 0 \/ (revisions = {} /\ file.holds # "document")
         /\ call[p].cmd \in Commands /\ call[p].cmd \notin ledger
         /\ table' = Append(table, call[p].cmd)
<1> DEFINE c == call[p].cmd
           d1 == [row.doc EXCEPT !.events = Append(@, c)]
           d2 == Windowed(d1)
<1>1. /\ call \in [Procs -> Calls(Legacy)] /\ StoreOK(Legacy) /\ UNCHANGED file
      /\ CallOK(Legacy, call[p], revisions, table, file) /\ call[p].pc = "transact"
      /\ row.ok /\ c \notin ledger /\ row.rev + 1 \notin revisions
      /\ ledger' = ledger \cup {c} /\ revisions' = revisions \cup {row.rev + 1}
      /\ Goto(p, "peek") /\ "peek" \in Pcs
  BY DEF StoreInv, Commit, Pcs
<1>2. c \in Commands /\ (revisions = {} => file.holds # "document")
  BY <1>1 DEF CallOK
<1>3. /\ row \in [rev : Nat, doc : Docs(Legacy), ok : BOOLEAN] /\ table \in Seq(Event(Legacy))
      /\ row.doc \in Docs(Legacy) /\ row.rev \in Nat
  BY <1>1 DEF StoreOK
<1>4. row.rev > 0 \/ revisions = {}
  BY <1>1, <1>3 DEF StoreOK
<1>5. Counts(row.doc, table) /\ Counted(row.doc) = Len(table)
  BY <1>1, <1>4 DEF StoreOK
<1>6. row' = [rev |-> row.rev + 1, doc |-> d2, ok |-> TRUE] /\ table' = Projected(table, Total(row.doc), d2)
  <2>1. NextDoc(p) = d1
    BY DEF NextDoc, Hypotheses
  <2> HIDE DEF d1
  <2>2. QED
    BY <2>1 DEF Commit
<1>7. /\ d1 \in Docs(Legacy) /\ Counts(d1, Append(table, c)) /\ Counted(d1) = Len(table) + 1
      /\ Total(d1) = Total(row.doc) + 1
      /\ Len(d1.events) > 0 /\ d1.events[Len(d1.events)] = c
  BY <1>2, <1>3, <1>5, CommandCounts DEF Hypotheses
<1> HIDE DEF d1
<1>8. /\ d2 \in Docs(Legacy) /\ Counts(d2, Append(table, c)) /\ Total(d2) = Total(d1) /\ d2.failed = d1.failed
      /\ Len(d2.events) > 0 /\ d2.events[Len(d2.events)] = c
  BY <1>7, WindowKeepsCount DEF Hypotheses
<1> HIDE DEF d2
<1>9. c \in Event(Legacy) /\ Total(row.doc) \in Nat /\ Counted(d2) = Len(table) + 1
  BY <1>2, <1>3, <1>7, <1>8, DocFields DEF Event, Counted
<1>10. table' = Append(table, c)
  BY <1>3, <1>6, <1>7, <1>8, <1>9, ProjectsCommand
<1>11. /\ Append(table, c) \in Seq(Event(Legacy)) /\ Len(Append(table, c)) = Len(table) + 1
       /\ Len(table) \in Nat
       /\ \A i \in 1 .. Len(table) : Append(table, c)[i] = table[i]
       /\ Append(table, c)[Len(table) + 1] = c
  BY <1>3, <1>9, AppendSeq
<1>12. /\ row' \in [rev : Nat, doc : Docs(Legacy), ok : BOOLEAN] /\ row'.rev > 0 /\ row'.rev # 0
       /\ row'.doc = d2 /\ row'.ok
  BY <1>3, <1>6, <1>8
<1>13. revisions' # {} /\ 1 \in revisions'
  BY <1>1, <1>3, <1>4 DEF StoreOK
<1>14. \A i \in 1 .. Len(table') : table'[i] \in Commands => table'[i] \in ledger'
  <2>1. \A i \in 1 .. Len(table) : table[i] \in Commands => table[i] \in ledger
    BY <1>1 DEF StoreOK
  <2>2. QED
    BY <1>1, <1>10, <1>11, <2>1
<1>15. StoreOK(Legacy)'
  <2>1. file' \in [holds : {"document", "nothing", "garbage"}, doc : Docs(Legacy)]
    BY <1>1 DEF StoreOK
  <2>2. QED
    BY <1>8, <1>9, <1>10, <1>11, <1>12, <1>13, <1>14, <2>1 DEF StoreOK
<1>16. /\ call' \in [Procs -> Calls(Legacy)] /\ (\A q \in Procs \ {p} : call'[q] = call[q])
       /\ call'[p].pc = "peek"
  BY <1>1, GotoFields
<1>17. CallOK(Legacy, call'[p], revisions', table', file')
  BY <1>16 DEF CallOK, Looking
<1>18. StoreInv(Legacy)'
  BY <1>9, <1>10, <1>13, <1>15, <1>16, <1>17, InvFromParts
<1>19. QED
  BY <1>1, <1>2, <1>4, <1>10, <1>12, <1>13, <1>18

LEMMA FaultKeeps ==
  ASSUME NEW Legacy, StoreInv(Legacy), Fill \/ Damage \/ UNCHANGED storeVars
  PROVE  /\ StoreInv(Legacy)' /\ UNCHANGED <<revisions, table, file>> /\ row'.rev = row.rev
         /\ row' = row \/ (row.rev > 0 /\ ~row'.ok)
<1>1. StoreOK(Legacy) /\ call \in [Procs -> Calls(Legacy)]
      /\ \A p \in Procs : CallOK(Legacy, call[p], revisions, table, file)
  BY DEF StoreInv
<1>2. CASE Fill \/ UNCHANGED storeVars
  <2>1. UNCHANGED <<row, revisions, table, ledger, file, call>>
    BY <1>2 DEF Fill, storeVars, storage
  <2>2. StoreOK(Legacy)'
    BY <1>1, <2>1 DEF StoreOK
  <2>3. StoreInv(Legacy)'
    BY <1>1, <2>1, <2>2 DEF StoreInv
  <2>4. QED
    BY <2>1, <2>3
<1>3. CASE Damage
  <2>1. UNCHANGED <<revisions, table, ledger, file, call>> /\ row' = [row EXCEPT !.ok = FALSE] /\ row.rev > 0
    BY <1>3 DEF Damage
  <2>2. row \in [rev : Nat, doc : Docs(Legacy), ok : BOOLEAN]
    BY <1>1 DEF StoreOK
  <2>3. /\ row' \in [rev : Nat, doc : Docs(Legacy), ok : BOOLEAN] /\ row'.rev = row.rev
        /\ row'.doc = row.doc /\ ~row'.ok /\ row.rev # 0
    <3>1. row'.rev = row.rev /\ row'.doc = row.doc /\ row.rev # 0
      BY <2>1, <2>2
    <3>2. row'.ok = FALSE
      BY <2>1, <2>2
    <3>3. row' \in [rev : Nat, doc : Docs(Legacy), ok : BOOLEAN]
      BY <2>1, <2>2
    <3>4. QED
      BY <3>1, <3>2, <3>3
  <2>4. StoreOK(Legacy)'
    BY <1>1, <2>1, <2>3 DEF StoreOK
  <2>5. StoreInv(Legacy)'
    BY <1>1, <2>1, <2>4 DEF StoreInv
  <2>6. QED
    BY <2>1, <2>3, <2>5
<1>4. QED
  BY <1>2, <1>3

LEMMA StoreInitHolds ==
  ASSUME NEW Legacy, Hypotheses(Legacy), StoreInit
  PROVE  StoreInv(Legacy)
<1>1. /\ row = NoRow /\ revisions = {} /\ table = <<>> /\ file \in Files
      /\ call = [p \in Procs |-> Idle]
  BY DEF StoreInit
<1>2. /\ file.doc \in Docs(Legacy) /\ file.holds \in {"document", "nothing", "garbage"}
      /\ file = [holds |-> file.holds, doc |-> file.doc]
  BY <1>1, ImportCounts DEF Hypotheses
<1>3. file \in [holds : {"document", "nothing", "garbage"}, doc : Docs(Legacy)]
  BY <1>2
<1>4. row \in [rev : Nat, doc : Docs(Legacy), ok : BOOLEAN] /\ row.rev = 0 /\ row.doc = Empty
  BY <1>1, IdleCall DEF NoRow
<1>5. table \in Seq(Event(Legacy)) /\ Len(table) = 0
  BY <1>1, EmptySeq
<1>6. Counts(Empty, table) /\ Counted(Empty) = Len(table)
  <2>1. Empty.events = <<>> /\ Empty.dropped = 0 /\ Empty.failed = FALSE /\ Len(<<>>) = 0 /\ <<>> \in Seq(Event(Legacy))
    BY <1>1, <1>5 DEF Empty
  <2>2. Ours(<<>>) = <<>>
    <3>1. table \in Seq(Event(Legacy)) /\ \A i \in 1 .. Len(table) : table[i] # FullMark
      BY <1>5
    <3>2. RemoveFirst(table, FullMark) = table
      BY <3>1, NothingToRemove
    <3>3. QED
      BY <1>1, <3>2 DEF Ours
  <2>3. SubSeq(table, 1, 0) = <<>>
    BY <1>5, SubSeqEmpty
  <2>4. Total(Empty) = 0 /\ Counted(Empty) = 0
    BY <2>1 DEF Total, Counted
  <2>5. Counted(Empty) = Len(table) /\ 0 \in 0 .. Len(table) /\ ~ (0 > 0)
        /\ \A i \in 1 .. Len(<<>>) : <<>>[i] # FullMark
    BY <1>1, <1>5, <2>1, <2>4
  <2>6. Ours(Empty.events) = SubSeq(table, 1, Counted(Empty))
    BY <2>1, <2>2, <2>3, <2>4
  <2>7. QED
    BY <2>1, <2>4, <2>5, <2>6 DEF Counts
<1>7. StoreOK(Legacy)
  BY <1>1, <1>3, <1>4, <1>5, <1>6 DEF StoreOK
<1>8. QED
  BY <1>1, <1>7, IdleCall DEF StoreInv

\* What every step does to the history: nothing that a reader could see, or it ends the
\* store's answers, or it imports the file's history, or it appends one new command.
Unseen == /\ UNCHANGED <<revisions, table>>
          /\ revisions = {} => UNCHANGED file
          /\ \/ row'.ok = row.ok /\ (row'.rev > 0 <=> row.rev > 0)
             \/ revisions # {} /\ ~(row.ok /\ row.rev > 0) /\ ~(row'.ok /\ row'.rev > 0)
Lost == /\ UNCHANGED <<revisions, table, file>> /\ row'.rev = row.rev /\ row.rev > 0 /\ ~row'.ok
Imported == /\ revisions = {} /\ revisions' # {} /\ UNCHANGED file
            /\ row.rev = 0 /\ row'.rev > 0 /\ row'.ok
            /\ table' = file.doc.events
Applied(c) == /\ UNCHANGED file
              /\ row.ok /\ row'.ok /\ row'.rev > 0 /\ revisions' # {}
              /\ row.rev > 0 \/ (revisions = {} /\ file.holds # "document")
              /\ c \notin ledger /\ table' = Append(table, c)

LEMMA StoreStep ==
  ASSUME NEW Legacy, Hypotheses(Legacy), StoreInv(Legacy), [StoreNext]_storeVars
  PROVE  StoreInv(Legacy)' /\ (Unseen \/ Lost \/ Imported \/ \E c \in Commands : Applied(c))
<1>0. row \in [rev : Nat, doc : Docs(Legacy), ok : BOOLEAN]
  BY DEF StoreInv, StoreOK
<1>1. CASE Fill \/ Damage \/ UNCHANGED storeVars
  BY <1>1, FaultKeeps DEF Unseen, Lost
<1>2. ASSUME NEW p \in Procs, Step(p)
      PROVE  StoreInv(Legacy)' /\ (Unseen \/ Lost \/ Imported \/ \E c \in Commands : Applied(c))
  <2>1. CASE \/ \E c \in Commands : Present(p, c) \/ WriteBack(p, c)
             \/ StartRead(p) \/ TouchRow(p) \/ TouchNothing(p) \/ TouchFile(p) \/ ImportDamaged(p)
             \/ Replay(p) \/ Abort(p) \/ Peek(p) \/ Rehydrate(p) \/ Finish(p) \/ Crash(p)
    <3>1. /\ call' \in [Procs -> Calls(Legacy)] /\ \A q \in Procs \ {p} : call'[q] = call[q]
          /\ CallOK(Legacy, call'[p], revisions, table, file)
          /\ UNCHANGED <<row, revisions, table, ledger, file>>
      BY <2>1, CallAlone DEF storage
    <3>2. StoreOK(Legacy)'
      BY <3>1 DEF StoreInv, StoreOK
    <3>3. StoreInv(Legacy)'
      BY <3>1, <3>2, InvFromParts
    <3>4. QED
      BY <3>1, <3>3 DEF Unseen
  <2>2. CASE TouchDamaged(p) \/ TransactDamaged(p) \/ PeekDamaged(p)
    <3>1. Quarantine(p)
      BY <2>2 DEF TouchDamaged, TransactDamaged, PeekDamaged
    <3>2. QED
      BY <3>1, QuarantineKeeps DEF Unseen
  <2>3. CASE HitCeiling(p)
    BY <2>3, CeilingKeeps DEF Unseen
  <2>4. CASE NoChange(p)
    BY <2>4, NoChangeKeeps DEF Unseen
  <2>5. CASE Export(p)
    BY <2>5, ExportKeeps DEF Unseen
  <2>6. CASE ImportLegacy(p)
    <3>1. /\ StoreInv(Legacy)' /\ UNCHANGED file
          /\ UNCHANGED <<row, revisions, table>> \/ Imported
      BY <2>6, ImportKeeps DEF Imported
    <3>2. QED
      BY <3>1 DEF Unseen
  <2>7. CASE Commit(p)
    BY <2>7, CommitKeeps DEF Applied
  <2>8. QED
    BY <1>2, <2>1, <2>2, <2>3, <2>4, <2>5, <2>6, <2>7 DEF Step
<1>3. QED
  BY <1>1, <1>2 DEF StoreNext

-----------------------------------------------------------------------------
(* The theorems *)

\* What readers are shown of a document that has counted the whole table is the table.
LEMMA ShownIsTable ==
  ASSUME NEW Legacy, Named(Legacy), NEW d \in Docs(Legacy), NEW t \in Seq(Event(Legacy)), Counts(d, t),
         Counted(d) = Len(t)
  PROVE  Ours(Rehydrated(d, t)) = t
<1>1. PICK n \in Counted(d) .. Len(t) : Ours(Rehydrated(d, t)) = SubSeq(t, 1, n)
  BY ShownIsPrefix
<1>2. n = Len(t) /\ SubSeq(t, 1, Len(t)) = t
  BY <1>1, LenProperties, SubSeqFull
<1>3. QED
  BY <1>1, <1>2

\* Once there is a revision, what readers are shown is the events table.
LEMMA HistoryIsTable ==
  ASSUME NEW Legacy, Named(Legacy)
  PROVE  /\ StoreOK(Legacy) => History = IF revisions = {} THEN file.doc.events ELSE table
         /\ StoreOK(Legacy)' => History' = IF revisions' = {} THEN file'.doc.events ELSE table'
<1>1. ASSUME StoreOK(Legacy)
      PROVE  History = IF revisions = {} THEN file.doc.events ELSE table
  <2>1. /\ row.doc \in Docs(Legacy) /\ table \in Seq(Event(Legacy))
        /\ row.rev > 0 => revisions # {} /\ Counts(row.doc, table) /\ Counted(row.doc) = Len(table)
    BY <1>1 DEF StoreOK
  <2>2. CASE row.rev > 0
    <3>1. Ours(Rehydrated(row.doc, table)) = table
      <4>1. row.doc \in Docs(Legacy) /\ table \in Seq(Event(Legacy))
            /\ Counts(row.doc, table) /\ Counted(row.doc) = Len(table)
        BY <2>1, <2>2
      <4>2. QED
        BY <4>1, ShownIsTable
    <3>2. History = Ours(Rehydrated(row.doc, table))
      BY <2>2 DEF History
    <3>3. QED
      BY <2>1, <2>2, <3>1, <3>2
  <2>3. CASE ~ (row.rev > 0)
    BY <2>3 DEF History
  <2>4. QED
    BY <2>2, <2>3
<1>2. ASSUME StoreOK(Legacy)'
      PROVE  History' = IF revisions' = {} THEN file'.doc.events ELSE table'
  <2>1. /\ row'.doc \in Docs(Legacy) /\ table' \in Seq(Event(Legacy))
        /\ row'.rev > 0 => revisions' # {} /\ Counts(row'.doc, table') /\ Counted(row'.doc) = Len(table')
    BY <1>2 DEF StoreOK
  <2>2. CASE row'.rev > 0
    <3>1. Ours(Rehydrated(row'.doc, table')) = table'
      <4>1. row'.doc \in Docs(Legacy) /\ table' \in Seq(Event(Legacy))
            /\ Counts(row'.doc, table') /\ Counted(row'.doc) = Len(table')
        BY <2>1, <2>2
      <4>2. QED
        BY <4>1, ShownIsTable
    <3>2. History' = Ours(Rehydrated(row'.doc, table'))
      BY <2>2 DEF History
    <3>3. QED
      BY <2>1, <2>2, <3>1, <3>2
  <2>3. CASE ~ (row'.rev > 0)
    BY <2>3 DEF History
  <2>4. QED
    BY <2>2, <2>3
<1>3. QED
  BY <1>1, <1>2

\* A command that the ledger does not know is not in the history.
LEMMA NotYetApplied ==
  ASSUME NEW Legacy, Hypotheses(Legacy), StoreInv(Legacy), NEW c \in Commands, Applied(c)
  PROVE  /\ ~Contains(History, c)
         /\ StoreInv(Legacy)' => History' = Append(History, c)
<1>1. StoreOK(Legacy) /\ Named(Legacy)
  BY DEF StoreInv, Hypotheses
<1>2. History = IF revisions = {} THEN file.doc.events ELSE table
  BY <1>1, HistoryIsTable
<1>3. History = table
  <2>1. CASE revisions = {}
    <3>1. table = <<>> /\ file \in Files /\ file.holds # "document"
      BY <1>1, <2>1 DEF StoreOK, Applied
    <3>2. file.doc.events = <<>>
      BY <3>1 DEF FromBefore, Hypotheses
    <3>3. QED
      BY <1>2, <2>1, <3>1, <3>2
  <2>2. QED
    BY <1>2, <2>1
<1>4. \A i \in 1 .. Len(table) : table[i] # c
  BY <1>1 DEF StoreOK, Applied
<1>5. ~Contains(History, c)
  BY <1>3, <1>4 DEF Contains
<1>6. StoreInv(Legacy)' => History' = Append(History, c)
  <2>1. StoreInv(Legacy)' => History' = table'
    BY <1>1, HistoryIsTable DEF StoreInv, Applied
  <2>2. QED
    BY <1>3, <2>1 DEF Applied
<1>7. QED
  BY <1>5, <1>6

\* Every step of the store is a step of the atomic log, or none.
LEMMA StepIsAtomic ==
  ASSUME NEW Legacy, Hypotheses(Legacy), StoreInv(Legacy), StoreInv(Legacy)', [StoreNext]_storeVars
  PROVE  [Atomic!Next]_(Atomic!vars)
<1> DEFINE R == row.ok /\ (row.rev > 0 \/ revisions = {})
<1>0. /\ StoreOK(Legacy) /\ StoreOK(Legacy)' /\ Named(Legacy)
      /\ row.ok \in BOOLEAN /\ row'.ok \in BOOLEAN
  BY DEF StoreInv, Hypotheses, StoreOK
<1>1. /\ History = IF revisions = {} THEN file.doc.events ELSE table
      /\ History' = IF revisions' = {} THEN file'.doc.events ELSE table'
  BY <1>0, HistoryIsTable
<1>2. Unseen \/ Lost \/ Imported \/ \E c \in Commands : Applied(c)
  BY StoreStep
<1>3. CASE Unseen
  <2>1. History' = History
    BY <1>1, <1>3 DEF Unseen
  <2>2. R' = R
    BY <1>0, <1>3 DEF Unseen
  <2>3. QED
    BY <2>1, <2>2 DEF Atomic!vars
<1>4. CASE Lost
  <2>1. History' = History
    BY <1>1, <1>4 DEF Lost
  <2>2. R' = FALSE
    BY <1>4 DEF Lost
  <2>3. CASE R
    <3>1. Atomic!Lose
      BY <2>1, <2>2, <2>3 DEF Atomic!Lose
    <3>2. QED
      BY <3>1 DEF Atomic!Next
  <2>4. CASE ~R
    BY <1>0, <2>1, <2>2, <2>4 DEF Atomic!vars
  <2>5. QED
    BY <2>3, <2>4
<1>5. CASE Imported
  <2>1. History' = History
    BY <1>1, <1>5 DEF Imported
  <2>2. R' = R
    <3>1. row.ok = TRUE
      BY <1>0, <1>5 DEF StoreOK, NoRow, Imported
    <3>2. QED
      BY <1>0, <1>5, <3>1 DEF Imported
  <2>3. QED
    BY <2>1, <2>2 DEF Atomic!vars
<1>6. ASSUME NEW c \in Commands, Applied(c)
      PROVE  [Atomic!Next]_(Atomic!vars)
  <2>1. ~Contains(History, c) /\ History' = Append(History, c)
    BY <1>6, NotYetApplied
  <2>2. R = TRUE /\ R' = TRUE
    BY <1>0, <1>6 DEF Applied
  <2>3. Atomic!Apply(c)
    BY <2>1, <2>2 DEF Atomic!Apply, Contains, Atomic!Contains
  <2>4. QED
    BY <2>3 DEF Atomic!Next
<1>7. QED
  BY <1>2, <1>3, <1>4, <1>5, <1>6

(* The store implements the atomic log for every number of processes, every command and
   every window of at least one event, over all crashes, replays, imports, damaged rows
   and a full disk, when documents are changed inside mutations (no Outsiders), an event
   in a file from before the database is none of the commands', and such a file was not
   failed by the ceiling.  (mutateEntity, importLegacyState, windowStateEvents,
   projectEvents and rehydrateEvents.) *)
THEOREM StoreIsAtomic ==
  ASSUME NEW Legacy, Outsiders = {}, Window \in Nat \ {0}, Named(Legacy), FromBefore(Legacy)
  PROVE  StoreSpec => ImplementsAtomicStore
<1>0. Hypotheses(Legacy)
  BY DEF Hypotheses
<1>1. StoreInit => StoreInv(Legacy)
  BY <1>0, StoreInitHolds
<1>2. StoreInv(Legacy) /\ [StoreNext]_storeVars => StoreInv(Legacy)'
  BY <1>0, StoreStep
<1>3. StoreInv(Legacy) /\ StoreInv(Legacy)' /\ [StoreNext]_storeVars => [Atomic!Next]_(Atomic!vars)
  BY <1>0, StepIsAtomic
<1>4. StoreInit => Atomic!Init
  <2>1. SUFFICES ASSUME StoreInit
                 PROVE  Atomic!Init
    OBVIOUS
  <2>2. row.ok = TRUE /\ row.rev = 0 /\ revisions = {} /\ file \in Files
    BY <2>1 DEF StoreInit, NoRow
  <2>3. History = file.doc.events
    BY <2>2 DEF History
  <2>4. QED
    BY <2>2, <2>3 DEF Atomic!Init
<1>5. QED
  BY <1>1, <1>2, <1>3, <1>4, PTL DEF StoreSpec, ImplementsAtomicStore, Atomic!Spec

(* What a read returns, between whose two statements a commit can fall, is a beginning of
   the history that holds everything its document had counted: for every number of
   processes and every window, under the same hypotheses.  (readTransactionalState) *)
THEOREM AlwaysReadsAreWhole ==
  ASSUME NEW Legacy, Outsiders = {}, Window \in Nat \ {0}, Named(Legacy), FromBefore(Legacy)
  PROVE  StoreSpec => []ReadsAreWhole
<1>0. Hypotheses(Legacy)
  BY DEF Hypotheses
<1>1. StoreInit => StoreInv(Legacy)
  BY <1>0, StoreInitHolds
<1>2. StoreInv(Legacy) /\ [StoreNext]_storeVars => StoreInv(Legacy)'
  BY <1>0, StoreStep
<1>3. StoreInv(Legacy) => ReadsAreWhole
  <2>1. SUFFICES ASSUME StoreInv(Legacy), NEW p \in Procs, call[p].pc = "holding"
                 PROVE  /\ IsPrefix(Ours(call[p].out.events), History)
                        /\ Len(Ours(call[p].out.events))
                             >= Total(call[p].doc) - (IF call[p].doc.failed THEN 1 ELSE 0)
    BY DEF ReadsAreWhole
  <2>2. /\ StoreOK(Legacy) /\ Named(Legacy) /\ CallOK(Legacy, call[p], revisions, table, file)
        /\ table \in Seq(Event(Legacy)) /\ Len(table) \in Nat
    BY <1>0, <2>1, LenProperties DEF StoreInv, StoreOK, Hypotheses
  <2>3. History = table
    BY <2>1, <2>2, HistoryIsTable DEF CallOK
  <2>4. PICK n \in Counted(call[p].doc) .. Len(table) : Ours(call[p].out.events) = SubSeq(table, 1, n)
    BY <2>1, <2>2 DEF CallOK
  <2>5. n \in 0 .. Len(table)
    BY <2>1, <2>2, <2>4 DEF CallOK, Counts
  <2>6. Len(SubSeq(table, 1, n)) = n /\ IsPrefix(SubSeq(table, 1, n), table)
    <3>1. Len(SubSeq(table, 1, n)) = n
      BY <2>2, <2>5
    <3>2. QED
      BY <2>2, <2>5, <3>1 DEF IsPrefix
  <2>7. QED
    BY <2>2, <2>3, <2>4, <2>5, <2>6 DEF Counted, Counts
<1>4. QED
  BY <1>1, <1>2, <1>3, PTL DEF StoreSpec

===============================================================================
