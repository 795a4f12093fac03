----------------------- MODULE TransactionLog_proofs -----------------------
(***************************************************************************)
(* The log on its object store, for any number of processes, configurations*)
(* and proposals: whoever dies between two puts, the head replays, a       *)
(* generation has one configuration, and the committed prefix is a history *)
(* of the reference model.                                                 *)
(***************************************************************************)
EXTENDS TransactionLog, SequenceTheorems, TLAPS

Kind == {"tensors", "commit", "frontier"}
Objects == [kind : Kind, tip : Tip]

(* The entry that Extend appends to a history. *)
NewEntry(h, f, S) ==
    [fragment |-> f, selected |-> S,
     versions |-> [g \in Fragment |->
         VersionAt(h, Len(h), g) + (IF g = f THEN 1 ELSE 0)],
     producers |-> [g \in Fragment |->
         IF g = f THEN Len(h) + 1 ELSE ProducerAt(h, Len(h), g)]]

-----------------------------------------------------------------------------
(* Histories. *)
LEMMA Counts ==
    ASSUME NEW h \in Seq(Entry)
    PROVE  /\ Len(h) \in Nat
           /\ \A n \in 0..Len(h) : \A g \in Fragment :
                  VersionAt(h, n, g) \in Nat /\ ProducerAt(h, n, g) \in Nat
<1>1. Len(h) \in Nat /\ \A i \in 1..Len(h) : h[i] \in Entry
  OBVIOUS
<1>2. ASSUME NEW n \in 0..Len(h), NEW g \in Fragment
      PROVE  VersionAt(h, n, g) \in Nat /\ ProducerAt(h, n, g) \in Nat
  <2>1. CASE n = 0
    BY <2>1 DEF VersionAt, ProducerAt
  <2>2. CASE n # 0
    <3>1. h[n] \in Entry
      BY <1>1, <2>2
    <3>2. h[n].versions[g] \in Nat /\ h[n].producers[g] \in Nat
      BY <3>1 DEF Entry
    <3> QED
      BY <2>2, <3>2 DEF VersionAt, ProducerAt
  <2> QED
    BY <2>1, <2>2
<1> QED
  BY <1>1, <1>2

LEMMA NewEntryTyped ==
    ASSUME NEW h \in Seq(Entry), NEW f \in Fragment, NEW S \in SUBSET Offered
    PROVE  NewEntry(h, f, S) \in Entry
<1>1. Len(h) \in Nat /\ Len(h) \in 0..Len(h)
  BY Counts
<1>2. \A g \in Fragment :
          VersionAt(h, Len(h), g) \in Nat /\ ProducerAt(h, Len(h), g) \in Nat
  BY <1>1, Counts
<1>3. [g \in Fragment |-> VersionAt(h, Len(h), g) + (IF g = f THEN 1 ELSE 0)]
          \in [Fragment -> Nat]
  BY <1>2
<1>4. [g \in Fragment |-> IF g = f THEN Len(h) + 1 ELSE ProducerAt(h, Len(h), g)]
          \in [Fragment -> Nat]
  BY <1>1, <1>2
<1> QED
  BY <1>3, <1>4 DEF NewEntry, Entry

LEMMA ExtendIs ==
    ASSUME NEW h, NEW f, NEW S
    PROVE  Extend(h, f, S) = Append(h, NewEntry(h, f, S))
BY DEF Extend, NewEntry

(* Extending keeps the history below. *)
LEMMA Extended ==
    ASSUME NEW h \in Seq(Entry), NEW f \in Fragment, NEW S \in SUBSET Offered,
           NEW x, x = Extend(h, f, S)
    PROVE  /\ x \in Seq(Entry) /\ Len(h) \in Nat /\ Len(x) = Len(h) + 1
           /\ \A i \in 1..Len(h) : x[i] = h[i]
           /\ x[Len(h) + 1] = NewEntry(h, f, S)
<1>1. x = Append(h, NewEntry(h, f, S)) /\ NewEntry(h, f, S) \in Entry
  BY ExtendIs, NewEntryTyped
<1> QED
  BY <1>1

LEMMA ExtendedPrefix ==
    ASSUME NEW h \in Seq(Entry), NEW f \in Fragment, NEW S \in SUBSET Offered,
           NEW x, x = Extend(h, f, S), NEW m \in 0..Len(h)
    PROVE  SubSeq(x, 1, m) = SubSeq(h, 1, m)
<1>1. /\ x \in Seq(Entry) /\ Len(h) \in Nat /\ Len(x) = Len(h) + 1
      /\ \A i \in 1..Len(h) : x[i] = h[i]
  BY Extended
<1>2. /\ SubSeq(x, 1, m) = [i \in 1..m |-> x[i]]
      /\ SubSeq(h, 1, m) = [i \in 1..m |-> h[i]]
  BY <1>1
<1>3. \A i \in 1..m : i \in 1..Len(h)
  BY <1>1
<1> QED
  BY <1>1, <1>2, <1>3

LEMMA WholePrefix ==
    ASSUME NEW h \in Seq(Entry)
    PROVE  SubSeq(h, 1, Len(h)) = h
<1>1. SubSeq(h, 1, Len(h)) = [i \in 1..Len(h) |-> h[i]]
  OBVIOUS
<1> QED
  BY <1>1

(* What is asked of a prefix is kept. *)
LEMMA ExtendedMeaning ==
    ASSUME NEW h \in Seq(Entry), NEW f \in Fragment, NEW S \in SUBSET Offered,
           NEW x, x = Extend(h, f, S), NEW m \in 0..Len(h)
    PROVE  /\ \A g : VersionAt(x, m, g) = VersionAt(h, m, g)
           /\ \A g : ProducerAt(x, m, g) = ProducerAt(h, m, g)
           /\ Consumed(x, m) = Consumed(h, m)
<1>1. Len(h) \in Nat /\ \A i \in 1..Len(h) : x[i] = h[i]
  BY Extended
<1>2. m = 0 \/ x[m] = h[m]
  BY <1>1
<1>3. /\ \A g : VersionAt(x, m, g) = VersionAt(h, m, g)
      /\ \A g : ProducerAt(x, m, g) = ProducerAt(h, m, g)
  BY <1>2 DEF VersionAt, ProducerAt
<1>4. \A i \in 1..m : x[i].selected = h[i].selected
  BY <1>1
<1>5. Consumed(x, m) = Consumed(h, m)
  BY <1>4 DEF Consumed
<1> QED
  BY <1>3, <1>5

LEMMA ExtendedLast ==
    ASSUME NEW h \in Seq(Entry), NEW f \in Fragment, NEW S \in SUBSET Offered,
           NEW x, x = Extend(h, f, S), NEW n, n = Len(h)
    PROVE  /\ \A g \in Fragment :
                  /\ VersionAt(x, n + 1, g) =
                         VersionAt(h, n, g) + (IF g = f THEN 1 ELSE 0)
                  /\ ProducerAt(x, n + 1, g) =
                         IF g = f THEN n + 1 ELSE ProducerAt(h, n, g)
           /\ Consumed(x, n + 1) = Consumed(h, n) \cup S
           /\ x[n + 1].fragment = f /\ x[n + 1].selected = S
<1>1. /\ n \in Nat /\ x[n + 1] = NewEntry(h, f, S) /\ n + 1 # 0
      /\ \A i \in 1..n : x[i] = h[i]
  BY Extended
<1>2. /\ x[n + 1].fragment = f /\ x[n + 1].selected = S
      /\ \A g \in Fragment :
             /\ x[n + 1].versions[g] = VersionAt(h, n, g) + (IF g = f THEN 1 ELSE 0)
             /\ x[n + 1].producers[g] = IF g = f THEN n + 1 ELSE ProducerAt(h, n, g)
  BY <1>1 DEF NewEntry
<1>3. ASSUME NEW g \in Fragment
      PROVE  /\ VersionAt(x, n + 1, g) = VersionAt(h, n, g) + (IF g = f THEN 1 ELSE 0)
             /\ ProducerAt(x, n + 1, g) = IF g = f THEN n + 1 ELSE ProducerAt(h, n, g)
  BY <1>1, <1>2 DEF VersionAt, ProducerAt
<1>4. \A i : i \in 1..(n + 1) <=> i \in 1..n \/ i = n + 1
  BY <1>1
<1>5. \A p : p \in Consumed(x, n + 1) <=> \E i \in 1..(n + 1) : p \in x[i].selected
  BY DEF Consumed
<1>6. \A p : p \in Consumed(h, n) <=> \E i \in 1..n : p \in h[i].selected
  BY DEF Consumed
<1>7. \A p : p \in Consumed(x, n + 1) <=> p \in Consumed(h, n) \/ p \in S
  BY <1>1, <1>2, <1>4, <1>5, <1>6
<1> QED
  BY <1>2, <1>3, <1>7

-----------------------------------------------------------------------------
(* Versions and producers of a history agree: the producer of a fragment is *)
(* the last entry of it, and versions only grow.                            *)
BuiltAt(h, n, f) ==
    LET i == ProducerAt(h, n, f)
    IN  /\ i \in 0..n
        /\ i # 0 => h[i].fragment = f
        /\ \A j \in (i + 1)..n : h[j].fragment # f
        /\ VersionAt(h, n, f) = VersionAt(h, i, f)
        /\ \A m \in 0..n : VersionAt(h, m, f) <= VersionAt(h, n, f)

WellBuilt(h) == \A n \in 0..Len(h) : \A f \in Fragment : BuiltAt(h, n, f)

LEMMA RootBuilt == WellBuilt(<<>>)
<1>1. Len(<<>>) = 0 /\ \A n \in 0..0 : n = 0
  OBVIOUS
<1>2. \A f \in Fragment : BuiltAt(<<>>, 0, f)
  BY DEF BuiltAt, VersionAt, ProducerAt
<1> QED
  BY <1>1, <1>2 DEF WellBuilt

LEMMA BuildOn ==
    ASSUME NEW h \in Seq(Entry), NEW f \in Fragment, NEW S \in SUBSET Offered,
           NEW x, x = Extend(h, f, S), WellBuilt(h)
    PROVE  WellBuilt(x)
<1>1. PICK n : n = Len(h)
  OBVIOUS
<1>2. /\ n \in Nat /\ Len(x) = n + 1 /\ \A i \in 1..n : x[i] = h[i]
      /\ x[n + 1].fragment = f
  BY <1>1, Extended, ExtendedLast
<1>3. \A m \in 0..n : \A g : /\ VersionAt(x, m, g) = VersionAt(h, m, g)
                             /\ ProducerAt(x, m, g) = ProducerAt(h, m, g)
  BY <1>1, ExtendedMeaning
<1>4. \A m \in 0..n : \A g \in Fragment : BuiltAt(h, m, g) /\ VersionAt(h, m, g) \in Nat
  BY <1>1, Counts DEF WellBuilt
<1>5. ASSUME NEW m \in 0..n, NEW g \in Fragment
      PROVE  BuiltAt(x, m, g)
  <2>1. PICK i : i = ProducerAt(h, m, g)
    OBVIOUS
  <2>2. /\ i \in 0..m
        /\ i # 0 => h[i].fragment = g
        /\ \A j \in (i + 1)..m : h[j].fragment # g
        /\ VersionAt(h, m, g) = VersionAt(h, i, g)
        /\ \A k \in 0..m : VersionAt(h, k, g) <= VersionAt(h, m, g)
    BY <1>4, <2>1 DEF BuiltAt
  <2>3. /\ i \in 0..n /\ \A k \in 0..m : k \in 0..n
        /\ i # 0 => i \in 1..n
        /\ \A j \in (i + 1)..m : j \in 1..n
    BY <1>2, <2>2
  <2>4. ProducerAt(x, m, g) = i
    BY <1>3, <2>1
  <2>5. /\ i # 0 => x[i].fragment = g
        /\ \A j \in (i + 1)..m : x[j].fragment # g
    BY <1>2, <2>2, <2>3
  <2>6. /\ VersionAt(x, m, g) = VersionAt(x, i, g)
        /\ \A k \in 0..m : VersionAt(x, k, g) <= VersionAt(x, m, g)
    BY <1>3, <2>2, <2>3
  <2> QED
    BY <2>2, <2>4, <2>5, <2>6 DEF BuiltAt
<1>6. ASSUME NEW g \in Fragment
      PROVE  BuiltAt(x, n + 1, g)
  <2>1. /\ VersionAt(x, n + 1, g) = VersionAt(h, n, g) + (IF g = f THEN 1 ELSE 0)
        /\ ProducerAt(x, n + 1, g) = IF g = f THEN n + 1 ELSE ProducerAt(h, n, g)
    BY <1>1, ExtendedLast
  <2>2. n \in 0..n /\ BuiltAt(x, n, g) /\ VersionAt(x, n, g) = VersionAt(h, n, g)
    BY <1>2, <1>3, <1>5
  <2>3. \A k \in 0..n : VersionAt(x, k, g) \in Nat /\ VersionAt(x, k, g) <= VersionAt(x, n, g)
    BY <1>3, <1>4, <2>2 DEF BuiltAt
  <2>4. \A k \in 0..(n + 1) : k \in 0..n \/ k = n + 1
    BY <1>2
  <2>5. VersionAt(x, n + 1, g) \in Nat
    BY <2>1, <2>2, <2>3
  <2>6. \A k \in 0..(n + 1) : VersionAt(x, k, g) <= VersionAt(x, n + 1, g)
    BY <2>1, <2>2, <2>3, <2>4, <2>5
  <2>7. CASE g = f
    <3>1. ProducerAt(x, n + 1, g) = n + 1 /\ n + 1 \in 0..(n + 1)
      BY <1>2, <2>1, <2>7
    <3>2. \A j \in (n + 1 + 1)..(n + 1) : FALSE
      BY <1>2
    <3> QED
      BY <1>2, <2>6, <2>7, <3>1, <3>2 DEF BuiltAt
  <2>8. CASE g # f
    <3>1. PICK i : i = ProducerAt(h, n, g)
      OBVIOUS
    <3>2. ProducerAt(x, n + 1, g) = i /\ ProducerAt(x, n, g) = i
      BY <1>3, <2>1, <2>2, <2>8, <3>1
    <3>3. /\ i \in 0..n
          /\ i # 0 => x[i].fragment = g
          /\ \A j \in (i + 1)..n : x[j].fragment # g
          /\ VersionAt(x, n, g) = VersionAt(x, i, g)
      BY <2>2, <3>2 DEF BuiltAt
    <3>4. i \in 0..(n + 1) /\ \A j \in (i + 1)..(n + 1) : j \in (i + 1)..n \/ j = n + 1
      BY <1>2, <3>3
    <3>5. \A j \in (i + 1)..(n + 1) : x[j].fragment # g
      BY <1>2, <2>8, <3>3, <3>4
    <3>6. VersionAt(x, n + 1, g) = VersionAt(x, i, g)
      BY <2>1, <2>2, <2>3, <2>8, <3>3
    <3> QED
      BY <2>6, <3>2, <3>3, <3>4, <3>5, <3>6 DEF BuiltAt
  <2> QED
    BY <2>7, <2>8
<1>7. \A m \in 0..(n + 1) : m \in 0..n \/ m = n + 1
  BY <1>2
<1> QED
  BY <1>2, <1>5, <1>6, <1>7 DEF WellBuilt

-----------------------------------------------------------------------------
(* Replay. *)

(* An entry is right when it is the one its prefix determines. *)
LEMMA Recomposed ==
    ASSUME NEW h \in Seq(Entry), NEW i \in 1..Len(h), NEW e \in Entry
    PROVE  h = Append(SubSeq(h, 1, i - 1), e) \o SubSeq(h, i + 1, Len(h)) <=> h[i] = e
<1> DEFINE n == Len(h)
           a == Append(SubSeq(h, 1, i - 1), e)
           b == SubSeq(h, i + 1, n)
           c == a \o b
<1>1. n \in Nat /\ i - 1 \in 0..n /\ i \in 1..n
  OBVIOUS
<1>2. SubSeq(h, 1, i - 1) \in Seq(Entry) /\ Len(SubSeq(h, 1, i - 1)) = i - 1
      /\ \A j \in 1..(i - 1) : SubSeq(h, 1, i - 1)[j] = h[j]
  BY <1>1
<1>3. a \in Seq(Entry) /\ Len(a) = i /\ a[i] = e /\ \A j \in 1..(i - 1) : a[j] = h[j]
  BY <1>1, <1>2
<1>4. b \in Seq(Entry) /\ Len(b) = n - i /\ \A j \in 1..(n - i) : b[j] = h[i + j]
  BY <1>1
<1> HIDE DEF a, b, n
<1>5. c \in Seq(Entry) /\ Len(c) = n
      /\ \A j \in 1..n : c[j] = IF j <= i THEN a[j] ELSE b[j - i]
  <2>1. /\ c \in Seq(Entry) /\ Len(c) = Len(a) + Len(b)
        /\ \A j \in 1..(Len(a) + Len(b)) :
               c[j] = IF j <= Len(a) THEN a[j] ELSE b[j - Len(a)]
    BY <1>3, <1>4, ConcatProperties
  <2>2. Len(a) = i /\ Len(a) + Len(b) = n
    BY <1>1, <1>3, <1>4
  <2> QED
    BY <2>1, <2>2
<1> HIDE DEF c
<1>6. \A j \in 1..n : j # i => c[j] = h[j]
  <2> SUFFICES ASSUME NEW j \in 1..n, j # i
               PROVE  c[j] = h[j]
    OBVIOUS
  <2>1. CASE j < i
    BY <1>1, <1>3, <1>5, <2>1
  <2>2. CASE j > i
    <3>1. j - i \in 1..(n - i) /\ i + (j - i) = j
      BY <1>1, <2>2
    <3> QED
      BY <1>1, <1>4, <1>5, <2>2, <3>1
  <2> QED
    BY <1>1, <2>1, <2>2
<1>7. c[i] = e
  BY <1>1, <1>3, <1>5
<1>8. h \in Seq(Entry) /\ Len(h) = n
  BY DEF n
<1>9. h = c <=> h[i] = e
  <2>1. h = c => h[i] = e
    BY <1>7
  <2>2. ASSUME h[i] = e
        PROVE  h = c
    <3>1. \A j \in 1..n : h[j] = c[j]
      BY <1>6, <1>7, <2>2
    <3> QED
      BY <1>5, <1>8, <3>1, SeqEqual
  <2> QED
    BY <2>1, <2>2
<1> QED
  BY <1>9 DEF c, a, b, n

(* replay's rules for commit i, with P published, but for the entry it      *)
(* expects.                                                                 *)
Rules(P, h, i) ==
    /\ h[i].selected \cap Consumed(h, i - 1) = {}
    /\ \A p \in h[i].selected :
           /\ p \in P
           /\ p.fragment = h[i].fragment
           /\ p.base < i /\ i - 1 - p.base <= MaxGlobal
           /\ p.version = VersionAt(h, p.base, h[i].fragment)
           /\ VersionAt(h, i - 1, h[i].fragment) - p.version <= MaxFragment
           /\ \A q \in Consumed(h, i - 1) :
                  SameLineage(p, q) => q.seq < p.seq /\ ~SameBase(p, q)

Conforms(P, h) ==
    \A i \in 1..Len(h) :
        /\ Rules(P, h, i)
        /\ h[i] = NewEntry(SubSeq(h, 1, i - 1), h[i].fragment, h[i].selected)

LEMMA Rewritten ==
    ASSUME NEW h \in Seq(Entry), NEW i \in 1..Len(h)
    PROVE  ReplaysCommit(h, i) <=>
               /\ Rules(published, h, i)
               /\ h[i] = NewEntry(SubSeq(h, 1, i - 1), h[i].fragment, h[i].selected)
<1> DEFINE b == SubSeq(h, 1, i - 1)
           e == NewEntry(b, h[i].fragment, h[i].selected)
<1>1. h[i] \in Entry /\ i - 1 \in 0..Len(h)
  OBVIOUS
<1>2. h[i].fragment \in Fragment /\ h[i].selected \in SUBSET Offered
  BY <1>1 DEF Entry
<1>3. b \in Seq(Entry)
  BY <1>1
<1> HIDE DEF b
<1>4. e \in Entry /\ Extend(b, h[i].fragment, h[i].selected) = Append(b, e)
  BY <1>2, <1>3, NewEntryTyped, ExtendIs
<1> HIDE DEF e
<1>5. h = Append(SubSeq(h, 1, i - 1), e) \o SubSeq(h, i + 1, Len(h)) <=> h[i] = e
  BY <1>4, Recomposed
<1>6. h = Extend(b, h[i].fragment, h[i].selected) \o SubSeq(h, i + 1, Len(h))
          <=> h[i] = e
  BY <1>4, <1>5 DEF b
<1>7. ReplaysCommit(h, i) <=>
          /\ Rules(published, h, i)
          /\ h = Extend(b, h[i].fragment, h[i].selected) \o SubSeq(h, i + 1, Len(h))
  BY DEF ReplaysCommit, Rules, b
<1> QED
  BY <1>6, <1>7 DEF e, b

(* Publication takes nothing back. *)
LEMMA ConformsLater ==
    ASSUME NEW P, NEW Q, NEW h, Conforms(P, h), P \subseteq Q
    PROVE  Conforms(Q, h)
BY DEF Conforms, Rules

LEMMA OfferedTyped ==
    ASSUME NEW p \in Offered
    PROVE  /\ p.base \in Nat /\ p.version \in Nat /\ p.seq \in Nat /\ p.session \in Nat
           /\ p.fragment \in Fragment /\ p.learner \in Learner
<1>1. p \in [learner : Learner, session : Nat, seq : Nat,
             fragment : Fragment, base : Nat, version : Nat]
  BY TransactionLogAssumption DEF TransactionLogAssumption
<1> QED
  BY <1>1

(* What prepare_transition accepts replays. *)
LEMMA ConformsOn ==
    ASSUME NEW h \in Seq(Entry), NEW f \in Fragment, NEW P \in SUBSET Offered,
           NEW S \in SUBSET P, NEW x, x = Extend(h, f, S),
           Conforms(P, h), Admissible(h, f, S)
    PROVE  Conforms(P, x)
<1>1. PICK n : n = Len(h)
  OBVIOUS
<1>2. S \in SUBSET Offered
  OBVIOUS
<1>3. /\ n \in Nat /\ x \in Seq(Entry) /\ Len(x) = n + 1
      /\ \A i \in 1..n : x[i] = h[i]
      /\ x[n + 1] = NewEntry(h, f, S)
      /\ x[n + 1].fragment = f /\ x[n + 1].selected = S
  BY <1>1, <1>2, Extended, ExtendedLast
<1>4. \A m \in 0..n : /\ SubSeq(x, 1, m) = SubSeq(h, 1, m)
                      /\ \A g : VersionAt(x, m, g) = VersionAt(h, m, g)
                      /\ Consumed(x, m) = Consumed(h, m)
  BY <1>1, <1>2, ExtendedPrefix, ExtendedMeaning
<1>5. ASSUME NEW i \in 1..n
      PROVE  /\ Rules(P, x, i)
             /\ x[i] = NewEntry(SubSeq(x, 1, i - 1), x[i].fragment, x[i].selected)
  <2>1. /\ Rules(P, h, i)
        /\ h[i] = NewEntry(SubSeq(h, 1, i - 1), h[i].fragment, h[i].selected)
    BY <1>1 DEF Conforms
  <2>2. x[i] = h[i] /\ i - 1 \in 0..n /\ i \in 1..(n + 1)
    BY <1>3
  <2>3. x[i] = NewEntry(SubSeq(x, 1, i - 1), x[i].fragment, x[i].selected)
    BY <1>4, <2>1, <2>2
  <2>4. Consumed(x, i - 1) = Consumed(h, i - 1)
        /\ VersionAt(x, i - 1, h[i].fragment) = VersionAt(h, i - 1, h[i].fragment)
    BY <1>4, <2>2
  <2>5. ASSUME NEW p \in h[i].selected
        PROVE  VersionAt(x, p.base, h[i].fragment) = VersionAt(h, p.base, h[i].fragment)
    <3>1. p \in Offered /\ p.base < i
      BY <2>1 DEF Rules
    <3>2. p.base \in 0..n
      BY <1>3, <3>1, OfferedTyped
    <3> QED
      BY <1>4, <3>2
  <2>6. Rules(P, x, i)
    BY <2>1, <2>2, <2>4, <2>5 DEF Rules
  <2> QED
    BY <2>3, <2>6
<1>6. ASSUME NEW m, m = n + 1
      PROVE  /\ Rules(P, x, m)
             /\ x[m] = NewEntry(SubSeq(x, 1, m - 1), x[m].fragment, x[m].selected)
  <2>1. m - 1 = n /\ n \in 0..n
    BY <1>3, <1>6
  <2>2. SubSeq(x, 1, m - 1) = h
    BY <1>1, <1>4, <2>1, WholePrefix
  <2>3. x[m] = NewEntry(SubSeq(x, 1, m - 1), x[m].fragment, x[m].selected)
    BY <1>3, <1>6, <2>2
  <2>4. /\ Consumed(x, m - 1) = Consumed(h, n)
        /\ VersionAt(x, m - 1, f) = VersionAt(h, n, f)
    BY <1>4, <2>1
  <2>5. /\ S \cap Consumed(h, n) = {}
        /\ \A p \in S :
               /\ p.fragment = f
               /\ p.base <= n /\ n - p.base <= MaxGlobal
               /\ p.version = VersionAt(h, p.base, f)
               /\ VersionAt(h, n, f) - p.version <= MaxFragment
               /\ \A q \in Consumed(h, n) :
                      SameLineage(p, q) => q.seq < p.seq /\ ~SameBase(p, q)
    BY <1>1 DEF Admissible
  <2>6. ASSUME NEW p \in S
        PROVE  /\ p.base < m /\ m - 1 - p.base <= MaxGlobal
               /\ p.version = VersionAt(x, p.base, f)
    <3>1. p.base \in 0..n
      BY <1>2, <1>3, <2>5, OfferedTyped
    <3>2. VersionAt(x, p.base, f) = VersionAt(h, p.base, f)
      BY <1>4, <3>1
    <3> QED
      BY <1>3, <1>6, <2>1, <2>5, <3>1, <3>2
  <2>7. Rules(P, x, m)
    BY <1>3, <1>6, <2>4, <2>5, <2>6 DEF Rules
  <2> QED
    BY <2>3, <2>7
<1>7. \A i \in 1..Len(x) : i \in 1..n \/ i = n + 1
  BY <1>3
<1> QED
  BY <1>5, <1>6, <1>7 DEF Conforms

-----------------------------------------------------------------------------
(* What a reader follows from a head. *)
LEMMA ReachableIs ==
    ASSUME NEW g, NEW h, NEW o
    PROVE  o \in Reachable([spec |-> g, history |-> h]) <=>
               \E n \in 0..Len(h), k \in Kind :
                   /\ k = "commit" => n # 0
                   /\ o = Object(k, [spec |-> g, history |-> SubSeq(h, 1, n)])
<1> DEFINE tip == [spec |-> g, history |-> h]
<1>1. tip.history = h
      /\ \A n : Prefix(tip, n) = [spec |-> g, history |-> SubSeq(h, 1, n)]
  <2>1. ASSUME NEW y
        PROVE  [tip EXCEPT !.history = y] = [spec |-> g, history |-> y]
    OBVIOUS
  <2>2. tip.history = h
    OBVIOUS
  <2> HIDE DEF tip
  <2> QED
    BY <2>1, <2>2 DEF Prefix
<1>2. o \in Reachable(tip) <=> \E n \in 0..Len(h) : o \in Needed(tip, n)
  BY <1>1 DEF Reachable
<1>3. ASSUME NEW n \in 0..Len(h)
      PROVE  o \in Needed(tip, n) <=>
                 \E k \in Kind : /\ k = "commit" => n # 0
                                 /\ o = Object(k, [spec |-> g, history |-> SubSeq(h, 1, n)])
  BY <1>1 DEF Needed, Kind
<1> HIDE DEF tip
<1>4. o \in Reachable(tip) <=>
          \E n \in 0..Len(h), k \in Kind :
              /\ k = "commit" => n # 0
              /\ o = Object(k, [spec |-> g, history |-> SubSeq(h, 1, n)])
  BY <1>2, <1>3
<1> QED
  BY <1>4 DEF tip

LEMMA ReachExtended ==
    ASSUME NEW g, NEW h \in Seq(Entry), NEW f \in Fragment, NEW S \in SUBSET Offered,
           NEW x, x = Extend(h, f, S),
           NEW o, o \in Reachable([spec |-> g, history |-> x])
    PROVE  \/ o \in Reachable([spec |-> g, history |-> h])
           \/ \E k \in Kind : o = Object(k, [spec |-> g, history |-> x])
<1>0. \A y : o \in Reachable([spec |-> g, history |-> y]) <=>
              \E n \in 0..Len(y), k \in Kind :
                  /\ k = "commit" => n # 0
                  /\ o = Object(k, [spec |-> g, history |-> SubSeq(y, 1, n)])
  BY ReachableIs
<1>1. PICK n \in 0..Len(x), k \in Kind :
          /\ k = "commit" => n # 0
          /\ o = Object(k, [spec |-> g, history |-> SubSeq(x, 1, n)])
  BY <1>0
<1>2. Len(h) \in Nat /\ Len(x) = Len(h) + 1 /\ x \in Seq(Entry)
  BY Extended
<1>3. CASE n \in 0..Len(h)
  <2>1. SubSeq(x, 1, n) = SubSeq(h, 1, n)
    BY <1>3, ExtendedPrefix
  <2> QED
    BY <1>1, <1>3, <2>1, ReachableIs
<1>4. CASE n = Len(x)
  BY <1>1, <1>2, <1>4, WholePrefix
<1> QED
  BY <1>2, <1>3, <1>4

LEMMA ReachRoot ==
    ASSUME NEW g, NEW o \in Reachable(Root(g))
    PROVE  \E k \in {"tensors", "frontier"} : o = Object(k, Root(g))
<1>1. PICK n \in 0..Len(<<>>), k \in Kind :
          /\ k = "commit" => n # 0
          /\ o = Object(k, [spec |-> g, history |-> SubSeq(<<>>, 1, n)])
  BY ReachableIs DEF Root
<1>2. n = 0 /\ SubSeq(<<>>, 1, n) = <<>>
  OBVIOUS
<1> QED
  BY <1>1, <1>2 DEF Root, Kind

-----------------------------------------------------------------------------
(* The strengthened invariant. *)

(* What a process has put, or has yet to put. *)
Pending(o, w) == \E j \in 1..Len(todo[w]) : todo[w][j] = o
There(o, w) == o \in store \/ Pending(o, w)

Phase == {"off", "genesis", "probing", "heading", "open", "preparing", "swapping", "failed"}

Types ==
    /\ store \in SUBSET Objects
    /\ manifest \in RunSpec \cup {NoSpec}
    /\ head \in Tip \cup {NoTip}
    /\ published \in SUBSET Offered
    /\ pc \in [Process -> Phase]
    /\ spec \in [Process -> RunSpec \cup {NoSpec}]
    /\ todo \in [Process -> Seq(Objects)]
    /\ prepared \in [Process -> Tip \cup {NoTip}]
    /\ \A w \in Process :
           /\ pc[w] \in {"preparing", "swapping"} => prepared[w] \in Tip
           /\ pc[w] # "off" => spec[w] \in RunSpec

(* The head replays, and its versions and producers agree. *)
HeadInv ==
    head # NoTip =>
        /\ WellBuilt(head.history) /\ Conforms(published, head.history)
        /\ Reachable(head) \subseteq store

(* Genesis objects are there before the manifest, and the manifest before   *)
(* the head.                                                                *)
GenesisInv ==
    \A w \in Process : \A k \in {"tensors", "frontier"} :
        /\ pc[w] = "genesis" => There(Object(k, Root(spec[w])), w)
        /\ pc[w] \in {"probing", "heading"} => Object(k, Root(spec[w])) \in store

(* What prepare_transition accepted stands on the head it was prepared on,  *)
(* whatever was published or committed since.                               *)
Accepted(P, g, tip) ==
    \E h \in Seq(Entry), f \in Fragment, S \in SUBSET P :
        /\ tip = [spec |-> g, history |-> Extend(h, f, S)]
        /\ Len(h) < MaxCommits
        /\ Admissible(h, f, S)

PreparedInv ==
    \A w \in Process : pc[w] \in {"preparing", "swapping"} =>
        /\ Accepted(published, manifest, prepared[w])
        /\ \A k \in Kind : There(Object(k, prepared[w]), w)
        /\ pc[w] = "swapping" => todo[w] = <<>>

FailInv ==
    /\ FailsForCause
    /\ \A w \in Process : pc[w] = "failed" => manifest # NoSpec

IInv == Types /\ OneGenesis /\ FailInv /\ HeadInv /\ GenesisInv /\ PreparedInv

-----------------------------------------------------------------------------
(* What a step touches. *)
LEMMA LocalStep ==
    ASSUME Types, NEW w \in Process, ProcessStep(w)
    PROVE  \A v \in Process \ {w} :
               /\ pc'[v] = pc[v] /\ spec'[v] = spec[v]
               /\ todo'[v] = todo[v] /\ prepared'[v] = prepared[v]
<1>1. /\ pc \in [Process -> Phase] /\ spec \in [Process -> RunSpec \cup {NoSpec}]
      /\ todo \in [Process -> Seq(Objects)] /\ prepared \in [Process -> Tip \cup {NoTip}]
  BY DEF Types
<1>2. \/ UNCHANGED pc \/ \E p : Goto(w, p)
  BY DEF ProcessStep, Initialize, PutObject, PutManifest, ProbeHead, PutHead, Open, Publish,
         Prepare, ResolveFirst, Swap, SwapRefused, SwapUnanswered, Crash
<1>3. /\ UNCHANGED spec \/ \E y : spec' = [spec EXCEPT ![w] = y]
      /\ UNCHANGED todo \/ \E y : todo' = [todo EXCEPT ![w] = y]
      /\ UNCHANGED prepared \/ \E y : prepared' = [prepared EXCEPT ![w] = y]
  BY DEF ProcessStep, Initialize, PutObject, PutManifest, ProbeHead, PutHead, Open, Publish,
         Prepare, ResolveFirst, Swap, SwapRefused, SwapUnanswered, Crash
<1> QED
  BY <1>1, <1>2, <1>3 DEF Goto

LEMMA SharedStep ==
    ASSUME NEW w \in Process, ProcessStep(w)
    PROVE  /\ UNCHANGED store \/ PutObject(w)
           /\ UNCHANGED manifest \/ PutManifest(w)
           /\ UNCHANGED head \/ PutHead(w) \/ (pc[w] = "swapping" /\ SwapHead(w))
           /\ UNCHANGED published \/ \E p \in Offered : Publish(w, p)
BY DEF ProcessStep, Initialize, PutObject, PutManifest, ProbeHead, PutHead, Open, Publish,
       Prepare, ResolveFirst, Swap, SwapRefused, SwapUnanswered, Crash

LEMMA Grows ==
    ASSUME NEW w \in Process, ProcessStep(w)
    PROVE  store \subseteq store' /\ published \subseteq published'
<1>1. UNCHANGED store \/ PutObject(w)
  BY SharedStep
<1>2. UNCHANGED published \/ \E p \in Offered : Publish(w, p)
  BY SharedStep
<1> QED
  BY <1>1, <1>2 DEF PutObject, Publish

LEMMA EntryStep ==
    ASSUME Types, NEW w \in Process, ProcessStep(w)
    PROVE  /\ pc'[w] \in Phase
           /\ pc'[w] = "genesis" => PutObject(w) \/ \E g \in RunSpec : Initialize(w, g)
           /\ pc'[w] = "probing" => PutObject(w) \/ PutManifest(w)
           /\ pc'[w] = "heading" => PutObject(w) \/ ProbeHead(w)
           /\ pc'[w] = "preparing" =>
                  \/ PutObject(w) \/ SwapUnanswered(w)
                  \/ \E f \in Fragment, S \in SUBSET published : Prepare(w, f, S)
           /\ pc'[w] = "swapping" => PutObject(w) \/ ResolveFirst(w)
           /\ pc'[w] = "failed" => PutObject(w) \/ PutManifest(w) \/ PutHead(w)
<1>1. pc \in [Process -> Phase]
  BY DEF Types
<1> QED
  BY <1>1, SMTT(60)
     DEF Phase, Goto, ProcessStep, Initialize, PutObject, PutManifest, ProbeHead, PutHead,
         Open, Publish, Prepare, ResolveFirst, Swap, SwapRefused, SwapUnanswered, Crash

-----------------------------------------------------------------------------
(* Queues of objects. *)
LEMMA RootTip ==
    ASSUME NEW g \in RunSpec
    PROVE  Root(g) \in Tip /\ Root(g).spec = g /\ Root(g).history = <<>>
<1>1. <<>> \in Seq(Entry)
  OBVIOUS
<1> QED
  BY <1>1 DEF Root, Tip

LEMMA ObjectTyped ==
    ASSUME NEW k \in Kind, NEW tip \in Tip
    PROVE  Object(k, tip) \in Objects
BY DEF Object, Objects

LEMMA GenesisQueue ==
    ASSUME NEW g \in RunSpec
    PROVE  /\ GenesisObjects(g) \in Seq(Objects)
           /\ \A k \in {"tensors", "frontier"} :
                  \E j \in 1..Len(GenesisObjects(g)) : GenesisObjects(g)[j] = Object(k, Root(g))
<1>1. Object("tensors", Root(g)) \in Objects /\ Object("frontier", Root(g)) \in Objects
  BY RootTip, ObjectTyped DEF Kind
<1>2. PICK a \in Objects, b \in Objects :
          a = Object("tensors", Root(g)) /\ b = Object("frontier", Root(g))
  BY <1>1
<1>3. <<a, b>> \in Seq(Objects) /\ Len(<<a, b>>) = 2 /\ <<a, b>>[1] = a /\ <<a, b>>[2] = b
  OBVIOUS
<1>4. GenesisObjects(g) = <<a, b>>
  BY <1>2 DEF GenesisObjects
<1> QED
  BY <1>2, <1>3, <1>4

LEMMA TransitionQueue ==
    ASSUME NEW tip \in Tip
    PROVE  /\ TransitionObjects(tip) \in Seq(Objects)
           /\ \A k \in Kind :
                  \E j \in 1..Len(TransitionObjects(tip)) :
                      TransitionObjects(tip)[j] = Object(k, tip)
<1>1. /\ Object("tensors", tip) \in Objects /\ Object("commit", tip) \in Objects
      /\ Object("frontier", tip) \in Objects
  BY ObjectTyped DEF Kind
<1>2. PICK a \in Objects, b \in Objects, c \in Objects :
          /\ a = Object("tensors", tip) /\ b = Object("commit", tip)
          /\ c = Object("frontier", tip)
  BY <1>1
<1>3. /\ <<a, b, c>> \in Seq(Objects) /\ Len(<<a, b, c>>) = 3
      /\ <<a, b, c>>[1] = a /\ <<a, b, c>>[2] = b /\ <<a, b, c>>[3] = c
  OBVIOUS
<1>4. TransitionObjects(tip) = <<a, b, c>>
  BY <1>2 DEF TransitionObjects
<1> QED
  BY <1>2, <1>3, <1>4 DEF Kind

(* A put takes the first object of the queue into the store. *)
LEMMA PutKeeps ==
    ASSUME Types, NEW w \in Process, PutObject(w), NEW o, There(o, w)
    PROVE  There(o, w)'
<1>1. todo \in [Process -> Seq(Objects)] /\ todo[w] # <<>>
  BY DEF Types, PutObject
<1>2. PICK q \in Seq(Objects) : q = todo[w]
  BY <1>1
<1>3. /\ Head(q) = q[1] /\ Len(q) \in Nat \ {0} /\ Len(Tail(q)) = Len(q) - 1
      /\ \A j \in 1..(Len(q) - 1) : Tail(q)[j] = q[j + 1]
  BY <1>1, <1>2
<1>4. store' = store \cup {q[1]} /\ todo'[w] = Tail(q)
  BY <1>1, <1>2, <1>3 DEF PutObject
<1>5. CASE Pending(o, w)
  <2>1. PICK j \in 1..Len(q) : q[j] = o
    BY <1>2, <1>5 DEF Pending
  <2>2. CASE j = 1
    BY <1>4, <2>1, <2>2 DEF There
  <2>3. CASE j # 1
    <3>1. j - 1 \in 1..(Len(q) - 1) /\ (j - 1) + 1 = j
      BY <1>3, <2>1, <2>3
    <3>2. Tail(q)[j - 1] = o /\ j - 1 \in 1..Len(Tail(q))
      BY <1>3, <2>1, <3>1
    <3> QED
      BY <1>4, <3>2 DEF There, Pending
  <2> QED
    BY <2>2, <2>3
<1> QED
  BY <1>4, <1>5 DEF There

(* What prepare_transition hands over. *)
LEMMA Prepares ==
    ASSUME Types, NEW w \in Process, NEW f \in Fragment, NEW S \in SUBSET published,
           Prepare(w, f, S), NEW x, x = Extend(head.history, f, S)
    PROVE  /\ head \in Tip /\ head.history \in Seq(Entry) /\ S \in SUBSET Offered
           /\ prepared' = [prepared EXCEPT ![w] = [spec |-> head.spec, history |-> x]]
           /\ [spec |-> head.spec, history |-> x] \in Tip
           /\ todo' = [todo EXCEPT ![w] =
                  TransitionObjects([spec |-> head.spec, history |-> x])]
<1>1. head \in Tip /\ S \in SUBSET Offered
  BY DEF Prepare, Types
<1>2. head.history \in Seq(Entry) /\ head.spec \in RunSpec
      /\ head = [spec |-> head.spec, history |-> head.history]
  BY <1>1 DEF Tip
<1>3. x \in Seq(Entry)
  BY <1>1, <1>2, Extended
<1>4. [spec |-> head.spec, history |-> x] \in Tip
  BY <1>2, <1>3 DEF Tip
<1>5. [head EXCEPT !.history = Extend(@, f, S)] = [spec |-> head.spec, history |-> x]
  BY <1>2
<1>6. prepared' = [prepared EXCEPT ![w] = [spec |-> head.spec, history |-> x]]
  BY <1>5 DEF Prepare
<1>7. prepared'[w] = [spec |-> head.spec, history |-> x]
  BY <1>6 DEF Types
<1> QED
  BY <1>1, <1>2, <1>4, <1>6, <1>7 DEF Prepare

-----------------------------------------------------------------------------
(* Types are kept. *)
LEMMA TypesStep ==
    ASSUME Types, NEW w \in Process, ProcessStep(w)
    PROVE  Types'
<1>1. store' \in SUBSET Objects
  <2>1. CASE PutObject(w)
    <3>1. todo[w] \in Seq(Objects) /\ todo[w] # <<>>
      BY <2>1 DEF PutObject, Types
    <3>2. Head(todo[w]) \in Objects
      BY <3>1
    <3> QED
      BY <2>1, <3>2 DEF PutObject, Types
  <2> QED
    BY <2>1, SharedStep DEF Types
<1>2. manifest' \in RunSpec \cup {NoSpec}
  BY SharedStep DEF PutManifest, Types
<1>3. head' \in Tip \cup {NoTip}
  <2>1. CASE PutHead(w)
    BY <2>1, RootTip DEF PutHead, Types
  <2>2. CASE pc[w] = "swapping" /\ SwapHead(w)
    BY <2>2 DEF SwapHead, Types
  <2> QED
    BY <2>1, <2>2, SharedStep DEF Types
<1>4. published' \in SUBSET Offered
  BY SharedStep DEF Publish, Types
<1>5. pc' \in [Process -> Phase]
  <2>1. pc'[w] \in Phase
    BY EntryStep
  <2>2. UNCHANGED pc \/ \E p : pc' = [pc EXCEPT ![w] = p]
    BY DEF ProcessStep, Initialize, PutObject, PutManifest, ProbeHead, PutHead, Open, Publish,
           Prepare, ResolveFirst, Swap, SwapRefused, SwapUnanswered, Crash, Goto
  <2> QED
    BY <2>1, <2>2 DEF Types
<1>6. UNCHANGED spec \/ \E g \in RunSpec \cup {NoSpec} : spec' = [spec EXCEPT ![w] = g]
  BY DEF ProcessStep, Initialize, PutObject, PutManifest, ProbeHead, PutHead, Open, Publish,
         Prepare, ResolveFirst, Swap, SwapRefused, SwapUnanswered, Crash, Types
<1>7. CASE \E f \in Fragment, S \in SUBSET published : Prepare(w, f, S)
  <2>1. PICK f \in Fragment, S \in SUBSET published : Prepare(w, f, S)
    BY <1>7
  <2>2. PICK tip \in Tip : /\ prepared' = [prepared EXCEPT ![w] = tip]
                           /\ todo' = [todo EXCEPT ![w] = TransitionObjects(tip)]
    BY <2>1, Prepares
  <2>3. TransitionObjects(tip) \in Seq(Objects)
    BY TransitionQueue
  <2>4. prepared' \in [Process -> Tip \cup {NoTip}] /\ todo' \in [Process -> Seq(Objects)]
        /\ prepared'[w] \in Tip
    BY <2>2, <2>3 DEF Types
  <2>5. pc[w] = "open" /\ UNCHANGED spec
    BY <2>1 DEF Prepare
  <2>6. spec'[w] \in RunSpec
    BY <2>5 DEF Types
  <2>7. \A v \in Process :
            /\ pc'[v] \in {"preparing", "swapping"} => prepared'[v] \in Tip
            /\ pc'[v] # "off" => spec'[v] \in RunSpec
    BY <2>4, <2>6, LocalStep DEF Types
  <2> QED
    BY <1>1, <1>2, <1>3, <1>4, <1>5, <2>4, <2>5, <2>7 DEF Types
<1>8. CASE ~\E f \in Fragment, S \in SUBSET published : Prepare(w, f, S)
  <2>1. todo' \in [Process -> Seq(Objects)]
    <3>1. CASE PutObject(w)
      <4>1. todo[w] \in Seq(Objects) /\ todo[w] # <<>>
        BY <3>1 DEF PutObject, Types
      <4>2. Tail(todo[w]) \in Seq(Objects)
        BY <4>1
      <4> QED
        BY <3>1, <4>2 DEF PutObject, Types
    <3>2. CASE \E g \in RunSpec : Initialize(w, g)
      BY <3>2, GenesisQueue DEF Initialize, Types
    <3>3. CASE Crash(w)
      <4>1. <<>> \in Seq(Objects)
        OBVIOUS
      <4> QED
        BY <3>3, <4>1 DEF Crash, Types
    <3>4. CASE UNCHANGED todo
      BY <3>4 DEF Types
    <3> QED
      BY <1>8, <3>1, <3>2, <3>3, <3>4
         DEF ProcessStep, PutManifest, ProbeHead, PutHead, Open, Publish,
             ResolveFirst, Swap, SwapRefused, SwapUnanswered
  <2>2. UNCHANGED prepared \/ Crash(w)
    BY <1>8 DEF ProcessStep, Initialize, PutObject, PutManifest, ProbeHead, PutHead, Open,
                Publish, ResolveFirst, Swap, SwapRefused, SwapUnanswered
  <2>3. prepared' \in [Process -> Tip \cup {NoTip}]
    BY <2>2 DEF Crash, Types
  <2>4. pc'[w] \in {"preparing", "swapping"} => prepared'[w] \in Tip
    <3>1. pc'[w] \in {"preparing", "swapping"} => UNCHANGED pc \/ pc[w] \in {"preparing", "swapping"}
      BY <1>8, EntryStep DEF PutObject, SwapUnanswered, ResolveFirst
    <3>2. pc'[w] \in {"preparing", "swapping"} => ~Crash(w)
      BY DEF Crash, Goto, Types
    <3> QED
      BY <2>2, <3>1, <3>2 DEF Types
  <2>5. spec' \in [Process -> RunSpec \cup {NoSpec}]
    BY <1>6 DEF Types
  <2>6. pc'[w] # "off" => spec'[w] \in RunSpec
    <3>1. CASE \E g \in RunSpec : Initialize(w, g)
      BY <3>1 DEF Initialize, Types
    <3>2. CASE Open(w)
      BY <3>2 DEF Open, Types
    <3>3. CASE Crash(w)
      BY <3>3 DEF Crash, Goto, Types
    <3>4. CASE pc[w] # "off" /\ UNCHANGED spec
      BY <3>4 DEF Types
    <3>5. CASE PutObject(w)
      BY <3>5 DEF PutObject, Types
    <3> QED
      BY <1>8, <3>1, <3>2, <3>3, <3>4, <3>5
         DEF ProcessStep, PutManifest, ProbeHead, PutHead, Publish,
             ResolveFirst, Swap, SwapRefused, SwapUnanswered
  <2>7. \A v \in Process :
            /\ pc'[v] \in {"preparing", "swapping"} => prepared'[v] \in Tip
            /\ pc'[v] # "off" => spec'[v] \in RunSpec
    BY <2>4, <2>6, LocalStep DEF Types
  <2> QED
    BY <1>1, <1>2, <1>3, <1>4, <1>5, <2>1, <2>3, <2>5, <2>7 DEF Types
<1> QED
  BY <1>7, <1>8

(* The manifest is written once. *)
LEMMA ManifestStep ==
    ASSUME NEW w \in Process, ProcessStep(w)
    PROVE  UNCHANGED manifest \/ (manifest = NoSpec /\ PutManifest(w) /\ manifest' = spec[w])
BY SharedStep DEF PutManifest

LEMMA ManifestKept ==
    ASSUME Types, OneGenesis, FailInv, NEW w \in Process, ProcessStep(w),
           NEW v \in Process,
           pc[v] \in {"probing", "heading", "open", "preparing", "swapping", "failed"}
    PROVE  UNCHANGED manifest /\ manifest # NoSpec
<1>1. pc[v] # "failed" => spec[v] \in RunSpec /\ spec[v] = manifest
  BY DEF Types, OneGenesis
<1>2. manifest # NoSpec
  BY <1>1, NoTipAssumption DEF FailInv
<1> QED
  BY <1>2, ManifestStep

-----------------------------------------------------------------------------
(* The swap goes from the head a transition was prepared on to what was     *)
(* accepted there.                                                          *)
LEMMA SwapExtends ==
    ASSUME IInv, NEW w \in Process, pc[w] = "swapping", SwapHead(w)
    PROVE  \E f \in Fragment, S \in SUBSET published :
               /\ head \in Tip /\ head.spec = manifest /\ head.history \in Seq(Entry)
               /\ head = [spec |-> head.spec, history |-> head.history]
               /\ S \in SUBSET Offered /\ head' = prepared[w]
               /\ prepared[w] = [spec |-> head.spec,
                                 history |-> Extend(head.history, f, S)]
               /\ Len(head.history) < MaxCommits
               /\ Admissible(head.history, f, S)
<1>1. published \in SUBSET Offered /\ prepared[w] \in Tip
  BY DEF IInv, Types
<1>2. PICK h \in Seq(Entry), f \in Fragment, S \in SUBSET published :
          /\ prepared[w] = [spec |-> manifest, history |-> Extend(h, f, S)]
          /\ Len(h) < MaxCommits
          /\ Admissible(h, f, S)
  BY DEF IInv, PreparedInv, Accepted
<1>3. PICK x : x = Extend(h, f, S)
  OBVIOUS
<1>4. S \in SUBSET Offered
  BY <1>1
<1>5. x \in Seq(Entry) /\ Len(h) \in Nat /\ Len(x) - 1 = Len(h)
  BY <1>3, <1>4, Extended
<1>6. SubSeq(x, 1, Len(x) - 1) = h
  BY <1>3, <1>4, <1>5, ExtendedPrefix, WholePrefix
<1>7. manifest \in RunSpec
  BY <1>1, <1>2 DEF Tip
<1>8. Parent(prepared[w]) = [spec |-> manifest, history |-> h]
  <2>1. prepared[w] = [spec |-> manifest, history |-> x]
    BY <1>2, <1>3
  <2>2. prepared[w].history = x
    BY <2>1
  <2>3. \A y : [prepared[w] EXCEPT !.history = y] = [spec |-> manifest, history |-> y]
    BY <2>1
  <2> QED
    BY <1>6, <2>2, <2>3 DEF Parent, Prefix
<1>9. head = [spec |-> manifest, history |-> h] /\ head' = prepared[w]
  BY <1>8 DEF SwapHead
<1>10. head.spec = manifest /\ head.history = h /\ head \in Tip
  BY <1>7, <1>9 DEF Tip
<1> QED
  BY <1>2, <1>4, <1>9, <1>10

(* How the head moves. *)
LEMMA HeadStep ==
    ASSUME IInv, NEW w \in Process, ProcessStep(w)
    PROVE  \/ UNCHANGED head
           \/ head = NoTip /\ PutHead(w) /\ head' = Root(spec[w])
           \/ pc[w] = "swapping" /\ SwapHead(w)
BY SharedStep DEF PutHead

LEMMA OneGenesisStep ==
    ASSUME IInv, NEW w \in Process, ProcessStep(w)
    PROVE  OneGenesis'
<1> DEFINE Knows == {"probing", "heading", "open", "preparing", "swapping"}
<1>1. Types /\ OneGenesis /\ FailInv
  BY DEF IInv
<1>2. ASSUME NEW v \in Process \ {w}, pc'[v] \in Knows
      PROVE  spec'[v] = manifest'
  <2>1. pc[v] \in Knows /\ spec'[v] = spec[v]
    BY <1>1, <1>2, LocalStep
  <2> QED
    BY <1>1, <2>1, ManifestKept DEF OneGenesis
<1>3. ASSUME pc'[w] \in Knows
      PROVE  spec'[w] = manifest'
  <2>1. CASE PutManifest(w)
    BY <1>1, <1>3, <2>1 DEF PutManifest, Goto, Types
  <2>2. CASE Open(w)
    BY <1>1, <2>2 DEF Open, Types
  <2>3. CASE \E g \in RunSpec : Initialize(w, g)
    BY <1>1, <1>3, <2>3 DEF Initialize, Goto, Types
  <2>4. CASE Crash(w)
    BY <1>1, <1>3, <2>4 DEF Crash, Goto, Types
  <2>5. CASE pc[w] \in Knows /\ UNCHANGED spec
    BY <1>1, <2>5, ManifestKept DEF OneGenesis
  <2>6. CASE PutObject(w)
    <3>1. UNCHANGED pc /\ UNCHANGED spec
      BY <2>6 DEF PutObject
    <3> QED
      BY <1>3, <2>5, <3>1
  <2> QED
    BY <2>1, <2>2, <2>3, <2>4, <2>5, <2>6
       DEF ProcessStep, ProbeHead, PutHead, Publish, Prepare, ResolveFirst, Swap,
           SwapRefused, SwapUnanswered
<1>4. head' # NoTip => head'.spec = manifest'
  <2>1. CASE UNCHANGED head
    <3> SUFFICES ASSUME head # NoTip
                 PROVE  head'.spec = manifest'
      BY <2>1
    <3>1. head \in Tip /\ head.spec = manifest
      BY <1>1 DEF Types, OneGenesis
    <3>2. manifest # NoSpec
      BY <3>1, NoTipAssumption DEF Tip
    <3> QED
      BY <2>1, <3>1, <3>2, ManifestStep
  <2>2. CASE PutHead(w) /\ head' = Root(spec[w])
    <3>1. pc[w] = "heading" /\ UNCHANGED manifest
      BY <2>2 DEF PutHead
    <3>2. spec[w] = manifest /\ spec[w] \in RunSpec
      BY <1>1, <3>1 DEF OneGenesis, Types
    <3> QED
      BY <2>2, <3>1, <3>2, RootTip
  <2>3. CASE pc[w] = "swapping" /\ SwapHead(w)
    <3>1. UNCHANGED manifest
      BY <1>1, <2>3, ManifestKept
    <3>2. PICK y : head' = [spec |-> manifest, history |-> y]
      BY <2>3, SwapExtends
    <3> QED
      BY <3>1, <3>2
  <2> QED
    BY <2>1, <2>2, <2>3, HeadStep
<1>5. \A v \in Process : v = w \/ v \in Process \ {w}
  OBVIOUS
<1> QED
  BY <1>2, <1>3, <1>4, <1>5 DEF OneGenesis

(* A history that is there has a first commit for good. *)
LEMMA FirstCommitStays ==
    ASSUME IInv, NEW w \in Process, ProcessStep(w), head # NoTip, Len(head.history) > 0
    PROVE  head' # NoTip /\ Len(head'.history) > 0
<1>1. CASE UNCHANGED head
  BY <1>1
<1>2. CASE pc[w] = "swapping" /\ SwapHead(w)
  <2>1. PICK f \in Fragment, S \in SUBSET published :
            /\ head.history \in Seq(Entry) /\ S \in SUBSET Offered /\ head' = prepared[w]
            /\ prepared[w] = [spec |-> head.spec, history |-> Extend(head.history, f, S)]
    BY <1>2, SwapExtends
  <2>2. PICK x : x = Extend(head.history, f, S)
    OBVIOUS
  <2>3. Len(x) > 0
    BY <2>1, <2>2, Extended
  <2>4. head'.history = x
    BY <2>1, <2>2
  <2>5. head' # NoTip
    BY <1>2, <2>1, NoTipAssumption DEF IInv, Types
  <2> QED
    BY <2>3, <2>4, <2>5
<1> QED
  BY <1>1, <1>2, HeadStep

LEMMA FailStep ==
    ASSUME IInv, NEW w \in Process, ProcessStep(w)
    PROVE  FailInv'
<1>1. Types /\ OneGenesis /\ FailInv
  BY DEF IInv
<1> DEFINE Cause(v) == spec[v] # manifest \/ (head # NoTip /\ Len(head.history) > 0)
<1>2. ASSUME NEW v \in Process, pc[v] = "failed", spec'[v] = spec[v]
      PROVE  Cause(v)' /\ manifest' # NoSpec
  <2>1. Cause(v) /\ UNCHANGED manifest /\ manifest # NoSpec
    BY <1>1, <1>2, ManifestKept DEF FailInv, FailsForCause
  <2> QED
    BY <1>2, <2>1, FirstCommitStays
<1>3. ASSUME NEW v \in Process, pc'[v] = "failed"
      PROVE  Cause(v)' /\ manifest' # NoSpec
  <2>1. CASE v # w
    <3>1. pc[v] = "failed" /\ spec'[v] = spec[v]
      BY <1>1, <1>3, <2>1, LocalStep
    <3> QED
      BY <1>2, <3>1
  <2>2. CASE v = w /\ PutObject(w)
    BY <1>2, <1>3, <2>2 DEF PutObject
  <2>3. CASE v = w /\ PutManifest(w)
    <3>1. spec[w] \in RunSpec /\ UNCHANGED spec
      BY <1>1, <2>3 DEF PutManifest, Types
    <3>2. manifest \notin {NoSpec, spec[w]} /\ UNCHANGED manifest
      BY <1>1, <1>3, <2>3 DEF PutManifest, Goto, Types
    <3> QED
      BY <2>3, <3>1, <3>2
  <2>4. CASE v = w /\ PutHead(w)
    <3>1. pc[w] = "heading" /\ UNCHANGED <<manifest, spec>>
      BY <2>4 DEF PutHead
    <3>2. head \notin {NoTip, Root(spec[w])} /\ UNCHANGED head
      BY <1>1, <1>3, <2>4 DEF PutHead, Goto, Types
    <3>3. manifest # NoSpec /\ spec[w] = manifest /\ head.spec = manifest /\ head \in Tip
      BY <1>1, <3>1, <3>2, ManifestKept DEF OneGenesis, Types
    <3>4. Len(head.history) > 0
      <4> SUFFICES ASSUME Len(head.history) = 0
                   PROVE  FALSE
        BY <3>3 DEF Tip
      <4>1. head.history \in Seq(Entry) /\ head = [spec |-> manifest, history |-> head.history]
        BY <3>3 DEF Tip
      <4>2. head.history = <<>>
        BY <4>1
      <4> QED
        BY <3>2, <3>3, <4>1, <4>2 DEF Root
    <3> QED
      BY <3>1, <3>2, <3>3, <3>4
  <2> QED
    BY <1>1, <1>3, <2>1, <2>2, <2>3, <2>4, EntryStep
<1> QED
  BY <1>3 DEF FailInv, FailsForCause

LEMMA HeadInvStep ==
    ASSUME IInv, NEW w \in Process, ProcessStep(w)
    PROVE  HeadInv'
<1>1. Types /\ HeadInv /\ published \in SUBSET Offered
  BY DEF IInv, Types
<1>2. store \subseteq store' /\ published \subseteq published'
  BY Grows
<1>3. CASE UNCHANGED head
  <2> SUFFICES ASSUME head # NoTip
               PROVE  /\ WellBuilt(head.history) /\ Conforms(published', head.history)
                      /\ Reachable(head) \subseteq store'
    BY <1>3 DEF HeadInv
  <2>1. /\ WellBuilt(head.history) /\ Conforms(published, head.history)
        /\ Reachable(head) \subseteq store
    BY <1>1 DEF HeadInv
  <2> QED
    BY <1>2, <2>1, ConformsLater
<1>4. CASE PutHead(w) /\ head' = Root(spec[w])
  <2>1. spec[w] \in RunSpec /\ pc[w] = "heading"
    BY <1>1, <1>4 DEF PutHead, Types
  <2>2. Reachable(Root(spec[w])) \subseteq store
    BY <2>1, ReachRoot DEF IInv, GenesisInv
  <2>3. head'.history = <<>>
    BY <1>4, <2>1, RootTip
  <2>4. Conforms(published', <<>>)
    <3>1. \A i \in 1..Len(<<>>) : FALSE
      OBVIOUS
    <3> QED
      BY <3>1 DEF Conforms
  <2>5. WellBuilt(head'.history) /\ Conforms(published', head'.history)
    BY <2>3, <2>4, RootBuilt
  <2>6. Reachable(head') \subseteq store'
    BY <1>2, <1>4, <2>2
  <2> QED
    BY <2>5, <2>6 DEF HeadInv
<1>5. CASE pc[w] = "swapping" /\ SwapHead(w)
  <2>1. PICK f \in Fragment, S \in SUBSET published :
            /\ head \in Tip /\ head.history \in Seq(Entry)
            /\ head = [spec |-> head.spec, history |-> head.history]
            /\ S \in SUBSET Offered /\ head' = prepared[w]
            /\ prepared[w] = [spec |-> head.spec, history |-> Extend(head.history, f, S)]
            /\ Admissible(head.history, f, S)
    BY <1>5, SwapExtends
  <2>2. PICK x : x = Extend(head.history, f, S)
    OBVIOUS
  <2>3. head # NoTip
    BY <2>1, NoTipAssumption
  <2>4. /\ WellBuilt(head.history) /\ Conforms(published, head.history)
        /\ Reachable(head) \subseteq store
    BY <1>1, <2>3 DEF HeadInv
  <2>5. WellBuilt(x)
    BY <2>1, <2>2, <2>4, BuildOn
  <2>6. Conforms(published, x)
    BY <1>1, <2>1, <2>2, <2>4, ConformsOn
  <2>7. Conforms(published', x)
    BY <1>2, <2>6, ConformsLater
  <2>8. ASSUME NEW o \in Reachable([spec |-> head.spec, history |-> x])
        PROVE  o \in store
    <3>1. \/ o \in Reachable([spec |-> head.spec, history |-> head.history])
          \/ \E k \in Kind : o = Object(k, [spec |-> head.spec, history |-> x])
      BY <2>1, <2>2, ReachExtended
    <3>2. CASE o \in Reachable([spec |-> head.spec, history |-> head.history])
      BY <2>1, <2>4, <3>2
    <3>3. CASE \E k \in Kind : o = Object(k, [spec |-> head.spec, history |-> x])
      <4>1. PICK k \in Kind : o = Object(k, prepared[w])
        BY <2>1, <2>2, <3>3
      <4>2. There(o, w) /\ todo[w] = <<>>
        BY <1>5, <4>1 DEF IInv, PreparedInv
      <4>3. ~Pending(o, w)
        <5>1. \A j \in 1..Len(<<>>) : FALSE
          OBVIOUS
        <5> QED
          BY <4>2, <5>1 DEF Pending
      <4> QED
        BY <4>2, <4>3 DEF There
    <3> QED
      BY <3>1, <3>2, <3>3
  <2>9. head' = [spec |-> head.spec, history |-> x] /\ head'.history = x
    BY <2>1, <2>2
  <2>10. Reachable(head') \subseteq store'
    BY <1>2, <2>8, <2>9
  <2> QED
    BY <2>5, <2>7, <2>9, <2>10 DEF HeadInv
<1> QED
  BY <1>3, <1>4, <1>5, HeadStep

(* What a process has put or queued, it keeps until it crashes. *)
LEMMA ThereKept ==
    ASSUME IInv, NEW w \in Process, ProcessStep(w), NEW v \in Process, NEW o, There(o, v),
           v = w => PutObject(w) \/ UNCHANGED todo
    PROVE  There(o, v)'
<1>1. CASE v = w /\ PutObject(w)
  BY <1>1, PutKeeps DEF IInv
<1>2. CASE todo'[v] = todo[v]
  BY <1>2, Grows DEF There, Pending
<1>3. v # w => todo'[v] = todo[v]
  BY LocalStep DEF IInv
<1> QED
  BY <1>1, <1>2, <1>3

LEMMA EmptyQueue ==
    ASSUME NEW w, NEW o, There(o, w), todo[w] = <<>>
    PROVE  o \in store
<1>1. \A j \in 1..Len(<<>>) : FALSE
  OBVIOUS
<1> QED
  BY <1>1 DEF There, Pending

LEMMA GenesisStep ==
    ASSUME IInv, NEW w \in Process, ProcessStep(w)
    PROVE  GenesisInv'
<1>1. Types /\ GenesisInv
  BY DEF IInv
<1>2. store \subseteq store'
  BY Grows
<1> SUFFICES ASSUME NEW v \in Process, NEW k \in {"tensors", "frontier"}
             PROVE  /\ pc'[v] = "genesis" => There(Object(k, Root(spec[v])), v)'
                    /\ pc'[v] \in {"probing", "heading"} =>
                           Object(k, Root(spec'[v])) \in store'
  BY DEF GenesisInv
<1>3. CASE pc'[v] = pc[v] /\ spec'[v] = spec[v] /\ (v = w => PutObject(w))
  <2>1. pc'[v] = "genesis" => There(Object(k, Root(spec[v])), v)
    BY <1>1, <1>3 DEF GenesisInv
  <2>2. pc'[v] = "genesis" => There(Object(k, Root(spec[v])), v)'
    <3> SUFFICES ASSUME pc'[v] = "genesis"
                 PROVE  There(Object(k, Root(spec[v])), v)'
      OBVIOUS
    <3>1. PICK o : o = Object(k, Root(spec[v]))
      OBVIOUS
    <3>2. There(o, v)'
      BY <1>3, <2>1, <3>1, ThereKept
    <3>3. o = Object(k, Root(spec'[v]))
      BY <1>3, <3>1
    <3> QED
      BY <3>2, <3>3 DEF There, Pending
  <2>3. pc'[v] \in {"probing", "heading"} => Object(k, Root(spec'[v])) \in store'
    BY <1>1, <1>2, <1>3 DEF GenesisInv
  <2> QED
    BY <2>2, <2>3
<1>4. CASE v # w
  BY <1>1, <1>3, <1>4, LocalStep
<1>5. CASE v = w /\ PutObject(w)
  BY <1>3, <1>5 DEF PutObject
<1>6. CASE v = w /\ \E g \in RunSpec : Initialize(w, g)
  <2>1. PICK g \in RunSpec : Initialize(w, g)
    BY <1>6
  <2>2. pc'[w] = "genesis" /\ spec'[w] = g /\ todo'[w] = GenesisObjects(g)
    BY <1>1, <2>1 DEF Initialize, Goto, Types
  <2>3. \E j \in 1..Len(GenesisObjects(g)) : GenesisObjects(g)[j] = Object(k, Root(g))
    BY GenesisQueue
  <2> QED
    BY <1>6, <2>2, <2>3 DEF There, Pending
<1>7. CASE v = w /\ PutManifest(w)
  <2>1. /\ pc[w] = "genesis" /\ todo[w] = <<>> /\ UNCHANGED <<store, spec>>
        /\ pc'[w] \in {"probing", "failed"}
    BY <1>1, <1>7 DEF PutManifest, Goto, Types
  <2>2. There(Object(k, Root(spec[w])), w)
    BY <1>1, <2>1 DEF GenesisInv
  <2>3. Object(k, Root(spec[w])) \in store
    BY <2>1, <2>2, EmptyQueue
  <2> QED
    BY <1>7, <2>1, <2>3
<1>8. CASE v = w /\ ProbeHead(w)
  <2>1. pc[w] = "probing" /\ UNCHANGED <<store, spec>> /\ pc'[w] \in {"heading", "open"}
    BY <1>1, <1>8 DEF ProbeHead, Goto, Types
  <2> QED
    BY <1>1, <1>8, <2>1 DEF GenesisInv
<1> QED
  BY <1>1, <1>4, <1>5, <1>6, <1>7, <1>8, EntryStep

LEMMA AcceptedLater ==
    ASSUME NEW P, NEW Q, P \subseteq Q, NEW g, NEW tip, Accepted(P, g, tip)
    PROVE  Accepted(Q, g, tip)
BY DEF Accepted

LEMMA PreparedStep ==
    ASSUME IInv, NEW w \in Process, ProcessStep(w)
    PROVE  PreparedInv'
<1>1. Types /\ OneGenesis /\ FailInv /\ PreparedInv
  BY DEF IInv
<1>2. published \subseteq published'
  BY Grows
<1> SUFFICES ASSUME NEW v \in Process, pc'[v] \in {"preparing", "swapping"}
             PROVE  /\ Accepted(published', manifest', prepared'[v])
                    /\ \A k \in Kind : There(Object(k, prepared[v]), v)'
                    /\ pc'[v] = "swapping" => todo'[v] = <<>>
  BY DEF PreparedInv
<1>3. CASE /\ pc[v] \in {"preparing", "swapping"} /\ prepared'[v] = prepared[v]
           /\ v = w => PutObject(w) \/ UNCHANGED todo
           /\ pc'[v] = "swapping" => todo'[v] = <<>>
  <2>1. UNCHANGED manifest
    BY <1>1, <1>3, ManifestKept
  <2>2. Accepted(published, manifest, prepared[v])
    BY <1>1, <1>3 DEF PreparedInv
  <2>3. Accepted(published', manifest', prepared'[v])
    BY <1>2, <1>3, <2>1, <2>2, AcceptedLater
  <2>4. ASSUME NEW k \in Kind
        PROVE  There(Object(k, prepared[v]), v)'
    <3>1. PICK o : o = Object(k, prepared[v])
      OBVIOUS
    <3>2. There(o, v)
      BY <1>1, <1>3, <3>1 DEF PreparedInv
    <3>3. There(o, v)'
      BY <1>3, <3>2, ThereKept
    <3>4. o = Object(k, prepared'[v])
      BY <1>3, <3>1
    <3> QED
      BY <3>3, <3>4 DEF There, Pending
  <2> QED
    BY <1>3, <2>3, <2>4
<1>4. CASE v # w
  <2>1. pc'[v] = pc[v] /\ prepared'[v] = prepared[v] /\ todo'[v] = todo[v]
    BY <1>1, <1>4, LocalStep
  <2>2. pc'[v] = "swapping" => todo'[v] = <<>>
    BY <1>1, <2>1 DEF PreparedInv
  <2> QED
    BY <1>3, <1>4, <2>1, <2>2
<1>5. CASE v = w /\ PutObject(w)
  <2>1. UNCHANGED <<pc, prepared>> /\ todo[w] # <<>>
    BY <1>5 DEF PutObject
  <2>2. pc[w] # "swapping"
    BY <1>1, <2>1 DEF PreparedInv
  <2> QED
    BY <1>3, <1>5, <2>1, <2>2
<1>6. CASE v = w /\ SwapUnanswered(w)
  <2>1. pc[w] = "swapping" /\ UNCHANGED <<prepared, todo>>
    BY <1>6 DEF SwapUnanswered
  <2>2. todo[w] = <<>>
    BY <1>1, <2>1 DEF PreparedInv
  <2> QED
    BY <1>3, <1>6, <2>1, <2>2
<1>7. CASE v = w /\ ResolveFirst(w)
  <2>1. pc[w] = "preparing" /\ todo[w] = <<>> /\ UNCHANGED <<prepared, todo>>
    BY <1>7 DEF ResolveFirst
  <2> QED
    BY <1>3, <1>7, <2>1
<1>8. CASE v = w /\ \E f \in Fragment, S \in SUBSET published : Prepare(w, f, S)
  <2>1. PICK f \in Fragment, S \in SUBSET published : Prepare(w, f, S)
    BY <1>8
  <2>2. PICK h, x : h = head.history /\ x = Extend(h, f, S)
    OBVIOUS
  <2>3. x = Extend(head.history, f, S)
    BY <2>2
  <2>4. /\ head.history \in Seq(Entry)
        /\ prepared' = [prepared EXCEPT ![w] = [spec |-> head.spec, history |-> x]]
        /\ [spec |-> head.spec, history |-> x] \in Tip
        /\ todo' = [todo EXCEPT ![w] =
               TransitionObjects([spec |-> head.spec, history |-> x])]
    BY <1>1, <2>1, <2>3, Prepares
  <2>5. PICK tip \in Tip :
            /\ tip = [spec |-> head.spec, history |-> x]
            /\ prepared' = [prepared EXCEPT ![w] = tip]
            /\ todo' = [todo EXCEPT ![w] = TransitionObjects(tip)]
            /\ h \in Seq(Entry)
    BY <2>2, <2>4
  <2>6. prepared'[w] = tip /\ todo'[w] = TransitionObjects(tip)
    BY <1>1, <2>5 DEF Types
  <2>7. /\ Len(h) < MaxCommits /\ Admissible(h, f, S) /\ head.spec = manifest
        /\ UNCHANGED <<manifest, published>> /\ pc'[w] = "preparing"
    BY <1>1, <2>1, <2>2 DEF Prepare, OneGenesis, Goto, Types
  <2>8. Accepted(published, manifest, tip)
    BY <2>2, <2>5, <2>7 DEF Accepted
  <2>9. \A k \in Kind : There(Object(k, prepared[w]), w)'
    BY <2>6, TransitionQueue DEF There, Pending
  <2> QED
    BY <1>8, <2>6, <2>7, <2>8, <2>9
<1> QED
  BY <1>1, <1>4, <1>5, <1>6, <1>7, <1>8, EntryStep

-----------------------------------------------------------------------------
LEMMA Initially == Init => IInv
<1> SUFFICES ASSUME Init
             PROVE  IInv
  OBVIOUS
<1>1. <<>> \in Seq(Objects) /\ {} \in SUBSET Objects
  OBVIOUS
<1>2. Types
  BY <1>1 DEF Init, Types, Phase
<1>3. /\ OneGenesis /\ FailInv /\ HeadInv /\ GenesisInv /\ PreparedInv
  BY DEF Init, OneGenesis, FailInv, FailsForCause, HeadInv, GenesisInv, PreparedInv
<1> QED
  BY <1>2, <1>3 DEF IInv

LEMMA Stuttering ==
    ASSUME IInv, UNCHANGED vars
    PROVE  IInv'
<1>1. /\ store' = store /\ manifest' = manifest /\ head' = head /\ published' = published
      /\ pc' = pc /\ spec' = spec /\ todo' = todo /\ prepared' = prepared
  BY DEF vars
<1>2. Types' /\ OneGenesis' /\ FailInv'
  BY <1>1 DEF IInv, Types, OneGenesis, FailInv, FailsForCause
<1>3. HeadInv'
  BY <1>1 DEF IInv, HeadInv
<1>4. \A o, w : There(o, w)' <=> There(o, w)
  BY <1>1 DEF There, Pending
<1>5. GenesisInv' /\ PreparedInv'
  BY <1>1, <1>4 DEF IInv, GenesisInv, PreparedInv, There, Pending
<1> QED
  BY <1>2, <1>3, <1>5 DEF IInv

LEMMA Inductive ==
    ASSUME IInv, [Next]_vars
    PROVE  IInv'
<1>1. ASSUME NEW w \in Process, ProcessStep(w)
      PROVE  IInv'
  BY <1>1, TypesStep, OneGenesisStep, FailStep, HeadInvStep, GenesisStep, PreparedStep
     DEF IInv
<1> QED
  BY <1>1, Stuttering DEF Next

(* The strengthened invariant of store, fixed keys and processes: what a    *)
(* process has accepted stands on the head it read, and is put or queued.   *)
THEOREM Invariance == Spec => []IInv
BY Initially, Inductive, PTL DEF Spec

(* Types of the store, the fixed keys and the processes. *)
THEOREM TypeCorrect == Spec => []TypeOK
<1>1. IInv => TypeOK
  <2> SUFFICES ASSUME IInv
               PROVE  TypeOK
    OBVIOUS
  <2>1. Types
    BY DEF IInv
  <2>2. \A o \in store : o.kind \in {"tensors", "commit", "frontier"} /\ o.tip \in Tip
    BY <2>1 DEF Types, Objects, Kind
  <2>3. ASSUME NEW w \in Process, NEW i \in 1..Len(todo[w])
        PROVE  todo[w][i].tip \in Tip
    <3>1. todo[w] \in Seq(Objects)
      BY <2>1 DEF Types
    <3>2. todo[w][i] \in Objects
      BY <3>1
    <3> QED
      BY <3>2 DEF Objects
  <2> QED
    BY <2>1, <2>2, <2>3 DEF TypeOK, Types, Phase
<1> QED
  BY <1>1, Invariance, PTL

(* I-001: whoever races, dies or starts again between two puts, the head    *)
(* never names what is not there, and what it names replays.                *)
THEOREM HeadAlwaysReplays == Spec => []HeadReplays
<1>1. IInv => HeadReplays
  <2> SUFFICES ASSUME IInv, head # NoTip
               PROVE  Replays(head)
    BY DEF HeadReplays
  <2>1. head \in Tip /\ head.spec = manifest
    BY DEF IInv, Types, OneGenesis
  <2>2. Conforms(published, head.history) /\ Reachable(head) \subseteq store
    BY DEF IInv, HeadInv
  <2>3. PICK h \in Seq(Entry) : h = head.history
    BY <2>1 DEF Tip
  <2>4. \A i \in 1..Len(h) : ReplaysCommit(h, i)
    BY <2>2, <2>3, Rewritten DEF Conforms
  <2> QED
    BY <2>1, <2>2, <2>3, <2>4 DEF Replays
<1> QED
  BY <1>1, Invariance, PTL

(* Processes configured differently never share a generation. *)
THEOREM Configurations == Spec => []OneGenesis
<1>1. IInv => OneGenesis
  BY DEF IInv
<1> QED
  BY <1>1, Invariance, PTL

(* An initialization fails for its configuration, or because the run has    *)
(* begun without it.                                                        *)
THEOREM Failures == Spec => []FailsForCause
<1>1. IInv => FailsForCause
  BY DEF IInv, FailInv
<1> QED
  BY <1>1, Invariance, PTL

-----------------------------------------------------------------------------
(* The committed prefix as a history of the reference model. *)
Event(h, i) ==
    [kind |-> "commit", fragment |-> h[i].fragment,
     previous |-> VersionAt(h, i - 1, h[i].fragment),
     new |-> VersionAt(h, i, h[i].fragment), selected |-> h[i].selected]

Events(h) == [i \in 1..Len(h) |-> Event(h, i)]

Vectors(h) ==
    [f \in Fragment |-> [version |-> VersionAt(h, Len(h), f),
                         producer |-> ProducerAt(h, Len(h), f)]]

LEMMA EventsExtend ==
    ASSUME NEW h \in Seq(Entry), NEW f \in Fragment, NEW S \in SUBSET Offered,
           NEW x, x = Extend(h, f, S)
    PROVE  /\ Len(Events(h)) = Len(h)
           /\ Events(x) = Append(Events(h),
                  [kind |-> "commit", fragment |-> f, previous |-> Vectors(h)[f].version,
                   new |-> Vectors(h)[f].version + 1, selected |-> S])
           /\ Vectors(x) = [Vectors(h) EXCEPT ![f] =
                  [version |-> Vectors(h)[f].version + 1, producer |-> Len(h) + 1]]
           /\ Consumed(x, Len(x)) = Consumed(h, Len(h)) \cup S
<1>1. PICK n \in Nat : n = Len(h)
  BY Counts
<1>2. /\ Len(x) = n + 1 /\ \A i \in 1..n : x[i] = h[i]
      /\ x[n + 1].fragment = f /\ x[n + 1].selected = S
      /\ Consumed(x, n + 1) = Consumed(h, n) \cup S
      /\ \A g \in Fragment :
             /\ VersionAt(x, n + 1, g) = VersionAt(h, n, g) + (IF g = f THEN 1 ELSE 0)
             /\ ProducerAt(x, n + 1, g) = IF g = f THEN n + 1 ELSE ProducerAt(h, n, g)
  BY <1>1, Extended, ExtendedLast
<1>3. \A m \in 0..n : \A g : VersionAt(x, m, g) = VersionAt(h, m, g)
  BY <1>1, ExtendedMeaning
<1>4. \A g \in Fragment : VersionAt(h, n, g) \in Nat
  BY <1>1, Counts
<1>5. PICK e : e = [kind |-> "commit", fragment |-> f, previous |-> VersionAt(h, n, f),
                    new |-> VersionAt(h, n, f) + 1, selected |-> S]
  OBVIOUS
<1>6. ASSUME NEW i \in 1..n
      PROVE  Event(x, i) = Event(h, i)
  <2>1. x[i] = h[i] /\ i \in 0..n /\ i - 1 \in 0..n
    BY <1>2
  <2> QED
    BY <1>3, <2>1 DEF Event
<1>7. ASSUME NEW m, m = n + 1
      PROVE  Event(x, m) = e
  <2>1. m - 1 = n /\ n \in 0..n
    BY <1>7
  <2>2. VersionAt(x, m - 1, f) = VersionAt(h, n, f)
    BY <1>3, <2>1
  <2>3. VersionAt(x, m, f) = VersionAt(h, n, f) + 1
    BY <1>2, <1>7
  <2> QED
    BY <1>2, <1>5, <1>7, <2>2, <2>3 DEF Event
<1>8. Vectors(h)[f].version = VersionAt(h, n, f)
  BY <1>1 DEF Vectors
<1>9. Len(Events(h)) = n /\ Events(x) = Append(Events(h), e)
  <2>1. PICK a : a = [i \in 1..n |-> Event(h, i)]
    OBVIOUS
  <2>2. Len(a) = n /\ Append(a, e) = [i \in 1..(n + 1) |-> IF i = n + 1 THEN e ELSE a[i]]
    BY <2>1
  <2>3. Events(h) = a
    BY <1>1, <2>1 DEF Events
  <2>4. Events(x) = [i \in 1..(n + 1) |-> Event(x, i)]
    BY <1>2 DEF Events
  <2>5. ASSUME NEW i \in 1..(n + 1)
        PROVE  Event(x, i) = IF i = n + 1 THEN e ELSE a[i]
    <3>1. i \in 1..n \/ i = n + 1
      OBVIOUS
    <3> QED
      BY <1>6, <1>7, <2>1, <3>1
  <2> QED
    BY <2>2, <2>3, <2>4, <2>5
<1>10. Vectors(x) = [Vectors(h) EXCEPT ![f] =
           [version |-> Vectors(h)[f].version + 1, producer |-> n + 1]]
  <2>1. Vectors(x) = [g \in Fragment |-> [version |-> VersionAt(x, n + 1, g),
                                          producer |-> ProducerAt(x, n + 1, g)]]
    BY <1>2 DEF Vectors
  <2>2. Vectors(h) = [g \in Fragment |-> [version |-> VersionAt(h, n, g),
                                          producer |-> ProducerAt(h, n, g)]]
    BY <1>1 DEF Vectors
  <2>3. \A g \in Fragment \ {f} : /\ VersionAt(x, n + 1, g) = VersionAt(h, n, g)
                                  /\ ProducerAt(x, n + 1, g) = ProducerAt(h, n, g)
    BY <1>2, <1>4
  <2>4. /\ VersionAt(x, n + 1, f) = VersionAt(h, n, f) + 1
        /\ ProducerAt(x, n + 1, f) = n + 1
    BY <1>2
  <2> QED
    BY <1>8, <2>1, <2>2, <2>3, <2>4
<1> QED
  BY <1>1, <1>2, <1>5, <1>8, <1>9, <1>10

(* The version of a fragment is the one its producer gave it. *)
LEMMA VersionFound ==
    ASSUME NEW f \in Fragment, NEW b \in 0..Len(History),
           History \in Seq(Entry), WellBuilt(History)
    PROVE  Reference!VersionIs(VersionAt(History, b, f), b, f)
<1>1. PICK h, i : h \in Seq(Entry) /\ h = History /\ i = ProducerAt(h, b, f)
  OBVIOUS
<1>2. /\ i \in 0..b
      /\ i # 0 => h[i].fragment = f
      /\ \A j \in (i + 1)..b : h[j].fragment # f
      /\ VersionAt(h, b, f) = VersionAt(h, i, f)
  BY <1>1 DEF WellBuilt, BuiltAt
<1>3. \A j \in 1..b : j \in 1..Len(h)
  BY <1>1
<1>4. \A j \in 1..b : /\ Event(h, j).kind = "commit" /\ Event(h, j).fragment = h[j].fragment
                      /\ Event(h, j).new = VersionAt(h, j, h[j].fragment)
  BY DEF Event
<1>5. \A j \in 1..b : Reference!Produces(j, f) <=> h[j].fragment = f
  BY <1>1, <1>3 DEF Reference!Produces, Reference!IsCommit
<1>6. Reference!Produces(i, f)
  <2>1. i # 0 => i \in 1..b
    BY <1>2
  <2> QED
    BY <1>2, <1>5, <2>1 DEF Reference!Produces
<1>7. \A j \in (i + 1)..b : ~Reference!Produces(j, f)
  <2>1. \A j \in (i + 1)..b : j \in 1..b
    BY <1>2
  <2> QED
    BY <1>2, <1>5, <2>1
<1>8. Reference!VersionOf(i) = VersionAt(h, i, f)
  <2>1. CASE i = 0
    BY <2>1 DEF Reference!VersionOf, VersionAt
  <2>2. CASE i # 0
    <3>1. i \in 1..b /\ i \in 1..Len(History)
      BY <1>1, <1>2, <1>3, <2>2
    <3> QED
      BY <1>1, <1>2, <2>2, <3>1 DEF Reference!VersionOf
  <2> QED
    BY <2>1, <2>2
<1> QED
  BY <1>1, <1>2, <1>6, <1>7, <1>8 DEF Reference!VersionIs, Reference!ProducedBy

(* A published proposal is one of the model's. *)
LEMMA ProposalsAgree == Offered \subseteq Reference!Proposal
<1> SUFFICES ASSUME NEW p \in Offered
             PROVE  p \in [learner : Learner, session : Nat, seq : Nat, fragment : Nat,
                           base : Nat, version : Nat]
  BY DEF Reference!Proposal
<1>1. p \in [learner : Learner, session : Nat, seq : Nat,
             fragment : Fragment, base : Nat, version : Nat]
  BY TransactionLogAssumption DEF TransactionLogAssumption
<1>2. Fragment \subseteq Nat
  BY DEF Fragment
<1> QED
  BY <1>1, <1>2

(* What prepare_transition admits, the model prepares. *)
LEMMA AdmissiblePrepares ==
    ASSUME History \in Seq(Entry), WellBuilt(History), NEW f \in Fragment,
           NEW S \in SUBSET Offered, Admissible(History, f, S)
    PROVE  Reference!Prepares(S, f)
<1>1. PICK h \in Seq(Entry), n \in Nat : h = History /\ n = Len(h)
  OBVIOUS
<1>2. /\ S # {} /\ S \cap Consumed(h, n) = {}
      /\ \A p, q \in S : p.learner = q.learner => p = q
      /\ \A p \in S :
             /\ p.fragment = f
             /\ p.base <= n /\ n - p.base <= MaxGlobal
             /\ p.version = VersionAt(h, p.base, f)
             /\ VersionAt(h, n, f) - p.version <= MaxFragment
             /\ \A q \in Consumed(h, n) :
                    SameLineage(p, q) => q.seq < p.seq /\ ~SameBase(p, q)
  BY <1>1 DEF Admissible
<1>3. Reference!HeadSeq = n
  <2>1. Len([i \in 1..n |-> Event(h, i)]) = n
    OBVIOUS
  <2> QED
    BY <1>1, <2>1 DEF Reference!HeadSeq, Event
<1>4. Reference!Dropped = {}
  BY DEF Reference!Dropped
<1>5. ASSUME NEW p \in S
      PROVE  Reference!Eligible(p)
  <2>1. p.base \in 0..n /\ p.fragment = f
    BY <1>2, OfferedTyped
  <2>2. Reference!VersionIs(p.version, p.base, p.fragment)
    BY <1>1, <1>2, <2>1, VersionFound
  <2>3. p.version <= VersionAt(h, n, f)
    BY <1>1, <1>2, <2>1 DEF WellBuilt, BuiltAt
  <2>4. \A c \in Consumed(h, n) :
            Reference!SameLineage(c, p) => c.seq < p.seq /\ ~Reference!SameBase(c, p)
    BY <1>2 DEF SameLineage, SameBase, Reference!SameLineage, Reference!SameBase
  <2>5. p \notin Consumed(h, n) \cup {}
    BY <1>2
  <2> QED
    BY <1>1, <1>2, <1>3, <1>4, <2>1, <2>2, <2>3, <2>4, <2>5
       DEF Reference!Eligible, Reference!Fragment, Fragment
<1> QED
  BY <1>2, <1>5 DEF Reference!Prepares

(* The log on its object store agrees with the oracle: one swap is one      *)
(* commit of it, and whatever else processes do is invisible.               *)
THEOREM Refinement == Spec => ImplementsModel
<1>1. Init => Reference!Init
  <2> SUFFICES ASSUME Init
               PROVE  Reference!Init
    OBVIOUS
  <2>1. History = <<>> /\ Len(<<>>) = 0
    BY DEF Init, History
  <2>2. \A i : i \notin 1..0
    OBVIOUS
  <2>3. Consumed(<<>>, 0) = {}
    BY <2>2 DEF Consumed
  <2>4. Events(<<>>) = <<>>
    BY <2>2 DEF Events
  <2>5. [f \in Fragment |-> [version |-> VersionAt(<<>>, 0, f),
                             producer |-> ProducerAt(<<>>, 0, f)]]
            = [f \in Fragment |-> [version |-> 0, producer |-> 0]]
    BY DEF VersionAt, ProducerAt
  <2>6. Reference!Fragment = Fragment
    BY DEF Reference!Fragment, Fragment
  <2> QED
    BY <2>1, <2>3, <2>4, <2>5, <2>6 DEF Init, Reference!Init, Events, Event
<1>2. IInv /\ [Next]_vars => [Reference!Next]_(Reference!vars)
  <2> SUFFICES ASSUME IInv, [Next]_vars
               PROVE  [Reference!Next]_(Reference!vars)
    OBVIOUS
  <2>1. CASE UNCHANGED <<head, published>>
    BY <2>1 DEF Reference!vars, History
  <2>2. ASSUME NEW w \in Process, NEW p \in Offered, Publish(w, p)
        PROVE  Reference!Next
    <3>1. UNCHANGED History
      BY <2>2 DEF Publish, History
    <3>2. \A q \in published : Reference!SameKey(p, q) => q = p
      BY <2>2 DEF Publish, SameLineage, Reference!SameKey
    <3>3. Reference!Publish(p)
      BY <2>2, <3>1, <3>2 DEF Reference!Publish, Publish
    <3> QED
      BY <3>3, ProposalsAgree DEF Reference!Next
  <2>3. ASSUME NEW w \in Process, PutHead(w), head = NoTip, head' = Root(spec[w])
        PROVE  UNCHANGED Reference!vars
    <3>1. spec[w] \in RunSpec
      BY <2>3 DEF PutHead, IInv, Types
    <3>2. Root(spec[w]) # NoTip /\ Root(spec[w]).history = <<>>
      BY <3>1, RootTip, NoTipAssumption
    <3>3. History' = History
      BY <2>3, <3>2 DEF History
    <3>4. published' = published
      BY <2>3 DEF PutHead
    <3> QED
      BY <3>3, <3>4 DEF Reference!vars
  <2>4. ASSUME NEW w \in Process, ProcessStep(w), pc[w] = "swapping", SwapHead(w)
        PROVE  Reference!Next
    <3>1. PICK f \in Fragment, S \in SUBSET published :
              /\ head \in Tip /\ head.history \in Seq(Entry)
              /\ S \in SUBSET Offered /\ head' = prepared[w]
              /\ prepared[w] = [spec |-> head.spec, history |-> Extend(head.history, f, S)]
              /\ Len(head.history) < MaxCommits
              /\ Admissible(head.history, f, S)
      BY <2>4, SwapExtends
    <3>2. PICK h, x : h \in Seq(Entry) /\ h = head.history /\ x = Extend(h, f, S)
      BY <3>1
    <3>3. prepared[w] \in Tip /\ head # NoTip /\ prepared[w] # NoTip
      BY <2>4, <3>1, NoTipAssumption DEF IInv, Types
    <3>4. History = h /\ History' = x
      BY <3>1, <3>2, <3>3 DEF History
    <3>5. WellBuilt(h)
      BY <3>2, <3>3 DEF IInv, HeadInv
    <3>6. Reference!Prepares(S, f)
      BY <3>1, <3>2, <3>4, <3>5, AdmissiblePrepares
    <3>7. /\ Len(Events(h)) = Len(h)
          /\ Events(x) = Append(Events(h),
                 [kind |-> "commit", fragment |-> f, previous |-> Vectors(h)[f].version,
                  new |-> Vectors(h)[f].version + 1, selected |-> S])
          /\ Vectors(x) = [Vectors(h) EXCEPT ![f] =
                 [version |-> Vectors(h)[f].version + 1, producer |-> Len(h) + 1]]
          /\ Consumed(x, Len(x)) = Consumed(h, Len(h)) \cup S
      <4>1. x = Extend(h, f, S) /\ S \in SUBSET Offered
        BY <3>1, <3>2
      <4> QED
        BY <3>2, <4>1, EventsExtend
    <3>8. published' = published
      BY <2>4, SharedStep DEF Publish
    <3>9. /\ Events(History) = Events(h) /\ Events(History') = Events(x)
          /\ Vectors(History) = Vectors(h) /\ Vectors(History') = Vectors(x)
          /\ Consumed(History, Len(History)) = Consumed(h, Len(h))
          /\ Consumed(History', Len(History')) = Consumed(x, Len(x))
      BY <3>4
    <3>10. Reference!CommitPrepared(S, f)
      <4>1. Reference!HeadSeq = Len(h) /\ Len(h) < MaxCommits
        BY <3>1, <3>2, <3>7, <3>9 DEF Reference!HeadSeq, Events, Event
      <4>2. /\ Events(History') = Append(Events(History),
                   [kind |-> "commit", fragment |-> f,
                    previous |-> Vectors(History)[f].version,
                    new |-> Vectors(History)[f].version + 1, selected |-> S])
            /\ Vectors(History') = [Vectors(History) EXCEPT ![f] =
                   [version |-> Vectors(History)[f].version + 1, producer |-> Len(h) + 1]]
            /\ Consumed(History', Len(History')) = Consumed(History, Len(History)) \cup S
        BY <3>7, <3>9
      <4> QED
        BY <3>6, <3>8, <4>1, <4>2
           DEF Reference!CommitPrepared, Events, Event, Vectors
    <3> QED
      BY <3>8, <3>10 DEF Reference!Next, Reference!Fragment, Fragment
  <2>5. ASSUME NEW w \in Process, ProcessStep(w)
        PROVE  [Reference!Next]_(Reference!vars)
    <3>1. CASE \E p \in Offered : Publish(w, p)
      BY <2>2, <3>1
    <3>2. CASE UNCHANGED published
      BY <2>1, <2>3, <2>4, <2>5, <3>2, HeadStep
    <3> QED
      BY <2>5, <3>1, <3>2, SharedStep
  <2> QED
    BY <2>1, <2>5 DEF Next, vars
<1> QED
  BY <1>1, <1>2, Invariance, PTL DEF Spec, ImplementsModel, Reference!Spec

-----------------------------------------------------------------------------
(* The reference model at the committed prefix, with what is proved of it;  *)
(* the coordination half of that module does not occur here.                *)
Model == INSTANCE References_proofs
    WITH MaxEvents <- MaxCommits, proposals <- published,
         commits <- Events(History), fragments <- Vectors(History),
         consumed <- Consumed(History, Len(History)), decisions <- {},
         Owner <- {}, Request <- {}, NoRequest <- 0, MaxEpoch <- 0,
         history <- <<>>, stop <- 0

LEMMA SameModel ==
    /\ Reference!Init => Model!Init
    /\ [Reference!Next]_(Reference!vars) => [Model!Next]_(Model!vars)
    /\ Model!Invariants => Reference!Invariants
<1> USE DEF Events, Vectors, Event
<1>1. Reference!Init => Model!Init
  BY DEF Reference!Init, Model!Init, Reference!Fragment, Model!Fragment
<1>2. [Reference!Next]_(Reference!vars) => [Model!Next]_(Model!vars)
  BY DEF Reference!Next, Reference!vars, Reference!Publish, Reference!CommitPrepared,
         Reference!Decide, Reference!Prepares, Reference!Eligible, Reference!SameKey,
         Reference!SameLineage, Reference!SameBase, Reference!HeadSeq,
         Reference!Dropped, Reference!Fragment, Reference!VersionIs,
         Reference!VersionOf, Reference!ProducedBy, Reference!Produces,
         Reference!IsCommit, Reference!Proposal, Reference!Verdict,
         Model!Next, Model!vars, Model!Publish, Model!CommitPrepared,
         Model!Decide, Model!Prepares, Model!Eligible, Model!SameKey,
         Model!SameLineage, Model!SameBase, Model!HeadSeq,
         Model!Dropped, Model!Fragment, Model!VersionIs,
         Model!VersionOf, Model!ProducedBy, Model!Produces,
         Model!IsCommit, Model!Proposal, Model!Verdict
<1>3. Model!Invariants => Reference!Invariants
  BY DEF Reference!Invariants, Reference!Available, Reference!OneEnd,
         Reference!LineagesAdvance, Reference!CausallyBased,
         Reference!FrontierFolded, Reference!Selected, Reference!SameLineage,
         Reference!SameBase, Reference!HeadSeq, Reference!Dropped,
         Reference!Fragment, Reference!VersionIs, Reference!VersionOf,
         Reference!ProducedBy, Reference!Produces, Reference!IsCommit,
         Model!Invariants, Model!Available, Model!OneEnd,
         Model!LineagesAdvance, Model!CausallyBased,
         Model!FrontierFolded, Model!Selected, Model!SameLineage,
         Model!SameBase, Model!HeadSeq, Model!Dropped,
         Model!Fragment, Model!VersionIs, Model!VersionOf,
         Model!ProducedBy, Model!Produces, Model!IsCommit
<1> QED
  BY <1>1, <1>2, <1>3

(* What check_invariants asks of the model holds of the committed prefix in *)
(* the store, through every death between two puts: its transitions consume *)
(* published proposals, each once; a lineage advances in the order it was   *)
(* trained; what is merged is causally based within both staleness bounds;  *)
(* and each fragment's version and producer are what folding the log gives. *)
THEOREM ModelInherited == Spec => []Reference!Invariants
<1>1. Model!Spec => []Model!Inv
  BY Model!ModelInvariants
<1>2. Model!Inv => Model!Invariants
  BY DEF Model!Inv
<1> QED
  BY <1>1, <1>2, SameModel, Refinement, PTL
     DEF ImplementsModel, Reference!Spec, Model!Spec

-----------------------------------------------------------------------------
(* What a reader has followed from the head stays: the head only moves to a *)
(* commit whose parent it was, whatever processes prepared before it moved, *)
(* died, or resolved a timeout; manifest and objects are never replaced.    *)
AncestryStands ==
    [][ /\ store \subseteq store'
        /\ manifest # NoSpec => manifest' = manifest
        /\ head # NoTip => /\ head' # NoTip /\ head'.spec = head.spec
                           /\ Len(head'.history) \in Len(head.history)..(Len(head.history) + 1)
                           /\ \A i \in 1..Len(head.history) :
                                  head'.history[i] = head.history[i] ]_vars

THEOREM AncestryIsFinal == Spec => AncestryStands
<1>1. ASSUME IInv, NEW w \in Process, ProcessStep(w), head # NoTip
      PROVE  /\ head' # NoTip /\ head'.spec = head.spec
             /\ Len(head'.history) \in Len(head.history)..(Len(head.history) + 1)
             /\ \A i \in 1..Len(head.history) : head'.history[i] = head.history[i]
  <2>1. head \in Tip
    BY <1>1 DEF IInv, Types
  <2>2. PICK h \in Seq(Entry) : h = head.history /\ Len(h) \in Nat
    BY <2>1 DEF Tip
  <2>3. CASE head' = head
    BY <1>1, <2>2, <2>3
  <2>4. CASE pc[w] = "swapping" /\ SwapHead(w)
    <3>1. PICK f \in Fragment, S \in SUBSET published :
              /\ S \in SUBSET Offered /\ head' = prepared[w]
              /\ prepared[w] = [spec |-> head.spec, history |-> Extend(head.history, f, S)]
      BY <1>1, <2>4, SwapExtends
    <3>2. PICK x : x = Extend(h, f, S)
      OBVIOUS
    <3>3. Len(x) = Len(h) + 1 /\ \A i \in 1..Len(h) : x[i] = h[i]
      BY <3>1, <3>2, Extended
    <3>4. head'.spec = head.spec /\ head'.history = x
      BY <2>2, <3>1, <3>2
    <3>5. head' # NoTip
      BY <1>1, <2>4, <3>1, NoTipAssumption DEF IInv, Types
    <3> QED
      BY <2>2, <3>3, <3>4, <3>5
  <2> QED
    BY <1>1, <2>3, <2>4, HeadStep
<1>2. ASSUME NEW w \in Process, ProcessStep(w), manifest # NoSpec
      PROVE  manifest' = manifest
  BY <1>2, ManifestStep
<1>3. IInv /\ [Next]_vars =>
        [ /\ store \subseteq store'
          /\ manifest # NoSpec => manifest' = manifest
          /\ head # NoTip => /\ head' # NoTip /\ head'.spec = head.spec
                             /\ Len(head'.history) \in Len(head.history)..(Len(head.history) + 1)
                             /\ \A i \in 1..Len(head.history) :
                                    head'.history[i] = head.history[i] ]_vars
  BY <1>1, <1>2, Grows DEF Next
<1> QED
  BY <1>3, Invariance, PTL DEF Spec, AncestryStands
=============================================================================
