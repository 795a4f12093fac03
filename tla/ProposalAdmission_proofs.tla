--------------------- MODULE ProposalAdmission_proofs ---------------------
(***************************************************************************)
(* For any number of learners and fragments and any staleness bounds: what *)
(* prepare_transition lets into the log, replay reads back from it.        *)
(***************************************************************************)
EXTENDS ProposalAdmission, TLAPS

(* A commit leaves what replay knows of every earlier prefix as it was.     *)
LEMMA PrefixKept ==
    ASSUME log \in Seq(Entry), NEW e, log' = Append(log, e)
    PROVE  /\ HeadSeq \in Nat /\ HeadSeq' = HeadSeq + 1
           /\ \A i \in 1..HeadSeq : log'[i] = log[i]
           /\ log'[HeadSeq + 1] = e
           /\ \A n \in 0..HeadSeq : CountAt(n)' = CountAt(n)
           /\ \A n \in 0..HeadSeq : \A g : VersionAt(n, g)' = VersionAt(n, g)
<1>1. /\ HeadSeq \in Nat /\ HeadSeq' = HeadSeq + 1
      /\ \A i \in 1..HeadSeq : log'[i] = log[i]
      /\ log'[HeadSeq + 1] = e
  BY DEF HeadSeq
<1>2. \A n \in 0..HeadSeq : n = 0 \/ n \in 1..HeadSeq
  BY <1>1
<1>3. \A n \in 0..HeadSeq : CountAt(n)' = CountAt(n)
  BY <1>1, <1>2 DEF CountAt
<1>4. \A n \in 0..HeadSeq : \A g : VersionAt(n, g)' = VersionAt(n, g)
  BY <1>1, <1>2 DEF VersionAt
<1> QED
  BY <1>1, <1>3, <1>4

(* The counters of every prefix are numbers. *)
LEMMA CountersTyped ==
    ASSUME log \in Seq(Entry)
    PROVE  /\ HeadSeq \in Nat
           /\ \A n \in 0..HeadSeq : CountAt(n) \in Nat
           /\ \A n \in 0..HeadSeq : \A g \in Fragment : VersionAt(n, g) \in Nat
<1>1. HeadSeq \in Nat /\ \A i \in 1..HeadSeq : log[i] \in Entry
  BY DEF HeadSeq
<1>2. \A n \in 0..HeadSeq : n = 0 \/ n \in 1..HeadSeq
  BY <1>1
<1>3. \A n \in 0..HeadSeq : CountAt(n) \in Nat
  BY <1>1, <1>2 DEF CountAt, Entry
<1>4. \A n \in 0..HeadSeq : \A g \in Fragment : VersionAt(n, g) \in Nat
  BY <1>1, <1>2 DEF VersionAt, Entry
<1> QED
  BY <1>1, <1>3, <1>4

(* An appended entry that counts one optimizer step at most keeps the       *)
(* counters within their distance in the log.                               *)
LEMMA CountsLagKept ==
    ASSUME log \in Seq(Entry), CountsLag, NEW e \in Entry, log' = Append(log, e),
           e.count \in {CountAt(HeadSeq), CountAt(HeadSeq) + 1}
    PROVE  CountsLag'
<1>1. PICK h \in Nat : h = HeadSeq
  BY CountersTyped
<1>2. /\ HeadSeq' = h + 1
      /\ \A n \in 0..h : CountAt(n)' = CountAt(n)
      /\ log'[h + 1] = e
  BY <1>1, PrefixKept
<1>3. \A n \in 0..h : CountAt(n) \in Nat
  BY <1>1, CountersTyped
<1>4. CountAt(h + 1)' = e.count
  BY <1>2 DEF CountAt
<1> SUFFICES ASSUME NEW n \in 0..(h + 1), NEW b \in 0..n
             PROVE  /\ 0 <= CountAt(n)' - CountAt(b)'
                    /\ CountAt(n)' - CountAt(b)' <= n - b
  BY <1>2 DEF CountsLag
<1>5. CASE n \in 0..h
  <2>1. b \in 0..h
    BY <1>1, <1>5
  <2> QED
    BY <1>1, <1>2, <1>5, <2>1 DEF CountsLag
<1>6. CASE n = h + 1 /\ b \in 0..h
  <2>1. 0 <= CountAt(h) - CountAt(b) /\ CountAt(h) - CountAt(b) <= h - b
    BY <1>1, <1>6 DEF CountsLag
  <2>2. CountAt(h) \in Nat /\ CountAt(b) \in Nat /\ CountAt(b)' = CountAt(b)
    BY <1>1, <1>2, <1>3, <1>6
  <2>3. CountAt(n)' = e.count
    BY <1>4, <1>6
  <2> QED
    BY <1>1, <1>6, <2>1, <2>2, <2>3
<1>7. CASE n = h + 1 /\ b = h + 1
  <2>1. e.count \in Nat
    BY DEF Entry
  <2> QED
    BY <1>4, <1>7, <2>1
<1> QED
  BY <1>1, <1>5, <1>6, <1>7

(* Replay's verdict on an earlier commit does not change.                   *)
LEMMA ReplaysKept ==
    ASSUME log \in Seq(Entry), NEW e, log' = Append(log, e),
           NEW i \in 1..HeadSeq, Replays(i)
    PROVE  Replays(i)'
<1>1. /\ HeadSeq \in Nat
      /\ \A j \in 1..HeadSeq : log'[j] = log[j]
      /\ \A n \in 0..HeadSeq : CountAt(n)' = CountAt(n)
      /\ \A n \in 0..HeadSeq : \A g : VersionAt(n, g)' = VersionAt(n, g)
  BY PrefixKept
<1>2. /\ i - 1 \in 0..HeadSeq
      /\ \A j \in 1..(i - 1) : j \in 1..HeadSeq
  BY <1>1
<1>3. \A p \in log[i].selected : p.base \in Nat
  <2>1. log[i] \in Entry
    BY DEF HeadSeq
  <2>2. log[i].selected \in SUBSET Proposal
    BY <2>1 DEF Entry
  <2> QED
    BY <2>2 DEF Proposal
<1>4. \A p \in log[i].selected : p.base \in 0..HeadSeq
  BY <1>1, <1>3 DEF Replays
<1>5. /\ CountAt(i - 1)' = CountAt(i - 1)
      /\ \A p \in log[i].selected : CountAt(p.base)' = CountAt(p.base)
      /\ \A p \in log[i].selected : Lag(p, i - 1)' = Lag(p, i - 1)
  BY <1>1, <1>2, <1>4 DEF Lag
<1>6. /\ log'[i] = log[i]
      /\ \A j \in 1..(i - 1) : log'[j] = log[j]
  BY <1>1, <1>2
<1> QED
  BY <1>5, <1>6 DEF Replays, SameLineage

(* What prepare_transition accepts, replay accepts at the new head: commit  *)
(* staleness bounds optimizer staleness, and no earlier commit holds the    *)
(* proposal, its interval or a later one of its lineage.                    *)
LEMMA PreparedReplays ==
    ASSUME AdmissionAssumption, AdmissionTypeOK, CountsLag,
           NEW S \in SUBSET Proposal, NEW f \in Fragment, Prepares(S, f),
           log' = Append(log, Optimizer(S, f)),
           NEW h \in Nat, h = HeadSeq
    PROVE  Replays(h + 1)'
<1>1. /\ \A j \in 1..h : log'[j] = log[j]
      /\ log'[h + 1] = Optimizer(S, f)
      /\ \A n \in 0..h : CountAt(n)' = CountAt(n)
      /\ \A n \in 0..h : \A g : VersionAt(n, g)' = VersionAt(n, g)
  BY PrefixKept DEF AdmissionTypeOK
<1>2. /\ log'[h + 1].selected = S
      /\ log'[h + 1].fragment = f
      /\ (h + 1) - 1 = h
  <2>1. Optimizer(S, f).selected = S /\ Optimizer(S, f).fragment = f
    BY DEF Optimizer
  <2> QED
    BY <1>1, <2>1
<1>3. \A p \in S : p.base \in 0..h
  BY DEF Prepares, Proposal
<1>4. ASSUME NEW p \in S
      PROVE  CountAt(h)' - CountAt(p.base)' <= MaxGlobal
  <2>1. CountAt(h) - CountAt(p.base) <= h - p.base /\ h - p.base <= MaxGlobal
    BY <1>3 DEF CountsLag, Prepares
  <2>2. CountAt(h) \in Nat /\ CountAt(p.base) \in Nat
    BY <1>3, CountersTyped DEF AdmissionTypeOK
  <2>3. CountAt(h)' = CountAt(h) /\ CountAt(p.base)' = CountAt(p.base)
    BY <1>1, <1>3
  <2> QED
    BY <1>3, <2>1, <2>2, <2>3 DEF AdmissionAssumption
<1>5. \A p \in S : Lag(p, h)' = Lag(p, h)
  BY <1>1, <1>3 DEF Lag
<1>6. ASSUME NEW p \in S, NEW j \in 1..h, NEW c \in log'[j].selected
      PROVE  c # p /\ (SameLineage(c, p) => c.seq < p.seq /\ c.base # p.base)
  <2>1. c \in Consumed(HeadSeq)
    BY <1>1 DEF Consumed
  <2> QED
    BY <2>1 DEF Prepares
<1>7. ASSUME NEW p \in S
      PROVE  /\ p.fragment = f /\ p.base < h + 1
             /\ Lag(p, h) <= MaxFragment
             /\ \A q \in S : q # p => q.learner # p.learner
  BY <1>3 DEF Prepares
<1> QED
  BY <1>1, <1>2, <1>4, <1>5, <1>6, <1>7 DEF Replays, SameLineage

-----------------------------------------------------------------------------
LEMMA AdmissionStart ==
    ASSUME AdmissionAssumption, AdmissionInit
    PROVE  AdmissionInv
<1>1. HeadSeq = 0 /\ CountAt(0) = 0 /\ log \in Seq(Entry)
  BY DEF AdmissionInit, HeadSeq, CountAt
<1> QED
  BY <1>1 DEF AdmissionInit, AdmissionInv, AdmissionTypeOK, CountsLag, Replayable

(* Publishing changes nothing replay reads. *)
LEMMA PublishStep ==
    ASSUME AdmissionInv, log' = log, pending' \subseteq Proposal
    PROVE  AdmissionInv'
BY DEF AdmissionInv, AdmissionTypeOK, CountsLag, Replayable, Replays,
       CountAt, VersionAt, Lag, HeadSeq, SameLineage, Fragment, Proposal, Entry

LEMMA SelectionStep ==
    ASSUME AdmissionAssumption, AdmissionInv, UNCHANGED pending,
           NEW S \in SUBSET pending, NEW f \in Fragment, CommitSelection(S, f)
    PROVE  AdmissionInv'
<1>1. PICK h \in Nat : h = HeadSeq
  BY CountersTyped DEF AdmissionInv, AdmissionTypeOK
<1>2. S \in SUBSET Proposal /\ Prepares(S, f) /\ log' = Append(log, Optimizer(S, f))
  BY DEF AdmissionInv, AdmissionTypeOK, CommitSelection
<1>3. Optimizer(S, f) \in Entry
  <2>1. /\ CountAt(h) + 1 \in Nat
        /\ \A g \in Fragment : VersionAt(h, g) \in Nat
    BY <1>1, CountersTyped DEF AdmissionInv, AdmissionTypeOK
  <2>2. [g \in Fragment |-> VersionAt(h, g) + (IF g = f THEN 1 ELSE 0)]
            \in [Fragment -> Nat]
    BY <2>1
  <2> QED
    BY <1>1, <1>2, <2>1, <2>2 DEF Optimizer, Entry
<1>4. AdmissionTypeOK'
  BY <1>2, <1>3 DEF AdmissionInv, AdmissionTypeOK
<1>5. CountsLag'
  <2>1. Optimizer(S, f).count = CountAt(HeadSeq) + 1
    BY DEF Optimizer
  <2> QED
    BY <1>2, <1>3, <2>1, CountsLagKept DEF AdmissionInv, AdmissionTypeOK
<1>6. Replays(h + 1)'
  BY <1>1, <1>2, PreparedReplays DEF AdmissionInv
<1>7. \A i \in 1..h : Replays(i)'
  BY <1>1, <1>2, ReplaysKept DEF AdmissionInv, AdmissionTypeOK, Replayable
<1>8. HeadSeq' = h + 1
  BY <1>1, <1>2, PrefixKept DEF AdmissionInv, AdmissionTypeOK
<1> QED
  BY <1>4, <1>5, <1>6, <1>7, <1>8 DEF AdmissionInv, Replayable

LEMMA ControlStep ==
    ASSUME AdmissionInv, UNCHANGED pending, CommitControl
    PROVE  AdmissionInv'
<1>1. PICK h \in Nat : h = HeadSeq
  BY CountersTyped DEF AdmissionInv, AdmissionTypeOK
<1>2. log' = Append(log, Control)
  BY DEF CommitControl
<1>3. Control \in Entry
  <2>1. /\ CountAt(h) \in Nat
        /\ \A g \in Fragment : VersionAt(h, g) \in Nat
    BY <1>1, CountersTyped DEF AdmissionInv, AdmissionTypeOK
  <2>2. [g \in Fragment |-> VersionAt(h, g)] \in [Fragment -> Nat]
    BY <2>1
  <2>3. 0 \in Fragment
    BY AdmissionAssumption DEF Fragment, AdmissionAssumption
  <2> QED
    BY <1>1, <2>1, <2>2, <2>3 DEF Control, Entry
<1>4. AdmissionTypeOK'
  BY <1>2, <1>3 DEF AdmissionInv, AdmissionTypeOK
<1>5. CountsLag'
  <2>1. Control.count = CountAt(HeadSeq)
    BY DEF Control
  <2> QED
    BY <1>2, <1>3, <2>1, CountsLagKept DEF AdmissionInv, AdmissionTypeOK
<1>6. log'[h + 1].selected = {} /\ HeadSeq' = h + 1
  <2>1. Control.selected = {}
    BY DEF Control
  <2> QED
    BY <1>1, <1>2, <2>1, PrefixKept DEF AdmissionInv, AdmissionTypeOK
<1>7. Replays(h + 1)'
  BY <1>6 DEF Replays
<1>8. \A i \in 1..h : Replays(i)'
  BY <1>1, <1>2, ReplaysKept DEF AdmissionInv, AdmissionTypeOK, Replayable
<1> QED
  BY <1>4, <1>5, <1>6, <1>7, <1>8 DEF AdmissionInv, Replayable

LEMMA AdmissionStep ==
    ASSUME AdmissionAssumption, AdmissionInv,
           PublishAny \/ CommitAny \/ UNCHANGED <<log, pending>>
    PROVE  AdmissionInv'
<1>1. CASE PublishAny
  BY <1>1, PublishStep DEF PublishAny
<1>2. CASE CommitAny
  <2>1. UNCHANGED pending
    BY <1>2 DEF CommitAny
  <2>2. CASE CommitControl
    BY <2>1, <2>2, ControlStep
  <2>3. CASE \E S \in SUBSET pending : \E f \in Fragment : CommitSelection(S, f)
    BY <2>1, <2>3, SelectionStep
  <2> QED
    BY <1>2, <2>2, <2>3 DEF CommitAny
<1>3. CASE UNCHANGED <<log, pending>>
  BY <1>3, PublishStep DEF AdmissionInv, AdmissionTypeOK
<1> QED
  BY <1>1, <1>2, <1>3

-----------------------------------------------------------------------------
(* Whatever learners publish and whatever is offered for commit, the log    *)
(* stays one that replay accepts: types, the relation of the two staleness  *)
(* counts and the verdict of replay are invariant together.                 *)
THEOREM Admission == AdmissionSpec => []AdmissionInv
<1>1. AdmissionInit => AdmissionInv
  BY AdmissionStart, AdmissionAssumption
<1>2. AdmissionInv /\ [PublishAny \/ CommitAny]_<<log, pending>> => AdmissionInv'
  BY AdmissionStep, AdmissionAssumption
<1> QED
  BY <1>1, <1>2, PTL DEF AdmissionSpec

(* No commit can make the run unreadable: every reader's replay accepts     *)
(* every committed selection.                                               *)
THEOREM CommitsReplay == AdmissionSpec => []Replayable
<1>1. AdmissionInv => Replayable
  BY DEF AdmissionInv
<1> QED
  BY <1>1, Admission, PTL

(* The optimizer steps between two commits never outnumber the commits.     *)
THEOREM StalenessCounts == AdmissionSpec => []CountsLag
<1>1. AdmissionInv => CountsLag
  BY DEF AdmissionInv
<1> QED
  BY <1>1, Admission, PTL
=============================================================================
