------------------------- MODULE References_proofs -------------------------
(***************************************************************************)
(* The two abstract specifications keep what the code checks of them after *)
(* every transition.  check_invariants of the reference model can never    *)
(* fail, for any set of offered proposals, any number of learners and      *)
(* fragments, and any staleness bounds; and the coordination history       *)
(* promises one owner per epoch, for every set of owners and requests.     *)
(* TransactionLog implements the first, FencedLog and SyncerRun the        *)
(* second, so their logs keep it too.                                      *)
(***************************************************************************)
EXTENDS ReferenceModel, TLAPS

CONSTANTS Owner, Request, NoRequest, MaxEpoch   \* those of Coordination
VARIABLES history, stop                         \* and its state

C == INSTANCE Coordination

Event == CommitEvent \cup DecisionEvent

(* An event leaves every earlier prefix of the history as it was.           *)
LEMMA HistoryKept ==
    ASSUME commits \in Seq(Event), NEW e, commits' = Append(commits, e)
    PROVE  /\ HeadSeq \in Nat /\ HeadSeq' = HeadSeq + 1
           /\ \A i \in 1..HeadSeq : commits'[i] = commits[i]
           /\ commits'[HeadSeq + 1] = e
           /\ \A i \in 1..HeadSeq : IsCommit(i)' <=> IsCommit(i)
           /\ \A i \in 1..HeadSeq : Selected(i)' = Selected(i)
           /\ \A i \in 0..HeadSeq : VersionOf(i)' = VersionOf(i)
           /\ \A n \in 0..HeadSeq : \A i, f : ProducedBy(i, n, f)' <=> ProducedBy(i, n, f)
           /\ \A n \in 0..HeadSeq : \A v, f : VersionIs(v, n, f)' <=> VersionIs(v, n, f)
<1>1. /\ HeadSeq \in Nat /\ HeadSeq' = HeadSeq + 1
      /\ \A i \in 1..HeadSeq : commits'[i] = commits[i]
      /\ commits'[HeadSeq + 1] = e
  BY DEF HeadSeq
<1>2. \A i \in 1..HeadSeq : IsCommit(i)' <=> IsCommit(i)
  BY <1>1 DEF IsCommit
<1>3. \A i \in 1..HeadSeq : Selected(i)' = Selected(i)
  BY <1>1, <1>2 DEF Selected
<1>4. \A i \in 0..HeadSeq : i # 0 => i \in 1..HeadSeq
  BY <1>1
<1>5. \A i \in 0..HeadSeq : VersionOf(i)' = VersionOf(i)
  BY <1>1, <1>4 DEF VersionOf
<1>6. \A i \in 0..HeadSeq : \A f : Produces(i, f)' <=> Produces(i, f)
  BY <1>1, <1>2, <1>4 DEF Produces
<1>7. \A n \in 0..HeadSeq : \A i, f : ProducedBy(i, n, f)' <=> ProducedBy(i, n, f)
  <2> SUFFICES ASSUME NEW n \in 0..HeadSeq, NEW i, NEW f
               PROVE  ProducedBy(i, n, f)' <=> ProducedBy(i, n, f)
    OBVIOUS
  <2>1. \A j \in 0..n : j \in 0..HeadSeq
    BY <1>1
  <2>2. i \in 0..n => \A j \in (i + 1)..n : j \in 0..n
    BY <1>1
  <2> QED
    BY <1>6, <2>1, <2>2 DEF ProducedBy
<1>8. \A n \in 0..HeadSeq : \A v, f : VersionIs(v, n, f)' <=> VersionIs(v, n, f)
  <2> SUFFICES ASSUME NEW n \in 0..HeadSeq, NEW v, NEW f
               PROVE  VersionIs(v, n, f)' <=> VersionIs(v, n, f)
    OBVIOUS
  <2>1. \A j \in 0..n : j \in 0..HeadSeq
    BY <1>1
  <2> QED
    BY <1>5, <1>7, <2>1 DEF VersionIs
<1> QED
  BY <1>1, <1>2, <1>3, <1>5, <1>7, <1>8

(* What a proposal is made of.                                              *)
LEMMA ProposalTyped ==
    ASSUME NEW p \in Proposal
    PROVE  /\ p.seq \in Nat /\ p.base \in Nat /\ p.version \in Nat
  BY DEF Proposal

(* An event selects published proposals, or decides one.                    *)
LEMMA SelectedTyped ==
    ASSUME TypeOK, NEW i \in 1..HeadSeq
    PROVE  Selected(i) \in SUBSET Proposal
<1>1. commits[i] \in CommitEvent \cup DecisionEvent
  BY DEF TypeOK, HeadSeq
<1>2. CASE commits[i] \in CommitEvent
  BY <1>2 DEF CommitEvent, Selected, IsCommit
<1>3. CASE commits[i] \in DecisionEvent
  BY <1>3 DEF DecisionEvent, Selected, IsCommit
<1> QED
  BY <1>1, <1>2, <1>3

(* The parts of the invariant that an event keeps for the prefix below it. *)
LEMMA PrefixKept ==
    ASSUME Inv, NEW e, commits' = Append(commits, e), proposals \subseteq proposals',
           NEW i \in 1..HeadSeq
    PROVE  /\ Selected(i)' \subseteq proposals'
           /\ IsCommit(i)' \/ commits'[i].proposal \in proposals'
           /\ \A p \in Selected(i)' :
                  /\ p.base < i /\ i - 1 - p.base <= MaxGlobal
                  /\ p.fragment = commits'[i].fragment
                  /\ VersionIs(p.version, p.base, p.fragment)'
                  /\ commits'[i].previous - p.version <= MaxFragment
           /\ \A p, q \in Selected(i)' : p.learner = q.learner => p = q
           /\ IsCommit(i)' =>
                  /\ VersionIs(commits[i].previous, i - 1, commits[i].fragment)'
                  /\ commits'[i].new = commits'[i].previous + 1
<1>1. commits \in Seq(Event)
  BY DEF Inv, TypeOK, Event
<1>2. /\ commits'[i] = commits[i] /\ HeadSeq \in Nat
      /\ IsCommit(i)' <=> IsCommit(i)
      /\ Selected(i)' = Selected(i)
      /\ \A n \in 0..HeadSeq : \A v, f : VersionIs(v, n, f)' <=> VersionIs(v, n, f)
  BY <1>1, HistoryKept
<1>3. /\ Selected(i) \subseteq proposals
      /\ IsCommit(i) \/ commits[i].proposal \in proposals
  BY DEF Inv, Invariants, Available
<1>4. /\ \A p \in Selected(i) :
             /\ p.base < i /\ i - 1 - p.base <= MaxGlobal
             /\ p.fragment = commits[i].fragment
             /\ VersionIs(p.version, p.base, p.fragment)
             /\ commits[i].previous - p.version <= MaxFragment
      /\ \A p, q \in Selected(i) : p.learner = q.learner => p = q
  BY DEF Inv, Invariants, CausallyBased
<1>5. \A p \in Selected(i) : p.base \in 0..HeadSeq
  <2> SUFFICES ASSUME NEW p \in Selected(i) PROVE p.base \in 0..HeadSeq
    OBVIOUS
  <2>1. p.base \in Nat
    BY SelectedTyped, ProposalTyped DEF Inv
  <2> QED
    BY <1>2, <1>4, <2>1
<1>6. \A p \in Selected(i) : VersionIs(p.version, p.base, p.fragment)'
  BY <1>2, <1>4, <1>5
<1>7. IsCommit(i) => /\ VersionIs(commits[i].previous, i - 1, commits[i].fragment)
                     /\ commits[i].new = commits[i].previous + 1
  BY DEF Inv, Invariants, FrontierFolded
<1>8. i - 1 \in 0..HeadSeq
  BY <1>2
<1>9. IsCommit(i)' => VersionIs(commits[i].previous, i - 1, commits[i].fragment)'
  BY <1>2, <1>7, <1>8
<1> QED
  BY <1>2, <1>3, <1>4, <1>6, <1>7, <1>9

(* The fragment a version of the frontier refers to: the version of the     *)
(* frontier is that of the last commit that produced the fragment.          *)
LEMMA FrontierIs ==
    ASSUME Inv, NEW f \in Fragment
    PROVE  VersionIs(fragments[f].version, HeadSeq, f)
<1>1. /\ ProducedBy(fragments[f].producer, HeadSeq, f)
      /\ fragments[f].version = VersionOf(fragments[f].producer)
  BY DEF Inv, Invariants, FrontierFolded
<1> QED
  BY <1>1 DEF VersionIs, ProducedBy

-----------------------------------------------------------------------------
(* Publication adds a proposal; the history does not notice.                *)
LEMMA PublishKeeps ==
    ASSUME Inv, proposals \subseteq proposals', proposals' \subseteq Proposal,
           UNCHANGED <<commits, fragments, consumed, decisions>>
    PROVE  Inv'
<1>1. UNCHANGED <<commits, fragments, consumed, decisions>>
  OBVIOUS
<1>2. TypeOK'
  BY <1>1 DEF Inv, TypeOK
<1>3. Available'
  BY <1>1 DEF Inv, Invariants, Available, HeadSeq, Selected, IsCommit
<1>4. OneEnd'
  <2>1. /\ HeadSeq' = HeadSeq /\ Dropped' = Dropped
        /\ consumed' = consumed /\ decisions' = decisions /\ commits' = commits
    BY <1>1 DEF HeadSeq, Dropped
  <2>2. \A i : Selected(i)' = Selected(i) /\ (IsCommit(i)' <=> IsCommit(i))
    BY <1>1 DEF Selected, IsCommit
  <2>3. UNION {Selected(i) : i \in 1..HeadSeq}' = UNION {Selected(i) : i \in 1..HeadSeq}
    BY <2>1, <2>2
  <2>4. consumed' = UNION {Selected(i) : i \in 1..HeadSeq}'
    BY <2>1, <2>3 DEF Inv, Invariants, OneEnd
  <2>5. OneEnd
    BY DEF Inv, Invariants
  <2> QED
    BY <2>1, <2>2, <2>4, <2>5 DEF OneEnd
<1>5. LineagesAdvance'
  BY <1>1 DEF Inv, Invariants, LineagesAdvance, HeadSeq, Selected, IsCommit
<1>6. CausallyBased'
  BY <1>1 DEF Inv, Invariants, CausallyBased, HeadSeq, Selected, IsCommit,
     VersionIs, VersionOf, ProducedBy, Produces
<1>7. FrontierFolded'
  BY <1>1 DEF Inv, Invariants, FrontierFolded, HeadSeq, IsCommit,
     VersionIs, VersionOf, ProducedBy, Produces
<1> QED
  BY <1>2, <1>3, <1>4, <1>5, <1>6, <1>7 DEF Inv, Invariants

-----------------------------------------------------------------------------
(* What one more event adds to the history.                                 *)
LEMMA OneMore ==
    ASSUME commits \in Seq(Event), NEW e, commits' = Append(commits, e)
    PROVE  \A i \in 1..HeadSeq' : i \in 1..HeadSeq \/ i = HeadSeq + 1
  BY HistoryKept

(* Who produced a fragment last stays so when the next event produces       *)
(* another fragment, or none.                                               *)
LEMMA StillLast ==
    ASSUME commits \in Seq(Event), NEW e, commits' = Append(commits, e),
           NEW n, n = HeadSeq + 1, NEW g, ~Produces(n, g)',
           NEW i, ProducedBy(i, HeadSeq, g)
    PROVE  ProducedBy(i, HeadSeq, g)' /\ VersionOf(i)' = VersionOf(i)
<1>1. /\ HeadSeq \in Nat /\ HeadSeq' = HeadSeq + 1
      /\ \A k \in 0..HeadSeq : VersionOf(k)' = VersionOf(k)
      /\ commits' [HeadSeq + 1] = e
      /\ \A k \in 1..HeadSeq : commits'[k] = commits[k]
  BY HistoryKept
<1>2. i \in 0..HeadSeq
  BY DEF ProducedBy
<1>3. Produces(i, g)'
  <2>1. i = 0 \/ i \in 1..HeadSeq
    BY <1>1, <1>2
  <2>2. Produces(i, g)
    BY DEF ProducedBy
  <2> QED
    BY <1>1, <2>1, <2>2 DEF Produces, IsCommit
<1>4. ASSUME NEW j \in (i + 1)..n PROVE ~Produces(j, g)'
  <2>1. CASE j = n
    BY <2>1
  <2>2. CASE j \in (i + 1)..HeadSeq
    <3>1. ~Produces(j, g) /\ j \in 1..HeadSeq
      BY <1>1, <1>2, <2>2 DEF ProducedBy
    <3> QED
      BY <1>1, <3>1 DEF Produces, IsCommit
  <2> QED
    BY <1>1, <1>2, <2>1, <2>2
<1>5. ProducedBy(i, HeadSeq, g)'
  BY <1>1, <1>2, <1>3, <1>4 DEF ProducedBy
<1> QED
  BY <1>1, <1>2, <1>5

(* What a commit includes is consumed, and the other way round.             *)
LEMMA ConsumedIs ==
    ASSUME Inv
    PROVE  \A p : p \in consumed <=> \E i \in 1..HeadSeq : p \in Selected(i)
  BY DEF Inv, Invariants, OneEnd

-----------------------------------------------------------------------------
(* A commit of eligible proposals keeps the invariant.                      *)
LEMMA CommitKeeps ==
    ASSUME Inv, NEW f \in Fragment, NEW S \in SUBSET proposals, CommitPrepared(S, f)
    PROVE  Inv'
<1>0. PICK n : n = HeadSeq + 1
  OBVIOUS
<1> DEFINE e == [kind |-> "commit", fragment |-> f, previous |-> fragments[f].version,
                 new |-> fragments[f].version + 1, selected |-> S]
<1>1. /\ commits' = Append(commits, e)
      /\ fragments' = [fragments EXCEPT ![f] =
             [version |-> fragments[f].version + 1, producer |-> n]]
      /\ consumed' = consumed \cup S
      /\ proposals' = proposals /\ decisions' = decisions
      /\ \A p \in S : p.fragment = f /\ Eligible(p)
      /\ \A p, q \in S : p.learner = q.learner => p = q
  BY <1>0 DEF CommitPrepared, Prepares
<1>2. commits \in Seq(Event)
  BY DEF Inv, TypeOK, Event
<1> HIDE DEF e
<1>3. /\ HeadSeq \in Nat /\ HeadSeq' = n /\ n = HeadSeq + 1 /\ n # 0
      /\ \A i \in 1..HeadSeq : commits'[i] = commits[i]
      /\ commits'[n] = e
      /\ \A i \in 1..HeadSeq : IsCommit(i)' <=> IsCommit(i)
      /\ \A i \in 1..HeadSeq : Selected(i)' = Selected(i)
      /\ \A m \in 0..HeadSeq : \A v, g : VersionIs(v, m, g)' <=> VersionIs(v, m, g)
  <2>1. /\ HeadSeq \in Nat /\ HeadSeq' = HeadSeq + 1
        /\ \A i \in 1..HeadSeq : commits'[i] = commits[i]
        /\ commits'[HeadSeq + 1] = e
        /\ \A i \in 1..HeadSeq : IsCommit(i)' <=> IsCommit(i)
        /\ \A i \in 1..HeadSeq : Selected(i)' = Selected(i)
        /\ \A m \in 0..HeadSeq : \A v, g : VersionIs(v, m, g)' <=> VersionIs(v, m, g)
    BY <1>1, <1>2, HistoryKept
  <2> QED
    BY <1>0, <2>1
<1>4. /\ e.kind = "commit" /\ e.fragment = f /\ e.previous = fragments[f].version
      /\ e.new = e.previous + 1 /\ e.selected = S
  BY DEF e
<1>5. /\ IsCommit(n)' /\ Selected(n)' = S
  BY <1>3, <1>4 DEF IsCommit, Selected
<1>6. \A i \in 1..HeadSeq' : i \in 1..HeadSeq \/ i = n
  BY <1>0, <1>1, <1>2, OneMore
<1>7. S \subseteq Proposal /\ proposals \subseteq Proposal
  BY DEF Inv, TypeOK
<1>8. fragments[f] \in [version : Nat, producer : Nat]
  BY DEF Inv, TypeOK
<1>9. TypeOK'
  <2>1. e \in CommitEvent
    BY <1>7, <1>8 DEF e, CommitEvent
  <2>2. commits' \in Seq(CommitEvent \cup DecisionEvent)
    BY <1>1, <1>2, <2>1 DEF Event
  <2>3. fragments' \in [Fragment -> [version : Nat, producer : Nat]]
    BY <1>1, <1>3, <1>8 DEF Inv, TypeOK
  <2> QED
    BY <1>1, <1>7, <2>2, <2>3 DEF Inv, TypeOK
<1>10. Available'
  <2> SUFFICES ASSUME NEW i \in 1..HeadSeq'
               PROVE  /\ Selected(i)' \subseteq proposals'
                      /\ ~IsCommit(i)' => commits'[i].proposal \in proposals'
    BY DEF Available
  <2>1. CASE i \in 1..HeadSeq
    BY <1>1, <2>1, PrefixKept
  <2>2. CASE i = n
    BY <1>1, <1>5, <2>2
  <2> QED
    BY <1>6, <2>1, <2>2
<1>11. OneEnd'
  <2>1. \A p : p \in consumed' <=> \E i \in 1..HeadSeq' : p \in Selected(i)'
    <3>1. \A p : p \in consumed <=> \E i \in 1..HeadSeq : p \in Selected(i)
      BY ConsumedIs
    <3>2. \A i \in 1..HeadSeq : i \in 1..HeadSeq'
      BY <1>3
    <3>3. n \in 1..HeadSeq'
      BY <1>3
    <3>4. \A p : p \in consumed' <=> p \in consumed \/ p \in S
      BY <1>1 DEF CommitPrepared
    <3>5. \A i \in 1..HeadSeq : Selected(i)' = Selected(i)
      BY <1>3
    <3>6. \A i \in 1..HeadSeq' : i \in 1..HeadSeq \/ i = n
      BY <1>6
    <3>7. Selected(n)' = S
      BY <1>5
    <3> QED
      BY <3>1, <3>2, <3>3, <3>4, <3>5, <3>6, <3>7
  <2>2. consumed' = UNION {Selected(i) : i \in 1..HeadSeq}'
    <3> QED
      BY <2>1
  <2>3. S \cap consumed = {} /\ S \cap Dropped = {}
    BY <1>1 DEF Eligible
  <2>4. Dropped' = Dropped
    BY <1>1 DEF Dropped
  <2>5. \A i \in 1..HeadSeq : Selected(i) \subseteq consumed
    BY ConsumedIs
  <2>6. \A i, j \in 1..HeadSeq' : i < j => Selected(i)' \cap Selected(j)' = {}
    <3> SUFFICES ASSUME NEW i \in 1..HeadSeq', NEW j \in 1..HeadSeq', i < j
                 PROVE  Selected(i)' \cap Selected(j)' = {}
      OBVIOUS
    <3>1. i \in 1..HeadSeq
      BY <1>3
    <3>2. CASE j \in 1..HeadSeq
      BY <1>3, <3>1, <3>2 DEF Inv, Invariants, OneEnd
    <3>3. CASE j = n
      BY <1>3, <1>5, <2>3, <2>5, <3>1, <3>3
    <3> QED
      BY <1>6, <3>2, <3>3
  <2>7. \A d \in decisions' :
            /\ d.at \in 1..HeadSeq' /\ ~IsCommit(d.at)'
            /\ commits'[d.at].proposal = d.proposal /\ commits'[d.at].verdict = d.verdict
    <3> SUFFICES ASSUME NEW d \in decisions
                 PROVE  /\ d.at \in 1..HeadSeq' /\ ~IsCommit(d.at)'
                        /\ commits'[d.at].proposal = d.proposal
                        /\ commits'[d.at].verdict = d.verdict
      BY <1>1
    <3>1. /\ d.at \in 1..HeadSeq /\ ~IsCommit(d.at)
          /\ commits[d.at].proposal = d.proposal /\ commits[d.at].verdict = d.verdict
      BY DEF Inv, Invariants, OneEnd
    <3> QED
      BY <1>3, <3>1 DEF IsCommit
  <2>8. \A i \in 1..HeadSeq' : ~IsCommit(i)' =>
            \E d \in decisions' : d.at = i /\ d.proposal = commits'[i].proposal
    <3> SUFFICES ASSUME NEW i \in 1..HeadSeq', ~IsCommit(i)'
                 PROVE  \E d \in decisions : d.at = i /\ d.proposal = commits'[i].proposal
      BY <1>1
    <3>1. i \in 1..HeadSeq
      BY <1>5, <1>6
    <3> QED
      BY <1>3, <3>1 DEF Inv, Invariants, OneEnd, IsCommit
  <2>9. \A d, d2 \in decisions' : d.proposal = d2.proposal => d = d2
    BY <1>1 DEF Inv, Invariants, OneEnd
  <2>10. consumed' \cap Dropped' = {}
    BY <1>1, <2>3, <2>4 DEF Inv, Invariants, OneEnd
  <2> QED
    BY <2>2, <2>6, <2>7, <2>8, <2>9, <2>10 DEF OneEnd
<1>12. LineagesAdvance'
  <2> SUFFICES ASSUME NEW i \in 1..HeadSeq', NEW j \in 1..HeadSeq', i < j,
                      NEW p \in Selected(i)', NEW q \in Selected(j)', SameLineage(p, q)
               PROVE  p.seq < q.seq /\ ~SameBase(p, q)
    BY DEF LineagesAdvance, SameLineage, SameBase
  <2>1. i \in 1..HeadSeq
    BY <1>3
  <2>2. p \in Selected(i)
    BY <1>3, <2>1
  <2>3. CASE j \in 1..HeadSeq
    BY <1>3, <2>1, <2>2, <2>3 DEF Inv, Invariants, LineagesAdvance
  <2>4. CASE j = n
    <3>1. q \in S /\ Eligible(q)
      BY <1>1, <1>5, <2>4
    <3>2. p \in consumed
      BY <2>1, <2>2, ConsumedIs
    <3> QED
      BY <3>1, <3>2 DEF Eligible
  <2> QED
    BY <1>6, <2>3, <2>4
<1>13. CausallyBased'
  <2> SUFFICES ASSUME NEW i \in 1..HeadSeq'
               PROVE  /\ \A p \in Selected(i)' :
                             /\ p.base < i /\ i - 1 - p.base <= MaxGlobal
                             /\ p.fragment = commits'[i].fragment
                             /\ VersionIs(p.version, p.base, p.fragment)'
                             /\ commits'[i].previous - p.version <= MaxFragment
                      /\ \A p, q \in Selected(i)' : p.learner = q.learner => p = q
    BY DEF CausallyBased
  <2>1. CASE i \in 1..HeadSeq
    BY <1>1, <2>1, PrefixKept
  <2>2. CASE i = n
    <3>1. ASSUME NEW p \in S
          PROVE  /\ p.base < n /\ n - 1 - p.base <= MaxGlobal
                 /\ p.fragment = f
                 /\ VersionIs(p.version, p.base, p.fragment)'
                 /\ fragments[f].version - p.version <= MaxFragment
      <4>1. p.fragment = f /\ Eligible(p)
        BY <1>1
      <4>2. p.base \in Nat
        BY <1>7, ProposalTyped
      <4>3. /\ p.base <= HeadSeq /\ HeadSeq - p.base <= MaxGlobal
            /\ VersionIs(p.version, p.base, p.fragment)
            /\ fragments[f].version - p.version <= MaxFragment
        BY <4>1 DEF Eligible
      <4>4. p.base \in 0..HeadSeq /\ n - 1 = HeadSeq
        BY <1>0, <1>3, <4>2, <4>3
      <4>5. VersionIs(p.version, p.base, p.fragment)'
        BY <1>3, <4>3, <4>4
      <4> QED
        BY <1>3, <4>1, <4>3, <4>4, <4>5
    <3> QED
      BY <1>1, <1>3, <1>4, <1>5, <2>2, <3>1
  <2> QED
    BY <1>6, <2>1, <2>2
<1>14. FrontierFolded'
  <2>1. ASSUME NEW i \in 1..HeadSeq', IsCommit(i)'
        PROVE  /\ VersionIs(commits[i].previous, i - 1, commits[i].fragment)'
               /\ commits'[i].new = commits'[i].previous + 1
    <3>1. CASE i \in 1..HeadSeq
      BY <1>1, <2>1, <3>1, PrefixKept
    <3>2. CASE i = n
      <4>1. VersionIs(fragments[f].version, HeadSeq, f)
        BY FrontierIs
      <4>2. n - 1 = HeadSeq /\ HeadSeq \in 0..HeadSeq
        BY <1>0, <1>3
      <4>3. VersionIs(commits[n].previous, n - 1, commits[n].fragment)'
        BY <1>3, <1>4, <4>1, <4>2
      <4> QED
        BY <1>3, <1>4, <3>2, <4>3
    <3> QED
      BY <1>6, <3>1, <3>2
  <2>2. ASSUME NEW g \in Fragment
        PROVE  /\ ProducedBy(fragments[g].producer, HeadSeq, g)'
               /\ fragments'[g].version = VersionOf(fragments[g].producer)'
    <3>1. CASE g = f
      <4>1. fragments'[f] = [version |-> fragments[f].version + 1, producer |-> n]
        BY <1>1 DEF Inv, TypeOK
      <4>2. Produces(n, f)'
        BY <1>3, <1>4, <1>5 DEF Produces
      <4>3. n \in 0..n /\ (n + 1)..n = {} /\ n # 0
        BY <1>3
      <4>4. VersionOf(n)' = fragments[f].version + 1
        BY <1>3, <1>4, <4>3 DEF VersionOf
      <4> QED
        BY <1>3, <3>1, <4>1, <4>2, <4>3, <4>4 DEF ProducedBy
    <3>2. CASE g # f
      <4>1. fragments'[g] = fragments[g]
        BY <1>1, <3>2 DEF Inv, TypeOK
      <4>2. ~Produces(n, g)'
        BY <1>3, <1>4, <3>2 DEF Produces
      <4>3. /\ ProducedBy(fragments[g].producer, HeadSeq, g)
            /\ fragments[g].version = VersionOf(fragments[g].producer)
        BY DEF Inv, Invariants, FrontierFolded
      <4>4. PICK k : k = fragments[g].producer
        OBVIOUS
      <4>5. ProducedBy(k, HeadSeq, g)' /\ VersionOf(k)' = VersionOf(k)
        BY <1>0, <1>1, <1>2, <4>2, <4>3, <4>4, StillLast
      <4> QED
        BY <4>1, <4>3, <4>4, <4>5
    <3> QED
      BY <3>1, <3>2
  <2> QED
    BY <2>1, <2>2 DEF FrontierFolded
<1> QED
  BY <1>9, <1>10, <1>11, <1>12, <1>13, <1>14 DEF Inv, Invariants

(* A decision on what is neither consumed nor decided keeps the invariant.  *)
LEMMA DecideKeeps ==
    ASSUME Inv, NEW x \in proposals, NEW verdict \in Verdict, Decide(x, verdict)
    PROVE  Inv'
<1>0. PICK n : n = HeadSeq + 1
  OBVIOUS
<1> DEFINE e == [kind |-> "decision", proposal |-> x, verdict |-> verdict]
           d0 == [proposal |-> x, verdict |-> verdict, at |-> n]
<1>1. /\ commits' = Append(commits, e)
      /\ decisions' = decisions \cup {d0}
      /\ proposals' = proposals /\ fragments' = fragments /\ consumed' = consumed
      /\ x \notin consumed /\ x \notin Dropped
  BY <1>0 DEF Decide
<1>2. commits \in Seq(Event)
  BY DEF Inv, TypeOK, Event
<1>3. /\ HeadSeq \in Nat /\ HeadSeq' = n /\ n = HeadSeq + 1 /\ n # 0
      /\ \A i \in 1..HeadSeq : commits'[i] = commits[i]
      /\ commits'[n] = e
      /\ \A i \in 1..HeadSeq : IsCommit(i)' <=> IsCommit(i)
      /\ \A i \in 1..HeadSeq : Selected(i)' = Selected(i)
  <2>1. /\ HeadSeq \in Nat /\ HeadSeq' = HeadSeq + 1
        /\ \A i \in 1..HeadSeq : commits'[i] = commits[i]
        /\ commits'[HeadSeq + 1] = e
        /\ \A i \in 1..HeadSeq : IsCommit(i)' <=> IsCommit(i)
        /\ \A i \in 1..HeadSeq : Selected(i)' = Selected(i)
    BY <1>1, <1>2, HistoryKept
  <2> QED
    BY <1>0, <2>1
<1>4. /\ e.kind = "decision" /\ e.proposal = x /\ e.verdict = verdict
      /\ d0.proposal = x /\ d0.verdict = verdict /\ d0.at = n
  OBVIOUS
<1>5. ~IsCommit(n)' /\ Selected(n)' = {}
  BY <1>3, <1>4 DEF IsCommit, Selected
<1>6. \A i \in 1..HeadSeq' : i \in 1..HeadSeq \/ i = n
  BY <1>0, <1>1, <1>2, OneMore
<1>7. x \in Proposal
  BY DEF Inv, TypeOK
<1>9. TypeOK'
  <2>1. e \in DecisionEvent
    BY <1>7 DEF DecisionEvent
  <2>2. commits' \in Seq(CommitEvent \cup DecisionEvent)
    BY <1>1, <1>2, <2>1 DEF Event
  <2>3. d0 \in [proposal : Proposal, verdict : Verdict, at : Nat]
    BY <1>3, <1>7
  <2> QED
    BY <1>1, <2>2, <2>3 DEF Inv, TypeOK
<1>10. Available'
  <2> SUFFICES ASSUME NEW i \in 1..HeadSeq'
               PROVE  /\ Selected(i)' \subseteq proposals'
                      /\ ~IsCommit(i)' => commits'[i].proposal \in proposals'
    BY DEF Available
  <2>1. CASE i \in 1..HeadSeq
    BY <1>1, <2>1, PrefixKept
  <2>2. CASE i = n
    BY <1>1, <1>3, <1>4, <1>5, <2>2
  <2> QED
    BY <1>6, <2>1, <2>2
<1>11. OneEnd'
  <2>1. \A p : p \in consumed' <=> \E i \in 1..HeadSeq' : p \in Selected(i)'
    <3>1. \A p : p \in consumed <=> \E i \in 1..HeadSeq : p \in Selected(i)
      BY ConsumedIs
    <3>2. \A i \in 1..HeadSeq : i \in 1..HeadSeq'
      BY <1>3
    <3> QED
      BY <1>1, <1>3, <1>5, <1>6, <3>1, <3>2
  <2>2. consumed' = UNION {Selected(i) : i \in 1..HeadSeq}'
    BY <2>1
  <2>3. Dropped' = Dropped \cup {x}
    <3>1. \A q : q \in Dropped' <=> \E d \in decisions \cup {d0} : q = d.proposal
      BY <1>1 DEF Dropped
    <3>2. \A q : q \in Dropped <=> \E d \in decisions : q = d.proposal
      BY DEF Dropped
    <3> HIDE DEF d0
    <3> QED
      BY <1>4, <3>1, <3>2
  <2>4. \A d \in decisions : d.proposal # x
    BY <1>1 DEF Dropped
  <2>5. ASSUME NEW d \in decisions
        PROVE  /\ d.at \in 1..HeadSeq /\ ~IsCommit(d.at)
               /\ commits[d.at].proposal = d.proposal /\ commits[d.at].verdict = d.verdict
    BY DEF Inv, Invariants, OneEnd
  <2>6. \A i, j \in 1..HeadSeq' : i < j => Selected(i)' \cap Selected(j)' = {}
    <3> SUFFICES ASSUME NEW i \in 1..HeadSeq', NEW j \in 1..HeadSeq', i < j
                 PROVE  Selected(i)' \cap Selected(j)' = {}
      OBVIOUS
    <3>1. i \in 1..HeadSeq
      BY <1>3
    <3>2. CASE j \in 1..HeadSeq
      BY <1>3, <3>1, <3>2 DEF Inv, Invariants, OneEnd
    <3>3. CASE j = n
      BY <1>5, <3>3
    <3> QED
      BY <1>6, <3>2, <3>3
  <2>7. ASSUME NEW d \in decisions'
        PROVE  /\ d.at \in 1..HeadSeq' /\ ~IsCommit(d.at)'
               /\ commits'[d.at].proposal = d.proposal /\ commits'[d.at].verdict = d.verdict
    <3>1. CASE d \in decisions
      BY <1>3, <2>5, <3>1 DEF IsCommit
    <3>2. CASE d = d0
      BY <1>3, <1>5, <3>2
    <3> QED
      BY <1>1, <2>7, <3>1, <3>2
  <2>8. ASSUME NEW i \in 1..HeadSeq', ~IsCommit(i)'
        PROVE  \E d \in decisions' : d.at = i /\ d.proposal = commits'[i].proposal
    <3>1. CASE i \in 1..HeadSeq
      <4>1. ~IsCommit(i) /\ commits'[i] = commits[i]
        BY <1>3, <2>8, <3>1
      <4>2. PICK d \in decisions : d.at = i /\ d.proposal = commits[i].proposal
        BY <3>1, <4>1 DEF Inv, Invariants, OneEnd
      <4> QED
        BY <1>1, <4>1, <4>2
    <3>2. CASE i = n
      <4>1. d0.at = i /\ d0.proposal = commits'[i].proposal
        BY <1>3, <3>2
      <4> QED
        BY <1>1, <4>1
    <3> QED
      BY <1>6, <3>1, <3>2
  <2>9. \A d, d2 \in decisions' : d.proposal = d2.proposal => d = d2
    BY <1>1, <2>4 DEF Inv, Invariants, OneEnd
  <2>10. consumed' \cap Dropped' = {}
    BY <1>1, <2>3 DEF Inv, Invariants, OneEnd
  <2> QED
    BY <2>2, <2>6, <2>7, <2>8, <2>9, <2>10 DEF OneEnd
<1>12. LineagesAdvance'
  <2> SUFFICES ASSUME NEW i \in 1..HeadSeq', NEW j \in 1..HeadSeq', i < j,
                      NEW p \in Selected(i)', NEW q \in Selected(j)', SameLineage(p, q)
               PROVE  p.seq < q.seq /\ ~SameBase(p, q)
    BY DEF LineagesAdvance, SameLineage, SameBase
  <2>1. j \in 1..HeadSeq
    BY <1>5, <1>6
  <2>2. i \in 1..HeadSeq
    BY <1>3
  <2> QED
    BY <1>3, <2>1, <2>2 DEF Inv, Invariants, LineagesAdvance
<1>13. CausallyBased'
  <2> SUFFICES ASSUME NEW i \in 1..HeadSeq'
               PROVE  /\ \A p \in Selected(i)' :
                             /\ p.base < i /\ i - 1 - p.base <= MaxGlobal
                             /\ p.fragment = commits'[i].fragment
                             /\ VersionIs(p.version, p.base, p.fragment)'
                             /\ commits'[i].previous - p.version <= MaxFragment
                      /\ \A p, q \in Selected(i)' : p.learner = q.learner => p = q
    BY DEF CausallyBased
  <2>1. CASE i \in 1..HeadSeq
    BY <1>1, <2>1, PrefixKept
  <2>2. CASE i = n
    BY <1>5, <2>2
  <2> QED
    BY <1>6, <2>1, <2>2
<1>14. FrontierFolded'
  <2>1. ASSUME NEW i \in 1..HeadSeq', IsCommit(i)'
        PROVE  /\ VersionIs(commits[i].previous, i - 1, commits[i].fragment)'
               /\ commits'[i].new = commits'[i].previous + 1
    <3>1. i \in 1..HeadSeq
      BY <1>5, <1>6, <2>1
    <3> QED
      BY <1>1, <2>1, <3>1, PrefixKept
  <2>2. ASSUME NEW g \in Fragment
        PROVE  /\ ProducedBy(fragments[g].producer, HeadSeq, g)'
               /\ fragments'[g].version = VersionOf(fragments[g].producer)'
    <3>1. ~Produces(n, g)'
      BY <1>3, <1>5 DEF Produces
    <3>2. /\ ProducedBy(fragments[g].producer, HeadSeq, g)
          /\ fragments[g].version = VersionOf(fragments[g].producer)
      BY DEF Inv, Invariants, FrontierFolded
    <3>3. PICK k : k = fragments[g].producer
      OBVIOUS
    <3>4. ProducedBy(k, HeadSeq, g)' /\ VersionOf(k)' = VersionOf(k)
      BY <1>0, <1>1, <1>2, <3>1, <3>2, <3>3, StillLast
    <3> QED
      BY <1>1, <3>2, <3>3, <3>4
  <2> QED
    BY <2>1, <2>2 DEF FrontierFolded
<1> QED
  BY <1>9, <1>10, <1>11, <1>12, <1>13, <1>14 DEF Inv, Invariants

-----------------------------------------------------------------------------
(* I-001 to I-005 hold in every state of the model: assert_invariants, run  *)
(* after every publication, commit and decision, never raises, for any      *)
(* number of learners, fragments and proposals and any staleness bounds.    *)
THEOREM ModelInvariants == Spec => []Inv
<1>1. Init => Inv
  <2> SUFFICES ASSUME Init PROVE Inv
    OBVIOUS
  <2>1. HeadSeq = 0 /\ commits = <<>> /\ 1..HeadSeq = {}
    BY DEF Init, HeadSeq
  <2>2. TypeOK
    BY DEF Init, TypeOK
  <2>3. Available /\ LineagesAdvance /\ CausallyBased
    BY <2>1 DEF Available, LineagesAdvance, CausallyBased
  <2>4. OneEnd
    BY <2>1 DEF Init, OneEnd, Dropped
  <2>5. FrontierFolded
    BY <2>1 DEF Init, FrontierFolded, ProducedBy, Produces, VersionOf
  <2> QED
    BY <2>2, <2>3, <2>4, <2>5 DEF Inv, Invariants
<1>2. Inv /\ [Next]_vars => Inv'
  <2> SUFFICES ASSUME Inv, [Next]_vars PROVE Inv'
    OBVIOUS
  <2>1. ASSUME NEW p \in Proposal, Publish(p) PROVE Inv'
    <3>1. proposals' \subseteq Proposal /\ proposals \subseteq proposals'
      BY <2>1 DEF Publish, Inv, TypeOK
    <3> QED
      BY <2>1, <3>1, PublishKeeps DEF Publish
  <2>2. ASSUME NEW f \in Fragment, NEW S \in SUBSET proposals, CommitPrepared(S, f)
        PROVE  Inv'
    BY <2>2, CommitKeeps
  <2>3. ASSUME NEW p \in proposals, NEW verdict \in Verdict, Decide(p, verdict)
        PROVE  Inv'
    BY <2>3, DecideKeeps
  <2>4. CASE UNCHANGED vars
    BY <2>4, PublishKeeps DEF vars, Inv, TypeOK
  <2> QED
    BY <2>1, <2>2, <2>3, <2>4 DEF Next
<1> QED
  BY <1>1, <1>2, PTL DEF Spec

-----------------------------------------------------------------------------
(* A committed event, without the bound on epochs.                          *)
Recorded == [kind : {"epoch_bump", "optimizer", "stop"}, req : Request,
             owner : Owner, epoch : Nat \ {0}, count : Nat]

(* Events are typed, and without a stop fact there is no stop event.        *)
HistoryOK ==
    /\ history \in Seq(Recorded)
    /\ stop = C!NoStop => \A i \in 1..Len(history) : history[i].kind # "stop"

(* The inductive invariant: later events carry epochs and counts at least   *)
(* as large, which is why the last event alone may decide who commits.      *)
Promise ==
    /\ HistoryOK
    /\ C!HistoryMonotone
    /\ C!OneOwnerPerEpoch
    /\ C!StopIsFinal
    /\ C!RequestCommitsOnce

LEMMA InitPromise == C!Init => Promise
BY DEF C!Init, Promise, HistoryOK, C!HistoryMonotone, C!OneOwnerPerEpoch,
       C!StopIsFinal, C!RequestCommitsOnce

(* What one more event must be for the promise to go on.                    *)
LEMMA AppendKeeps ==
    ASSUME Promise,
           NEW e \in Recorded,
           history' = Append(history, e),
           e.req \notin C!CommittedRequests(history),
           e.epoch > C!FencingEpoch(history)
             \/ (history # <<>> /\ e.epoch = C!FencingEpoch(history)
                                /\ e.owner = C!OwnerToken(history).owner),
           e.count >= C!OptimizerCount(history),
           e.kind = "epoch_bump" \/ stop = C!NoStop
    PROVE  /\ C!HistoryMonotone' /\ C!OneOwnerPerEpoch'
           /\ C!StopIsFinal' /\ C!RequestCommitsOnce'
<1> DEFINE n == Len(history)
<1>1. /\ n \in Nat /\ Len(history') = n + 1
      /\ \A i \in 1..n : history'[i] = history[i]
      /\ history'[n + 1] = e
  BY DEF Promise, HistoryOK
<1>2. /\ e.epoch \in Nat /\ e.count \in Nat
      /\ \A i \in 1..n : history[i].epoch \in Nat /\ history[i].count \in Nat
  <2>1. \A i \in 1..n : history[i] \in Recorded
    BY DEF Promise, HistoryOK
  <2> QED BY <2>1 DEF Recorded
<1>3. n # 0 => C!FencingEpoch(history) = history[n].epoch
               /\ C!OptimizerCount(history) = history[n].count
               /\ C!OwnerToken(history).owner = history[n].owner
  BY <1>1 DEF C!FencingEpoch, C!OptimizerCount, C!OwnerToken, C!HeadOf
<1>4. n = 0 <=> history = <<>>
  BY DEF Promise, HistoryOK
<1>5. \A i \in 1..n : history[i].epoch <= e.epoch /\ history[i].count <= e.count
  BY <1>1, <1>2, <1>3 DEF Promise, C!HistoryMonotone
<1>6. C!HistoryMonotone'
  <2>1. \A i, j \in 1..n : i <= j => /\ history[i].epoch <= history[j].epoch
                                   /\ history[i].count <= history[j].count
    BY DEF Promise, C!HistoryMonotone
  <2> HIDE DEF n
  <2> QED BY <1>1, <1>2, <1>5, <2>1 DEF C!HistoryMonotone
<1>7. C!OneOwnerPerEpoch'
  <2>1. \A i \in 1..n : history[i].epoch = e.epoch => history[i].owner = e.owner
    BY <1>1, <1>2, <1>3, <1>4 DEF Promise, C!HistoryMonotone, C!OneOwnerPerEpoch
  <2> QED BY <1>1, <2>1 DEF Promise, C!OneOwnerPerEpoch
<1>8. C!StopIsFinal'
  <2>1. e.kind = "epoch_bump" \/ \A i \in 1..n : history[i].kind # "stop"
    BY DEF Promise, HistoryOK
  <2>2. \A i, j \in 1..n : (history[i].kind = "stop" /\ i < j) => history[j].kind = "epoch_bump"
    BY DEF Promise, C!StopIsFinal
  <2> HIDE DEF n
  <2> QED BY <1>1, <2>1, <2>2 DEF C!StopIsFinal
<1>9. C!RequestCommitsOnce'
  BY <1>1 DEF Promise, C!RequestCommitsOnce, C!CommittedRequests
<1> QED BY <1>6, <1>7, <1>8, <1>9

LEMMA NextPromise == Promise /\ [C!Next]_C!vars => Promise'
<1> SUFFICES ASSUME Promise, [C!Next]_C!vars PROVE Promise'
  OBVIOUS
<1>1. CASE UNCHANGED C!vars
  BY <1>1 DEF C!vars, Promise, HistoryOK, C!HistoryMonotone, C!OneOwnerPerEpoch, C!StopIsFinal,
              C!RequestCommitsOnce
<1>2. ASSUME NEW t \in C!Token, NEW r \in Request,
             C!CommitEpochBump(t, r) \/ C!CommitOptimizer(t, r) \/ C!CommitStop(t, r)
      PROVE  Promise'
  <2>1. C!OptimizerCount(history) \in Nat /\ C!FencingEpoch(history) \in Nat
    <3>1. history # <<>> => history[Len(history)] \in Recorded
      BY DEF Promise, HistoryOK
    <3> QED BY <3>1 DEF Recorded, C!OptimizerCount, C!FencingEpoch, C!HeadOf
  <2>2. t.epoch \in Nat \ {0} /\ t.owner \in Owner
    BY DEF C!Token
  <2>3. PICK kind \in {"epoch_bump", "optimizer", "stop"}, increment \in {0, 1} :
             /\ C!Commit(kind, t, r, increment)
             /\ kind = "epoch_bump" \/ stop = C!NoStop
             /\ t.epoch > C!FencingEpoch(history) \/ C!OwnerToken(history) = t
             /\ kind = "stop" => stop' # C!NoStop
             /\ stop' # stop => kind = "stop"
    BY <1>2, <2>1 DEF C!CommitEpochBump, C!CommitOptimizer, C!CommitStop, C!NoStop, Promise, HistoryOK
  <2> DEFINE e == [kind |-> kind, req |-> r, owner |-> t.owner, epoch |-> t.epoch,
                   count |-> C!OptimizerCount(history) + increment]
  <2>4. /\ e \in Recorded
        /\ history' = Append(history, e)
        /\ e.req \notin C!CommittedRequests(history)
        /\ e.count >= C!OptimizerCount(history)
    BY <2>1, <2>2, <2>3 DEF C!Commit, Recorded
  <2>5. e.epoch > C!FencingEpoch(history)
          \/ (history # <<>> /\ e.epoch = C!FencingEpoch(history)
                             /\ e.owner = C!OwnerToken(history).owner)
    BY <2>1, <2>2, <2>3 DEF C!OwnerToken, C!FencingEpoch
  <2>6. HistoryOK'
    BY <2>3, <2>4 DEF Promise, HistoryOK, C!NoStop
  <2>7. C!HistoryMonotone' /\ C!OneOwnerPerEpoch' /\ C!StopIsFinal' /\ C!RequestCommitsOnce'
    BY <2>3, <2>4, <2>5, AppendKeeps
  <2> QED BY <2>6, <2>7 DEF Promise
<1> QED BY <1>1, <1>2 DEF C!Next

(* The whole promise holds of every history: epochs and counts never go     *)
(* back, one owner per epoch, nothing after a stop, a request once.         *)
THEOREM PromiseKept == C!Spec => []Promise
BY InitPromise, NextPromise, PTL DEF C!Spec

(* No two owners ever commit under one fencing epoch.                       *)
THEOREM NoSplitBrain == C!Spec => []C!OneOwnerPerEpoch
<1>1. Promise => C!OneOwnerPerEpoch
  BY DEF Promise
<1> QED BY <1>1, PromiseKept, PTL

(* After a committed stop, only epoch bumps are committed.                  *)
THEOREM StopEndsTraining == C!Spec => []C!StopIsFinal
<1>1. Promise => C!StopIsFinal
  BY DEF Promise
<1> QED BY <1>1, PromiseKept, PTL

(* A request commits at most once.                                          *)
THEOREM RetriesCommitOnce == C!Spec => []C!RequestCommitsOnce
<1>1. Promise => C!RequestCommitsOnce
  BY DEF Promise
<1> QED BY <1>1, PromiseKept, PTL
=============================================================================
