--------------------------- MODULE ReferenceModel ---------------------------
(***************************************************************************)
(* The pure transition system of log/model.py, which the code calls its    *)
(* oracle: proposals are published, selections of them are committed to    *)
(* one linear history, and a proposal that will never be committed gets a  *)
(* terminal decision, which is an event of that history too.  A prepared   *)
(* transition that went stale is refused and changes nothing, so preparing *)
(* and committing are one action here.                                     *)
(*                                                                         *)
(* An event is named by its place in the history, a vector by the event    *)
(* that produced it; 0 is the genesis.                                     *)
(***************************************************************************)
EXTENDS Integers, Sequences

CONSTANTS
    Learner,       \* learners
    Frags,         \* fragment_count
    Offered,       \* proposals that learners try to publish
    MaxGlobal,     \* max_global_staleness
    MaxFragment,   \* max_fragment_staleness
    MaxEvents      \* bound: length of the history

Fragment == 0..(Frags - 1)

(* What ReferenceProposal.create accepts. *)
Proposal ==
    {p \in Offered : p \in [learner : Learner, session : Nat, seq : Nat, fragment : Nat,
                           base : Nat, version : Nat]}

VARIABLES
    proposals,   \* published
    commits,     \* the history
    fragments,   \* version of each fragment and the commit that produced it
    consumed,    \* committed proposals
    decisions    \* terminal decisions, with the event that made them

vars == <<proposals, commits, fragments, consumed, decisions>>

Verdict == {"dropped", "superseded", "quarantined", "expired"}

CommitEvent == [kind : {"commit"}, fragment : Fragment, previous : Nat, new : Nat,
                selected : SUBSET Proposal]

DecisionEvent == [kind : {"decision"}, proposal : Proposal, verdict : Verdict]

-----------------------------------------------------------------------------
HeadSeq == Len(commits)

IsCommit(i) == commits[i].kind = "commit"

Produces(i, f) == i # 0 => IsCommit(i) /\ commits[i].fragment = f

(* Event i is the last among the first n to produce fragment f. *)
ProducedBy(i, n, f) ==
    i \in 0..n /\ Produces(i, f) /\ \A j \in (i + 1)..n : ~Produces(j, f)

VersionOf(i) == IF i = 0 THEN 0 ELSE commits[i].new

VersionIs(v, n, f) == \E i \in 0..n : ProducedBy(i, n, f) /\ v = VersionOf(i)

Selected(i) == IF IsCommit(i) THEN commits[i].selected ELSE {}

Dropped == {d.proposal : d \in decisions}

SameKey(p, q) ==
    /\ p.learner = q.learner /\ p.session = q.session
    /\ p.fragment = q.fragment /\ p.seq = q.seq

SameLineage(p, q) ==
    p.learner = q.learner /\ p.session = q.session /\ p.fragment = q.fragment

SameBase(p, q) == p.base = q.base /\ p.version = q.version

(* SystemState.eligible. *)
Eligible(p) ==
    /\ p \notin consumed \cup Dropped
    /\ \A c \in consumed :
           SameLineage(c, p) => c.seq < p.seq /\ ~SameBase(c, p)
    /\ p.fragment \in Fragment
    /\ p.base <= HeadSeq
    /\ HeadSeq - p.base <= MaxGlobal
    /\ VersionIs(p.version, p.base, p.fragment)
    /\ p.version <= fragments[p.fragment].version
    /\ fragments[p.fragment].version - p.version <= MaxFragment

-----------------------------------------------------------------------------
Init ==
    /\ proposals = {}
    /\ commits = <<>>
    /\ fragments = [f \in Fragment |-> [version |-> 0, producer |-> 0]]
    /\ consumed = {}
    /\ decisions = {}

(* SystemState.publish: one content for each sequence number of a lineage. *)
Publish(p) ==
    /\ \A q \in proposals : SameKey(p, q) => q = p
    /\ proposals' = proposals \cup {p}
    /\ UNCHANGED <<commits, fragments, consumed, decisions>>

(* prepare_transition: the selections it accepts. *)
Prepares(S, f) ==
    /\ S # {}
    /\ \A p \in S : p.fragment = f /\ Eligible(p)
    /\ \A p, q \in S : p.learner = q.learner => p = q

(* commit_prepared prepares anew and compares before it commits. *)
CommitPrepared(S, f) ==
    /\ HeadSeq < MaxEvents
    /\ Prepares(S, f)
    /\ commits' = Append(commits,
           [kind |-> "commit", fragment |-> f, previous |-> fragments[f].version,
            new |-> fragments[f].version + 1, selected |-> S])
    /\ fragments' = [fragments EXCEPT ![f] =
           [version |-> fragments[f].version + 1, producer |-> HeadSeq + 1]]
    /\ consumed' = consumed \cup S
    /\ UNCHANGED <<proposals, decisions>>

(* decide_proposal: what is decided stays decided. *)
Decide(p, verdict) ==
    /\ HeadSeq < MaxEvents
    /\ p \notin consumed \cup Dropped
    /\ commits' = Append(commits,
           [kind |-> "decision", proposal |-> p, verdict |-> verdict])
    /\ decisions' = decisions \cup
           {[proposal |-> p, verdict |-> verdict, at |-> HeadSeq + 1]}
    /\ UNCHANGED <<proposals, fragments, consumed>>

Next ==
    \/ \E p \in Proposal : Publish(p)
    \/ \E f \in Fragment, S \in SUBSET proposals : CommitPrepared(S, f)
    \/ \E p \in proposals, verdict \in Verdict : Decide(p, verdict)

Spec == Init /\ [][Next]_vars

-----------------------------------------------------------------------------
(* Types of the state. *)
TypeOK ==
    /\ proposals \in SUBSET Proposal
    /\ commits \in Seq(CommitEvent \cup DecisionEvent)
    /\ fragments \in [Fragment -> [version : Nat, producer : Nat]]
    /\ consumed \in SUBSET Proposal
    /\ decisions \in SUBSET [proposal : Proposal, verdict : Verdict, at : Nat]

(* check_invariants, by its labels.                                         *)

(* I-001: events name published proposals only. *)
Available ==
    \A i \in 1..HeadSeq :
        /\ Selected(i) \subseteq proposals
        /\ ~IsCommit(i) => commits[i].proposal \in proposals

(* I-003: consumption and decisions are what the history says, a proposal   *)
(* has one end, and it is reached once.                                     *)
OneEnd ==
    /\ consumed = UNION {Selected(i) : i \in 1..HeadSeq}
    /\ \A d \in decisions :
           /\ d.at \in 1..HeadSeq /\ ~IsCommit(d.at)
           /\ commits[d.at].proposal = d.proposal /\ commits[d.at].verdict = d.verdict
    /\ \A i \in 1..HeadSeq : ~IsCommit(i) =>
           \E d \in decisions : d.at = i /\ d.proposal = commits[i].proposal
    /\ \A i, j \in 1..HeadSeq : i < j => Selected(i) \cap Selected(j) = {}
    /\ \A d, e \in decisions : d.proposal = e.proposal => d = e
    /\ consumed \cap Dropped = {}

(* I-003: along the history a lineage is included in the order it was       *)
(* trained, and no two intervals of it that start from one base.            *)
LineagesAdvance ==
    \A i, j \in 1..HeadSeq : i < j =>
        \A p \in Selected(i), q \in Selected(j) :
            SameLineage(p, q) => p.seq < q.seq /\ ~SameBase(p, q)

(* I-004: what a commit includes was trained from an ancestor of it, from   *)
(* the version that ancestor had, within both staleness bounds, and by      *)
(* different learners.                                                      *)
CausallyBased ==
    \A i \in 1..HeadSeq :
        /\ \A p \in Selected(i) :
               /\ p.base < i /\ i - 1 - p.base <= MaxGlobal
               /\ p.fragment = commits[i].fragment
               /\ VersionIs(p.version, p.base, p.fragment)
               /\ commits[i].previous - p.version <= MaxFragment
        /\ \A p, q \in Selected(i) : p.learner = q.learner => p = q

(* I-005: each commit advances its fragment by one from what the history    *)
(* had before it, and the frontier is what folding the history gives.       *)
FrontierFolded ==
    /\ \A i \in 1..HeadSeq : IsCommit(i) =>
           /\ VersionIs(commits[i].previous, i - 1, commits[i].fragment)
           /\ commits[i].new = commits[i].previous + 1
    /\ \A f \in Fragment :
           /\ ProducedBy(fragments[f].producer, HeadSeq, f)
           /\ fragments[f].version = VersionOf(fragments[f].producer)

(* assert_invariants holds after every transition: no publication,          *)
(* commit or decision raises out of it.                                     *)
Invariants == Available /\ OneEnd /\ LineagesAdvance /\ CausallyBased /\ FrontierFolded

Inv == TypeOK /\ Invariants
=============================================================================
