------------------------ MODULE ProposalAdmission ------------------------
(***************************************************************************)
(* Which learner proposals may enter a commit.  Three places of the code   *)
(* decide it, each in its own words: the catalog when it scans and selects *)
(* (proposal_catalog.py, protocol/validation.py), prepare_transition when  *)
(* it builds the commit (log/production.py), and the replay that every     *)
(* reader of the log runs over it (log/replay.py).  A commit that replay   *)
(* refuses makes the run unreadable, and a selection that prepare refuses  *)
(* ends it, so the three have to agree.                                    *)
(*                                                                         *)
(* A proposal is identified by learner, session, sequence and fragment and *)
(* carries its base, the commit whose export it was trained from; payload  *)
(* and digests are taken as valid.  One fragment is the full-vector mode.  *)
(***************************************************************************)
EXTENDS Integers, Sequences, FiniteSets

CONSTANTS
    Learner,       \* learners
    Frags,         \* number of parameter fragments
    MaxGlobal,     \* max_global_staleness
    MaxFragment,   \* max_fragment_staleness
    QuorumMin,     \* sync.quorum_min
    QuorumMax      \* sync.quorum_max

ASSUME AdmissionAssumption ==
    /\ Frags \in Nat \ {0}
    /\ MaxGlobal \in Nat /\ MaxFragment \in Nat
    /\ QuorumMin \in Nat \ {0} /\ QuorumMax \in Nat \ {0}

VARIABLES
    log,       \* the committed prefix: entries with the frontier they lead to
    pending    \* proposals whose metadata is in updates/pending

Fragment == 0..(Frags - 1)

Proposal == [learner : Learner, session : Nat, seq : Nat, fragment : Fragment,
             base : Nat]

Entry == [kind : {"control", "optimizer"}, fragment : Fragment,
          selected : SUBSET Proposal, count : Nat, versions : [Fragment -> Nat]]

-----------------------------------------------------------------------------
(* What the replay of the first n commits knows. *)
HeadSeq == Len(log)
CountAt(n) == IF n = 0 THEN 0 ELSE log[n].count
VersionAt(n, f) == IF n = 0 THEN 0 ELSE log[n].versions[f]
CursorAt(n) == CountAt(n) % Frags

Consumed(n) == UNION {log[i].selected : i \in 1..n}

SameLineage(p, q) ==
    p.learner = q.learner /\ p.session = q.session /\ p.fragment = q.fragment

SameInterval(p, q) == SameLineage(p, q) /\ p.base = q.base

Lag(p, n) == VersionAt(n, p.fragment) - VersionAt(p.base, p.fragment)

-----------------------------------------------------------------------------
(* The catalog: candidate validation against a view of n commits.          *)

(* Mutant of Eligible: the staleness bounds are not applied. *)
EligibleAtAnyAge(p, n) ==
    /\ p.base <= n
    /\ p \notin Consumed(n)
    /\ \A c \in Consumed(n) :
           SameLineage(c, p) => c.seq <= p.seq /\ c.base # p.base

Eligible(p, n) ==
    /\ p.base <= n
    /\ n - p.base <= MaxGlobal
    /\ Lag(p, n) <= MaxFragment
    /\ p \notin Consumed(n)
    /\ \A c \in Consumed(n) :
           SameLineage(c, p) => c.seq <= p.seq /\ c.base # p.base

(* select: the oldest candidate of each learner, quorum_max of them at      *)
(* most.  Ties and the cut are broken by proposal id, a digest: any way.    *)
Selections(n, f) ==
    LET fits == {p \in pending : p.fragment = f /\ Eligible(p, n)}
        oldest == {p \in fits :
                       \A q \in fits : q.learner = p.learner => p.seq <= q.seq}
        heads == Cardinality({p.learner : p \in oldest})
    IN  {S \in SUBSET oldest :
            /\ \A p, q \in S : p.learner = q.learner => p = q
            /\ Cardinality(S) = IF heads < QuorumMax THEN heads ELSE QuorumMax}

(* prepare_transition: the same questions, asked of the head. *)
Prepares(S, f) ==
    /\ S # {}
    /\ \A p \in S :
           /\ p.fragment = f
           /\ p.base <= HeadSeq
           /\ HeadSeq - p.base <= MaxGlobal
           /\ Lag(p, HeadSeq) <= MaxFragment
           /\ p \notin Consumed(HeadSeq)
           /\ \A c \in Consumed(HeadSeq) :
                  SameLineage(c, p) => c.seq < p.seq /\ c.base # p.base
    /\ \A p, q \in S : p.learner = q.learner => p = q

(* _replay_production_log on commit i: staleness is counted in optimizer    *)
(* transitions here, in commits above.                                      *)
Replays(i) ==
    \A p \in log[i].selected :
        /\ p.fragment = log[i].fragment
        /\ p.base < i
        /\ CountAt(i - 1) - CountAt(p.base) <= MaxGlobal
        /\ Lag(p, i - 1) <= MaxFragment
        /\ \A j \in 1..(i - 1) : \A c \in log[j].selected :
               c # p /\ (SameLineage(c, p) => c.seq < p.seq /\ c.base # p.base)
        /\ \A q \in log[i].selected : q # p => q.learner # p.learner

-----------------------------------------------------------------------------
(* The commits. *)
(* Mutant of Optimizer: the commit names what was scanned, not what was     *)
(* selected.                                                                *)
OptimizerOfScan(S, f) ==
    [kind |-> "optimizer", fragment |-> f, count |-> CountAt(HeadSeq) + 1,
     selected |-> {p \in pending : p.fragment = f},
     versions |-> [g \in Fragment |-> VersionAt(HeadSeq, g) + (IF g = f THEN 1 ELSE 0)]]

Optimizer(S, f) ==
    [kind |-> "optimizer", fragment |-> f, selected |-> S,
     count |-> CountAt(HeadSeq) + 1,
     versions |-> [g \in Fragment |-> VersionAt(HeadSeq, g) + (IF g = f THEN 1 ELSE 0)]]

(* Epoch bumps and stops leave the fragments alone. *)
Control ==
    [kind |-> "control", fragment |-> 0, selected |-> {}, count |-> CountAt(HeadSeq),
     versions |-> [g \in Fragment |-> VersionAt(HeadSeq, g)]]

CommitSelection(S, f) ==
    /\ Prepares(S, f)
    /\ log' = Append(log, Optimizer(S, f))

CommitControl == log' = Append(log, Control)

-----------------------------------------------------------------------------
(* What the log promises whoever offers the selections: any learner may     *)
(* publish anything with a committed base, cleanup may remove anything, any *)
(* published set may be offered to prepare_transition.                      *)
AdmissionInit == log = <<>> /\ pending = {}

PublishAny ==
    /\ \A p \in pending' : p \in Proposal /\ p.base <= HeadSeq
    /\ UNCHANGED log

CommitAny ==
    /\ \/ \E S \in SUBSET pending : \E f \in Fragment : CommitSelection(S, f)
       \/ CommitControl
    /\ UNCHANGED pending

AdmissionSpec ==
    AdmissionInit /\ [][PublishAny \/ CommitAny]_<<log, pending>>

-----------------------------------------------------------------------------
AdmissionTypeOK ==
    /\ log \in Seq(Entry)
    /\ pending \in SUBSET Proposal

(* No commit can make the run unreadable: replay accepts every committed    *)
(* selection.  In particular no proposal and no training interval is ever   *)
(* consumed twice, and a lineage is consumed in the order it was trained.   *)
Replayable == \A i \in 1..HeadSeq : Replays(i)

(* Replay's optimizer-transition staleness never exceeds prepare's commit   *)
(* staleness: between two commits the counters advance by at most their     *)
(* distance in the log.                                                     *)
CountsLag ==
    \A n \in 0..HeadSeq : \A b \in 0..n :
        0 <= CountAt(n) - CountAt(b) /\ CountAt(n) - CountAt(b) <= n - b

AdmissionInv == AdmissionTypeOK /\ CountsLag /\ Replayable
=============================================================================
