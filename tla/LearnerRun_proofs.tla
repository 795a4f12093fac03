------------------------- MODULE LearnerRun_proofs -------------------------
(***************************************************************************)
(* The safety of learners and syncer around the shared directory, for any  *)
(* learners, sessions, crashes, takeovers and configurations.              *)
(***************************************************************************)
EXTENDS LearnerRun, ProposalAdmission_proofs, FiniteSetTheorems

LearnerAct(l) == LearnerStep(l) \/ BeatEarly(l) \/ SkipUpload(l) \/ Crash(l)

SyncerAct == SyncerStep \/ Scan \/ SyncerGivesUp \/ Takeover

(* What was published: the proposals in the mailboxes and in the log. *)
Published == pending \cup Consumed(HeadSeq)

Idle == Gone \cup {"off"}

Over == {"published", "exited"}

-----------------------------------------------------------------------------
(* The phase of the syncer and the exports. *)
SyncerInv ==
    /\ spc # "starting" => HeadSeq >= 1
    /\ spc \in {"saved", "stopSaved", "exported", "published"} => HeadSeq \in weights
    /\ spc \in {"exported", "published"} => latest = HeadSeq
    /\ stopFile # 0 <=> spc \in Over
    /\ picked # {} => spc \in {"scanned", "picked"}

(* Nothing is deleted that a learner is about to load, before the end of a  *)
(* successful run.                                                          *)
ReadersInv ==
    /\ ExportsKept
    /\ spc # "exited" \/ ~Successful =>
           \A l \in Learner : lpc[l] \in {"booting", "loading"} => adopted[l] \in weights

(* Sessions are bounded, an interval starts from the export adopted last,   *)
(* its marker precedes its metadata, and nothing is based on what is not    *)
(* committed.                                                               *)
SessionInv ==
    /\ \A l \in Learner :
           /\ lpc[l] = "off" => session[l] < MaxSessions
           /\ lpc[l] \in {"interval", "marked"} => work[l].base = adopted[l]
           /\ lpc[l] = "marked" =>
                  [learner |-> l, session |-> session[l], seq |-> sent[l] + 1,
                   fragment |-> work[l].scheduled] \in markers
    /\ MarkersFirst
    /\ \A p \in pending : p.base <= HeadSeq

(* A session has published nothing beyond its count, and one content under  *)
(* each number.                                                             *)
PublishedInv ==
    /\ \A p \in Published :
           /\ p.session <= session[p.learner]
           /\ p.session = session[p.learner] /\ lpc[p.learner] \notin Idle =>
                  p.seq <= sent[p.learner]
    /\ \A p, q \in Published :
           p.learner = q.learner /\ p.session = q.session /\ p.seq = q.seq => p = q

(* A session that is about to train, and adopts after each upload, holds a  *)
(* base it has published nothing from.                                      *)
Fresh(l) ==
    \/ lpc[l] \in {"booting", "recovering", "loading", "interval", "marked"}
    \/ lpc[l] = "ready" /\ stopFile = 0

FreshInv ==
    /\ \A p \in pending :
           mode.adopt /\ p.session = session[p.learner] /\ lpc[p.learner] \notin Idle =>
               /\ p.base <= adopted[p.learner]
               /\ Fresh(p.learner) => p.base < adopted[p.learner]
    /\ IntervalsDisjoint

(* The syncer holds a selection the catalog would still make of it. *)
PickedInv ==
    /\ spc \in {"scanned", "picked"} =>
           /\ \A p \in picked : p.fragment = Cursor /\ Eligible(p, HeadSeq)
           /\ \A p, q \in picked : p.learner = q.learner => p = q
    /\ spc = "picked" => picked # {}

IInv ==
    /\ AdmissionInv /\ TypeOK /\ SyncerInv /\ ReadersInv /\ SessionInv
    /\ PublishedInv /\ FreshInv /\ PickedInv

-----------------------------------------------------------------------------
(* What learners leave alone. *)
LEMMA LearnerFrame ==
    ASSUME NEW l \in Learner, LearnerAct(l)
    PROVE  UNCHANGED <<log, mode, weights, latest, stopFile, spc, picked, reason>>
BY DEF LearnerAct, LearnerStep, Boot, BootLoad, Adopt, AdoptLoad, LoadFails, WaitSeesStop,
       LoopEndsOnStop, BeginInterval, EmptyInterval, PublishMarker, PublishMeta,
       LearnerGivesUp, Exit, BeatEarly, SkipUpload, Crash, exports, syncer

(* Cleanup only removes. *)
LEMMA TrimmedShrinks ==
    ASSUME NEW L, NEW n, NEW K \in Trimmed(L, n)
    PROVE  K \subseteq pending
BY DEF Trimmed

(* A commit adds what it selects to what is consumed. *)
LEMMA ConsumedGrows ==
    ASSUME log \in Seq(Entry), NEW e, log' = Append(log, e)
    PROVE  Consumed(HeadSeq)' = Consumed(HeadSeq) \cup e.selected
<1>1. PICK h \in Nat : h = HeadSeq
  BY PrefixKept
<1>2. /\ HeadSeq' = h + 1 /\ log'[h + 1] = e
      /\ \A i \in 1..h : log'[i] = log[i]
  BY <1>1, PrefixKept
<1>3. \A i : i \in 1..(h + 1) <=> i \in 1..h \/ i = h + 1
  BY <1>1
<1>4. Consumed(HeadSeq) = UNION {log[i].selected : i \in 1..h}
  BY <1>1 DEF Consumed
<1>5. Consumed(HeadSeq)' = UNION {log'[i].selected : i \in 1..(h + 1)}
  BY <1>2 DEF Consumed
<1> QED
  BY <1>2, <1>3, <1>4, <1>5

(* What the syncer leaves alone. *)
LEMMA SyncerFrame ==
    ASSUME TypeOK, SyncerAct
    PROVE  /\ UNCHANGED <<mode, markers, done, learnerVars>>
           /\ pending' \subseteq pending
<1>1. CASE CleanupSuccess
  BY <1>1, TrimmedShrinks DEF CleanupSuccess, learnerVars
<1>2. CASE Start \/ Pick \/ Commit \/ SaveWeights \/ PublishLatest \/ StepsDone
           \/ CommitStop \/ PublishStop \/ Scan \/ SyncerGivesUp \/ Takeover
  BY <1>2 DEF Start, Pick, Commit, SaveWeights, PublishLatest, StepsDone, CommitStop,
              PublishStop, Scan, SyncerGivesUp, Takeover, learnerVars
<1> QED
  BY <1>1, <1>2 DEF SyncerAct, SyncerStep

(* Every step of the syncer leaves the log, or appends a control entry, or  *)
(* the selection it holds.                                                  *)
LEMMA SyncerLog ==
    ASSUME SyncerAct
    PROVE  \/ log' = log
           \/ /\ CommitControl /\ pending' = pending
           \/ /\ spc = "picked" /\ CommitSelection(picked, Cursor) /\ pending' = pending
BY DEF SyncerAct, SyncerStep, Start, Pick, Commit, SaveWeights, PublishLatest, StepsDone,
       CommitStop, PublishStop, CleanupSuccess, Scan, SyncerGivesUp, Takeover

LEMMA CursorFragment ==
    ASSUME AdmissionAssumption, log \in Seq(Entry)
    PROVE  Cursor \in Fragment
<1>1. CountAt(HeadSeq) \in Nat /\ Frags \in Nat \ {0}
  BY CountersTyped DEF AdmissionAssumption
<1>2. \A n \in Nat : \A m \in Nat \ {0} : n % m \in 0..(m - 1)
  OBVIOUS
<1> QED
  BY <1>1, <1>2 DEF Cursor, CursorAt, Fragment

(* The log and the committed numbers only grow. *)
LEMMA HeadGrows ==
    ASSUME AdmissionInv, SyncerAct
    PROVE  /\ HeadSeq \in Nat /\ HeadSeq' \in Nat /\ HeadSeq <= HeadSeq'
           /\ log' # log => HeadSeq' = HeadSeq + 1
<1>1. log \in Seq(Entry) /\ HeadSeq \in Nat
  BY CountersTyped DEF AdmissionInv, AdmissionTypeOK
<1>2. CASE log' = log
  BY <1>1, <1>2 DEF HeadSeq
<1>3. CASE \E e : log' = Append(log, e)
  BY <1>1, <1>3, PrefixKept
<1> QED
  BY <1>2, <1>3, SyncerLog DEF CommitControl, CommitSelection

-----------------------------------------------------------------------------
(* The log takes the steps ProposalAdmission allows. *)

(* What a learner does to the mailboxes: nothing, its own new proposal, or  *)
(* the cleanup after a successful stop.                                     *)
LEMMA LearnerMail ==
    ASSUME NEW l \in Learner, LearnerAct(l)
    PROVE  \/ pending' = pending
           \/ stopFile # 0 /\ pending' \subseteq pending
           \/ PublishMeta(l)
<1>1. ASSUME Exit(l) PROVE (pending' = pending \/ (stopFile # 0 /\ pending' \subseteq pending))
  BY <1>1, TrimmedShrinks DEF Exit
<1> QED
  BY <1>1 DEF LearnerAct, LearnerStep, Boot, BootLoad, Adopt, AdoptLoad, LoadFails,
              WaitSeesStop, LoopEndsOnStop, BeginInterval, EmptyInterval, PublishMarker,
              LearnerGivesUp, BeatEarly, SkipUpload, Crash

LEMMA NewProposal ==
    ASSUME TypeOK, SessionInv, NEW l \in Learner, PublishMeta(l)
    PROVE  \E p \in Proposal :
               /\ pending' = pending \cup {p}
               /\ p.learner = l /\ p.session = session[l] /\ p.seq = sent[l] + 1
               /\ p.base = adopted[l] /\ p.fragment = work[l].fragment
<1> DEFINE p == [learner |-> l, session |-> session[l], seq |-> sent[l] + 1,
                 fragment |-> work[l].fragment, base |-> work[l].base]
<1>1. /\ session[l] \in Nat /\ sent[l] + 1 \in Nat
      /\ work[l].fragment \in Fragment /\ work[l].base \in Nat
  BY LearnerAssumption DEF TypeOK, LearnerAssumption
<1>2. p \in Proposal
  BY <1>1 DEF Proposal
<1>3. pending' = pending \cup {p} /\ work[l].base = adopted[l]
  BY DEF PublishMeta, SessionInv
<1> QED
  BY <1>2, <1>3

LEMMA RunIsAdmission ==
    ASSUME AdmissionAssumption, AdmissionInv, TypeOK, SessionInv, [Next]_vars
    PROVE  PublishAny \/ CommitAny \/ UNCHANGED <<log, pending>>
<1>1. HeadSeq \in Nat /\ pending \subseteq Proposal
  BY CountersTyped DEF AdmissionInv, AdmissionTypeOK
<1>2. ASSUME log' = log, pending' \subseteq pending
      PROVE  PublishAny
  BY <1>1, <1>2 DEF PublishAny, SessionInv, HeadSeq
<1>3. ASSUME NEW l \in Learner, LearnerAct(l)
      PROVE  PublishAny
  <2>1. log' = log
    BY <1>3, LearnerFrame
  <2>2. CASE pending' \subseteq pending
    BY <1>2, <2>1, <2>2
  <2>3. CASE PublishMeta(l)
    <3>1. PICK p \in Proposal : pending' = pending \cup {p} /\ p.base = adopted[l]
      BY <2>3, NewProposal
    <3>2. adopted[l] <= HeadSeq
      BY <1>1 DEF TypeOK
    <3> QED
      BY <1>1, <2>1, <3>1, <3>2 DEF PublishAny, SessionInv, HeadSeq
  <2> QED
    BY <1>3, <2>2, <2>3, LearnerMail
<1>4. ASSUME SyncerAct
      PROVE  PublishAny \/ CommitAny
  <2>1. CASE log' = log
    BY <1>2, <1>4, <2>1, SyncerFrame
  <2>2. CASE CommitControl /\ pending' = pending
    BY <2>2 DEF CommitAny
  <2>3. CASE CommitSelection(picked, Cursor) /\ pending' = pending
    <3>1. picked \in SUBSET pending /\ Cursor \in Fragment
      BY CursorFragment DEF TypeOK, AdmissionInv, AdmissionTypeOK
    <3> QED
      BY <2>3, <3>1 DEF CommitAny
  <2> QED
    BY <1>4, <2>1, <2>2, <2>3, SyncerLog
<1>5. ASSUME UNCHANGED vars
      PROVE  UNCHANGED <<log, pending>>
  BY <1>5 DEF vars
<1> QED
  BY <1>3, <1>4, <1>5 DEF Next, LearnerAct, SyncerAct

-----------------------------------------------------------------------------
(* Types. *)
LEMMA LearnerTyped ==
    ASSUME AdmissionAssumption, LearnerAssumption, AdmissionInv', TypeOK, SessionInv,
           SyncerInv, NEW l \in Learner, LearnerAct(l)
    PROVE  TypeOK'
<1>1. UNCHANGED <<log, mode, weights, latest, stopFile, spc, picked, reason>>
  BY LearnerFrame
<1>2. HeadSeq' = HeadSeq
  BY <1>1 DEF HeadSeq
<1>3. picked \subseteq pending'
  <2>1. CASE stopFile # 0 /\ pending' \subseteq pending
    BY <2>1 DEF SyncerInv, Over
  <2>2. CASE PublishMeta(l)
    BY <2>2, NewProposal DEF TypeOK
  <2> QED
    BY <2>1, <2>2, LearnerMail DEF TypeOK
<1>4. done' \in SUBSET Learner
  <2>1. ASSUME NEW n, Heartbeat(l, n) PROVE done' \in SUBSET Learner
    BY <2>1 DEF Heartbeat, TypeOK
  <2> QED
    BY <2>1 DEF LearnerAct, LearnerStep, Boot, BootLoad, Adopt, AdoptLoad, LoadFails,
       WaitSeesStop, LoopEndsOnStop, BeginInterval, EmptyInterval, PublishMarker,
       PublishMeta, LearnerGivesUp, Exit, BeatEarly, SkipUpload, Crash, TypeOK
<1>5. sent[l] \in Nat /\ skipped[l] \in Nat /\ session[l] \in 0..MaxSessions
      /\ latest \in 0..HeadSeq /\ adopted[l] \in 0..HeadSeq
      /\ work[l] \in [scheduled : Fragment, fragment : Fragment, base : Nat]
  BY DEF TypeOK
<1>6. Frags - 1 \in Fragment /\ 0 \in Fragment
  BY DEF AdmissionAssumption, Fragment
<1>7. sent[l] % Frags \in Fragment
  <2>1. \A n \in Nat : \A m \in Nat \ {0} : n % m \in 0..(m - 1)
    OBVIOUS
  <2> QED
    BY <1>5, <2>1 DEF AdmissionAssumption, Fragment
<1>8. [scheduled |-> sent[l] % Frags, fragment |-> Frags - 1, base |-> adopted[l]]
          \in [scheduled : Fragment, fragment : Fragment, base : Nat]
  BY <1>5, <1>6, <1>7, CountersTyped DEF TypeOK, AdmissionTypeOK
<1>9. NoWork \in [scheduled : Fragment, fragment : Fragment, base : Nat]
  BY <1>6 DEF NoWork
<1>10. markers' \in SUBSET Marker
  <2>1. [learner |-> l, session |-> session[l], seq |-> sent[l] + 1,
         fragment |-> work[l].scheduled] \in Marker
    BY <1>5, LearnerAssumption DEF Marker, LearnerAssumption
  <2> QED
    BY <2>1 DEF LearnerAct, LearnerStep, Boot, BootLoad, Adopt, AdoptLoad, LoadFails,
       WaitSeesStop, LoopEndsOnStop, BeginInterval, EmptyInterval, PublishMarker,
       PublishMeta, LearnerGivesUp, Exit, BeatEarly, SkipUpload, Crash, TypeOK
<1>11. lpc' \in [Learner -> Phase]
  BY DEF LearnerAct, LearnerStep, Boot, BootLoad, Adopt, AdoptLoad, LoadFails,
       WaitSeesStop, LoopEndsOnStop, BeginInterval, EmptyInterval, PublishMarker,
       PublishMeta, LearnerGivesUp, Exit, BeatEarly, SkipUpload, Crash, TypeOK, Goto,
       Phase, learnerVars
<1>12. session' \in [Learner -> 0..MaxSessions]
  <2>1. CASE Boot(l)
    <3>1. session[l] < MaxSessions
      BY <2>1 DEF Boot, SessionInv
    <3>2. session[l] + 1 \in 0..MaxSessions
      BY <1>5, <3>1 DEF LearnerAssumption
    <3> QED
      BY <2>1, <3>2 DEF Boot, TypeOK
  <2>2. CASE session' = session
    BY <2>2 DEF TypeOK
  <2> QED
    BY <2>1, <2>2 DEF LearnerAct, LearnerStep, Boot, BootLoad, Adopt, AdoptLoad, LoadFails,
       WaitSeesStop, LoopEndsOnStop, BeginInterval, EmptyInterval, PublishMarker,
       PublishMeta, LearnerGivesUp, Exit, BeatEarly, SkipUpload, Crash, learnerVars
<1>13. sent' \in [Learner -> Nat] /\ skipped' \in [Learner -> Nat]
  <2>1. /\ sent' \in {sent, [sent EXCEPT ![l] = @ + 1], [sent EXCEPT ![l] = 0]}
        /\ skipped' \in {skipped, [skipped EXCEPT ![l] = @ + 1], [skipped EXCEPT ![l] = 0]}
    BY DEF LearnerAct, LearnerStep, Boot, BootLoad, Adopt, AdoptLoad, LoadFails,
       WaitSeesStop, LoopEndsOnStop, BeginInterval, EmptyInterval, PublishMarker,
       PublishMeta, LearnerGivesUp, Exit, BeatEarly, SkipUpload, Crash, learnerVars
  <2>2. sent \in [Learner -> Nat] /\ skipped \in [Learner -> Nat]
    BY DEF TypeOK
  <2> QED
    BY <2>1, <2>2
<1>14. adopted' \in [Learner -> 0..HeadSeq]
  <2>1. adopted' \in {adopted, [adopted EXCEPT ![l] = latest], [adopted EXCEPT ![l] = 0]}
    BY DEF LearnerAct, LearnerStep, Boot, BootLoad, Adopt, AdoptLoad, LoadFails,
       WaitSeesStop, LoopEndsOnStop, BeginInterval, EmptyInterval, PublishMarker,
       PublishMeta, LearnerGivesUp, Exit, BeatEarly, SkipUpload, Crash, learnerVars
  <2>2. HeadSeq \in Nat /\ adopted \in [Learner -> 0..HeadSeq]
    BY CountersTyped DEF TypeOK, AdmissionTypeOK
  <2> QED
    BY <1>5, <2>1, <2>2
<1>15. work' \in [Learner -> [scheduled : Fragment, fragment : Fragment, base : Nat]]
  <2>1. \/ work' = work
        \/ work' = [work EXCEPT ![l] = NoWork]
        \/ work' = [work EXCEPT ![l] = [scheduled |-> sent[l] % Frags,
                                        fragment |-> Frags - 1, base |-> adopted[l]]]
    BY DEF LearnerAct, LearnerStep, Boot, BootLoad, Adopt, AdoptLoad, LoadFails,
       WaitSeesStop, LoopEndsOnStop, BeginInterval, EmptyInterval, PublishMarker,
       PublishMeta, LearnerGivesUp, Exit, BeatEarly, SkipUpload, Crash, learnerVars
  <2>2. work \in [Learner -> [scheduled : Fragment, fragment : Fragment, base : Nat]]
    BY DEF TypeOK
  <2> QED
    BY <1>8, <1>9, <2>1, <2>2
<1> QED
  BY <1>1, <1>2, <1>3, <1>4, <1>10, <1>11, <1>12, <1>13, <1>14, <1>15
     DEF TypeOK, AdmissionInv

LEMMA SyncerTyped ==
    ASSUME AdmissionAssumption, AdmissionInv, AdmissionInv', TypeOK, SyncerInv, SyncerAct
    PROVE  TypeOK'
<1>1. /\ UNCHANGED <<mode, markers, done, lpc, session, sent, skipped, adopted, work>>
      /\ pending' \subseteq pending
  BY SyncerFrame DEF learnerVars
<1>2. /\ HeadSeq \in Nat /\ HeadSeq' \in Nat /\ HeadSeq <= HeadSeq'
      /\ 0..HeadSeq \subseteq 0..HeadSeq' /\ 1..HeadSeq \subseteq 1..HeadSeq'
  BY HeadGrows
<1>3. weights' \in SUBSET (1..HeadSeq')
  <2>1. \/ weights' \subseteq weights
        \/ /\ weights' = weights \cup {HeadSeq} /\ HeadSeq >= 1
    BY DEF SyncerAct, SyncerStep, Start, Pick, Commit, SaveWeights, PublishLatest,
       StepsDone, CommitStop, PublishStop, CleanupSuccess, Scan, SyncerGivesUp, Takeover,
       SyncerInv, exports
  <2>2. weights \subseteq 1..HeadSeq'
    BY <1>2 DEF TypeOK
  <2>3. HeadSeq >= 1 => HeadSeq \in 1..HeadSeq'
    BY <1>2
  <2>4. weights' \subseteq 1..HeadSeq'
    BY <2>1, <2>2, <2>3
  <2> QED
    BY <2>4
<1>4. latest' \in 0..HeadSeq' /\ stopFile' \in 0..HeadSeq'
  <2>1. latest' \in {latest, HeadSeq} /\ stopFile' \in {stopFile, HeadSeq}
    BY DEF SyncerAct, SyncerStep, Start, Pick, Commit, SaveWeights, PublishLatest,
       StepsDone, CommitStop, PublishStop, CleanupSuccess, Scan, SyncerGivesUp, Takeover,
       exports
  <2> QED
    BY <1>2, <2>1 DEF TypeOK
<1>5. picked' \in SUBSET pending'
  <2>1. picked' \in {picked, {}} \/ Scan
    BY DEF SyncerAct, SyncerStep, Start, Pick, Commit, SaveWeights, PublishLatest,
       StepsDone, CommitStop, PublishStop, CleanupSuccess, SyncerGivesUp, Takeover
  <2>2. CASE Scan
    BY <2>2 DEF Scan, Selections
  <2>3. CASE CleanupSuccess
    BY <2>3 DEF CleanupSuccess, SyncerInv
  <2>4. pending' = pending \/ CleanupSuccess
    BY DEF SyncerAct, SyncerStep, Start, Pick, Commit, SaveWeights, PublishLatest,
       StepsDone, CommitStop, PublishStop, SyncerGivesUp, Takeover, Scan
  <2> QED
    BY <2>1, <2>2, <2>3, <2>4 DEF TypeOK
<1>6. spc' \in SyncerPhase
      /\ reason' \in {"none", "stop_after_outer_steps", "no_progress_timeout", "error"}
  BY DEF SyncerAct, SyncerStep, Start, Pick, Commit, SaveWeights, PublishLatest, StepsDone,
         CommitStop, PublishStop, CleanupSuccess, Scan, SyncerGivesUp, Takeover, TypeOK,
         SyncerPhase
<1>7. adopted' \in [Learner -> 0..HeadSeq']
  BY <1>1, <1>2 DEF TypeOK
<1> QED
  BY <1>1, <1>3, <1>4, <1>5, <1>6, <1>7 DEF TypeOK, AdmissionInv

-----------------------------------------------------------------------------
(* The phase of the syncer, the exports and their readers. *)
LEMMA SyncerInvLearner ==
    ASSUME SyncerInv, NEW l \in Learner, LearnerAct(l)
    PROVE  SyncerInv'
BY LearnerFrame DEF SyncerInv, HeadSeq

LEMMA SyncerInvKept ==
    ASSUME AdmissionInv, TypeOK, SyncerInv, SyncerAct
    PROVE  SyncerInv'
<1>1. HeadSeq \in Nat /\ HeadSeq' \in Nat /\ HeadSeq <= HeadSeq'
  BY HeadGrows
<1>2. log' = log => HeadSeq' = HeadSeq
  BY DEF HeadSeq
<1>3. CommitControl \/ (\E S, f : CommitSelection(S, f)) => HeadSeq' = HeadSeq + 1
  BY PrefixKept DEF CommitControl, CommitSelection, AdmissionInv, AdmissionTypeOK
<1>4. CASE CleanupSuccess
  BY <1>1, <1>2, <1>4 DEF CleanupSuccess, SyncerInv, Over
<1>5. CASE Start \/ Takeover \/ CommitStop
  BY <1>1, <1>3, <1>5 DEF Start, Takeover, CommitStop, SyncerInv, Over, exports
<1>6. CASE Commit
  BY <1>1, <1>2, <1>3, <1>6 DEF Commit, SyncerInv, Over, exports
<1>7. CASE SaveWeights \/ PublishLatest
  BY <1>1, <1>2, <1>7 DEF SaveWeights, PublishLatest, SyncerInv, Over
<1>8. CASE PublishStop
  BY <1>1, <1>2, <1>8 DEF PublishStop, SyncerInv, Over
<1>9. CASE Pick \/ StepsDone \/ Scan \/ SyncerGivesUp
  BY <1>1, <1>2, <1>9 DEF Pick, StepsDone, Scan, SyncerGivesUp, SyncerInv, Over, exports, Stuck
<1> QED
  BY <1>4, <1>5, <1>6, <1>7, <1>8, <1>9 DEF SyncerAct, SyncerStep

(* A newer export is one of a later commit: merge events are counted in the *)
(* order of the log.                                                        *)
LEMMA NewerIsLater ==
    ASSUME AdmissionInv, NEW n \in 0..HeadSeq, NEW a \in 0..HeadSeq, Newer(n, a)
    PROVE  n > a /\ n # 0
<1>1. /\ HeadSeq \in Nat /\ CountAt(n) \in Nat /\ CountAt(a) \in Nat
  BY CountersTyped DEF AdmissionInv, AdmissionTypeOK
<1>2. n <= a => CountAt(n) <= CountAt(a)
  BY <1>1 DEF AdmissionInv, CountsLag
<1> QED
  BY <1>1, <1>2 DEF Newer

LEMMA ReadersLearner ==
    ASSUME AdmissionInv, TypeOK, SyncerInv, ReadersInv, NEW l \in Learner, LearnerAct(l)
    PROVE  ReadersInv'
<1>1. UNCHANGED <<log, mode, weights, latest, stopFile, spc, picked, reason>>
  BY LearnerFrame
<1>2. Successful' = Successful
  BY <1>1 DEF Successful
<1>3. \A k \in Learner \ {l} : lpc'[k] = lpc[k] /\ adopted'[k] = adopted[k]
  BY DEF LearnerAct, LearnerStep, Boot, BootLoad, Adopt, AdoptLoad, LoadFails,
       WaitSeesStop, LoopEndsOnStop, BeginInterval, EmptyInterval, PublishMarker,
       PublishMeta, LearnerGivesUp, Exit, BeatEarly, SkipUpload, Crash, Goto, TypeOK,
       learnerVars
<1>4. lpc'[l] = "failed" => stopFile # 0 /\ Successful
  <2>1. CASE LoadFails(l)
    BY <2>1 DEF LoadFails, ReadersInv, SyncerInv, Over
  <2> QED
    BY <2>1 DEF LearnerAct, LearnerStep, Boot, BootLoad, Adopt, AdoptLoad,
         WaitSeesStop, LoopEndsOnStop, BeginInterval, EmptyInterval, PublishMarker,
         PublishMeta, LearnerGivesUp, Exit, BeatEarly, SkipUpload, Crash, Goto, TypeOK,
         learnerVars, ReadersInv, ExportsKept
<1>5. lpc'[l] \in {"booting", "loading"} =>
          \/ lpc'[l] = lpc[l] /\ adopted'[l] = adopted[l]
          \/ adopted'[l] = latest /\ latest # 0
  <2>1. CASE Adopt(l)
    <3>1. latest # 0
      BY <2>1, NewerIsLater DEF Adopt, TypeOK
    <3> QED
      BY <2>1, <3>1 DEF Adopt, TypeOK
  <2> QED
    BY <2>1 DEF LearnerAct, LearnerStep, Boot, BootLoad, AdoptLoad, LoadFails,
         WaitSeesStop, LoopEndsOnStop, BeginInterval, EmptyInterval, PublishMarker,
         PublishMeta, LearnerGivesUp, Exit, BeatEarly, SkipUpload, Crash, Goto, TypeOK,
         learnerVars
<1>6. latest # 0 => latest \in weights
  BY DEF ReadersInv, ExportsKept
<1>7. ExportsKept'
  BY <1>1, <1>2, <1>3, <1>4, <1>6 DEF ExportsKept, ReadersInv
<1>8. ASSUME (spc # "exited" \/ ~Successful)', NEW k \in Learner,
             lpc'[k] \in {"booting", "loading"}
      PROVE  adopted'[k] \in weights'
  BY <1>1, <1>2, <1>3, <1>5, <1>6, <1>8 DEF ReadersInv
<1> QED
  BY <1>7, <1>8 DEF ReadersInv

LEMMA ReadersSyncer ==
    ASSUME LearnerAssumption, AdmissionInv, TypeOK, SyncerInv, ReadersInv, SyncerAct
    PROVE  ReadersInv'
<1>1. UNCHANGED <<mode, lpc, adopted>>
  BY SyncerFrame DEF learnerVars
<1>2. /\ spc \in Over => reason' = reason
      /\ spc = "exited" => FALSE
  BY DEF SyncerAct, SyncerStep, Start, Pick, Commit, SaveWeights, PublishLatest, StepsDone,
         CommitStop, PublishStop, CleanupSuccess, Scan, SyncerGivesUp, Takeover, Over, Stuck
<1>3. stopFile # 0 => stopFile' # 0
  BY DEF SyncerAct, SyncerStep, Start, Pick, Commit, SaveWeights, PublishLatest, StepsDone,
         CommitStop, PublishStop, CleanupSuccess, Scan, SyncerGivesUp, Takeover, Over,
         exports, SyncerInv
<1>4. \A l \in Learner : lpc[l] = "failed" => (stopFile # 0 /\ Successful)'
  BY <1>2, <1>3 DEF ReadersInv, ExportsKept, SyncerInv, Successful
<1>5. CASE CleanupSuccess
  <2>1. spc = "published" /\ spc' = "exited" /\ latest' = latest /\ reason' = reason
    BY <1>5 DEF CleanupSuccess
  <2>2. latest = HeadSeq /\ latest \in weights /\ \A k \in weights : k \in 1..latest
    BY <2>1 DEF SyncerInv, TypeOK
  <2>3. CASE ~Successful \/ mode.keep = 0
    BY <1>1, <1>4, <1>5, <2>1, <2>2, <2>3
       DEF CleanupSuccess, ReadersInv, ExportsKept, Successful
  <2>4. CASE Successful /\ mode.keep # 0
    <3>1. {k \in weights : k > latest} = {} /\ latest \in Nat
      BY <2>2, CountersTyped DEF AdmissionInv, AdmissionTypeOK
    <3>2. mode.keep \in Nat
      BY DEF TypeOK, LearnerAssumption, Mode
    <3>3. latest \in weights'
      <4>1. Cardinality({k \in weights : k > latest}) = 0
        BY <3>1, FS_EmptySet
      <4>2. weights' = {n \in weights : Cardinality({k \in weights : k > n}) < mode.keep}
        BY <1>5, <2>4 DEF CleanupSuccess
      <4> QED
        BY <2>2, <2>4, <3>2, <4>1, <4>2
    <3> QED
      BY <1>1, <1>4, <2>1, <2>4, <3>3 DEF ReadersInv, ExportsKept, Successful
  <2> QED
    BY <2>3, <2>4
<1>6. CASE ~CleanupSuccess
  <2>1. /\ weights \subseteq weights'
        /\ latest' \in {latest, HeadSeq} /\ (latest' # latest => HeadSeq \in weights)
        /\ spc # "exited" /\ spc' # "exited"
    BY <1>6 DEF SyncerAct, SyncerStep, Start, Pick, Commit, SaveWeights, PublishLatest,
         StepsDone, CommitStop, PublishStop, Scan, SyncerGivesUp, Takeover, Stuck,
         exports, SyncerInv
  <2> QED
    BY <1>1, <1>4, <2>1 DEF ReadersInv, ExportsKept
<1> QED
  BY <1>5, <1>6

-----------------------------------------------------------------------------
(* Sessions, markers and what is published. *)
LEMMA OthersKept ==
    ASSUME TypeOK, NEW l \in Learner, LearnerAct(l)
    PROVE  \A k \in Learner \ {l} :
               /\ lpc'[k] = lpc[k] /\ session'[k] = session[k] /\ sent'[k] = sent[k]
               /\ adopted'[k] = adopted[k] /\ work'[k] = work[k]
BY DEF LearnerAct, LearnerStep, Boot, BootLoad, Adopt, AdoptLoad, LoadFails,
       WaitSeesStop, LoopEndsOnStop, BeginInterval, EmptyInterval, PublishMarker,
       PublishMeta, LearnerGivesUp, Exit, BeatEarly, SkipUpload, Crash, Goto, TypeOK,
       learnerVars

LEMMA SessionLearner ==
    ASSUME LearnerAssumption, AdmissionInv, TypeOK, SessionInv,
           NEW l \in Learner, LearnerAct(l)
    PROVE  SessionInv'
<1>1. log' = log /\ HeadSeq' = HeadSeq
  BY LearnerFrame DEF HeadSeq
<1>2. lpc'[l] = "off" => session'[l] < MaxSessions
  <2>1. CASE Crash(l)
    BY <2>1 DEF Crash
  <2>2. CASE ~Crash(l)
    <3>1. lpc'[l] = "off" => lpc[l] = "off" /\ session'[l] = session[l]
      BY <2>2 DEF LearnerAct, LearnerStep, Boot, BootLoad, Adopt, AdoptLoad,
      LoadFails, WaitSeesStop, LoopEndsOnStop, BeginInterval, EmptyInterval,
      PublishMarker, PublishMeta, LearnerGivesUp, Exit, BeatEarly, SkipUpload,
      Goto, TypeOK, learnerVars
    <3> QED
      BY <3>1 DEF SessionInv
  <2> QED
    BY <2>1, <2>2
<1>6. lpc'[l] \in {"interval", "marked"} => work'[l].base = adopted'[l]
  <2>1. CASE BeginInterval(l)
    BY <2>1 DEF BeginInterval, TypeOK
  <2>2. CASE ~BeginInterval(l)
    <3>1. lpc'[l] \in {"interval", "marked"} =>
              /\ lpc[l] \in {"interval", "marked"}
              /\ work'[l] = work[l] /\ adopted'[l] = adopted[l]
      BY <2>2 DEF LearnerAct, LearnerStep, Boot, BootLoad, Adopt, AdoptLoad,
      LoadFails, WaitSeesStop, LoopEndsOnStop, EmptyInterval, PublishMarker,
      PublishMeta, LearnerGivesUp, Exit, BeatEarly, SkipUpload, Crash, Goto,
      TypeOK, learnerVars
    <3> QED
      BY <3>1 DEF SessionInv
  <2> QED
    BY <2>1, <2>2
<1>3. /\ markers \subseteq markers'
      /\ lpc'[l] = "marked" =>
             [learner |-> l, session |-> session'[l], seq |-> sent'[l] + 1,
              fragment |-> work'[l].scheduled] \in markers'
  BY DEF LearnerAct, LearnerStep, Boot, BootLoad, Adopt, AdoptLoad, LoadFails,
       WaitSeesStop, LoopEndsOnStop, BeginInterval, EmptyInterval, PublishMarker,
       PublishMeta, LearnerGivesUp, Exit, BeatEarly, SkipUpload, Crash, Goto, TypeOK,
       learnerVars, SessionInv
<1>4. ASSUME NEW p \in pending'
      PROVE  /\ p.base <= HeadSeq
             /\ \E m \in markers' :
                    m.learner = p.learner /\ m.session = p.session /\ m.seq = p.seq
  <2>1. CASE p \in pending
    BY <1>3, <2>1 DEF SessionInv, MarkersFirst
  <2>2. CASE p \notin pending /\ PublishMeta(l)
    <3>1. /\ p.learner = l /\ p.session = session[l] /\ p.seq = sent[l] + 1
          /\ p.base = adopted[l]
      BY <2>2, NewProposal
    <3>2. [learner |-> l, session |-> session[l], seq |-> sent[l] + 1,
           fragment |-> work[l].scheduled] \in markers'
      BY <1>3, <2>2 DEF PublishMeta, SessionInv
    <3>3. adopted[l] <= HeadSeq
      BY CountersTyped DEF TypeOK, AdmissionTypeOK
    <3> QED
      BY <3>1, <3>2, <3>3
  <2> QED
    BY <2>1, <2>2, LearnerMail
<1>5. MarkersFirst'
  BY <1>4 DEF MarkersFirst
<1> QED
  BY <1>1, <1>2, <1>3, <1>4, <1>5, <1>6, OthersKept DEF SessionInv

LEMMA SessionSyncer ==
    ASSUME AdmissionInv, TypeOK, SessionInv, SyncerAct
    PROVE  SessionInv'
<1>1. /\ UNCHANGED <<markers, lpc, session, sent, adopted, work>>
      /\ pending' \subseteq pending
      /\ HeadSeq \in Nat /\ HeadSeq' \in Nat /\ HeadSeq <= HeadSeq'
  BY SyncerFrame, HeadGrows DEF learnerVars
<1>2. \A p \in pending' : p.base \in Nat /\ p.base <= HeadSeq
  BY <1>1 DEF SessionInv, AdmissionInv, AdmissionTypeOK, Proposal
<1>3. \A p \in pending' : p.base <= HeadSeq'
  BY <1>1, <1>2
<1>4. MarkersFirst'
  BY <1>1 DEF SessionInv, MarkersFirst
<1> QED
  BY <1>1, <1>3, <1>4 DEF SessionInv

(* The proposals of the log are typed as the mailboxes are. *)
LEMMA PublishedTyped ==
    ASSUME AdmissionInv
    PROVE  Published \subseteq Proposal
<1>1. \A i \in 1..HeadSeq : log[i] \in Entry
  BY DEF AdmissionInv, AdmissionTypeOK, HeadSeq
<1>2. \A i \in 1..HeadSeq : log[i].selected \subseteq Proposal
  BY <1>1 DEF Entry
<1> QED
  BY <1>2 DEF Published, Consumed, AdmissionInv, AdmissionTypeOK

LEMMA PublishedLearner ==
    ASSUME LearnerAssumption, AdmissionInv, TypeOK, SessionInv, PublishedInv,
           NEW l \in Learner, LearnerAct(l)
    PROVE  PublishedInv'
<1>1. Consumed(HeadSeq)' = Consumed(HeadSeq)
  BY LearnerFrame DEF Consumed, HeadSeq
<1>2. /\ session[l] \in Nat /\ sent[l] \in Nat
      /\ \A p \in Published : p.session \in Nat /\ p.seq \in Nat /\ p.learner \in Learner
  BY PublishedTyped DEF TypeOK, Proposal
<1>3. \/ session'[l] = session[l] /\ (lpc'[l] \notin Idle => lpc[l] \notin Idle)
      \/ session'[l] = session[l] + 1
  BY DEF LearnerAct, LearnerStep, Boot, BootLoad, Adopt, AdoptLoad, LoadFails,
       WaitSeesStop, LoopEndsOnStop, BeginInterval, EmptyInterval, PublishMarker,
       PublishMeta, LearnerGivesUp, Exit, BeatEarly, SkipUpload, Crash, Goto, TypeOK,
       learnerVars, Idle, Gone
<1>4. lpc'[l] \notin Idle =>
          \/ sent'[l] = sent[l] /\ ~PublishMeta(l)
          \/ sent'[l] = sent[l] + 1 /\ PublishMeta(l)
  BY DEF LearnerAct, LearnerStep, Boot, BootLoad, Adopt, AdoptLoad, LoadFails,
       WaitSeesStop, LoopEndsOnStop, BeginInterval, EmptyInterval, PublishMarker,
       PublishMeta, LearnerGivesUp, Exit, BeatEarly, SkipUpload, Crash, Goto, TypeOK,
       learnerVars, Idle, Gone
<1>5. ASSUME NEW p \in Published
      PROVE  /\ p.session <= session'[p.learner]
             /\ p.session = session'[p.learner] /\ lpc'[p.learner] \notin Idle =>
                    p.seq <= sent'[p.learner]
  <2>1. /\ p.session <= session[p.learner]
        /\ p.session = session[p.learner] /\ lpc[p.learner] \notin Idle =>
               p.seq <= sent[p.learner]
    BY <1>5 DEF PublishedInv
  <2>2. CASE p.learner = l
    BY <1>2, <1>3, <1>4, <1>5, <2>1, <2>2
  <2>3. CASE p.learner # l
    BY <1>2, <1>5, <2>1, <2>3, OthersKept
  <2> QED
    BY <2>2, <2>3
<1>6. CASE Published' \subseteq Published
  BY <1>5, <1>6 DEF PublishedInv
<1>7. CASE PublishMeta(l)
  <2>1. PICK n \in Proposal :
            /\ pending' = pending \cup {n}
            /\ n.learner = l /\ n.session = session[l] /\ n.seq = sent[l] + 1
    BY <1>7, NewProposal
  <2>2. Published' = Published \cup {n}
    BY <1>1, <2>1 DEF Published
  <2>3. session'[l] = session[l] /\ sent'[l] = sent[l] + 1 /\ lpc[l] \notin Idle
    BY <1>7 DEF PublishMeta, TypeOK, Idle, Gone
  <2>4. \A p \in Published :
            ~(p.learner = n.learner /\ p.session = n.session /\ p.seq = n.seq)
    BY <1>2, <2>1, <2>3 DEF PublishedInv
  <2>5. /\ n.session <= session'[n.learner]
        /\ n.seq <= sent'[n.learner]
    BY <1>2, <2>1, <2>3
  <2> QED
    BY <1>5, <2>2, <2>4, <2>5 DEF PublishedInv
<1> QED
  BY <1>1, <1>6, <1>7, LearnerMail DEF Published

LEMMA PublishedSyncer ==
    ASSUME AdmissionInv, TypeOK, PublishedInv, SyncerAct
    PROVE  PublishedInv'
<1>1. UNCHANGED <<lpc, session, sent>> /\ pending' \subseteq pending
  BY SyncerFrame DEF learnerVars
<1>2. Consumed(HeadSeq)' \subseteq Consumed(HeadSeq) \cup picked
  <2>1. CASE log' = log
    BY <2>1 DEF Consumed, HeadSeq
  <2>2. CASE CommitControl
    BY <2>2, ConsumedGrows DEF CommitControl, Control, AdmissionInv, AdmissionTypeOK
  <2>3. CASE CommitSelection(picked, Cursor)
    BY <2>3, ConsumedGrows DEF CommitSelection, Optimizer, AdmissionInv, AdmissionTypeOK
  <2> QED
    BY <2>1, <2>2, <2>3, SyncerLog
<1>3. Published' \subseteq Published
  BY <1>1, <1>2 DEF Published, TypeOK
<1> QED
  BY <1>1, <1>3 DEF PublishedInv

-----------------------------------------------------------------------------
(* Bases of one session. *)
LEMMA FreshLearner ==
    ASSUME AdmissionInv, TypeOK, SyncerInv, SessionInv, PublishedInv, FreshInv,
           NEW l \in Learner, LearnerAct(l)
    PROVE  FreshInv'
<1>1. mode' = mode /\ stopFile' = stopFile
  BY LearnerFrame
<1>2. /\ session[l] \in Nat /\ sent[l] \in Nat
      /\ adopted[l] \in 0..HeadSeq /\ latest \in 0..HeadSeq /\ HeadSeq \in Nat
      /\ \A p \in pending : /\ p.session \in Nat /\ p.seq \in Nat /\ p.base \in Nat
                            /\ p.learner \in Learner /\ p \in Published
  <2>1. HeadSeq \in Nat /\ pending \subseteq Proposal
    BY CountersTyped DEF TypeOK, AdmissionTypeOK
  <2>2. session[l] \in Nat /\ sent[l] \in Nat
    BY DEF TypeOK
  <2>3. adopted[l] \in 0..HeadSeq /\ latest \in 0..HeadSeq
    BY DEF TypeOK
  <2> QED
    BY <2>1, <2>2, <2>3 DEF Proposal, Published
<1>3. ASSUME NEW p \in pending, mode.adopt, p.session = session'[p.learner],
             lpc'[p.learner] \notin Idle
      PROVE  /\ p.base <= adopted'[p.learner]
             /\ Fresh(p.learner)' => p.base < adopted'[p.learner]
  <2>1. CASE p.learner # l
    <3>1. /\ lpc'[p.learner] = lpc[p.learner] /\ session'[p.learner] = session[p.learner]
          /\ adopted'[p.learner] = adopted[p.learner]
      BY <1>2, <2>1, OthersKept
    <3>2. Fresh(p.learner)' = Fresh(p.learner)
      BY <1>1, <3>1 DEF Fresh
    <3> QED
      BY <1>3, <3>1, <3>2 DEF FreshInv
  <2>2. CASE p.learner = l
    <3>1. CASE Boot(l)
      BY <1>2, <1>3, <2>2, <3>1 DEF Boot, PublishedInv, TypeOK
    <3>2. CASE ~Boot(l)
      <4>1. session'[l] = session[l] /\ lpc[l] \notin Idle
        BY <1>3, <2>2, <3>2 DEF LearnerAct, LearnerStep, BootLoad, Adopt, AdoptLoad, LoadFails, WaitSeesStop, LoopEndsOnStop, BeginInterval, EmptyInterval, PublishMarker, PublishMeta, LearnerGivesUp, Exit, BeatEarly, SkipUpload, Crash, Goto, TypeOK, learnerVars, Idle, Gone
      <4>2. p.base <= adopted[l] /\ (Fresh(l) => p.base < adopted[l])
        BY <1>3, <2>2, <4>1 DEF FreshInv
      <4>3. CASE Adopt(l)
        <5>1. latest > adopted[l] /\ adopted'[l] = latest
          BY <1>2, <4>3, NewerIsLater DEF Adopt, TypeOK
        <5> QED
          BY <1>2, <2>2, <4>2, <5>1
      <4>4. CASE ~Adopt(l)
        <5>1. adopted'[l] = adopted[l]
          BY <1>3, <2>2, <3>2, <4>4 DEF LearnerAct, LearnerStep, BootLoad, AdoptLoad, LoadFails, WaitSeesStop, LoopEndsOnStop, BeginInterval, EmptyInterval, PublishMarker, PublishMeta, LearnerGivesUp, Exit, BeatEarly, SkipUpload, Crash, Goto, TypeOK, learnerVars, Idle, Gone
        <5>2. mode.adopt /\ lpc'[l] \notin Idle
          BY <1>3, <2>2
        <5>3. CASE lpc'[l] = lpc[l]
          BY <1>1, <1>2, <2>2, <4>2, <5>1, <5>3 DEF Fresh
        <5>4. CASE BootLoad(l) \/ AdoptLoad(l) \/ EmptyInterval(l) \/ SkipUpload(l)
                   \/ PublishMarker(l) \/ BeginInterval(l)
          <6>1. Fresh(l)
            BY <5>4 DEF BootLoad, AdoptLoad, EmptyInterval, SkipUpload, PublishMarker,
                        BeginInterval, StopRequested, Fresh
          <6> QED
            BY <1>2, <2>2, <4>2, <5>1, <6>1
        <5>5. CASE WaitSeesStop(l) \/ PublishMeta(l)
          <6>1. ~Fresh(l)'
            BY <1>1, <5>2, <5>5 DEF WaitSeesStop, PublishMeta, Goto, Fresh, TypeOK
          <6> QED
            BY <2>2, <4>2, <5>1, <6>1
        <5>6. CASE LoadFails(l) \/ LoopEndsOnStop(l) \/ LearnerGivesUp(l) \/ Crash(l)
          BY <5>2, <5>6 DEF LoadFails, LoopEndsOnStop, LearnerGivesUp, Crash, Exit, Goto,
                            TypeOK, Idle, Gone
        <5>7. BeatEarly(l) => lpc' = lpc
          BY DEF BeatEarly, learnerVars
        <5> QED
          BY <3>2, <4>4, <5>3, <5>4, <5>5, <5>6, <5>7 DEF LearnerAct, LearnerStep
      <4> QED
        BY <4>3, <4>4
    <3> QED
      BY <3>1, <3>2
  <2> QED
    BY <2>1, <2>2
<1>4. CASE pending' \subseteq pending
  <2>1. IntervalsDisjoint'
    BY <1>1, <1>4 DEF FreshInv, IntervalsDisjoint
  <2> QED
    BY <1>1, <1>3, <1>4, <2>1 DEF FreshInv
<1>5. CASE PublishMeta(l)
  <2>1. PICK n \in Proposal :
            /\ pending' = pending \cup {n}
            /\ n.learner = l /\ n.session = session[l] /\ n.seq = sent[l] + 1
            /\ n.base = adopted[l]
    BY <1>5, NewProposal
  <2>2. /\ session' = session /\ adopted' = adopted /\ lpc[l] = "marked"
        /\ mode.adopt => lpc'[l] = "waiting"
    BY <1>5 DEF PublishMeta, Goto, TypeOK
  <2>3. \A p \in pending : p.learner = l /\ p.session = session[l] =>
            p.seq <= sent[l] /\ (mode.adopt => p.base < adopted[l])
    BY <1>2, <2>2 DEF PublishedInv, FreshInv, Fresh, Idle, Gone
  <2>4. IntervalsDisjoint'
    <3>1. \A p \in pending : p.learner = n.learner /\ p.session = n.session =>
              /\ p.seq # n.seq /\ ~(n.seq < p.seq)
              /\ mode.adopt => p.base < n.base
      BY <1>2, <2>1, <2>3
    <3> QED
      BY <1>1, <2>1, <3>1 DEF FreshInv, IntervalsDisjoint
  <2>5. mode.adopt => ~Fresh(l)' /\ n.base <= adopted'[l]
    BY <1>2, <2>1, <2>2 DEF Fresh
  <2> QED
    BY <1>1, <1>2, <1>3, <2>1, <2>4, <2>5 DEF FreshInv
<1> QED
  BY <1>4, <1>5, LearnerMail

LEMMA FreshSyncer ==
    ASSUME TypeOK, SyncerInv, FreshInv, SyncerAct
    PROVE  FreshInv'
<1>1. UNCHANGED <<mode, lpc, session, adopted>> /\ pending' \subseteq pending
  BY SyncerFrame DEF learnerVars
<1>2. stopFile' = 0 => stopFile = 0
  BY DEF SyncerAct, SyncerStep, Start, Pick, Commit, SaveWeights, PublishLatest, StepsDone,
         CommitStop, PublishStop, CleanupSuccess, Scan, SyncerGivesUp, Takeover, exports,
         SyncerInv, Over
<1>3. \A k : Fresh(k)' => Fresh(k)
  BY <1>1, <1>2 DEF Fresh
<1> QED
  BY <1>1, <1>3 DEF FreshInv, IntervalsDisjoint

-----------------------------------------------------------------------------
(* The selection. *)
LEMMA PickedLearner ==
    ASSUME PickedInv, NEW l \in Learner, LearnerAct(l)
    PROVE  PickedInv'
<1>1. log' = log /\ spc' = spc /\ picked' = picked
  BY LearnerFrame
<1> QED
  BY <1>1 DEF PickedInv, Eligible, Consumed, SameLineage, Lag, VersionAt, Cursor, CursorAt,
              CountAt, HeadSeq

LEMMA SelectionsFit ==
    ASSUME NEW n, NEW f, NEW S \in Selections(n, f)
    PROVE  /\ \A p \in S : p.fragment = f /\ Eligible(p, n)
           /\ \A p, q \in S : p.learner = q.learner => p = q
BY DEF Selections

LEMMA PickedSyncer ==
    ASSUME AdmissionAssumption, AdmissionInv, PickedInv, SyncerInv, SyncerAct
    PROVE  PickedInv'
<1>1. CASE log' = log /\ picked' = picked /\ spc' \in {"scanned", "picked"}
           /\ spc = "scanned" /\ (spc' = "picked" => picked # {})
  BY <1>1 DEF PickedInv, Eligible, Consumed, SameLineage, Lag, VersionAt, Cursor, CursorAt,
              CountAt, HeadSeq
<1>2. CASE Pick
  <2>1. picked # {}
    <3>1. Cardinality({}) = 0
      BY FS_EmptySet
    <3> QED
      BY <1>2, <3>1 DEF Pick, Enough, AdmissionAssumption
  <2> QED
    BY <1>1, <1>2, <2>1 DEF Pick
<1>3. CASE Scan
  <2>1. log' = log /\ spc' = "scanned" /\ picked' \in Selections(HeadSeq, Cursor)
    BY <1>3 DEF Scan
  <2>2. /\ \A p \in picked' : p.fragment = Cursor /\ Eligible(p, HeadSeq)
        /\ \A p, q \in picked' : p.learner = q.learner => p = q
    BY <2>1, SelectionsFit
  <2> QED
    BY <2>1, <2>2 DEF PickedInv, Eligible, Consumed, SameLineage, Lag, VersionAt, Cursor,
                      CursorAt, CountAt, HeadSeq
<1>4. CASE ~Pick /\ ~Scan
  <2>1. spc' \notin {"scanned", "picked"}
    BY <1>4 DEF SyncerAct, SyncerStep, Start, Commit, SaveWeights, PublishLatest, StepsDone,
           CommitStop, PublishStop, CleanupSuccess, SyncerGivesUp, Takeover
  <2> QED
    BY <2>1 DEF PickedInv
<1> QED
  BY <1>2, <1>3, <1>4

(* What the syncer holds when it commits, prepare_transition accepts: the   *)
(* catalog admits a consumed interval's number again, but only for another  *)
(* base, and there is one content under a number.                           *)
LEMMA PickedPrepares ==
    ASSUME AdmissionInv, TypeOK, PublishedInv, PickedInv
    PROVE  CollectedPrepares
<1> SUFFICES ASSUME spc = "picked"
             PROVE  Prepares(picked, Cursor)
  BY DEF CollectedPrepares
<1>1. /\ picked # {}
      /\ \A p \in picked : p.fragment = Cursor /\ Eligible(p, HeadSeq)
      /\ \A p, q \in picked : p.learner = q.learner => p = q
  BY DEF PickedInv
<1>2. ASSUME NEW p \in picked, NEW c \in Consumed(HeadSeq), SameLineage(c, p)
      PROVE  c.seq < p.seq /\ c.base # p.base
  <2>1. c.seq <= p.seq /\ c.base # p.base
    BY <1>1, <1>2 DEF Eligible
  <2>2. p \in Published /\ c \in Published
    BY DEF Published, TypeOK
  <2>3. c.seq # p.seq
    BY <1>2, <2>1, <2>2 DEF PublishedInv, SameLineage
  <2>4. c.seq \in Nat /\ p.seq \in Nat
    BY <2>2, PublishedTyped DEF Proposal
  <2> QED
    BY <2>1, <2>3, <2>4
<1> QED
  BY <1>1, <1>2 DEF Prepares, Eligible

-----------------------------------------------------------------------------
LEMMA RunStart ==
    ASSUME AdmissionAssumption, LearnerAssumption, Init
    PROVE  IInv
<1>1. AdmissionInv
  BY AdmissionStart DEF Init
<1>2. /\ log = <<>> /\ HeadSeq = 0 /\ pending = {} /\ Consumed(HeadSeq) = {}
      /\ Published = {}
  BY DEF Init, AdmissionInit, HeadSeq, Consumed, Published
<1>3. TypeOK
  <2>1. 0 \in Fragment /\ 0 \in 0..MaxSessions
    BY DEF AdmissionAssumption, LearnerAssumption, Fragment
  <2>2. NoWork \in [scheduled : Fragment, fragment : Fragment, base : Nat]
    BY <2>1 DEF NoWork
  <2> QED
    BY <1>1, <1>2, <2>1, <2>2 DEF Init, TypeOK, AdmissionInv, Phase, SyncerPhase
<1>4. SyncerInv /\ PickedInv
  BY DEF Init, SyncerInv, PickedInv, Over
<1>5. ReadersInv
  BY DEF Init, ReadersInv, ExportsKept
<1>6. SessionInv
  BY <1>2 DEF Init, SessionInv, MarkersFirst, LearnerAssumption
<1>7. PublishedInv /\ FreshInv
  BY <1>2 DEF PublishedInv, FreshInv, IntervalsDisjoint
<1> QED
  BY <1>1, <1>3, <1>4, <1>5, <1>6, <1>7 DEF IInv

LEMMA Stutter ==
    ASSUME IInv, UNCHANGED vars
    PROVE  IInv'
<1>1. /\ log' = log /\ pending' = pending /\ mode' = mode /\ markers' = markers
      /\ weights' = weights /\ latest' = latest /\ stopFile' = stopFile /\ done' = done
      /\ lpc' = lpc /\ session' = session /\ sent' = sent /\ skipped' = skipped
      /\ adopted' = adopted /\ work' = work
      /\ spc' = spc /\ picked' = picked /\ reason' = reason
  BY DEF vars, exports, learnerVars, syncer
<1>2. /\ HeadSeq' = HeadSeq /\ Consumed(HeadSeq)' = Consumed(HeadSeq)
      /\ Published' = Published
  BY <1>1 DEF HeadSeq, Consumed, Published
<1>3. AdmissionInv'
  BY <1>1, PublishStep DEF IInv, AdmissionInv, AdmissionTypeOK
<1>4. TypeOK'
  BY <1>1, <1>2, <1>3 DEF IInv, TypeOK, AdmissionInv
<1>5. SyncerInv' /\ ReadersInv'
  BY <1>1, <1>2 DEF IInv, SyncerInv, ReadersInv, ExportsKept, Successful
<1>6. SessionInv'
  BY <1>1, <1>2 DEF IInv, SessionInv, MarkersFirst
<1>7. PublishedInv' /\ FreshInv'
  BY <1>1, <1>2 DEF IInv, PublishedInv, FreshInv, Fresh, IntervalsDisjoint
<1>8. PickedInv'
  BY <1>1 DEF IInv, PickedInv, Eligible, Consumed, SameLineage, Lag, VersionAt, Cursor,
              CursorAt, CountAt, HeadSeq
<1> QED
  BY <1>3, <1>4, <1>5, <1>6, <1>7, <1>8 DEF IInv

(* Whatever crashes, restarts, takeovers and deletions happen, and however  *)
(* the run is configured: the log stays readable, the directory consistent, *)
(* the sessions in order.                                                   *)
THEOREM RunInvariance == Spec => []IInv
<1>1. Init => IInv
  BY RunStart, AdmissionAssumption, LearnerAssumption
<1>2. IInv /\ [Next]_vars => IInv'
  <2> SUFFICES ASSUME IInv, [Next]_vars
               PROVE  IInv'
    OBVIOUS
  <2>1. AdmissionInv'
    BY RunIsAdmission, AdmissionStep, AdmissionAssumption DEF IInv
  <2>2. ASSUME NEW l \in Learner, LearnerAct(l)
        PROVE  IInv'
    <3>1. TypeOK'
      BY <2>1, <2>2, LearnerTyped, AdmissionAssumption, LearnerAssumption DEF IInv
    <3>2. SyncerInv' /\ ReadersInv'
      BY <2>2, SyncerInvLearner, ReadersLearner DEF IInv
    <3>3. SessionInv' /\ PublishedInv'
      BY <2>2, SessionLearner, PublishedLearner, LearnerAssumption DEF IInv
    <3>4. FreshInv' /\ PickedInv'
      BY <2>2, FreshLearner, PickedLearner DEF IInv
    <3> QED
      BY <2>1, <3>1, <3>2, <3>3, <3>4 DEF IInv
  <2>3. ASSUME SyncerAct
        PROVE  IInv'
    <3>1. TypeOK'
      BY <2>1, <2>3, SyncerTyped, AdmissionAssumption DEF IInv
    <3>2. SyncerInv' /\ ReadersInv'
      BY <2>3, SyncerInvKept, ReadersSyncer, LearnerAssumption DEF IInv
    <3>3. SessionInv' /\ PublishedInv'
      BY <2>3, SessionSyncer, PublishedSyncer DEF IInv
    <3>4. FreshInv' /\ PickedInv'
      BY <2>3, FreshSyncer, PickedSyncer, AdmissionAssumption DEF IInv
    <3> QED
      BY <2>1, <3>1, <3>2, <3>3, <3>4 DEF IInv
  <2>4. CASE UNCHANGED vars
    BY <2>4, Stutter
  <2> QED
    BY <2>2, <2>3, <2>4 DEF Next, LearnerAct, SyncerAct
<1> QED
  BY <1>1, <1>2, PTL DEF Spec

(* Types of the log, the directory, the learners and the syncer. *)
THEOREM TypeCorrect == Spec => []TypeOK
<1>1. IInv => TypeOK
  BY DEF IInv
<1> QED
  BY <1>1, RunInvariance, PTL

(* prepare_transition refuses no selection of the catalog, so that no run   *)
(* ends with an error because the two disagree, although the catalog bounds *)
(* the numbers of a lineage more loosely.                                   *)
THEOREM SelectionsPrepare == Spec => []CollectedPrepares
<1>1. IInv => CollectedPrepares
  BY PickedPrepares DEF IInv
<1> QED
  BY <1>1, RunInvariance, PTL

(* Through any restarts and takeovers a session has one content under each  *)
(* number and, if it adopts after each upload, no two from one base.        *)
THEOREM Intervals == Spec => []IntervalsDisjoint
<1>1. IInv => IntervalsDisjoint
  BY DEF IInv, FreshInv
<1> QED
  BY <1>1, RunInvariance, PTL

(* What the catalog can find, the next session finds a marker for. *)
THEOREM Markers == Spec => []MarkersFirst
<1>1. IInv => MarkersFirst
  BY DEF IInv, SessionInv
<1> QED
  BY <1>1, RunInvariance, PTL

(* Retention deletes no weights that latest.json names, and none that a     *)
(* learner is about to load before the run is over and successful, for any  *)
(* keep_last_global_versions.                                               *)
THEOREM Exports == Spec => []ExportsKept
<1>1. IInv => ExportsKept
  BY DEF IInv, ReadersInv
<1> QED
  BY <1>1, RunInvariance, PTL

(* Every step of the runtime is one the admission rules allow, or leaves    *)
(* log and mailboxes alone.                                                 *)
THEOREM Refines == Spec => ImplementsAdmission
<1>1. Init => AdmissionInit
  BY DEF Init
<1>2. IInv /\ [Next]_vars => [PublishAny \/ CommitAny]_<<log, pending>>
  BY RunIsAdmission, AdmissionAssumption DEF IInv
<1> QED
  BY <1>1, <1>2, RunInvariance, PTL DEF Spec, AdmissionSpec, ImplementsAdmission

(* So replay accepts every commit a run makes. *)
COROLLARY RunReplays == Spec => []Replayable
BY Refines, CommitsReplay, PTL DEF ImplementsAdmission

-----------------------------------------------------------------------------
(* Why a run ends short. *)

(* A quorum can be reached at all, or there are no steps: config.py cuts    *)
(* quorum_min and quorum_max to a number of learners on the command line.   *)
Quorate ==
    /\ IsFiniteSet(Learner)
    /\ QuorumMin <= Cardinality(Learner) /\ QuorumMin <= QuorumMax

AfterStop == {"stopped", "stopSaved"} \cup {"exported"} \cup Over

(* The head the run was given up at: the commit of the stop is not counted. *)
Tip == IF spc \in AfterStop THEN HeadSeq - 1 ELSE HeadSeq

(* Held, before there is a stop. *)
HeldAt(l, n) ==
    \E m \in Uncommitted(l, n) : m.session < session[l] /\ Unconsumable(m, n)

CauseAt(n) ==
    \E l \in Learner :
        \/ lpc[l] = "lost"
        \/ HeldAt(l, n)
        \/ lpc[l] = "exited" /\ Spent(Trained(l))

(* A learner that waits after an upload has that upload in its mailbox, one *)
(* that recovers has left an interval uncommitted, and a learner that waits *)
(* or has left says in its heartbeat whether it has made its local steps.   *)
MailInv ==
    /\ \A l \in Learner :
           /\ lpc[l] = "waiting" /\ stopFile = 0 =>
                  \E p \in pending : /\ p.learner = l /\ p.session = session[l]
                                     /\ p.seq = sent[l] /\ p.base = adopted[l]
           /\ lpc[l] = "recovering" =>
                  \E m \in Uncommitted(l, adopted[l]) : m.session < session[l]
           /\ lpc[l] # "off" => session[l] >= 1
           /\ lpc[l] \in {"waiting", "exited"} => (l \in done <=> Spent(Trained(l)))
    /\ \A m \in markers :
           /\ 1 <= m.session /\ m.session <= session[m.learner]
           /\ lpc[m.learner] = "booting" => m.session < session[m.learner]

(* latest.json names the head whenever the syncer waits for proposals, the  *)
(* commit of the stop is the last one and consumes nothing.                 *)
TipInv ==
    /\ spc \in {"loop", "scanned", "picked", "stopping"} => latest = HeadSeq
    /\ stopFile # 0 => stopFile = HeadSeq
    /\ spc \in AfterStop => HeadSeq >= 1 /\ log[HeadSeq].selected = {}
    /\ reason = "none" <=> spc \notin {"stopping"} \cup AfterStop
    /\ reason # "error"
    /\ reason = "stop_after_outer_steps" => CountAt(HeadSeq) >= StopAfter

(* Nobody gives up without a cause, and a cause stays one.                  *)
CauseInv ==
    /\ reason = "none" /\ (\E l \in Learner : lpc[l] = "exited") => CauseAt(HeadSeq)
    /\ reason = "no_progress_timeout" => CauseAt(Tip)

(* After the syncer has given up: a learner that has restarted or is gone   *)
(* other than by leaving its loop; one that had steps left, and leaves      *)
(* without them or goes on from the export of the stop; or all have made    *)
(* their steps and nothing they left can be merged.                         *)
Apart(l) ==
    session[l] >= 2 \/ (lpc[l] \in {"off", "lost", "failed"} /\ session[l] >= 1)

WentOn(l) ==
    \/ lpc[l] # "off" /\ work[l].base > Tip /\ adopted[l] > Tip
    \/ /\ ~Spent(Trained(l)) /\ l \notin done
       /\ \/ lpc[l] = "waiting" /\ adopted[l] >= Tip
          \/ lpc[l] \in {"loading", "ready"} /\ (adopted[l] > Tip \/ stopFile # 0)
          \/ lpc[l] = "exited"

Drained ==
    /\ \A l \in Learner :
           Spent(Trained(l)) /\ lpc[l] \in {"waiting", "loading", "ready", "exited"}
    /\ \A p \in pending : ~(p.fragment = CursorAt(Tip) /\ Eligible(p, Tip))

SettledInv ==
    reason = "no_progress_timeout" =>
        \/ mode.limit = 0
        \/ Drained
        \/ \E l \in Learner : Apart(l) \/ WentOn(l)

EndInv == MailInv /\ TipInv /\ CauseInv /\ SettledInv

-----------------------------------------------------------------------------
(* Appended entries hide nothing: what was known of a prefix stays known,   *)
(* and what is ineligible stays so.                                         *)
LEMMA PrefixStays ==
    ASSUME log \in Seq(Entry), NEW e, log' = Append(log, e),
           NEW n \in 0..HeadSeq
    PROVE  /\ Consumed(n)' = Consumed(n)
           /\ CursorAt(n)' = CursorAt(n)
           /\ \A l : CommittedIntervals(n)' = CommittedIntervals(n)
           /\ \A p : p.base \in 0..HeadSeq => (Eligible(p, n)' <=> Eligible(p, n))
<1>1. HeadSeq \in Nat /\ \A i \in 1..HeadSeq : log'[i] = log[i]
  BY PrefixKept
<1>2. \A i \in 1..n : log'[i] = log[i]
  <2>1. \A i \in 1..n : i \in 1..HeadSeq
    BY <1>1
  <2> QED
    BY <1>1, <2>1
<1>3. Consumed(n)' = Consumed(n)
  BY <1>2 DEF Consumed
<1>4. CountAt(n)' = CountAt(n) /\ \A m \in 0..HeadSeq : \A g : VersionAt(m, g)' = VersionAt(m, g)
  BY PrefixKept
<1>5. ASSUME NEW p, p.base \in 0..HeadSeq
      PROVE  Eligible(p, n)' <=> Eligible(p, n)
  BY <1>3, <1>4, <1>5 DEF Eligible, Lag, SameLineage
<1> QED
  BY <1>3, <1>4, <1>5 DEF CursorAt, CommittedIntervals

LEMMA IneligibleStays ==
    ASSUME AdmissionAssumption, log \in Seq(Entry), NEW e, log' = Append(log, e),
           \A g \in Fragment : e.versions[g] >= VersionAt(HeadSeq, g),
           e.versions \in [Fragment -> Nat],
           NEW p \in Proposal, p.base <= HeadSeq, ~Eligible(p, HeadSeq)
    PROVE  ~Eligible(p, HeadSeq)'
<1>1. PICK h \in Nat : h = HeadSeq
  BY CountersTyped
<1>2. /\ HeadSeq' = h + 1 /\ log'[h + 1] = e
      /\ \A n \in 0..h : \A g : VersionAt(n, g)' = VersionAt(n, g)
  BY <1>1, PrefixKept
<1>3. Consumed(HeadSeq) \subseteq Consumed(HeadSeq)'
  BY ConsumedGrows
<1>4. p.base \in 0..h /\ p.fragment \in Fragment
  BY <1>1 DEF Proposal
<1>5. VersionAt(HeadSeq, p.fragment)' >= VersionAt(h, p.fragment)
  BY <1>1, <1>2, <1>4 DEF VersionAt
<1>6. /\ VersionAt(h, p.fragment) \in Nat /\ VersionAt(p.base, p.fragment) \in Nat
      /\ VersionAt(p.base, p.fragment)' = VersionAt(p.base, p.fragment)
  BY <1>1, <1>2, <1>4, CountersTyped
<1>10. VersionAt(HeadSeq, p.fragment)' \in Nat
  BY <1>1, <1>2, <1>4 DEF VersionAt
<1>7. Lag(p, HeadSeq)' >= Lag(p, HeadSeq)
  BY <1>1, <1>5, <1>6, <1>10 DEF Lag
<1>8. Lag(p, HeadSeq) \in Int /\ Lag(p, HeadSeq)' \in Int /\ MaxFragment \in Nat /\ MaxGlobal \in Nat
  BY <1>1, <1>6, <1>10 DEF Lag, AdmissionAssumption
<1>9. ASSUME Eligible(p, HeadSeq)' PROVE FALSE
  <2>1. HeadSeq - p.base <= MaxGlobal
    BY <1>1, <1>2, <1>4, <1>8, <1>9 DEF Eligible
  <2>2. Lag(p, HeadSeq) <= MaxFragment
    BY <1>7, <1>8, <1>9 DEF Eligible
  <2>3. p \notin Consumed(HeadSeq)'
        /\ \A c \in Consumed(HeadSeq)' : SameLineage(c, p) => c.seq <= p.seq /\ c.base # p.base
    BY <1>9 DEF Eligible, SameLineage
  <2>4. p \notin Consumed(HeadSeq)
        /\ \A c \in Consumed(HeadSeq) : SameLineage(c, p) => c.seq <= p.seq /\ c.base # p.base
    BY <1>3, <2>3
  <2> QED
    BY <2>1, <2>2, <2>4 DEF Eligible
<1> QED
  BY <1>9

-----------------------------------------------------------------------------
(* The catalog finds a quorum where there is one. *)

LEMMA LeastNumber ==
    ASSUME NEW T \in SUBSET Nat, T # {}
    PROVE  \E x \in T : \A y \in T : x <= y
<1> DEFINE F == {1..t : t \in T}
<1>1. \A t \in T : IsFiniteSet(1..t) /\ 1..t \in SUBSET Nat
  BY FS_Interval
<1>2. F \subseteq FiniteSubsetsOf(Nat) /\ F # {}
  BY <1>1 DEF FiniteSubsetsOf
<1>3. PICK X \in F : \A Y \in F : ~(<<Y, X>> \in StrictSubsetOrdering(Nat))
  <2> HIDE DEF F
  <2> QED
    BY <1>2, WFMin, FS_StrictSubsetOrderingWellFounded
<1>4. PICK x \in T : X = 1..x
  OBVIOUS
<1>5. ASSUME NEW y \in T, y < x
      PROVE  FALSE
  <2>1. x \in 1..x /\ x \notin 1..y
    BY <1>5
  <2>2. \A i \in 1..y : i \in 1..x
    BY <1>5
  <2>3. 1..y \subseteq 1..x /\ 1..y # 1..x
    BY <2>1, <2>2
  <2>4. <<1..y, X>> \in StrictSubsetOrdering(Nat)
    BY <1>1, <1>4, <2>3, Zenon DEF StrictSubsetOrdering
  <2> QED
    BY <1>3, <2>4
<1> QED
  BY <1>5

(* A finite set has subsets of every smaller size. *)
LEMMA SmallerSubset ==
    ASSUME NEW H, IsFiniteSet(H), NEW k \in Nat, k <= Cardinality(H)
    PROVE  \E D \in SUBSET H : IsFiniteSet(D) /\ Cardinality(D) = k
<1>1. Cardinality(H) \in Nat
  BY FS_CardinalityType
<1>2. PICK f : f \in Bijection(1..Cardinality(H), H)
  BY FS_CardinalityType DEF ExistsBijection
<1>3. /\ f \in [1..Cardinality(H) -> H]
      /\ \A i, j \in 1..Cardinality(H) : f[i] = f[j] => i = j
  BY <1>2 DEF Bijection, Injection, IsInjective
<1> DEFINE D == {f[i] : i \in 1..k}
           g == [i \in 1..k |-> f[i]]
<1>4. \A i \in 1..k : i \in 1..Cardinality(H)
  BY <1>1
<1>5. D \in SUBSET H
  BY <1>3, <1>4
<1>6. g \in [1..k -> D] /\ \A i, j \in 1..k : g[i] = g[j] => i = j
  BY <1>3, <1>4
<1>7. \A d \in D : \E i \in 1..k : g[i] = d
  OBVIOUS
<1>8. g \in Bijection(1..k, D)
  BY <1>6, <1>7, Zenon DEF Bijection, Injection, Surjection, IsInjective
<1>9. IsFiniteSet(1..k) /\ Cardinality(1..k) = k
  BY FS_Interval
<1>10. IsFiniteSet(D) /\ Cardinality(D) = k
  <2> HIDE DEF D, g
  <2>1. ExistsBijection(1..k, D)
    BY <1>8 DEF ExistsBijection
  <2> QED
    BY <1>9, <2>1, FS_Bijection
<1> QED
  BY <1>5, <1>10

(* If the learners D have an eligible proposal each, the catalog makes a    *)
(* selection, of quorum_max or of at least as many as they are.             *)
LEMMA SelectionExists ==
    ASSUME AdmissionAssumption, IsFiniteSet(Learner), pending \in SUBSET Proposal,
           NEW n, NEW f, NEW D \in SUBSET Learner,
           \A l \in D : \E p \in pending :
               p.learner = l /\ p.fragment = f /\ Eligible(p, n)
    PROVE  \E S \in Selections(n, f) :
               /\ IsFiniteSet(S)
               /\ Cardinality(S) >= QuorumMax \/ Cardinality(S) >= Cardinality(D)
<1> DEFINE fits == {p \in pending : p.fragment = f /\ Eligible(p, n)}
           oldest == {p \in fits : \A q \in fits : q.learner = p.learner => p.seq <= q.seq}
           H == {p.learner : p \in oldest}
           k == IF Cardinality(H) < QuorumMax THEN Cardinality(H) ELSE QuorumMax
<1>1. \A p \in fits : p.learner \in Learner /\ p.seq \in Nat
  BY DEF Proposal
<1>2. ASSUME NEW l \in D
      PROVE  l \in H
  <2> DEFINE own == {p \in fits : p.learner = l}
             T == {p.seq : p \in own}
  <2>1. T \in SUBSET Nat /\ T # {}
    BY <1>1
  <2>2. PICK x \in T : \A y \in T : x <= y
    <3> HIDE DEF T
    <3> QED
      BY <2>1, LeastNumber
  <2>3. PICK p \in own : p.seq = x
    OBVIOUS
  <2>4. \A q \in fits : q.learner = p.learner => p.seq <= q.seq
    BY <2>2, <2>3
  <2>5. p \in oldest /\ p.learner = l
    BY <2>4
  <2> QED
    BY <2>5
<1>3. H \in SUBSET Learner /\ D \in SUBSET H
  BY <1>1, <1>2
<1>4. /\ IsFiniteSet(H) /\ Cardinality(H) \in Nat /\ Cardinality(D) \in Nat
      /\ Cardinality(D) <= Cardinality(H)
  <2> HIDE DEF H
  <2>1. IsFiniteSet(H)
    BY <1>3, FS_Subset
  <2>2. IsFiniteSet(D) /\ Cardinality(D) <= Cardinality(H)
    BY <1>3, <2>1, FS_Subset
  <2> QED
    BY <2>1, <2>2, FS_CardinalityType
<1>5. k \in Nat /\ k <= Cardinality(H)
  BY <1>4 DEF AdmissionAssumption
<1>6. PICK E \in SUBSET H : IsFiniteSet(E) /\ Cardinality(E) = k
  <2> HIDE DEF H, k
  <2> QED
    BY <1>4, <1>5, SmallerSubset
<1> DEFINE pick == [l \in E |-> CHOOSE p \in oldest : p.learner = l]
           S == {pick[l] : l \in E}
<1>7. \A l \in E : pick[l] \in oldest /\ pick[l].learner = l
  BY <1>6
<1>8. IsFiniteSet(S) /\ Cardinality(S) = k
  <2>1. pick \in [E -> S] /\ \A d \in S : \E l \in E : pick[l] = d
    OBVIOUS
  <2>2. \A i, j \in E : pick[i] = pick[j] => i = j
    <3> HIDE DEF pick
    <3> QED
      BY <1>7
  <2>3. pick \in Bijection(E, S)
    <3> HIDE DEF pick, S
    <3> QED
      BY <2>1, <2>2, Zenon DEF Bijection, Injection, Surjection, IsInjective
  <2> HIDE DEF pick, S
  <2>4. ExistsBijection(E, S)
    BY <2>3 DEF ExistsBijection
  <2> QED
    BY <1>6, <2>4, FS_Bijection
<1>9. S \in SUBSET oldest /\ \A p, q \in S : p.learner = q.learner => p = q
  <2> HIDE DEF pick, oldest
  <2> QED
    BY <1>7
<1>10. S \in Selections(n, f)
  <2> HIDE DEF pick, S
  <2> QED
    BY <1>8, <1>9 DEF Selections
<1>11. k >= QuorumMax \/ k >= Cardinality(D)
  BY <1>4 DEF AdmissionAssumption
<1> QED
  <2> HIDE DEF S, k
  <2> QED
    BY <1>8, <1>10, <1>11

-----------------------------------------------------------------------------
(* What learners do about the end of a run. *)

(* A process that is gone takes no step. *)
LEMMA GoneStays ==
    ASSUME LearnerAssumption, TypeOK, NEW l \in Learner, LearnerAct(l)
    PROVE  /\ lpc[l] \notin Gone
           /\ \A k \in Learner \ {l} :
                  /\ lpc'[k] = lpc[k] /\ session'[k] = session[k]
                  /\ sent'[k] = sent[k] /\ skipped'[k] = skipped[k]
                  /\ adopted'[k] = adopted[k] /\ work'[k] = work[k]
                  /\ k \in done' <=> k \in done
<1>1. lpc[l] \notin Gone
  BY DEF LearnerAct, LearnerStep, Boot, BootLoad, Adopt, AdoptLoad, LoadFails,
       WaitSeesStop, LoopEndsOnStop, BeginInterval, EmptyInterval, PublishMarker,
       PublishMeta, LearnerGivesUp, BeatEarly, SkipUpload, Crash, Gone, LearnerAssumption
<1>2. \A k \in Learner \ {l} : skipped'[k] = skipped[k]
  BY DEF LearnerAct, LearnerStep, Boot, BootLoad, Adopt, AdoptLoad, LoadFails,
       WaitSeesStop, LoopEndsOnStop, BeginInterval, EmptyInterval, PublishMarker,
       PublishMeta, LearnerGivesUp, Exit, BeatEarly, SkipUpload, Crash, TypeOK,
       learnerVars
<1>3. \A k \in Learner \ {l} : k \in done' <=> k \in done
  <2>1. done' = done \/ \E n : Heartbeat(l, n)
    BY DEF LearnerAct, LearnerStep, Boot, BootLoad, Adopt, AdoptLoad, LoadFails,
       WaitSeesStop, LoopEndsOnStop, BeginInterval, EmptyInterval, PublishMarker,
       PublishMeta, LearnerGivesUp, Exit, BeatEarly, SkipUpload, Crash
  <2> QED
    BY <2>1 DEF Heartbeat
<1> QED
  BY <1>1, <1>2, <1>3, OthersKept

(* Sessions are only started, and markers and proposals only added, those   *)
(* of the session of the learner.                                           *)
LEMMA OwnSession ==
    ASSUME LearnerAssumption, TypeOK, SessionInv, NEW l \in Learner, LearnerAct(l)
    PROVE  /\ session[l] \in Nat /\ session'[l] \in {session[l], session[l] + 1}
           /\ \A k \in Learner \ {l} : session'[k] = session[k] /\ session[k] \in Nat
           /\ markers \subseteq markers'
           /\ \A m \in markers' \ markers : m.learner = l /\ m.session = session[l]
           /\ \A p \in pending' \ pending : p.learner = l /\ p.session = session[l]
<1>1. \A k \in Learner : session[k] \in Nat
  BY LearnerAssumption DEF TypeOK, LearnerAssumption
<1>2. /\ session'[l] \in {session[l], session[l] + 1}
      /\ markers \subseteq markers'
      /\ \A m \in markers' \ markers : m.learner = l /\ m.session = session[l]
  BY DEF LearnerAct, LearnerStep, Boot, BootLoad, Adopt, AdoptLoad, LoadFails,
       WaitSeesStop, LoopEndsOnStop, BeginInterval, EmptyInterval, PublishMarker,
       PublishMeta, LearnerGivesUp, Exit, BeatEarly, SkipUpload, Crash, TypeOK,
       learnerVars
<1>3. \A p \in pending' \ pending : p.learner = l /\ p.session = session[l]
  BY LearnerMail, NewProposal
<1> QED
  BY <1>1, <1>2, <1>3, OthersKept

LEMMA MailLearner ==
    ASSUME LearnerAssumption, AdmissionInv, TypeOK, SessionInv, SyncerInv, MailInv,
           NEW l \in Learner, LearnerAct(l)
    PROVE  MailInv'
<1>1. /\ UNCHANGED <<log, mode, latest, stopFile>> /\ HeadSeq' = HeadSeq
      /\ \A n : Consumed(n)' = Consumed(n)
      /\ \A n : CommittedIntervals(n)' = CommittedIntervals(n)
      /\ \A n : Spent(n)' = Spent(n)
  BY LearnerFrame DEF HeadSeq, Consumed, CommittedIntervals, Spent
<1>2. /\ session[l] \in Nat /\ sent[l] \in Nat /\ skipped[l] \in Nat
      /\ lpc[l] \notin Gone
  BY GoneStays, LearnerAssumption DEF TypeOK, LearnerAssumption
<1>3. ASSUME NEW m \in markers'
      PROVE  /\ 1 <= m.session /\ m.session <= session'[m.learner]
             /\ lpc'[m.learner] = "booting" => m.session < session'[m.learner]
  <2>1. CASE m \in markers
    <3>1. /\ m.learner \in Learner /\ m.session \in Nat
          /\ 1 <= m.session /\ m.session <= session[m.learner]
          /\ lpc[m.learner] = "booting" => m.session < session[m.learner]
      BY <2>1 DEF MailInv, TypeOK, Marker
    <3>2. /\ session'[m.learner] \in Nat /\ session[m.learner] \in Nat
          /\ session[m.learner] <= session'[m.learner]
      BY <1>2, <3>1, OwnSession
    <3>3. CASE m.learner = l /\ lpc'[l] = "booting"
      <4>1. session'[l] = session[l] + 1 \/ (lpc[l] = "booting" /\ session'[l] = session[l])
        BY <3>3 DEF LearnerAct, LearnerStep, Boot, BootLoad, Adopt, AdoptLoad,
           LoadFails, WaitSeesStop, LoopEndsOnStop, BeginInterval, EmptyInterval,
           PublishMarker, PublishMeta, LearnerGivesUp, Exit, BeatEarly, SkipUpload, Crash, Goto, TypeOK,
           learnerVars
      <4> QED
        BY <1>2, <3>1, <3>3, <4>1
    <3>4. CASE m.learner = l /\ lpc'[l] # "booting"
      BY <3>1, <3>2, <3>4
    <3>5. CASE m.learner # l
      BY <3>1, <3>5, GoneStays
    <3> QED
      BY <3>3, <3>4, <3>5
  <2>2. CASE m \notin markers
    <3>1. m.learner = l /\ m.session = session[l]
      BY <2>2, OwnSession
    <3>2. lpc[l] = "interval" /\ lpc'[l] = "marked" /\ session' = session
      BY <2>2 DEF LearnerAct, LearnerStep, Boot, BootLoad, Adopt, AdoptLoad,
           LoadFails, WaitSeesStop, LoopEndsOnStop, BeginInterval, EmptyInterval,
           PublishMarker, PublishMeta, LearnerGivesUp, Exit, BeatEarly, SkipUpload, Crash, Goto, TypeOK
    <3> QED
      BY <1>2, <3>1, <3>2 DEF MailInv
  <2> QED
    BY <2>1, <2>2
<1>4. ASSUME NEW k \in Learner, lpc'[k] = "waiting", stopFile = 0
      PROVE  \E p \in pending' : /\ p.learner = k /\ p.session = session'[k]
                                  /\ p.seq = sent'[k] /\ p.base = adopted'[k]
  <2>1. CASE PublishMeta(l)
    <3>1. PICK n \in Proposal :
              /\ pending' = pending \cup {n}
              /\ n.learner = l /\ n.session = session[l] /\ n.seq = sent[l] + 1
              /\ n.base = adopted[l]
      BY <2>1, NewProposal
    <3>2. CASE k = l
      <4>1. session'[l] = session[l] /\ sent'[l] = sent[l] + 1 /\ adopted'[l] = adopted[l]
        BY <2>1 DEF PublishMeta, TypeOK
      <4> QED
        BY <3>1, <3>2, <4>1
    <3>3. CASE k # l
      BY <1>4, <3>1, <3>3, GoneStays DEF MailInv
    <3> QED
      BY <3>2, <3>3
  <2>2. CASE ~PublishMeta(l)
    <3>1. pending' = pending
      BY <1>4, <2>2, LearnerMail
    <3>2. CASE k = l
      <4>1. lpc[l] = "waiting" /\ UNCHANGED <<session, sent, adopted>>
        BY <1>4, <2>2, <3>2 DEF LearnerAct, LearnerStep, Boot, BootLoad, Adopt, AdoptLoad,
           LoadFails, WaitSeesStop, LoopEndsOnStop, BeginInterval, EmptyInterval,
           PublishMarker, LearnerGivesUp, Exit, BeatEarly, SkipUpload, Crash, Goto, TypeOK,
           learnerVars
      <4> QED
        BY <1>4, <3>1, <3>2, <4>1 DEF MailInv
    <3>3. CASE k # l
      BY <1>4, <3>1, <3>3, GoneStays DEF MailInv
    <3> QED
      BY <3>2, <3>3
  <2> QED
    BY <2>1, <2>2
<1>5. ASSUME NEW k \in Learner, lpc'[k] = "recovering"
      PROVE  \E m \in Uncommitted(k, adopted[k])' : m.session < session'[k]
  <2>1. \A n : Uncommitted(k, n) \subseteq Uncommitted(k, n)'
    BY <1>1, OwnSession DEF Uncommitted
  <2>2. /\ adopted'[k] = adopted[k] /\ session'[k] = session[k]
        /\ lpc[k] = "recovering" \/ (k = l /\ BootLoad(l))
    BY <1>5, GoneStays DEF LearnerAct, LearnerStep, Boot, BootLoad, Adopt, AdoptLoad,
       LoadFails, WaitSeesStop, LoopEndsOnStop, BeginInterval, EmptyInterval,
       PublishMarker, PublishMeta, LearnerGivesUp, Exit, BeatEarly, SkipUpload, Crash, Goto,
       TypeOK, learnerVars
  <2>3. \E m \in Uncommitted(k, adopted[k]) : m.session < session[k]
    <3>1. CASE lpc[k] = "recovering"
      BY <3>1 DEF MailInv
    <3>2. CASE k = l /\ BootLoad(l)
      <4>1. lpc[l] = "booting" /\ Uncommitted(l, adopted[l]) # {}
        BY <1>5, <3>2 DEF BootLoad, Goto, TypeOK
      <4>2. \A m \in Uncommitted(l, adopted[l]) : m \in markers /\ m.learner = l
        BY DEF Uncommitted
      <4> QED
        BY <3>2, <4>1, <4>2 DEF MailInv
    <3> QED
      BY <2>2, <3>1, <3>2
  <2> QED
    BY <2>1, <2>2, <2>3
<1>6. ASSUME NEW k \in Learner, lpc'[k] # "off"
      PROVE  session'[k] >= 1
  <2>1. CASE k # l
    BY <1>6, <2>1, GoneStays DEF MailInv
  <2>2. CASE k = l /\ lpc[l] # "off"
    <3>1. session[l] >= 1
      BY <2>2 DEF MailInv
    <3> QED
      BY <1>2, <2>2, <3>1, OwnSession
  <2>3. CASE k = l /\ lpc[l] = "off"
    <3>1. session'[l] = session[l] + 1 \/ lpc'[l] = "off"
      BY <2>3 DEF LearnerAct, LearnerStep, Boot, BootLoad, Adopt, AdoptLoad,
           LoadFails, WaitSeesStop, LoopEndsOnStop, BeginInterval, EmptyInterval,
           PublishMarker, PublishMeta, LearnerGivesUp, Exit, BeatEarly, SkipUpload, Crash, Goto, TypeOK,
         learnerVars
    <3> QED
      BY <1>2, <1>6, <2>3, <3>1
  <2> QED
    BY <2>1, <2>2, <2>3
<1>7. ASSUME NEW k \in Learner, lpc'[k] \in {"waiting", "exited"}
      PROVE  k \in done' <=> Spent(Trained(k))'
  <2>1. CASE k # l
    <3>1. Trained(k)' = Trained(k) /\ lpc'[k] = lpc[k] /\ (k \in done' <=> k \in done)
      BY <2>1, GoneStays DEF Trained
    <3>2. Spent(Trained(k))' = Spent(Trained(k))
      BY <1>1, <3>1 DEF Spent
    <3> QED
      BY <1>7, <3>1, <3>2 DEF MailInv
  <2>2. CASE k = l /\ PublishMeta(l)
    <3>1. Trained(l)' = Trained(l) + 1 /\ Heartbeat(l, Trained(l) + 1)
      BY <1>2, <2>2 DEF PublishMeta, Trained, TypeOK
    <3> QED
      BY <1>1, <2>2, <3>1 DEF Heartbeat, Spent
  <2>3. CASE k = l /\ Exit(l)
    <3>1. Trained(l)' = Trained(l) /\ Heartbeat(l, Trained(l))
      BY <2>3 DEF Exit, Trained
    <3> QED
      BY <1>1, <2>3, <3>1 DEF Heartbeat, Spent
  <2>4. CASE k = l /\ ~PublishMeta(l) /\ ~Exit(l)
    <3>1. lpc'[l] \notin {"waiting", "exited"}
      BY <1>2, <2>4 DEF LearnerAct, LearnerStep, Boot, BootLoad, Adopt, AdoptLoad,
           LoadFails, WaitSeesStop, LoopEndsOnStop, BeginInterval, EmptyInterval,
           PublishMarker, LearnerGivesUp, BeatEarly, SkipUpload, Crash, Goto, TypeOK, Gone,
           learnerVars
    <3> QED
      BY <1>7, <2>4, <3>1
  <2> QED
    BY <2>1, <2>2, <2>3, <2>4
<1> QED
  BY <1>1, <1>3, <1>4, <1>5, <1>6, <1>7 DEF MailInv

(* What a step of the syncer does to log and mailboxes, as the end of a run *)
(* sees it.                                                                 *)
LEMMA SyncerEntry ==
    ASSUME AdmissionInv, TypeOK, SyncerAct
    PROVE  /\ HeadSeq \in Nat
           /\ \/ log' = log /\ HeadSeq' = HeadSeq
              \/ /\ pending' = pending /\ HeadSeq' = HeadSeq + 1
                 /\ \E e : /\ log' = Append(log, e) /\ log'[HeadSeq + 1] = e
                           /\ \/ e = Control
                              \/ spc = "picked" /\ e = Optimizer(picked, Cursor)
<1>1. log \in Seq(Entry) /\ HeadSeq \in Nat
  BY CountersTyped DEF AdmissionInv, AdmissionTypeOK
<1>2. CASE log' = log
  BY <1>1, <1>2 DEF HeadSeq
<1>3. CASE CommitControl /\ pending' = pending
  BY <1>1, <1>3, PrefixKept DEF CommitControl
<1>4. CASE spc = "picked" /\ CommitSelection(picked, Cursor) /\ pending' = pending
  BY <1>1, <1>4, PrefixKept DEF CommitSelection
<1> QED
  BY <1>1, <1>2, <1>3, <1>4, SyncerLog

LEMMA MailSyncer ==
    ASSUME AdmissionInv, TypeOK, SyncerInv, MailInv, SyncerAct
    PROVE  MailInv'
<1>1. /\ UNCHANGED <<mode, markers, done, lpc, session, sent, skipped, adopted, work>>
      /\ pending' \subseteq pending
  BY SyncerFrame DEF learnerVars
<1>2. stopFile' = 0 => stopFile = 0 /\ pending' = pending
  BY DEF SyncerAct, SyncerStep, Start, Pick, Commit, SaveWeights, PublishLatest, StepsDone,
         CommitStop, PublishStop, CleanupSuccess, Scan, SyncerGivesUp, Takeover, exports,
         SyncerInv, Over
<1>3. ASSUME NEW l \in Learner
      PROVE  Uncommitted(l, adopted[l])' = Uncommitted(l, adopted[l])
  <2>1. adopted[l] \in 0..HeadSeq /\ log \in Seq(Entry)
    BY DEF TypeOK, AdmissionInv, AdmissionTypeOK
  <2>2. PICK n \in 0..HeadSeq : n = adopted[l]
    BY <2>1
  <2>3. CommittedIntervals(n)' = CommittedIntervals(n)
    <3>1. CASE log' = log
      BY <3>1 DEF CommittedIntervals, Consumed
    <3>2. CASE \E e : log' = Append(log, e)
      BY <2>1, <3>2, PrefixStays
    <3> QED
      BY <3>1, <3>2, SyncerEntry
  <2> QED
    BY <1>1, <2>2, <2>3 DEF Uncommitted
<1>4. \A n : Spent(n)' = Spent(n)
  BY <1>1 DEF Spent
<1>5. \A l \in Learner : Trained(l)' = Trained(l)
  BY <1>1 DEF Trained
<1> QED
  BY <1>1, <1>2, <1>3, <1>4, <1>5 DEF MailInv

LEMMA TipLearner ==
    ASSUME TipInv, NEW l \in Learner, LearnerAct(l)
    PROVE  TipInv'
<1>1. UNCHANGED <<log, latest, stopFile, spc, reason>>
  BY LearnerFrame
<1> QED
  BY <1>1 DEF TipInv, HeadSeq, CountAt

LEMMA TipSyncer ==
    ASSUME AdmissionInv, TypeOK, SyncerInv, PublishedInv, PickedInv, TipInv, SyncerAct
    PROVE  TipInv'
<1>1. /\ HeadSeq \in Nat /\ log \in Seq(Entry)
      /\ log' = log => HeadSeq' = HeadSeq
      /\ HeadSeq' \in Nat
  BY HeadGrows, CountersTyped DEF HeadSeq, AdmissionInv, AdmissionTypeOK
<1>2. log' = log => CountAt(HeadSeq)' = CountAt(HeadSeq)
  BY DEF CountAt, HeadSeq
<1>3. CommitControl =>
          /\ HeadSeq' = HeadSeq + 1 /\ log'[HeadSeq'].selected = {}
          /\ CountAt(HeadSeq)' = CountAt(HeadSeq)
  <2> SUFFICES ASSUME CommitControl
               PROVE  /\ HeadSeq' = HeadSeq + 1 /\ log'[HeadSeq'].selected = {}
                      /\ CountAt(HeadSeq)' = CountAt(HeadSeq)
    OBVIOUS
  <2>1. HeadSeq' = HeadSeq + 1 /\ log'[HeadSeq + 1] = Control
    BY <1>1, PrefixKept DEF CommitControl
  <2>2. CountAt(HeadSeq)' = Control.count
    BY <1>1, <2>1 DEF CountAt
  <2> QED
    BY <2>1, <2>2 DEF Control
<1>4. spc = "picked" => Prepares(picked, Cursor)
  BY PickedPrepares DEF CollectedPrepares
<1>5. CASE CleanupSuccess
  BY <1>1, <1>2, <1>5 DEF CleanupSuccess, TipInv, AfterStop, Over
<1>6. CASE Start \/ Takeover
  BY <1>1, <1>3, <1>6 DEF Start, Takeover, TipInv, AfterStop, Over, exports, SyncerInv
<1>7. CASE CommitStop
  BY <1>1, <1>3, <1>7 DEF CommitStop, TipInv, AfterStop, Over, exports, SyncerInv
<1>8. CASE Commit
  <2>1. /\ CommitSelection(picked, Cursor) /\ spc = "picked" /\ spc' = "committed"
        /\ reason' = reason /\ stopFile' = stopFile
    BY <1>4, <1>8 DEF Commit, exports
  <2> QED
    BY <2>1 DEF TipInv, AfterStop, Over, SyncerInv
<1>9. CASE SaveWeights \/ PublishLatest
  BY <1>1, <1>2, <1>9 DEF SaveWeights, PublishLatest, TipInv, AfterStop, Over
<1>10. CASE PublishStop
  BY <1>1, <1>2, <1>10 DEF PublishStop, TipInv, AfterStop, Over
<1>11. CASE Pick \/ Scan
  BY <1>1, <1>2, <1>11 DEF Pick, Scan, TipInv, AfterStop, Over, exports
<1>12. CASE StepsDone \/ SyncerGivesUp
  BY <1>1, <1>2, <1>12 DEF StepsDone, SyncerGivesUp, Stuck, TipInv, AfterStop, Over, exports
<1> QED
  BY <1>5, <1>6, <1>7, <1>8, <1>9, <1>10, <1>11, <1>12 DEF SyncerAct, SyncerStep

-----------------------------------------------------------------------------
(* A cause stays one. *)
LEMMA CauseLearner ==
    ASSUME LearnerAssumption, AdmissionInv, TypeOK, SessionInv,
           NEW l \in Learner, LearnerAct(l), NEW n, CauseAt(n)
    PROVE  CauseAt(n)'
<1>1. /\ CommittedIntervals(n)' = CommittedIntervals(n)
      /\ \A p : Eligible(p, n)' <=> Eligible(p, n)
      /\ \A i : Spent(i)' = Spent(i)
  BY LearnerFrame DEF CommittedIntervals, Eligible, Consumed, Lag, VersionAt, SameLineage,
                      Spent
<1>2. PICK k \in Learner :
          \/ lpc[k] = "lost"
          \/ HeldAt(k, n)
          \/ lpc[k] = "exited" /\ Spent(Trained(k))
  BY DEF CauseAt
<1>3. CASE lpc[k] = "lost"
  BY <1>3, GoneStays DEF CauseAt, Gone
<1>4. CASE lpc[k] = "exited" /\ Spent(Trained(k))
  <2>1. k # l /\ lpc'[k] = "exited" /\ Trained(k)' = Trained(k)
    BY <1>4, GoneStays DEF Gone, Trained
  <2> QED
    BY <1>1, <1>4, <2>1 DEF CauseAt
<1>5. CASE HeldAt(k, n)
  <2>1. PICK m \in Uncommitted(k, n) : m.session < session[k] /\ Unconsumable(m, n)
    BY <1>5 DEF HeldAt
  <2>2. m \in markers /\ m.learner = k /\ m.session \in Nat
    BY <2>1 DEF Uncommitted, TypeOK, Marker
  <2>3. m \in Uncommitted(k, n)'
    BY <1>1, <2>1, <2>2, OwnSession DEF Uncommitted
  <2>4. m.session < session'[k]
    BY <2>1, <2>2, OwnSession
  <2>5. Unconsumable(m, n)'
    <3> SUFFICES ASSUME NEW p \in pending', p.learner = m.learner, p.session = m.session,
                        p.seq = m.seq, p.fragment = m.fragment
                 PROVE  ~Eligible(p, n)
      BY <1>1 DEF Unconsumable
    <3>1. p \in pending
      BY <2>1, <2>2, OwnSession
    <3> QED
      BY <2>1, <3>1 DEF Unconsumable
  <2> QED
    BY <2>3, <2>4, <2>5 DEF CauseAt, HeldAt
<1> QED
  BY <1>2, <1>3, <1>4, <1>5

(* The syncer commits nothing of an unconsumable interval. *)
LEMMA HeldSyncer ==
    ASSUME AdmissionAssumption, AdmissionInv, TypeOK, SessionInv, PickedInv, SyncerAct,
           NEW l, HeldAt(l, HeadSeq)
    PROVE  HeldAt(l, HeadSeq)'
<1>1. /\ markers' = markers /\ session' = session /\ pending' \subseteq pending
      /\ pending \subseteq Proposal /\ log \in Seq(Entry)
      /\ \A p \in pending : p.base <= HeadSeq
  BY SyncerFrame DEF learnerVars, AdmissionInv, AdmissionTypeOK, SessionInv
<1>2. PICK m \in Uncommitted(l, HeadSeq) : m.session < session[l] /\ Unconsumable(m, HeadSeq)
  BY DEF HeldAt
<1>3. CASE log' = log
  <2>1. /\ Uncommitted(l, HeadSeq)' = Uncommitted(l, HeadSeq)
        /\ \A p : Eligible(p, HeadSeq)' <=> Eligible(p, HeadSeq)
    BY <1>1, <1>3 DEF Uncommitted, CommittedIntervals, Eligible, Consumed, Lag, VersionAt,
                      SameLineage, HeadSeq
  <2>2. Unconsumable(m, HeadSeq)'
    BY <1>1, <1>2, <2>1 DEF Unconsumable
  <2> QED
    BY <1>1, <1>2, <2>1, <2>2 DEF HeldAt
<1>4. CASE log' # log
  <2>1. PICK e : /\ log' = Append(log, e)
                 /\ e = Control \/ (spc = "picked" /\ e = Optimizer(picked, Cursor))
    BY <1>4, SyncerEntry
  <2>2. /\ e.versions \in [Fragment -> Nat]
        /\ \A g \in Fragment : e.versions[g] >= VersionAt(HeadSeq, g)
    <3>1. \A g \in Fragment : VersionAt(HeadSeq, g) \in Nat
      BY <1>1, CountersTyped
    <3>2. CASE e = Control
      BY <3>1, <3>2 DEF Control
    <3>3. CASE e = Optimizer(picked, Cursor)
      BY <3>1, <3>3 DEF Optimizer
    <3> QED
      BY <2>1, <3>2, <3>3
  <2>3. \A p \in e.selected : p \in pending /\ Eligible(p, HeadSeq)
    BY <2>1 DEF Control, Optimizer, PickedInv, TypeOK
  <2>4. Consumed(HeadSeq)' = Consumed(HeadSeq) \cup e.selected
    BY <1>1, <2>1, ConsumedGrows
  <2>5. m \in Uncommitted(l, HeadSeq)'
    <3> SUFFICES ASSUME m \in CommittedIntervals(HeadSeq)'
                 PROVE  FALSE
      BY <1>1, <1>2 DEF Uncommitted
    <3>1. PICK p \in Consumed(HeadSeq)' :
              m = [learner |-> p.learner, session |-> p.session, seq |-> p.seq,
                   fragment |-> p.fragment]
      BY DEF CommittedIntervals
    <3>2. p \notin Consumed(HeadSeq)
      BY <1>2, <3>1 DEF Uncommitted, CommittedIntervals
    <3>3. p \in pending /\ Eligible(p, HeadSeq)
      BY <2>3, <2>4, <3>1, <3>2
    <3> QED
      BY <1>2, <3>1, <3>3 DEF Unconsumable
  <2>6. Unconsumable(m, HeadSeq)'
    <3> SUFFICES ASSUME NEW p \in pending', p.learner = m.learner, p.session = m.session,
                        p.seq = m.seq, p.fragment = m.fragment
                 PROVE  ~Eligible(p, HeadSeq)'
      BY DEF Unconsumable
    <3>1. p \in Proposal /\ p.base <= HeadSeq /\ ~Eligible(p, HeadSeq)
      BY <1>1, <1>2 DEF Unconsumable
    <3> QED
      BY <1>1, <2>1, <2>2, <3>1, IneligibleStays
  <2> QED
    BY <1>1, <1>2, <2>5, <2>6 DEF HeldAt
<1> QED
  BY <1>3, <1>4

(* The commit of the stop, and what comes after it, leaves what was known   *)
(* of the head the run was given up at.                                     *)
LEMMA HeldStays ==
    ASSUME AdmissionInv, TypeOK, SessionInv, SyncerAct, NEW l, NEW n \in 0..HeadSeq,
           HeldAt(l, n)
    PROVE  HeldAt(l, n)'
<1>1. /\ markers' = markers /\ session' = session /\ pending' \subseteq pending
      /\ pending \subseteq Proposal /\ log \in Seq(Entry) /\ HeadSeq \in Nat
      /\ \A p \in pending : p.base <= HeadSeq
  BY SyncerFrame, CountersTyped DEF learnerVars, AdmissionInv, AdmissionTypeOK, SessionInv
<1>2. \A p \in pending : p.base \in 0..HeadSeq
  BY <1>1 DEF Proposal
<1>3. /\ CommittedIntervals(n)' = CommittedIntervals(n)
      /\ \A p \in pending : Eligible(p, n)' <=> Eligible(p, n)
  <2>1. CASE log' = log
    BY <2>1 DEF CommittedIntervals, Eligible, Consumed, Lag, VersionAt, SameLineage
  <2>2. CASE \E e : log' = Append(log, e)
    BY <1>1, <1>2, <2>2, PrefixStays
  <2> QED
    BY <2>1, <2>2, SyncerEntry
<1>4. PICK m \in Uncommitted(l, n) : m.session < session[l] /\ Unconsumable(m, n)
  BY DEF HeldAt
<1>5. m \in Uncommitted(l, n)'
  BY <1>1, <1>3, <1>4 DEF Uncommitted
<1>6. Unconsumable(m, n)'
  BY <1>1, <1>3, <1>4 DEF Unconsumable
<1> QED
  BY <1>1, <1>4, <1>5, <1>6 DEF HeldAt

-----------------------------------------------------------------------------
(* Nobody gives up without one. *)

(* A learner that waits with the newest export has made a proposal from it, *)
(* of which nothing is too old.                                             *)
LEMMA WaitingEligible ==
    ASSUME AdmissionAssumption, AdmissionInv, TypeOK, PublishedInv, MailInv, Frags = 1,
           NEW l \in Learner, lpc[l] = "waiting", stopFile = 0, adopted[l] = HeadSeq
    PROVE  \E p \in pending : p.learner = l /\ p.fragment = Cursor /\ Eligible(p, HeadSeq)
<1>1. HeadSeq \in Nat /\ log \in Seq(Entry) /\ pending \subseteq Proposal
  BY CountersTyped DEF AdmissionInv, AdmissionTypeOK
<1>2. PICK p \in pending : /\ p.learner = l /\ p.session = session[l]
                           /\ p.seq = sent[l] /\ p.base = HeadSeq
  BY DEF MailInv
<1>3. p.fragment \in Fragment /\ Cursor \in Fragment
  BY <1>1, CursorFragment DEF Proposal
<1>4. p.fragment = Cursor
  BY <1>3 DEF Fragment
<1>5. Lag(p, HeadSeq) = 0
  BY <1>1, <1>2, <1>3, CountersTyped DEF Lag
<1>6. ASSUME NEW c \in Consumed(HeadSeq)
      PROVE  c.base # HeadSeq /\ (SameLineage(c, p) => c.seq <= p.seq)
  <2>1. PICK i \in 1..HeadSeq : c \in log[i].selected
    BY <1>6 DEF Consumed
  <2>2. c.base < i
    BY <2>1 DEF AdmissionInv, Replayable, Replays
  <2>3. c \in Published /\ c \in Proposal
    BY <1>6, PublishedTyped DEF Published
  <2>4. c.base \in Nat
    BY <2>3 DEF Proposal
  <2>5. SameLineage(c, p) => c.seq <= p.seq
    BY <1>2, <2>3 DEF SameLineage, PublishedInv, Idle, Gone
  <2> QED
    BY <1>1, <2>2, <2>4, <2>5
<1>7. Eligible(p, HeadSeq)
  BY <1>1, <1>2, <1>5, <1>6 DEF Eligible, AdmissionAssumption
<1> QED
  BY <1>2, <1>4, <1>7

(* If every learner waits for an export and no selection is enough, then    *)
(* somebody is lost, out of local steps, or held by an old interval.        *)
LEMMA StuckForCause ==
    ASSUME AdmissionAssumption, AdmissionInv, TypeOK, ReadersInv, PublishedInv,
           MailInv, TipInv, CauseInv, Frags = 1, Quorate, Stuck
    PROVE  CauseAt(HeadSeq)
<1> SUFFICES ASSUME ~CauseAt(HeadSeq)
             PROVE  FALSE
  OBVIOUS
<1>1. HeadSeq \in Nat /\ log \in Seq(Entry) /\ pending \in SUBSET Proposal
  BY CountersTyped DEF AdmissionInv, AdmissionTypeOK
<1>2. stopFile = 0 /\ latest = HeadSeq /\ reason = "none"
  BY DEF Stuck, TipInv, AfterStop, Over
<1>3. ASSUME NEW l \in Learner
      PROVE  lpc[l] \in {"recovering", "waiting"} /\ adopted[l] = HeadSeq
  <2>1. lpc[l] # "lost" /\ lpc[l] # "exited"
    BY <1>2 DEF CauseAt, CauseInv
  <2>2. lpc[l] # "failed"
    BY <1>2 DEF ReadersInv, ExportsKept
  <2>3. lpc[l] \in {"recovering", "waiting"} /\ ~Newer(latest, adopted[l])
    BY <2>1, <2>2 DEF Stuck, Gone
  <2>4. adopted[l] \in 0..HeadSeq
    BY DEF TypeOK
  <2> QED
    BY <1>1, <1>2, <2>3, <2>4 DEF Newer
<1>4. ASSUME NEW l \in Learner
      PROVE  \E p \in pending :
                 p.learner = l /\ p.fragment = Cursor /\ Eligible(p, HeadSeq)
  <2>1. CASE lpc[l] = "waiting"
    BY <1>2, <1>3, <2>1, WaitingEligible
  <2>2. CASE lpc[l] = "recovering"
    <3>1. PICK m \in Uncommitted(l, HeadSeq) : m.session < session[l]
      BY <1>3, <2>2 DEF MailInv
    <3>2. ~Unconsumable(m, HeadSeq)
      BY <3>1 DEF CauseAt, HeldAt
    <3>3. PICK p \in pending : p.learner = m.learner /\ Eligible(p, HeadSeq)
      BY <3>2 DEF Unconsumable
    <3>4. p.fragment \in Fragment /\ Cursor \in Fragment
      BY <1>1, CursorFragment DEF Proposal
    <3>5. p.fragment = Cursor
      BY <3>4 DEF Fragment
    <3> QED
      BY <3>1, <3>3, <3>5 DEF Uncommitted
  <2> QED
    BY <1>3, <2>1, <2>2
<1>5. PICK S \in Selections(HeadSeq, Cursor) :
          /\ IsFiniteSet(S)
          /\ Cardinality(S) >= QuorumMax \/ Cardinality(S) >= Cardinality(Learner)
  BY <1>1, <1>4, SelectionExists DEF Quorate
<1>6. Cardinality(S) >= QuorumMin
  BY <1>5, FS_CardinalityType DEF Quorate, AdmissionAssumption
<1> QED
  BY <1>5, <1>6 DEF Stuck, Enough

LEMMA CauseInvLearner ==
    ASSUME AdmissionAssumption, LearnerAssumption, IInv, MailInv, TipInv, CauseInv,
           Frags = 1, Quorate, NEW l \in Learner, LearnerAct(l)
    PROVE  CauseInv'
<1>1. UNCHANGED <<spc, reason, stopFile>> /\ HeadSeq' = HeadSeq /\ Tip' = Tip
  BY LearnerFrame DEF HeadSeq, Tip
<1>4. CauseAt(HeadSeq) => CauseAt(HeadSeq)'
  <2> SUFFICES ASSUME NEW n, n = HeadSeq, CauseAt(n)
               PROVE  CauseAt(HeadSeq)'
    OBVIOUS
  <2>1. CauseAt(n)' /\ HeadSeq' = n
    BY <1>1, CauseLearner DEF IInv
  <2> QED
    BY <2>1 DEF CauseAt
<1>2. CauseAt(Tip) => CauseAt(Tip)'
  <2> SUFFICES ASSUME NEW n, n = Tip, CauseAt(n)
               PROVE  CauseAt(Tip)'
    OBVIOUS
  <2>1. CauseAt(n)' /\ Tip' = n
    BY <1>1, CauseLearner DEF IInv
  <2> QED
    BY <2>1 DEF CauseAt
<1>3. ASSUME reason = "none", NEW k \in Learner, lpc'[k] = "exited"
      PROVE  CauseAt(HeadSeq)'
  <2>1. CASE \E j \in Learner : lpc[j] = "exited"
    BY <1>3, <1>4, <2>1 DEF CauseInv
  <2>2. CASE ~\E j \in Learner : lpc[j] = "exited"
    <3>1. k = l
      BY <1>3, <2>2, GoneStays DEF IInv
    <3>2. CASE LearnerGivesUp(l)
      <4>1. CauseAt(HeadSeq)
        BY <3>2, StuckForCause DEF LearnerGivesUp, IInv
      <4> QED
        BY <1>4, <4>1
    <3>3. CASE LoopEndsOnStop(l)
      <4>1. stopFile = 0
        BY <1>3 DEF TipInv, AfterStop, IInv, SyncerInv
      <4>2. Spent(Trained(l)) /\ UNCHANGED <<mode, sent, skipped>>
        BY <3>3, <4>1 DEF LoopEndsOnStop, StopRequested, Exit
      <4>3. Spent(Trained(l))'
        BY <4>2 DEF Spent, Trained
      <4> QED
        BY <1>3, <3>1, <4>3 DEF CauseAt
    <3>4. CASE ~LearnerGivesUp(l) /\ ~LoopEndsOnStop(l)
      <4>1. lpc'[l] # "exited"
        BY <2>2, <3>4 DEF LearnerAct, LearnerStep, Boot, BootLoad, Adopt, AdoptLoad,
           LoadFails, WaitSeesStop, BeginInterval, EmptyInterval, PublishMarker, PublishMeta,
           BeatEarly, SkipUpload, Crash, Goto, IInv, TypeOK, learnerVars
      <4> QED
        BY <1>3, <3>1, <4>1
    <3> QED
      BY <3>2, <3>3, <3>4
  <2> QED
    BY <2>1, <2>2
<1> QED
  BY <1>1, <1>2, <1>3 DEF CauseInv

(* The phases after giving up leave the head the run was given up at.       *)
LEMMA TipStays ==
    ASSUME AdmissionInv, TypeOK, TipInv, SyncerAct, reason = "no_progress_timeout"
    PROVE  Tip' = Tip /\ Tip \in 0..HeadSeq
<1>1. HeadSeq \in Nat /\ spc \in {"stopping"} \cup AfterStop
  BY CountersTyped DEF AdmissionInv, AdmissionTypeOK, TipInv
<1>2. CASE CommitStop
  <2>1. HeadSeq' = HeadSeq + 1 /\ spc = "stopping" /\ spc' = "stopped"
    BY <1>2, PrefixKept DEF CommitStop, CommitControl, AdmissionInv, AdmissionTypeOK
  <2> QED
    BY <1>1, <2>1 DEF Tip, AfterStop, Over
<1>3. CASE ~CommitStop
  <2>1. log' = log /\ (spc' \in AfterStop <=> spc \in AfterStop)
    BY <1>1, <1>3 DEF SyncerAct, SyncerStep, Start, Pick, Commit, SaveWeights,
       PublishLatest, StepsDone, PublishStop, CleanupSuccess, Scan, Takeover, SyncerGivesUp,
       Stuck, AfterStop, Over
  <2> QED
    BY <1>1, <2>1 DEF Tip, HeadSeq, TipInv
<1> QED
  BY <1>2, <1>3

LEMMA CauseInvSyncer ==
    ASSUME AdmissionAssumption, IInv, MailInv, TipInv, TipInv', CauseInv, Frags = 1,
           Quorate, SyncerAct
    PROVE  CauseInv'
<1>1. /\ UNCHANGED <<mode, markers, done, lpc, session, sent, skipped>>
      /\ \A i : Spent(i)' = Spent(i)
      /\ \A l : Trained(l)' = Trained(l)
      /\ HeadSeq \in Nat
  BY SyncerFrame, CountersTyped DEF learnerVars, IInv, Spent, Trained, AdmissionInv,
     AdmissionTypeOK
<1>2. CauseAt(HeadSeq) => CauseAt(HeadSeq)'
  BY <1>1, HeldSyncer DEF CauseAt, IInv
<1>3. \A n \in 0..HeadSeq : CauseAt(n) => CauseAt(n)'
  BY <1>1, HeldStays DEF CauseAt, IInv
<1>4. ASSUME reason' = "none", NEW l \in Learner, lpc'[l] = "exited"
      PROVE  CauseAt(HeadSeq)'
  <2>1. reason = "none"
    BY <1>4 DEF SyncerAct, SyncerStep, Start, Pick, Commit, SaveWeights, PublishLatest,
       StepsDone, CommitStop, PublishStop, CleanupSuccess, Scan, SyncerGivesUp, Takeover
  <2> QED
    BY <1>1, <1>2, <1>4, <2>1 DEF CauseInv
<1>5. ASSUME reason' = "no_progress_timeout"
      PROVE  CauseAt(Tip)'
  <2>1. CASE SyncerGivesUp
    <3>1. CauseAt(HeadSeq)
      BY <2>1, StuckForCause DEF SyncerGivesUp, IInv
    <3>2. Tip' = HeadSeq'
      BY <2>1 DEF SyncerGivesUp, Tip, AfterStop, Over
    <3> QED
      BY <1>2, <3>1, <3>2 DEF CauseAt
  <2>2. CASE ~SyncerGivesUp
    <3>1. reason = "no_progress_timeout"
      BY <1>5, <2>2 DEF SyncerAct, SyncerStep, Start, Pick, Commit, SaveWeights,
         PublishLatest, StepsDone, CommitStop, PublishStop, CleanupSuccess, Scan, Takeover
    <3>2. Tip' = Tip /\ Tip \in 0..HeadSeq
      BY <3>1, TipStays DEF IInv
    <3>3. CauseAt(Tip)
      BY <3>1 DEF CauseInv
    <3>4. PICK n \in 0..HeadSeq : n = Tip
      BY <3>2
    <3>5. CauseAt(n)'
      BY <1>3, <3>3, <3>4
    <3>6. Tip' = n
      BY <3>2, <3>4
    <3> QED
      BY <3>5, <3>6 DEF CauseAt
  <2> QED
    BY <2>1, <2>2
<1> QED
  BY <1>4, <1>5 DEF CauseInv

-----------------------------------------------------------------------------
(* What is left behind. *)
LEMMA ApartLearner ==
    ASSUME LearnerAssumption, TypeOK, SessionInv, NEW l \in Learner, LearnerAct(l),
           NEW k \in Learner, Apart(k)
    PROVE  Apart(k)'
<1>1. /\ session[l] \in Nat /\ session'[l] \in {session[l], session[l] + 1}
      /\ lpc[l] \notin Gone
  BY OwnSession, GoneStays
<1>2. CASE k # l
  BY <1>2, GoneStays DEF Apart
<1>3. CASE k = l /\ session[l] >= 2
  BY <1>1, <1>3 DEF Apart
<1>4. CASE k = l /\ lpc[l] = "off" /\ session[l] >= 1
  <2>1. Boot(l)
    BY <1>4 DEF LearnerAct, LearnerStep, Boot, BootLoad, Adopt, AdoptLoad,
           LoadFails, WaitSeesStop, LoopEndsOnStop, BeginInterval, EmptyInterval,
           PublishMarker, PublishMeta, LearnerGivesUp, BeatEarly, SkipUpload, Crash,
           LearnerAssumption
  <2>2. session'[l] = session[l] + 1
    BY <2>1 DEF Boot, TypeOK
  <2> QED
    BY <1>1, <1>4, <2>2 DEF Apart
<1> QED
  BY <1>1, <1>2, <1>3, <1>4 DEF Apart, Gone

(* Crashes and lost exports set a learner apart. *)
LEMMA BecomesApart ==
    ASSUME TypeOK, MailInv, NEW l \in Learner, LearnerAct(l), lpc[l] # "off",
           Crash(l) \/ LoadFails(l)
    PROVE  Apart(l)'
<1>1. session'[l] = session[l] /\ lpc'[l] \in {"off", "lost", "failed"}
  BY DEF Crash, LoadFails, Goto, TypeOK
<1>2. session[l] >= 1
  BY DEF MailInv
<1> QED
  BY <1>1, <1>2 DEF Apart

LEMMA WentOnLearner ==
    ASSUME LearnerAssumption, AdmissionInv, TypeOK, SessionInv, MailInv, TipInv,
           reason = "no_progress_timeout",
           NEW l \in Learner, LearnerAct(l), NEW k \in Learner, WentOn(k)
    PROVE  Apart(k)' \/ WentOn(k)'
<1>1. /\ stopFile' = stopFile /\ Tip' = Tip /\ spc # "scanned"
      /\ \A n : Spent(n)' = Spent(n)
  BY LearnerFrame DEF HeadSeq, Tip, Spent, TipInv, AfterStop, Over
<1>2. HeadSeq \in Nat /\ Tip \in Int /\ adopted[l] \in 0..HeadSeq /\ latest \in 0..HeadSeq
  <2>1. HeadSeq \in Nat
    BY CountersTyped DEF AdmissionInv, AdmissionTypeOK
  <2> QED
    BY <2>1 DEF TypeOK, Tip
<1>3. CASE k # l
  <2>1. Trained(k)' = Trained(k)
    BY <1>3, GoneStays DEF Trained
  <2> QED
    BY <1>1, <1>3, <2>1, GoneStays DEF WentOn
<1>4. CASE k = l /\ lpc[l] # "off" /\ (Crash(l) \/ LoadFails(l))
  BY <1>4, BecomesApart
<1>5. CASE k = l /\ lpc[l] # "off" /\ ~Crash(l) /\ ~LoadFails(l)
           /\ work[l].base > Tip /\ adopted[l] > Tip
  <2>1. lpc'[l] # "off" /\ work'[l].base > Tip /\ adopted'[l] > Tip
    <3>1. CASE Adopt(l)
      <4>1. /\ adopted'[l] = latest /\ latest > adopted[l]
            /\ work' = work /\ lpc'[l] # "off"
        BY <1>2, <3>1, NewerIsLater DEF Adopt, Goto, TypeOK
      <4> QED
        BY <1>2, <1>5, <4>1
    <3>2. CASE BeginInterval(l)
      <4>1. adopted'[l] = adopted[l] /\ work'[l].base = adopted[l] /\ lpc'[l] # "off"
        BY <3>2 DEF BeginInterval, Goto, TypeOK
      <4> QED
        BY <1>5, <4>1
    <3>3. CASE ~Adopt(l) /\ ~BeginInterval(l)
      <4>1. UNCHANGED <<work, adopted>> /\ lpc'[l] # "off"
        BY <1>5, <3>3 DEF LearnerAct, LearnerStep, Boot, BootLoad, AdoptLoad,
           WaitSeesStop, LoopEndsOnStop, EmptyInterval, PublishMarker, PublishMeta,
           LearnerGivesUp, Exit, BeatEarly, SkipUpload, Goto, TypeOK, learnerVars
      <4> QED
        BY <1>5, <4>1
    <3> QED
      BY <3>1, <3>2, <3>3
  <2> QED
    BY <1>1, <1>5, <2>1 DEF WentOn
<1>6. CASE /\ k = l /\ ~Crash(l) /\ ~LoadFails(l) /\ ~Spent(Trained(l)) /\ l \notin done
           /\ \/ lpc[l] = "waiting" /\ adopted[l] >= Tip
              \/ lpc[l] \in {"loading", "ready"} /\ (adopted[l] > Tip \/ stopFile # 0)
  <2>1. ~LearnerGivesUp(l)
    BY <1>1 DEF LearnerGivesUp, Stuck
  <2>2. CASE Adopt(l)
    <3>1. /\ adopted'[l] = latest /\ latest > adopted[l] /\ lpc[l] = "waiting"
          /\ lpc'[l] = "loading" /\ UNCHANGED <<sent, skipped, done>>
      BY <1>2, <1>6, <2>2, NewerIsLater DEF Adopt, Goto, TypeOK
    <3>2. adopted'[l] > Tip
      BY <1>2, <1>6, <3>1
    <3> QED
      BY <1>1, <1>6, <3>1, <3>2 DEF WentOn, Trained
  <2>3. CASE WaitSeesStop(l) \/ AdoptLoad(l)
    <3>1. /\ lpc'[l] = "ready" /\ adopted' = adopted /\ UNCHANGED <<sent, skipped, done>>
          /\ adopted[l] > Tip \/ stopFile # 0
      BY <1>6, <2>3 DEF WaitSeesStop, AdoptLoad, Goto, TypeOK
    <3> QED
      BY <1>1, <1>6, <3>1 DEF WentOn, Trained
  <2>4. CASE LoopEndsOnStop(l)
    <3>1. /\ lpc'[l] = "exited" /\ UNCHANGED <<sent, skipped>>
          /\ Heartbeat(l, Trained(l))
      BY <1>6, <2>4 DEF LoopEndsOnStop, Exit, Goto, TypeOK
    <3> QED
      BY <1>1, <1>6, <3>1 DEF WentOn, Trained, Heartbeat
  <2>5. CASE BeginInterval(l)
    <3>1. /\ adopted'[l] = adopted[l] /\ work'[l].base = adopted[l] /\ lpc'[l] # "off"
          /\ adopted[l] > Tip
      BY <1>6, <2>5 DEF BeginInterval, StopRequested, Goto, TypeOK
    <3> QED
      BY <1>1, <1>6, <3>1 DEF WentOn
  <2> QED
    BY <1>6, <2>1, <2>2, <2>3, <2>4, <2>5 DEF LearnerAct, LearnerStep, Boot, BootLoad,
       EmptyInterval, PublishMarker, PublishMeta, BeatEarly, SkipUpload
<1>7. lpc[l] # "exited"
  BY GoneStays DEF Gone
<1>8. Crash(l) \/ LoadFails(l) => lpc[l] # "off"
  BY LearnerAssumption DEF Crash, LoadFails, LearnerAssumption
<1> QED
  BY <1>3, <1>4, <1>5, <1>6, <1>7, <1>8 DEF WentOn

LEMMA DrainedLearner ==
    ASSUME LearnerAssumption, AdmissionInv, TypeOK, SessionInv, SyncerInv, MailInv, TipInv,
           reason = "no_progress_timeout", Drained, NEW l \in Learner, LearnerAct(l)
    PROVE  Drained' \/ Apart(l)'
<1>1. /\ Tip' = Tip /\ spc # "scanned" /\ CursorAt(Tip)' = CursorAt(Tip)
      /\ \A n : Spent(n)' = Spent(n)
      /\ \A p : Eligible(p, Tip)' <=> Eligible(p, Tip)
  BY LearnerFrame DEF HeadSeq, Tip, Spent, TipInv, AfterStop, Over, CursorAt, CountAt,
     Eligible, Consumed, Lag, VersionAt, SameLineage
<1>2. /\ Spent(Trained(l)) /\ lpc[l] \in {"waiting", "loading", "ready", "exited"}
      /\ lpc[l] # "exited" /\ ~LearnerGivesUp(l)
  BY <1>1, GoneStays DEF Drained, Gone, LearnerGivesUp, Stuck
<1>3. CASE Crash(l) \/ LoadFails(l)
  BY <1>2, <1>3, BecomesApart
<1>4. CASE Adopt(l) \/ AdoptLoad(l) \/ WaitSeesStop(l) \/ LoopEndsOnStop(l)
  <2>1. /\ lpc'[l] \in {"waiting", "loading", "ready", "exited"}
        /\ UNCHANGED <<sent, skipped>>
    BY <1>4 DEF Adopt, AdoptLoad, WaitSeesStop, LoopEndsOnStop, Exit, Goto, TypeOK
  <2>2. pending' \subseteq pending
    <3>1. ~PublishMeta(l)
      BY <1>2 DEF PublishMeta
    <3> QED
      BY <3>1, LearnerMail
  <2>3. ASSUME NEW k \in Learner
        PROVE  Spent(Trained(k))' /\ lpc'[k] \in {"waiting", "loading", "ready", "exited"}
    <3>1. Spent(Trained(k)) /\ Trained(k)' = Trained(k)
      BY <2>1 DEF Drained, Trained
    <3>2. Spent(Trained(k))'
      BY <1>1, <3>1 DEF Spent
    <3> QED
      BY <2>1, <3>2, GoneStays DEF Drained
  <2> QED
    BY <1>1, <2>2, <2>3 DEF Drained
<1> QED
  BY <1>2, <1>3, <1>4 DEF LearnerAct, LearnerStep, Boot, BootLoad, BeginInterval,
     StopRequested, EmptyInterval, PublishMarker, PublishMeta, BeatEarly, SkipUpload

LEMMA SettledLearner ==
    ASSUME LearnerAssumption, IInv, MailInv, TipInv, SettledInv,
           NEW l \in Learner, LearnerAct(l)
    PROVE  SettledInv'
<1> SUFFICES ASSUME reason' = "no_progress_timeout", mode'.limit # 0
             PROVE  Drained' \/ \E k \in Learner : Apart(k)' \/ WentOn(k)'
  BY DEF SettledInv
<1>1. reason = "no_progress_timeout" /\ mode.limit # 0
  BY LearnerFrame
<1>2. CASE Drained
  BY <1>1, <1>2, DrainedLearner DEF IInv
<1>3. CASE \E k \in Learner : Apart(k) \/ WentOn(k)
  BY <1>1, <1>3, ApartLearner, WentOnLearner DEF IInv
<1> QED
  BY <1>1, <1>2, <1>3 DEF SettledInv

(* When the syncer gives up and nobody is apart, whoever is not out of      *)
(* local steps waits; if all are out of them, everything was merged.        *)
LEMMA GivesUpSettled ==
    ASSUME AdmissionAssumption, LearnerAssumption, IInv, MailInv, TipInv, Frags = 1, Quorate,
           SyncerGivesUp
    PROVE  SettledInv'
<1>1. /\ HeadSeq \in Nat /\ log \in Seq(Entry) /\ pending \in SUBSET Proposal
      /\ Cursor = CursorAt(HeadSeq)
  BY CountersTyped DEF IInv, AdmissionInv, AdmissionTypeOK, Cursor
<1>2. /\ Stuck /\ latest = HeadSeq /\ stopFile = 0
      /\ UNCHANGED <<log, pending, mode, done, learnerVars, stopFile>>
      /\ Tip' = HeadSeq
  BY DEF SyncerGivesUp, Stuck, TipInv, Tip, AfterStop, Over, exports, HeadSeq
<1>3. /\ \A l \in Learner : /\ Trained(l)' = Trained(l) /\ Spent(Trained(l))' = Spent(Trained(l))
                            /\ lpc'[l] = lpc[l]
                            /\ Apart(l)' <=> Apart(l)
      /\ CursorAt(HeadSeq)' = CursorAt(HeadSeq)
      /\ \A p : Eligible(p, HeadSeq)' <=> Eligible(p, HeadSeq)
  BY <1>2 DEF learnerVars, Trained, Spent, Apart, CursorAt, CountAt, Eligible, Consumed, Lag,
     VersionAt, SameLineage, HeadSeq
<1> SUFFICES ASSUME mode.limit # 0, \A l \in Learner : ~Apart(l)' /\ ~WentOn(l)'
             PROVE  Drained'
  BY <1>2 DEF SettledInv
<1>4. ASSUME NEW l \in Learner
      PROVE  /\ lpc[l] \in {"waiting", "exited"}
             /\ Spent(Trained(l)) /\ l \in done
  <2>1. session[l] \in Nat /\ ~(session[l] >= 2)
    BY <1>3 DEF Apart, IInv, TypeOK
  <2>2. lpc[l] # "recovering"
    <3> SUFFICES ASSUME lpc[l] = "recovering"
                 PROVE  FALSE
      OBVIOUS
    <3>1. PICK m \in Uncommitted(l, adopted[l]) : m.session < session[l]
      BY DEF MailInv
    <3>2. m \in markers /\ m.session \in Nat
      BY <3>1 DEF Uncommitted, IInv, TypeOK, Marker
    <3>3. m.session >= 1
      BY <3>2 DEF MailInv
    <3> QED
      BY <2>1, <3>1, <3>2, <3>3
  <2>3. lpc[l] \notin {"lost", "failed"}
    BY <1>3 DEF Apart, MailInv
  <2>4. lpc[l] = "exited" \/ (lpc[l] = "waiting" /\ ~Newer(latest, adopted[l]))
    BY <1>2, <2>2, <2>3 DEF Stuck, Gone
  <2>5. lpc[l] = "waiting" => adopted[l] >= HeadSeq
    BY <1>1, <1>2, <2>4 DEF Newer, IInv, TypeOK
  <2>6. Spent(Trained(l))
    <3> SUFFICES ASSUME ~Spent(Trained(l))
                 PROVE  WentOn(l)'
      OBVIOUS
    <3>1. l \notin done
      BY <2>4 DEF MailInv
    <3>2. lpc' = lpc /\ adopted' = adopted /\ done' = done
      BY <1>2 DEF learnerVars
    <3> QED
      BY <1>2, <1>3, <2>4, <2>5, <3>1, <3>2 DEF WentOn
  <2> QED
    BY <2>4, <2>6 DEF MailInv
<1>5. TerminalDrain
  BY <1>2, <1>4 DEF TerminalDrain, IInv, TypeOK
<1>6. ASSUME NEW p \in pending, p.fragment = Cursor, Eligible(p, HeadSeq)
      PROVE  FALSE
  <2>1. p.learner \in Learner
    BY <1>1 DEF Proposal
  <2>2. PICK S \in Selections(HeadSeq, Cursor) :
            /\ IsFiniteSet(S)
            /\ Cardinality(S) >= QuorumMax \/ Cardinality(S) >= Cardinality({p.learner})
    <3>1. {p.learner} \in SUBSET Learner
      BY <2>1
    <3>2. \A l \in {p.learner} : \E q \in pending :
              q.learner = l /\ q.fragment = Cursor /\ Eligible(q, HeadSeq)
      BY <1>6
    <3> QED
      BY <1>1, <3>1, <3>2, SelectionExists DEF Quorate
  <2>3. S # {}
    <3>1. Cardinality({p.learner}) = 1 /\ Cardinality({}) = 0
      BY FS_EmptySet, FS_Singleton, Zenon
    <3>2. QuorumMax >= 1
      BY DEF AdmissionAssumption
    <3> QED
      BY <2>2, <3>1, <3>2
  <2> QED
    BY <1>2, <1>5, <2>2, <2>3 DEF Stuck, Enough
<1>7. \A p \in pending' : ~(p.fragment = CursorAt(Tip)' /\ Eligible(p, Tip)')
  <2>1. CursorAt(Tip)' = CursorAt(HeadSeq)
    BY <1>2, <1>3 DEF CursorAt, CountAt, HeadSeq
  <2>2. \A p : Eligible(p, Tip)' <=> Eligible(p, HeadSeq)
    BY <1>2 DEF Eligible, Consumed, Lag, VersionAt, SameLineage
  <2> QED
    BY <1>1, <1>2, <1>6, <2>1, <2>2
<1> QED
  BY <1>3, <1>4, <1>7 DEF Drained

LEMMA SettledSyncer ==
    ASSUME AdmissionAssumption, LearnerAssumption, IInv, MailInv, TipInv, SettledInv,
           Frags = 1, Quorate, SyncerAct
    PROVE  SettledInv'
<1>1. CASE SyncerGivesUp
  BY <1>1, GivesUpSettled
<1>2. CASE ~SyncerGivesUp
  <2> SUFFICES ASSUME reason' = "no_progress_timeout", mode'.limit # 0
               PROVE  Drained' \/ \E k \in Learner : Apart(k)' \/ WentOn(k)'
    BY DEF SettledInv
  <2>1. /\ UNCHANGED <<mode, done, lpc, session, sent, skipped, adopted, work>>
        /\ pending' \subseteq pending
    BY SyncerFrame DEF learnerVars, IInv
  <2>2. reason = "no_progress_timeout"
    BY <1>2 DEF SyncerAct, SyncerStep, Start, Pick, Commit, SaveWeights, PublishLatest,
       StepsDone, CommitStop, PublishStop, CleanupSuccess, Scan, Takeover
  <2>3. Tip' = Tip /\ Tip \in 0..HeadSeq
    BY <2>2, TipStays DEF IInv
  <2>4. PICK n \in 0..HeadSeq : n = Tip
    BY <2>3
  <2>5. stopFile # 0 => stopFile' # 0
    BY DEF SyncerAct, SyncerStep, Start, Pick, Commit, SaveWeights, PublishLatest,
       StepsDone, CommitStop, PublishStop, CleanupSuccess, Scan, Takeover, SyncerGivesUp,
       exports, TipInv, SyncerInv, IInv, Over
  <2>6. \A l \in Learner : Trained(l)' = Trained(l) /\ Spent(Trained(l))' = Spent(Trained(l))
    BY <2>1 DEF Trained, Spent
  <2>7. ASSUME NEW k \in Learner
        PROVE  (Apart(k) => Apart(k)') /\ (WentOn(k) => WentOn(k)')
    BY <2>1, <2>3, <2>5, <2>6 DEF Apart, WentOn
  <2>8. ASSUME Drained
        PROVE  Drained'
    <3>1. CursorAt(n)' = CursorAt(n) /\ \A p \in pending : Eligible(p, n)' <=> Eligible(p, n)
      <4>1. log \in Seq(Entry) /\ \A p \in pending : p.base \in 0..HeadSeq
        BY DEF IInv, AdmissionInv, AdmissionTypeOK, SessionInv, Proposal
      <4>2. CASE log' = log
        BY <4>2 DEF CursorAt, CountAt, Eligible, Consumed, Lag, VersionAt, SameLineage
      <4>3. CASE \E e : log' = Append(log, e)
        BY <4>1, <4>3, PrefixStays
      <4> QED
        BY <4>2, <4>3, SyncerEntry DEF IInv
    <3>2. \A p \in pending' : ~(p.fragment = CursorAt(n)' /\ Eligible(p, n)')
      BY <2>1, <2>4, <2>8, <3>1 DEF Drained
    <3>3. Tip' = n
      BY <2>3, <2>4
    <3>4. \A p \in pending' : ~(p.fragment = CursorAt(Tip)' /\ Eligible(p, Tip)')
      BY <3>2, <3>3 DEF CursorAt, CountAt, Eligible, Consumed, Lag, VersionAt
    <3> QED
      BY <2>1, <2>6, <2>8, <3>4 DEF Drained
  <2> QED
    BY <2>1, <2>2, <2>7, <2>8 DEF SettledInv
<1> QED
  BY <1>1, <1>2

LEMMA EndStart ==
    ASSUME Init
    PROVE  EndInv
BY DEF Init, AdmissionInit, EndInv, MailInv, TipInv, CauseInv, SettledInv, AfterStop, Over,
       HeadSeq

LEMMA EndStutter ==
    ASSUME EndInv, UNCHANGED vars
    PROVE  EndInv'
<1>1. /\ log' = log /\ pending' = pending /\ mode' = mode /\ markers' = markers
      /\ latest' = latest /\ stopFile' = stopFile /\ done' = done
      /\ lpc' = lpc /\ session' = session /\ sent' = sent /\ skipped' = skipped
      /\ adopted' = adopted /\ work' = work /\ spc' = spc /\ reason' = reason
  BY DEF vars, exports, learnerVars, syncer
<1>2. MailInv' /\ TipInv'
  BY <1>1 DEF EndInv, MailInv, TipInv, Uncommitted, CommittedIntervals, Consumed, Spent,
     Trained, HeadSeq, CountAt
<1>3. CauseInv'
  BY <1>1 DEF EndInv, CauseInv, CauseAt, HeldAt, Unconsumable, Uncommitted,
     CommittedIntervals, Consumed, Spent, Trained, HeadSeq, Tip, Eligible, Lag, VersionAt,
     SameLineage
<1>4. SettledInv'
  BY <1>1 DEF EndInv, SettledInv, Drained, Apart, WentOn, Spent, Trained, Tip, CursorAt,
     CountAt, HeadSeq, Eligible, Consumed, Lag, VersionAt, SameLineage
<1> QED
  BY <1>2, <1>3, <1>4 DEF EndInv

(* Given up for a cause, and nothing left behind, is inductive together     *)
(* with what was known of the run.                                          *)
LEMMA EndStep ==
    ASSUME AdmissionAssumption, LearnerAssumption, Frags = 1, Quorate, IInv, EndInv,
           [Next]_vars
    PROVE  EndInv'
<1>1. ASSUME NEW l \in Learner, LearnerAct(l)
      PROVE  EndInv'
  BY <1>1, MailLearner, TipLearner, CauseInvLearner, SettledLearner DEF EndInv, IInv
<1>2. ASSUME SyncerAct
      PROVE  EndInv'
  <2>1. MailInv' /\ TipInv'
    BY <1>2, MailSyncer, TipSyncer DEF EndInv, IInv
  <2> QED
    BY <1>2, <2>1, CauseInvSyncer, SettledSyncer DEF EndInv
<1> QED
  BY <1>1, <1>2, EndStutter DEF Next, LearnerAct, SyncerAct

(* What the last learner to leave finds.                                    *)
LEMMA EndFits ==
    ASSUME IInv, EndInv
    PROVE  EndsForCause
<1> SUFFICES ASSUME RunEnds, ~(CountAt(stopFile) >= StopAfter)
             PROVE  /\ \E l \in Learner : lpc[l] = "lost" \/ Held(l) \/ Spent(Trained(l))
                    /\ ~LeftOver
  BY DEF EndsForCause, ForCause
<1>1. /\ stopFile = HeadSeq /\ HeadSeq \in Nat /\ spc \in AfterStop /\ HeadSeq >= 1
      /\ log[HeadSeq].selected = {} /\ Tip = HeadSeq - 1
      /\ reason = "no_progress_timeout"
  BY CountersTyped DEF RunEnds, IInv, EndInv, TipInv, SyncerInv, AfterStop, Tip, TypeOK,
     AdmissionInv, AdmissionTypeOK
<1>2. Consumed(HeadSeq) = Consumed(HeadSeq - 1)
  <2>1. \A i : i \in 1..HeadSeq <=> i \in 1..(HeadSeq - 1) \/ i = HeadSeq
    BY <1>1
  <2> QED
    BY <1>1, <2>1 DEF Consumed
<1>3. \E l \in Learner : lpc[l] = "lost" \/ Held(l) \/ Spent(Trained(l))
  <2>1. CauseAt(stopFile - 1)
    BY <1>1 DEF EndInv, CauseInv
  <2>2. \A l : HeldAt(l, stopFile - 1) => Held(l)
    BY <1>1, <1>2 DEF HeldAt, Held, Uncommitted, CommittedIntervals
  <2> QED
    BY <2>1, <2>2 DEF CauseAt
<1>4. ~LeftOver
  <2> SUFFICES ASSUME LeftOver
               PROVE  FALSE
    OBVIOUS
  <2>1. /\ mode.limit # 0 /\ done = Learner
        /\ \A l \in Learner :
               lpc[l] = "exited" /\ session[l] = 1 /\ work[l].base < stopFile
        /\ \E p \in pending :
               p.fragment = CursorAt(stopFile - 1) /\ Eligible(p, stopFile - 1)
    BY DEF LeftOver, TerminalDrain
  <2>2. ~Drained
    BY <1>1, <2>1 DEF Drained
  <2>3. ASSUME NEW l \in Learner
        PROVE  ~Apart(l) /\ ~WentOn(l)
    <3>1. work[l].base \in Nat /\ l \in done /\ Spent(Trained(l))
      BY <2>1 DEF IInv, TypeOK, EndInv, MailInv
    <3> QED
      BY <1>1, <2>1, <3>1 DEF Apart, WentOn
  <2> QED
    BY <1>1, <2>1, <2>2, <2>3 DEF EndInv, SettledInv
<1> QED
  BY <1>3, <1>4

(* No run with full vectors and a quorum that can be reached ends short of  *)
(* its outer steps without a cause, through any crashes, restarts and       *)
(* takeovers; what every learner reported before a drain was merged.        *)
THEOREM EndsOnlyForCause ==
    ASSUME Frags = 1, Quorate
    PROVE  Spec => []EndsForCause
<1>1. Init => EndInv
  BY EndStart
<1>2. IInv /\ EndInv /\ [Next]_vars => EndInv'
  BY EndStep, AdmissionAssumption, LearnerAssumption
<1>3. IInv /\ EndInv => EndsForCause
  BY EndFits
<1> QED
  BY <1>1, <1>2, <1>3, RunInvariance, PTL DEF Spec
=============================================================================
