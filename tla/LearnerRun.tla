---------------------------- MODULE LearnerRun ----------------------------
(***************************************************************************)
(* Learners and the syncer around the shared directory: learners train     *)
(* intervals from the latest export, publish a marker and then metadata,   *)
(* and wait for a newer export before they train again (learner.py,        *)
(* learner_protocol/); the syncer collects a quorum, commits it and        *)
(* exports (the loop of syncer.py).  Each side waits for the other, each   *)
(* gives up after a timeout, and learners crash and come back with a new   *)
(* session that looks at what the old ones left behind.  A run that made   *)
(* its steps ends with the deletion of old exports and proposals           *)
(* (retention.py) while learners may still read them.                      *)
(*                                                                         *)
(* One fragment is run_learner, more are run_fragment_learner.  The owner  *)
(* of the log is one role: a takeover is a new process that bumps the      *)
(* epoch, exports and goes on (SyncerRun has the processes).               *)
(***************************************************************************)
EXTENDS ProposalAdmission

CONSTANTS
    MaxSessions,   \* bound: sessions of one learner
    StopAfter,     \* stop_after_outer_steps
    MaxBumps,      \* bound: takeovers after the first owner
    Mortal,        \* learners a crash may hit
    CrashAt,       \* phases it may hit them in, of a process that is there
    Modes          \* configurations, of which a run has one

VARIABLES
    mode,      \* the configuration of the run
    markers,   \* publication markers in the authority namespace
    weights,   \* commits whose exported weights are in the directory
    latest,    \* commit latest.json names, 0 when absent
    stopFile,  \* commit stop.json names, 0 when absent
    done,      \* learners whose last heartbeat reports max_local_steps
    lpc,       \* phase of each learner
    session,   \* its current session, 0 before the first
    sent,      \* local_update_index: intervals published in this session
    skipped,   \* intervals trained in this session and not published
    adopted,   \* commit of the export it trains from
    work,      \* the interval under way
    spc,       \* phase of the syncer
    picked,    \* its selection
    reason     \* stop_reason

learnerVars == <<lpc, session, sent, skipped, adopted, work>>
exports == <<weights, latest, stopFile>>
syncer == <<spc, picked, reason>>
vars == <<log, pending, mode, markers, exports, done, learnerVars, syncer>>

Phase == {"off", "booting", "recovering", "ready", "interval", "marked", "waiting",
          "loading", "exited", "failed", "lost"}

SyncerPhase == {"starting", "committed", "saved", "loop", "scanned", "picked",
                "stopping", "stopped", "stopSaved", "exported", "published", "exited"}

Marker == [learner : Learner, session : Nat, seq : Nat, fragment : Fragment]

Unset == -1

Mode == [limit : Nat,             \* max_local_steps in intervals, 0 when unset
         adopt : BOOLEAN,         \* adopt_global_after_upload
         skips : BOOLEAN,         \* upload_skip_probability > 0
         keep : Nat,              \* keep_last_global_versions, 0 when unset
         updates : Nat \cup {Unset},   \* keep_last_learner_update_versions
         faults : SUBSET {"crash", "takeover"}]   \* bound: what goes wrong

ASSUME LearnerAssumption ==
    /\ MaxSessions \in Nat \ {0} /\ StopAfter \in Nat /\ MaxBumps \in Nat
    /\ Mortal \subseteq Learner
    /\ CrashAt \subseteq Phase \ {"off", "exited", "failed", "lost"}
    /\ Modes \subseteq Mode

NoWork == [scheduled |-> 0, fragment |-> 0, base |-> 0]

-----------------------------------------------------------------------------
Init ==
    /\ AdmissionInit
    /\ mode \in Modes
    /\ markers = {} /\ weights = {}
    /\ latest = 0 /\ stopFile = 0
    /\ done = {}
    /\ lpc = [l \in Learner |-> "off"]
    /\ session = [l \in Learner |-> 0]
    /\ sent = [l \in Learner |-> 0]
    /\ skipped = [l \in Learner |-> 0]
    /\ adopted = [l \in Learner |-> 0]
    /\ work = [l \in Learner |-> NoWork]
    /\ spc = "starting" /\ picked = {} /\ reason = "none"

Goto(l, p) == lpc' = [lpc EXCEPT ![l] = p]

(* Mutant of Newer: the export that was loaded already counts. *)
NewerOrSame(n, a) == IF Frags = 1 THEN n >= a ELSE CountAt(n) >= CountAt(a)

(* read_latest_if_newer compares versions, read_fragment_latest_if_newer    *)
(* merge events, which a takeover does not advance.                         *)
Newer(n, a) == IF Frags = 1 THEN n > a ELSE CountAt(n) > CountAt(a)

(* committed_interval_identities of the export that names commit n. *)
CommittedIntervals(n) ==
    {[learner |-> p.learner, session |-> p.session, seq |-> p.seq,
      fragment |-> p.fragment] : p \in Consumed(n)}

Uncommitted(l, n) == {m \in markers : m.learner = l} \ CommittedIntervals(n)

(* local_step reaches max_local_steps with interval n of the session. *)
Spent(n) == mode.limit # 0 /\ n >= mode.limit

Trained(l) == sent[l] + skipped[l]

StopRequested(l) == stopFile # 0 \/ Spent(Trained(l))

(* write_heartbeat with last_local_step after n intervals. *)
Heartbeat(l, n) == done' = IF Spent(n) THEN done \cup {l} ELSE done \ {l}

(* reason in _SUCCESSFUL_STOP_REASONS, the only such reason of this model.  *)
Successful == reason = "stop_after_outer_steps"

(* cleanup_learner_update_artifacts on the mailboxes of learners L: each    *)
(* keeps its newest n, by steps and time of publication, left open here.    *)
Trimmed(L, n) ==
    {K \in SUBSET pending :
        /\ {p \in pending : p.learner \notin L} \subseteq K
        /\ \A l \in L :
               LET own == {p \in pending : p.learner = l}
               IN  Cardinality(K \cap own) =
                       IF Cardinality(own) < n THEN Cardinality(own) ELSE n}

-----------------------------------------------------------------------------
(* A learner process. *)

(* Process start: a new session, which reads latest.json. *)
Boot(l) ==
    /\ lpc[l] = "off" /\ latest # 0
    /\ session' = [session EXCEPT ![l] = @ + 1]
    /\ adopted' = [adopted EXCEPT ![l] = latest]
    /\ Goto(l, "booting")
    /\ UNCHANGED <<log, pending, mode, markers, exports, done, sent, skipped, work, syncer>>

(* Mutant of BootLoad: nothing tells a committed interval from a lost one. *)
BootLoadForgetful(l) ==
    /\ lpc[l] = "booting" /\ adopted[l] \in weights
    /\ Heartbeat(l, 0)
    /\ Goto(l, IF Uncommitted(l, 0) = {} THEN "ready" ELSE "recovering")
    /\ UNCHANGED <<log, pending, mode, markers, exports, session, sent, skipped, adopted,
                   work, syncer>>

(* The weights, the first heartbeat, and recover_learner over the markers   *)
(* of all sessions before.                                                  *)
BootLoad(l) ==
    /\ lpc[l] = "booting" /\ adopted[l] \in weights
    /\ Heartbeat(l, 0)
    /\ Goto(l, IF Uncommitted(l, adopted[l]) = {} THEN "ready" ELSE "recovering")
    /\ UNCHANGED <<log, pending, mode, markers, exports, session, sent, skipped, adopted,
                   work, syncer>>

(* A newer export ends the wait of recovery, and the one after publication. *)
Adopt(l) ==
    /\ lpc[l] \in {"recovering", "waiting"}
    /\ Newer(latest, adopted[l])
    /\ adopted' = [adopted EXCEPT ![l] = latest]
    /\ Goto(l, "loading")
    /\ UNCHANGED <<log, pending, mode, markers, exports, done, session, sent, skipped,
                   work, syncer>>

AdoptLoad(l) ==
    /\ lpc[l] = "loading" /\ adopted[l] \in weights
    /\ Goto(l, "ready")
    /\ UNCHANGED <<log, pending, mode, markers, exports, done, session, sent, skipped,
                   adopted, work, syncer>>

(* The file is gone: the process ends with an error.  Before the loop is    *)
(* entered nothing handles it, afterwards the last heartbeat is written     *)
(* and the mailbox kept.                                                    *)
LoadFails(l) ==
    /\ lpc[l] \in {"booting", "loading"} /\ adopted[l] \notin weights
    /\ IF lpc[l] = "booting" THEN UNCHANGED done ELSE Heartbeat(l, Trained(l))
    /\ Goto(l, "failed")
    /\ UNCHANGED <<log, pending, mode, markers, exports, session, sent, skipped, adopted,
                   work, syncer>>

(* Without a newer export, stop.json ends the waits. *)
WaitSeesStop(l) ==
    /\ lpc[l] \in {"recovering", "waiting"}
    /\ ~Newer(latest, adopted[l]) /\ stopFile # 0
    /\ Goto(l, "ready")
    /\ UNCHANGED <<log, pending, mode, markers, exports, done, session, sent, skipped,
                   adopted, work, syncer>>

(* The loop is left: a last heartbeat, and after a successful stop the      *)
(* learner empties its mailbox.                                             *)
Exit(l) ==
    /\ Heartbeat(l, Trained(l))
    /\ IF stopFile # 0 /\ Successful
       THEN pending' \in Trimmed({l}, IF mode.updates = Unset THEN 0 ELSE mode.updates)
       ELSE UNCHANGED pending
    /\ Goto(l, "exited")
    /\ UNCHANGED <<log, mode, markers, exports, session, sent, skipped, adopted, work, syncer>>

LoopEndsOnStop(l) == lpc[l] = "ready" /\ StopRequested(l) /\ Exit(l)

(* Mutant of BeginInterval: fragments are numbered from one. *)
BeginIntervalOneBased(l) ==
    /\ lpc[l] = "ready" /\ ~StopRequested(l)
    /\ work' = [work EXCEPT ![l] = [scheduled |-> (sent[l] % Frags) + 1,
                                    fragment |-> Frags - 1, base |-> adopted[l]]]
    /\ Goto(l, "interval")
    /\ UNCHANGED <<log, pending, mode, markers, exports, done, session, sent, skipped,
                   adopted, syncer>>

(* The inner loop of run_fragment_learner counts tokens per fragment with   *)
(* fragment_id as its loop variable, so that after the first inner step it  *)
(* names the last fragment; the interval keeps the scheduled one.           *)
BeginInterval(l) ==
    /\ lpc[l] = "ready" /\ ~StopRequested(l)
    /\ work' = [work EXCEPT ![l] = [scheduled |-> sent[l] % Frags,
                                    fragment |-> Frags - 1, base |-> adopted[l]]]
    /\ Goto(l, "interval")
    /\ UNCHANGED <<log, pending, mode, markers, exports, done, session, sent, skipped,
                   adopted, syncer>>

(* A heartbeat after the last inner step reports the steps of the interval  *)
(* before anything of it is published.                                      *)
BeatEarly(l) ==
    /\ lpc[l] = "interval" /\ Spent(Trained(l) + 1)
    /\ Heartbeat(l, Trained(l) + 1)
    /\ UNCHANGED <<log, pending, mode, markers, exports, learnerVars, syncer>>

(* A stop before the first inner step leaves nothing to publish. *)
EmptyInterval(l) ==
    /\ lpc[l] = "interval" /\ stopFile # 0 /\ l \notin done
    /\ Goto(l, "ready")
    /\ UNCHANGED <<log, pending, mode, markers, exports, done, session, sent, skipped,
                   adopted, work, syncer>>

(* should_skip_upload: the next interval goes on from the trained model. *)
SkipUpload(l) ==
    /\ mode.skips /\ lpc[l] = "interval"
    /\ skipped' = [skipped EXCEPT ![l] = @ + 1]
    /\ Goto(l, "ready")
    /\ UNCHANGED <<log, pending, mode, markers, exports, done, session, sent, adopted,
                   work, syncer>>

(* Mutant of PublishMarker: its sequence number is one behind. *)
PublishMarkerBehind(l) ==
    /\ lpc[l] = "interval"
    /\ markers' = markers \cup {[learner |-> l, session |-> session[l],
                                 seq |-> sent[l], fragment |-> work[l].scheduled]}
    /\ Goto(l, "marked")
    /\ UNCHANGED <<log, pending, mode, exports, done, session, sent, skipped, adopted,
                   work, syncer>>

(* LearnerPublisher.publish: session, payload and request records, then the *)
(* marker.                                                                  *)
PublishMarker(l) ==
    /\ lpc[l] = "interval"
    /\ markers' = markers \cup {[learner |-> l, session |-> session[l],
                                 seq |-> sent[l] + 1, fragment |-> work[l].scheduled]}
    /\ Goto(l, "marked")
    /\ UNCHANGED <<log, pending, mode, exports, done, session, sent, skipped, adopted,
                   work, syncer>>

(* Mutant of PublishMeta: its place in updates/pending does not depend on   *)
(* the session, so that a restarted learner overwrites.                     *)
PublishMetaOverwrites(l) ==
    /\ lpc[l] = "marked"
    /\ pending' = {p \in pending : ~(p.learner = l /\ p.seq = sent[l] + 1)} \cup
                  {[learner |-> l, session |-> session[l], seq |-> sent[l] + 1,
                    fragment |-> work[l].fragment, base |-> work[l].base]}
    /\ sent' = [sent EXCEPT ![l] = @ + 1]
    /\ Heartbeat(l, Trained(l) + 1)
    /\ Goto(l, IF mode.adopt THEN "waiting" ELSE "ready")
    /\ UNCHANGED <<log, mode, markers, exports, session, skipped, adopted, work, syncer>>

(* The metadata the catalog finds, written last, and a heartbeat. *)
PublishMeta(l) ==
    /\ lpc[l] = "marked"
    /\ pending' = pending \cup {[learner |-> l, session |-> session[l],
                                 seq |-> sent[l] + 1, fragment |-> work[l].fragment,
                                 base |-> work[l].base]}
    /\ sent' = [sent EXCEPT ![l] = @ + 1]
    /\ Heartbeat(l, Trained(l) + 1)
    /\ Goto(l, IF mode.adopt THEN "waiting" ELSE "ready")
    /\ UNCHANGED <<log, mode, markers, exports, session, skipped, adopted, work, syncer>>

(* The job ends; the launcher may start the process again, with a new       *)
(* session, or not.  Its last heartbeat stays behind.                       *)
Crash(l) ==
    /\ "crash" \in mode.faults
    /\ l \in Mortal /\ lpc[l] \in CrashAt /\ session[l] < MaxSessions
    /\ \E p \in {"off", "lost"} : Goto(l, p)
    /\ sent' = [sent EXCEPT ![l] = 0]
    /\ skipped' = [skipped EXCEPT ![l] = 0]
    /\ adopted' = [adopted EXCEPT ![l] = 0]
    /\ work' = [work EXCEPT ![l] = NoWork]
    /\ UNCHANGED <<log, pending, mode, markers, exports, done, session, syncer>>

-----------------------------------------------------------------------------
(* The syncer. *)
Cursor == CursorAt(HeadSeq)

(* The first owner fences before learners find an export. *)
Start ==
    /\ spc = "starting"
    /\ CommitControl
    /\ spc' = "committed"
    /\ UNCHANGED <<pending, mode, markers, exports, done, learnerVars, picked, reason>>

(* finite_local_training_complete: every learner reports its last step, and *)
(* what there is is merged below the quorum.                                *)
TerminalDrain == mode.limit # 0 /\ done = Learner

(* Mutant of Enough: a run whose learners are all done waits for a quorum.  *)
EnoughAtQuorum(S) == Cardinality(S) >= QuorumMin

Enough(S) == Cardinality(S) >= QuorumMin \/ (TerminalDrain /\ S # {})

(* collect_candidates; the heartbeats are read after the scan. *)
Scan ==
    /\ \/ spc = "loop" /\ CountAt(HeadSeq) < StopAfter
       \/ spc = "scanned" /\ ~Enough(picked)
    /\ picked' \in Selections(HeadSeq, Cursor)
    /\ spc' = "scanned"
    /\ UNCHANGED <<log, pending, mode, markers, exports, done, learnerVars, reason>>

Pick ==
    /\ spc = "scanned" /\ Enough(picked)
    /\ spc' = "picked"
    /\ UNCHANGED <<log, pending, mode, markers, exports, done, learnerVars, picked, reason>>

(* prepare_transition and the swap.  A refused selection is an error, and   *)
(* an error stops the run.                                                  *)
Commit ==
    /\ spc = "picked"
    /\ IF Prepares(picked, Cursor)
       THEN CommitSelection(picked, Cursor) /\ spc' = "committed" /\ UNCHANGED reason
       ELSE UNCHANGED log /\ spc' = "stopping" /\ reason' = "error"
    /\ picked' = {}
    /\ UNCHANGED <<pending, mode, markers, exports, done, learnerVars>>

(* publish_materialized_view, of a step or of the stop: weights, then       *)
(* latest.json, which names them.                                           *)
SaveWeights ==
    /\ \/ spc = "committed" /\ spc' = "saved"
       \/ spc = "stopped" /\ spc' = "stopSaved"
    /\ weights' = weights \cup {HeadSeq}
    /\ UNCHANGED <<log, pending, mode, markers, latest, stopFile, done, learnerVars,
                   picked, reason>>

PublishLatest ==
    /\ \/ spc = "saved" /\ spc' = "loop"
       \/ spc = "stopSaved" /\ spc' = "exported"
    /\ latest' = HeadSeq
    /\ UNCHANGED <<log, pending, mode, markers, weights, stopFile, done, learnerVars,
                   picked, reason>>

Bumps == Cardinality({i \in 1..HeadSeq : log[i].kind = "control"})

(* Another process becomes the owner; what the old one had picked is gone.  *)
Takeover ==
    /\ "takeover" \in mode.faults
    /\ spc \in {"loop", "scanned", "picked", "committed", "saved"} /\ Bumps <= MaxBumps
    /\ CommitControl
    /\ spc' = "committed" /\ picked' = {}
    /\ UNCHANGED <<pending, mode, markers, exports, done, learnerVars, reason>>

StepsDone ==
    /\ spc = "loop" /\ CountAt(HeadSeq) >= StopAfter
    /\ spc' = "stopping" /\ reason' = "stop_after_outer_steps"
    /\ UNCHANGED <<log, pending, mode, markers, exports, done, learnerVars, picked>>

CommitStop ==
    /\ spc = "stopping"
    /\ CommitControl
    /\ spc' = "stopped"
    /\ UNCHANGED <<pending, mode, markers, exports, done, learnerVars, picked, reason>>

PublishStop ==
    /\ spc = "exported"
    /\ stopFile' = HeadSeq
    /\ spc' = "published"
    /\ UNCHANGED <<log, pending, mode, markers, weights, latest, done, learnerVars,
                   picked, reason>>

(* Mutant of CleanupSuccess: the reason of the stop is not asked for. *)
CleanupAlways ==
    /\ spc = "published"
    /\ weights' = IF mode.keep = 0 THEN weights
                  ELSE {n \in weights :
                            Cardinality({k \in weights : k > n}) < mode.keep}
    /\ IF mode.updates = Unset THEN UNCHANGED pending
       ELSE pending' \in Trimmed(Learner, mode.updates)
    /\ spc' = "exited"
    /\ UNCHANGED <<log, mode, markers, latest, stopFile, done, learnerVars, picked, reason>>

(* _cleanup_success: the newest exports are kept, and the newest proposals  *)
(* of each learner.                                                         *)
CleanupSuccess ==
    /\ spc = "published"
    /\ weights' = IF ~Successful \/ mode.keep = 0 THEN weights
                  ELSE {n \in weights :
                            Cardinality({k \in weights : k > n}) < mode.keep}
    /\ IF ~Successful \/ mode.updates = Unset THEN UNCHANGED pending
       ELSE pending' \in Trimmed(Learner, mode.updates)
    /\ spc' = "exited"
    /\ UNCHANGED <<log, mode, markers, latest, stopFile, done, learnerVars, picked, reason>>

-----------------------------------------------------------------------------
Gone == {"exited", "failed", "lost"}

(* no_progress_timeout_seconds, of learners and syncer alike, is taken to   *)
(* be longer than any step: it ends a wait only when all wait.              *)
Stuck ==
    /\ stopFile = 0 /\ spc = "scanned"
    /\ \A S \in Selections(HeadSeq, Cursor) \cup {picked} : ~Enough(S)
    /\ \A l \in Learner :
           \/ lpc[l] \in Gone
           \/ lpc[l] \in {"recovering", "waiting"} /\ ~Newer(latest, adopted[l])

LearnerGivesUp(l) ==
    /\ Stuck /\ lpc[l] \in {"recovering", "waiting"}
    /\ Exit(l)

SyncerGivesUp ==
    /\ Stuck
    /\ spc' = "stopping" /\ reason' = "no_progress_timeout"
    /\ picked' = {}
    /\ UNCHANGED <<log, pending, mode, markers, exports, done, learnerVars>>

-----------------------------------------------------------------------------
LearnerStep(l) ==
    \/ Boot(l) \/ BootLoad(l) \/ Adopt(l) \/ AdoptLoad(l) \/ LoadFails(l)
    \/ WaitSeesStop(l) \/ LoopEndsOnStop(l) \/ BeginInterval(l) \/ EmptyInterval(l)
    \/ PublishMarker(l) \/ PublishMeta(l) \/ LearnerGivesUp(l)

SyncerStep ==
    \/ Start \/ Pick \/ Commit \/ SaveWeights \/ PublishLatest
    \/ StepsDone \/ CommitStop \/ PublishStop \/ CleanupSuccess

Next ==
    \/ \E l \in Learner : LearnerStep(l) \/ BeatEarly(l) \/ SkipUpload(l) \/ Crash(l)
    \/ SyncerStep \/ Scan \/ SyncerGivesUp \/ Takeover

Spec == Init /\ [][Next]_vars

(* Running processes take their next step, a crashed learner is restarted,  *)
(* the syncer scans again and again and looks at its clock after each scan. *)
FairSpec ==
    /\ Spec
    /\ WF_vars(SyncerStep) /\ WF_vars(Scan) /\ WF_vars(SyncerGivesUp)
    /\ \A l \in Learner : WF_vars(LearnerStep(l))

-----------------------------------------------------------------------------
(* Type invariant of the log, the directory, the learners and the syncer.   *)
TypeOK ==
    /\ AdmissionTypeOK
    /\ mode \in Modes
    /\ markers \in SUBSET Marker
    /\ weights \in SUBSET (1..HeadSeq)
    /\ latest \in 0..HeadSeq /\ stopFile \in 0..HeadSeq
    /\ done \in SUBSET Learner
    /\ lpc \in [Learner -> Phase]
    /\ session \in [Learner -> 0..MaxSessions]
    /\ sent \in [Learner -> Nat] /\ skipped \in [Learner -> Nat]
    /\ adopted \in [Learner -> 0..HeadSeq]
    /\ work \in [Learner -> [scheduled : Fragment, fragment : Fragment, base : Nat]]
    /\ spc \in SyncerPhase
    /\ picked \in SUBSET pending
    /\ reason \in {"none", "stop_after_outer_steps", "no_progress_timeout", "error"}

(* What the catalog selects, prepare_transition accepts: a disagreement     *)
(* between the two would end the run with an error stop, the exception      *)
(* being raised outside the handler for lost commits.                       *)
CollectedPrepares == spc = "picked" => Prepares(picked, Cursor)

(* Restarts and takeovers never make two contents of one session and        *)
(* sequence, and a session that adopts after each upload never trains twice *)
(* from the same base: its intervals do not overlap.                        *)
IntervalsDisjoint ==
    \A p, q \in pending :
        p.learner = q.learner /\ p.session = q.session /\ p # q =>
            /\ p.seq # q.seq
            /\ (mode.adopt /\ p.seq < q.seq) => p.base < q.base

(* Recovery misses no published work: whatever the catalog can find, the    *)
(* next session of the learner finds a marker for.                          *)
MarkersFirst ==
    \A p \in pending : \E m \in markers :
        m.learner = p.learner /\ m.session = p.session /\ m.seq = p.seq

(* Deletion of exports and readers of exports: latest.json always names     *)
(* weights that are there, and a learner that has read a name finds the     *)
(* file gone only when the run is over and successful.                      *)
ExportsKept ==
    /\ latest # 0 => latest \in weights
    /\ \A l \in Learner : lpc[l] = "failed" => stopFile # 0 /\ Successful

(* "learners publish the scheduled fragment for each interval": marker and  *)
(* metadata of an interval name one fragment.                               *)
PublishesScheduled ==
    \A p \in pending :
        [learner |-> p.learner, session |-> p.session, seq |-> p.seq,
         fragment |-> p.fragment] \in markers

(* The log of the runtime is one the admission rules allow, so what is      *)
(* proved of those holds of it.                                             *)
ImplementsAdmission == AdmissionSpec

(* An interval of an earlier session that no commit can take any more: its  *)
(* metadata was never written, or its base is too old for commit n + 1.     *)
Unconsumable(m, n) ==
    \A p \in pending :
        (/\ p.learner = m.learner /\ p.session = m.session
         /\ p.seq = m.seq /\ p.fragment = m.fragment) => ~Eligible(p, n)

Held(l) ==
    \E m \in Uncommitted(l, stopFile) :
        m.session < session[l] /\ Unconsumable(m, stopFile - 1)

RunEnds == stopFile # 0 /\ \A l \in Learner : lpc[l] \in Gone

(* All learners have made and reported their last step without a crash,     *)
(* none went on from the export of the stop, which appears before stop.json,*)
(* and there is a proposal that could still be merged.                      *)
LeftOver ==
    /\ TerminalDrain
    /\ \A l \in Learner :
           lpc[l] = "exited" /\ session[l] = 1 /\ work[l].base < stopFile
    /\ \E p \in pending :
           p.fragment = CursorAt(stopFile - 1) /\ Eligible(p, stopFile - 1)

ForCause ==
    \/ CountAt(stopFile) >= StopAfter
    \/ /\ \E l \in Learner : lpc[l] = "lost" \/ Held(l) \/ Spent(Trained(l))
       /\ ~LeftOver

(* The no-progress timeouts never end a run that could go on: it ends short *)
(* of its outer steps only if a learner was lost for good, is held by an    *)
(* unconsumable interval of its own past, or has made its max_local_steps;  *)
(* if all have, without restarts, nothing is left unmerged that could be    *)
(* merged.                                                                  *)
EndsForCause == RunEnds => ForCause

(* Learners and syncer do not wait for each other for ever: whatever        *)
(* crashes, restarts and takeovers happen on the way, every run ends with a *)
(* stop and no learner left behind, and with a cause.                       *)
RunEndsForCause == <>(RunEnds /\ ForCause)

(* "a warm restart can go on committing": a run whose learners all come     *)
(* back makes all its outer steps.                                          *)
RunCompletes ==
    <>(/\ RunEnds
       /\ CountAt(stopFile) >= StopAfter \/ \E l \in Learner : lpc[l] = "lost")
=============================================================================
