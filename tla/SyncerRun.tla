----------------------------- MODULE SyncerRun -----------------------------
(***************************************************************************)
(* The life of a syncer process, run_syncer (syncer.py): start or resume   *)
(* from the head, wait as a standby, take the lease, fence, export, step,  *)
(* stop, export.  FencedLog models how one commit is made and LeaseManager *)
(* how the lease changes hands; here each is one step, and the subject is  *)
(* what the process carries from one step to the next: the RuntimeView it  *)
(* last built, the fragment tensors it computes with, and the exports      *)
(* latest.json and stop.json it leaves for the learners.                   *)
(*                                                                         *)
(* Tensors are named by the commit that produced them: the parameters of   *)
(* fragment f after a prefix of the log are the number of the last commit  *)
(* of f in it, 0 for the genesis.  Clocks are abstracted to a lease that   *)
(* may end at any time.  Learners are abstracted to the choice between a   *)
(* quorum of proposals and a wait that the no-progress timeout ends.       *)
(***************************************************************************)
EXTENDS Integers, Sequences

CONSTANTS
    Session,     \* process lifetimes of syncers
    Standby,     \* those started with --standby
    NoSession,     \* the owner of a lease never taken
    Frags,       \* number of parameter fragments
    StopAfter,   \* stop_after_outer_steps
    Deployments, \* which sessions overlap: none, or those named run
    IoErrors,    \* may storage fail with the outcome unknown?
    MaxLog       \* bound: commits in the log

ASSUME SyncerAssumption ==
    /\ Standby \subseteq Session /\ NoSession \notin Session
    /\ Frags \in Nat \ {0} /\ StopAfter \in Nat /\ MaxLog \in Nat
    /\ Deployments \subseteq SUBSET Session /\ IoErrors \in BOOLEAN

VARIABLES
    rivals,      \* the deployment at hand
    log,         \* the committed prefix
    lease,       \* owner, proposed epoch, and whether it is still running
    latest,      \* latest.json: the commit it names, the tensors it points to
    stopFile,    \* stop.json: the commit it names, 0 when absent
    pc,          \* where each session is in run_syncer
    view,        \* commit_seq of its RuntimeView
    tensors,     \* its in-memory fragment parameters
    grant,       \* the epoch its lease proposes
    token,       \* its activated fencing epoch, or 0
    parent       \* parent of its prepared transition

vars == <<log, lease, latest, stopFile, pc, view, tensors, grant, token, parent>>
exports == <<latest, stopFile>>
owned == <<grant, token>>

Fragment == 0..(Frags - 1)

Phase == {"off", "opened", "leased", "bumping", "bumped", "firstExport", "loop",
          "prepared", "committed", "export", "final", "finalExport", "stopExport",
          "bootstrapped", "exited", "dead"}

Entry == [kind : {"epoch_bump", "optimizer", "stop"}, owner : Session,
          epoch : 1..MaxLog, count : Nat, frag : Fragment, from : 0..MaxLog]

-----------------------------------------------------------------------------
(* What a replay of the first n commits gives. *)
HeadSeq == Len(log)
EpochAt(n) == IF n = 0 THEN 0 ELSE log[n].epoch
OwnerAt(n) == IF n = 0 THEN NoSession ELSE log[n].owner
CountAt(n) == IF n = 0 THEN 0 ELSE log[n].count
StoppedAt(n) == n # 0 /\ log[n].kind = "stop"
CursorAt(n) == CountAt(n) % Frags

Produces(i, f) == i = 0 \/ (log[i].kind = "optimizer" /\ log[i].frag = f)

(* _load_committed_tensors: the parameters the prefix determines. *)
ParamsAt(n) ==
    [f \in Fragment |->
        CHOOSE i \in 0..n : Produces(i, f) /\ \A j \in (i+1)..n : ~Produces(j, f)]

Running(s) == pc[s] \notin {"off", "exited", "dead"}

-----------------------------------------------------------------------------
Init ==
    /\ rivals \in Deployments
    /\ log = <<>>
    /\ lease = [owner |-> NoSession, epoch |-> 0, live |-> FALSE]
    /\ latest = [version |-> 0, params |-> [f \in Fragment |-> 0]]
    /\ stopFile = 0
    /\ pc = [s \in Session |-> "off"]
    /\ view = [s \in Session |-> 0]
    /\ tensors = [s \in Session |-> [f \in Fragment |-> 0]]
    /\ grant = [s \in Session |-> 0]
    /\ token = [s \in Session |-> 0]
    /\ parent = [s \in Session |-> 0]

(* A syncer and its standbys run side by side, or one syncer is restarted   *)
(* when the last is gone.                                                   *)
MayStart(s) ==
    /\ pc[s] = "off"
    /\ IF rivals = {} THEN \A t \in Session : ~Running(t) ELSE s \in rivals

Goto(s, p) == pc' = [pc EXCEPT ![s] = p]

Rebuild(s) == view' = [view EXCEPT ![s] = HeadSeq]
Reload(s) == tensors' = [tensors EXCEPT ![s] = ParamsAt(HeadSeq)]

PublishLatest(s) == latest' = [version |-> view[s], params |-> tensors[s]]

(* Mutant of Start: a resumed process begins with the genesis tensors. *)
StartAfresh(s) ==
    /\ MayStart(s)
    /\ Rebuild(s)
    /\ Goto(s, IF StoppedAt(HeadSeq) THEN "finalExport" ELSE "opened")
    /\ UNCHANGED <<log, lease, exports, tensors, owned, parent>>

(* initialize_generation or resume_generation. *)
Start(s) ==
    /\ MayStart(s)
    /\ Rebuild(s) /\ Reload(s)
    /\ Goto(s, IF StoppedAt(HeadSeq) THEN "finalExport" ELSE "opened")
    /\ UNCHANGED <<log, lease, exports, owned, parent>>

(* bootstrap_new_generation, a process that imports a checkpoint while no   *)
(* syncer runs.  It is repeated as well: initialize then finds the head and *)
(* opens it, wherever it is by now, and the view is of that head; but the   *)
(* tensors are the checkpoint's, those of the genesis.                      *)
Bootstrap(s) ==
    /\ rivals = {} /\ MayStart(s)
    /\ Rebuild(s)
    /\ tensors' = [tensors EXCEPT ![s] = [f \in Fragment |-> 0]]
    /\ Goto(s, "bootstrapped")
    /\ UNCHANGED <<log, lease, exports, owned, parent>>

BootstrapExport(s) ==
    /\ pc[s] = "bootstrapped"
    /\ PublishLatest(s)
    /\ Goto(s, "dead")
    /\ UNCHANGED <<log, lease, stopFile, view, tensors, owned, parent>>

(* A standby looks for a stop before each attempt; if there is one it       *)
(* exports and leaves, with the view just built and the tensors loaded when *)
(* it was started.                                                          *)
StandbySeesStop(s) ==
    /\ pc[s] = "opened" /\ s \in Standby
    /\ StoppedAt(HeadSeq)
    /\ Rebuild(s)
    /\ Goto(s, "finalExport")
    /\ UNCHANGED <<log, lease, exports, tensors, owned, parent>>

(* Mutant of Acquire: the head may be behind the lease. *)
AcquireBehind(s) ==
    /\ pc[s] = "opened"
    /\ s \in Standby => ~StoppedAt(HeadSeq)
    /\ ~lease.live
    /\ lease' = [owner |-> s, epoch |-> EpochAt(HeadSeq) + 1, live |-> TRUE]
    /\ grant' = [grant EXCEPT ![s] = EpochAt(HeadSeq) + 1]
    /\ Goto(s, "leased")
    /\ UNCHANGED <<log, exports, view, tensors, token, parent>>

(* LeaseManager.acquire; see LeaseManager for the steps it consists of. *)
Acquire(s) ==
    /\ pc[s] = "opened"
    /\ s \in Standby => ~StoppedAt(HeadSeq)
    /\ ~lease.live /\ EpochAt(HeadSeq) >= lease.epoch
    /\ lease' = [owner |-> s, epoch |-> EpochAt(HeadSeq) + 1, live |-> TRUE]
    /\ grant' = [grant EXCEPT ![s] = EpochAt(HeadSeq) + 1]
    /\ Goto(s, "leased")
    /\ UNCHANGED <<log, exports, view, tensors, token, parent>>

(* A standby polls on; any other session leaves with the conflict. *)
AcquireRefused(s) ==
    /\ pc[s] = "opened" /\ s \notin Standby
    /\ lease.live \/ EpochAt(HeadSeq) < lease.epoch
    /\ Goto(s, "dead")
    /\ UNCHANGED <<log, lease, exports, view, tensors, owned, parent>>

LeaseEnds ==
    /\ lease.live
    /\ lease' = [lease EXCEPT !.live = FALSE]
    /\ UNCHANGED <<log, exports, pc, view, tensors, owned, parent>>

-----------------------------------------------------------------------------
(* activate_owner: the epoch bump. *)
BumpPrepare(s) ==
    /\ pc[s] = "leased"
    /\ parent' = [parent EXCEPT ![s] = HeadSeq]
    /\ Goto(s, IF StoppedAt(HeadSeq) \/ grant[s] <= EpochAt(HeadSeq)
               THEN "dead" ELSE "bumping")
    /\ UNCHANGED <<log, lease, exports, view, tensors, owned>>

CommitEntry(s, kind, epoch, frag, from) ==
    /\ HeadSeq < MaxLog
    /\ log' = Append(log,
           [kind |-> kind, owner |-> s, epoch |-> epoch,
            count |-> CountAt(HeadSeq) + (IF kind = "optimizer" THEN 1 ELSE 0),
            frag |-> frag, from |-> from])

(* Mutant of BumpCas: it commits the epoch of the token it has not set yet. *)
BumpCasEarly(s) ==
    /\ pc[s] = "bumping" /\ HeadSeq = parent[s]
    /\ CommitEntry(s, "epoch_bump", token[s], 0, 0)
    /\ token' = [token EXCEPT ![s] = grant[s]]
    /\ Goto(s, "bumped")
    /\ UNCHANGED <<lease, exports, view, tensors, grant, parent>>

BumpCas(s) ==
    /\ pc[s] = "bumping" /\ HeadSeq = parent[s]
    /\ CommitEntry(s, "epoch_bump", grant[s], 0, 0)
    /\ token' = [token EXCEPT ![s] = grant[s]]
    /\ Goto(s, "bumped")
    /\ UNCHANGED <<lease, exports, view, tensors, grant, parent>>

(* A lost head CAS is not retried: the conflict leaves run_syncer. *)
BumpLost(s) ==
    /\ pc[s] = "bumping" /\ HeadSeq # parent[s]
    /\ Goto(s, "dead")
    /\ UNCHANGED <<log, lease, exports, view, tensors, owned, parent>>

(* The strict replay after it, and the view of the new owner. *)
Activated(s) ==
    /\ pc[s] = "bumped"
    /\ IF OwnerAt(HeadSeq) = s /\ EpochAt(HeadSeq) = token[s]
       THEN Rebuild(s) /\ Goto(s, "firstExport")
       ELSE Goto(s, "dead") /\ UNCHANGED view
    /\ UNCHANGED <<log, lease, exports, tensors, owned, parent>>

FirstExport(s) ==
    /\ pc[s] = "firstExport"
    /\ PublishLatest(s)
    /\ Goto(s, "loop")
    /\ UNCHANGED <<log, lease, stopFile, view, tensors, owned, parent>>

-----------------------------------------------------------------------------
(* The loop.  A stop in the view, the step budget, the no-progress timeout, *)
(* a failed lease renewal and an error in a candidate all lead to finally.  *)
LeaveLoop(s) ==
    /\ pc[s] = "loop"
    /\ Goto(s, "final")
    /\ UNCHANGED <<log, lease, exports, view, tensors, owned, parent>>

MayStep(s) ==
    /\ ~StoppedAt(view[s])
    /\ CountAt(view[s]) < StopAfter

(* Mutant of IsHeadOwner: the head's owner is not compared. *)
IsActivated(s) == token[s] # 0 /\ ~StoppedAt(HeadSeq)

IsHeadOwner(s) ==
    /\ token[s] # 0
    /\ ~StoppedAt(HeadSeq)
    /\ OwnerAt(HeadSeq) = s /\ EpochAt(HeadSeq) = token[s]

StepPrepare(s) ==
    /\ pc[s] = "loop" /\ MayStep(s)
    /\ parent' = [parent EXCEPT ![s] = HeadSeq]
    /\ Goto(s, IF IsHeadOwner(s) THEN "prepared" ELSE "final")
    /\ UNCHANGED <<log, lease, exports, view, tensors, owned>>

StepSwap(s) ==
    /\ HeadSeq = parent[s]
    /\ CommitEntry(s, "optimizer", token[s], CursorAt(view[s]),
                   tensors[s][CursorAt(view[s])])

StepCas(s) ==
    /\ pc[s] = "prepared"
    /\ StepSwap(s)
    /\ Goto(s, "committed")
    /\ UNCHANGED <<lease, exports, view, tensors, owned, parent>>

(* CommitConflict, or a timeout that resolves to nothing: replay, reload,   *)
(* select again.                                                            *)
StepRetry(s) ==
    /\ pc[s] = "prepared"
    /\ \/ HeadSeq # parent[s] /\ token' = [token EXCEPT ![s] = 0]
       \/ UNCHANGED token
    /\ Rebuild(s) /\ Reload(s)
    /\ Goto(s, "loop")
    /\ UNCHANGED <<log, lease, exports, grant, parent>>

(* Any other storage error: the step may have been committed. *)
StepIoError(s) ==
    /\ IoErrors
    /\ pc[s] = "prepared"
    /\ StepSwap(s) \/ UNCHANGED log
    /\ Goto(s, "final")
    /\ UNCHANGED <<lease, exports, view, tensors, owned, parent>>

(* Mutant of PostCas: the stepped fragment is not replaced. *)
PostCasStale(s) ==
    /\ pc[s] = "committed"
    /\ Rebuild(s)
    /\ Goto(s, IF HeadSeq = parent[s] + 1 THEN "export" ELSE "final")
    /\ UNCHANGED <<log, lease, exports, tensors, owned, parent>>

(* The replay after the CAS must end with the commit just made; then the    *)
(* stepped fragment is replaced.                                            *)
PostCas(s) ==
    /\ pc[s] = "committed"
    /\ Rebuild(s)
    /\ IF HeadSeq = parent[s] + 1
       THEN /\ tensors' = [tensors EXCEPT ![s][CursorAt(view[s])] = HeadSeq]
            /\ Goto(s, "export")
       ELSE UNCHANGED tensors /\ Goto(s, "final")
    /\ UNCHANGED <<log, lease, exports, owned, parent>>

Export(s) ==
    /\ pc[s] = "export"
    /\ PublishLatest(s)
    /\ Goto(s, "loop")
    /\ UNCHANGED <<log, lease, stopFile, view, tensors, owned, parent>>

-----------------------------------------------------------------------------
(* finally: commit a stop unless the view has one; a session the log does   *)
(* not know as its owner only looks again.                                  *)
FinalSeen(s) ==
    /\ pc[s] = "final" /\ StoppedAt(view[s])
    /\ Goto(s, "finalExport")
    /\ UNCHANGED <<log, lease, exports, view, tensors, owned, parent>>

FinalStop(s) ==
    /\ pc[s] = "final" /\ ~StoppedAt(view[s])
    /\ IsHeadOwner(s)
    /\ CommitEntry(s, "stop", token[s], 0, 0)
    /\ view' = [view EXCEPT ![s] = HeadSeq + 1]
    /\ Goto(s, "finalExport")
    /\ UNCHANGED <<lease, exports, tensors, owned, parent>>

(* Mutant of FinalRefused: a refused stop is retried. *)
FinalRetried(s) ==
    /\ pc[s] = "final" /\ ~StoppedAt(view[s])
    /\ ~IsHeadOwner(s)
    /\ Rebuild(s)
    /\ UNCHANGED <<log, lease, exports, pc, tensors, owned, parent>>

FinalRefused(s) ==
    /\ pc[s] = "final" /\ ~StoppedAt(view[s])
    /\ ~IsHeadOwner(s)
    /\ Rebuild(s)
    /\ Goto(s, "finalExport")
    /\ UNCHANGED <<log, lease, exports, tensors, owned, parent>>

(* The stop is committed or not, and its exception ends the process. *)
FinalIoError(s) ==
    /\ IoErrors
    /\ pc[s] = "final" /\ ~StoppedAt(view[s]) /\ IsHeadOwner(s)
    /\ CommitEntry(s, "stop", token[s], 0, 0) \/ UNCHANGED log
    /\ Goto(s, "dead")
    /\ UNCHANGED <<lease, exports, view, tensors, owned, parent>>

(* Mutant of FinalExport: stop.json is left to others. *)
FinalExportOnlyLatest(s) ==
    /\ pc[s] = "finalExport"
    /\ IF StoppedAt(view[s]) THEN PublishLatest(s) ELSE UNCHANGED latest
    /\ Goto(s, "exited")
    /\ UNCHANGED <<log, lease, stopFile, view, tensors, owned, parent>>

(* Both exports, latest.json first; without a stop in the view, none. *)
FinalExport(s) ==
    /\ pc[s] = "finalExport"
    /\ IF StoppedAt(view[s])
       THEN PublishLatest(s) /\ Goto(s, "stopExport")
       ELSE UNCHANGED latest /\ Goto(s, "exited")
    /\ UNCHANGED <<log, lease, stopFile, view, tensors, owned, parent>>

PublishStop(s) ==
    /\ pc[s] = "stopExport"
    /\ stopFile' = view[s]
    /\ Goto(s, "exited")
    /\ UNCHANGED <<log, lease, latest, view, tensors, owned, parent>>

Crash(s) ==
    /\ Running(s)
    /\ Goto(s, "dead")
    /\ UNCHANGED <<log, lease, exports, view, tensors, owned, parent>>

-----------------------------------------------------------------------------
Proceed(s) ==
    \/ BootstrapExport(s)
    \/ StandbySeesStop(s) \/ Acquire(s) \/ AcquireRefused(s)
    \/ BumpPrepare(s) \/ BumpCas(s) \/ BumpLost(s) \/ Activated(s) \/ FirstExport(s)
    \/ LeaveLoop(s) \/ StepPrepare(s) \/ StepCas(s) \/ StepRetry(s) \/ StepIoError(s)
    \/ PostCas(s) \/ Export(s)
    \/ FinalSeen(s) \/ FinalStop(s) \/ FinalRefused(s) \/ FinalIoError(s)
    \/ FinalExport(s) \/ PublishStop(s)

Step ==
    \/ \E s \in Session : Start(s) \/ Bootstrap(s) \/ Proceed(s) \/ Crash(s)
    \/ LeaseEnds

Next == Step /\ UNCHANGED rivals

Spec == Init /\ [][Next]_<<rivals, vars>>

(* A running process takes its next step, and storage that keeps being      *)
(* asked answers once.                                                      *)
FairSpec == Spec /\ \A s \in Session : WF_vars(Proceed(s)) /\ SF_vars(StepCas(s))

-----------------------------------------------------------------------------
(* Type invariant of the log, the lease, the exports and the sessions.      *)
TypeOK ==
    /\ log \in Seq(Entry)
    /\ lease \in [owner : Session \cup {NoSession}, epoch : Nat, live : BOOLEAN]
    /\ latest \in [version : 0..MaxLog, params : [Fragment -> 0..MaxLog]]
    /\ stopFile \in 0..MaxLog
    /\ pc \in [Session -> Phase]
    /\ view \in [Session -> 0..MaxLog]
    /\ tensors \in [Session -> [Fragment -> 0..MaxLog]]
    /\ grant \in [Session -> Nat]
    /\ token \in [Session -> Nat]
    /\ parent \in [Session -> 0..MaxLog]

StepsFromParent(i) ==
    log[i].kind = "optimizer" => log[i].from = ParamsAt(i - 1)[log[i].frag]

(* Recovery is exact: every optimizer commit starts from the parameters its *)
(* parent prefix determines, whoever made the commits before it.            *)
StepsFromCommitted == \A i \in 1..HeadSeq : StepsFromParent(i)

(* Recovery is exact where no standby waited: however often a syncer is     *)
(* restarted, its optimizer commits start from the parameters their parent  *)
(* prefix determines, and so do those of the log's first owner while rivals *)
(* fence it off.                                                            *)
RestartStepsFromCommitted ==
    \A i \in 1..HeadSeq :
        rivals = {} \/ log[i].owner = OwnerAt(1) => StepsFromParent(i)

(* The checkpoint learners load is a committed one: latest.json points to   *)
(* the tensors of the commit it names.                                      *)
ExportIsCommitted == latest.params = ParamsAt(latest.version)

(* While a syncer without rivals waits for proposals, latest.json is exact: *)
(* it names the head and points to the head's tensors, whatever crashes,    *)
(* lost answers and wrong exports of earlier processes preceded.            *)
LoopExportsHead ==
    rivals = {} /\ (\E s \in Session : pc[s] = "loop") =>
        latest = [version |-> HeadSeq, params |-> ParamsAt(HeadSeq)]

(* stop.json is derived from a committed stop, and a process that leaves    *)
(* knowing of a stop, be it another session's, leaves stop.json behind.     *)
StopIsExported ==
    /\ stopFile # 0 => stopFile = HeadSeq /\ StoppedAt(HeadSeq)
    /\ \A s \in Session :
           pc[s] = "exited" /\ StoppedAt(view[s]) => stopFile = HeadSeq

(* The lease and the log stay in step across whole runs: only the session a *)
(* lease of that epoch was granted to ever fences it.                       *)
EpochIsLeased ==
    /\ EpochAt(HeadSeq) <= lease.epoch /\ lease.epoch <= EpochAt(HeadSeq) + 1
    /\ EpochAt(HeadSeq) = lease.epoch => OwnerAt(HeadSeq) = lease.owner

(* A syncer in its loop ends: it crashes, or it gets through its steps, its *)
(* retries and its stop and exits, however often it is fenced off.          *)
LoopEnds == \A s \in Session : pc[s] = "loop" ~> pc[s] \in {"exited", "dead"}

(* The log of whole runs is a history of the coordination reference.        *)
History ==
    [i \in 1..HeadSeq |-> [kind |-> log[i].kind, req |-> i, owner |-> log[i].owner,
                           epoch |-> log[i].epoch, count |-> log[i].count]]

StopFact == IF StoppedAt(HeadSeq) THEN [req |-> HeadSeq, seq |-> HeadSeq]
                                  ELSE [req |-> 0, seq |-> 0]

Reference == INSTANCE Coordination
    WITH Owner <- Session, Request <- 1..MaxLog, NoRequest <- 0,
         MaxEpoch <- MaxLog, MaxEvents <- MaxLog, history <- History, stop <- StopFact

(* Restarts, standbys, retries and late exits commit nothing the reference  *)
(* state machine would not.                                                 *)
ImplementsReference == Reference!Spec
=============================================================================
