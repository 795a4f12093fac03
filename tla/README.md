# Verification of DuraLoCo (fs_diloco)

`src/fs_diloco` trains one model with many learners that share nothing but a
directory.  Learners train intervals from an exported checkpoint and publish
proposals; a syncer merges a quorum of proposals into an outer optimizer step
and commits it to a transactional log whose only mutable object is its head.
Syncers may be started as standbys, learners may be preempted and restarted,
storage answers may be lost.  This directory holds TLA+ modules translated from
that code, TLC instances that check them, and proofs checked by TLAPS.

## Inventory

| Part | State it keeps | Operations | Interacts by | Hard behaviour | What makes it correct |
|---|---|---|---|---|---|
| coordination reference (`coordination/state_machine.py`) | epoch, owner, stop, event history, lease book | epoch bump, optimizer, stop, acquire | oracle for log and lease | retries, old tokens, expiry | one owner per epoch, nothing after stop, a request commits once |
| lease manager (`coordination/lease.py`) | one lease object | acquire, renew, release | conditional replace; proposes the epoch the log fences | clock skew, delayed writes, lost answers, death before the fence | one believer, epochs in step, a standby takes over |
| transactional log (`log/commit.py`, `log/production.py`, `log/replay.py`, `log/run.py`) | immutable objects, manifest, head | initialize, open, publish, prepare, control transitions, commit, resolve | head CAS; replay by every reader | racing writers, partly written genesis, lost answers, stale tokens | the head always replays, exactly once, fenced, a final stop, reports stay true |
| proposal admission (`proposal_catalog.py`, `protocol/validation.py`, prepare and replay) | views of the log | scan, select, prepare, replay | catalog files in, commits out | the same rules written three times, in two units of staleness | whatever is committed replays |
| syncer (`syncer.py`, `runtime_view.py`) | view, tensors, lease, token; `latest.json`, `stop.json` | start, acquire, fence, step, export, stop | log, lease, exports | takeover, crash between commit and export, ambiguous errors, finishing after an error | steps start from committed parameters, exports name what they point to |
| learner (`learner.py`, `learner_protocol/`, `failure_sim.py`) | session, sequence, base, adoption, local steps | boot, recover, train, publish or skip, wait, adopt, load, drain, clean up, leave | markers, metadata, `latest.json`, `stop.json`, heartbeats | crash between marker and metadata, restart, mutual waiting, leaving before the last merge | no overlap, no lost run, no hang |
| storage (`storage/`) | objects with versions | put, conditional replace, get, list, delete | everything above | lock, rename, fsync, directories shared with other keys, lost answers | calls act at once, as the memory backend's do; what was told survives |
| reference model (`log/model.py`) | pure state | publish, commit, decide | oracle of the log in tests | a history whose commits and decisions must stay consistent | I-001 to I-005 never fail, the log agrees with it |
| retention (`retention.py`) | exports and mailboxes on disk | delete old exports (syncer), old proposals (syncer, learner) | the files learners load and the catalog scans | deletion under readers, takeovers that take no part in it | nothing named or about to be loaded is deleted |
| warm start (`log/bootstrap.py`) | genesis, `latest.json` | initialize a generation from a checkpoint, export it | log and exports, before syncers start | repeated after a crash, on a generation that has moved on | restarts still step from committed parameters |
| liveness view (`liveness.py`) | heartbeats read | classify, time out | syncer and learner loops | a timeout while somebody still works | the run ends for a cause |
| schemas, codecs, numerics, CLI, cluster probes | none that persists | | | | |

The hazards of these parts, with the line where each bites and the properties
that would see it, are listed in `PROJECT.json`.

## Modules

- `Coordination` is the abstract specification: the history of epoch bumps,
  optimizer commits and stops of `CoordinationState`, one action per commit.
  `FencedLog` and `SyncerRun` are checked against it.
- `PosixStorage` has one key of the backend under all the others: calls that
  take the per-key flock, look, make the missing directories above the object,
  publish (link, rename or unlink), fsync the directory and answer, each a step
  of its own.  Each call is made once; a retry is another call that names the
  same request.  Callers die at any point, calls fail before or after their
  effect or lose their answer, and the operating system crashes.  Versions are
  positions in `effects`, `visible` is what the directory shows, `survivors`
  what it may show after a crash.  `parts` is the path from the root to the
  object's directory (`_ensure_parent`): a call makes the first missing part
  (`MakePart`) and fsyncs the directory above it in a step of its own
  (`SyncAbove`), but passes a part it finds.  Calls of other keys make and fsync
  the same parts under their own locks (`OthersMake`, `OthersSync`).  A crash may
  take a part that was not fsynced above, with all below it (`Loses`); `gone` is
  the position up to which publications went that way with a part that somebody
  else than the publisher had made.  The `exists` checks of parts that are there
  are no steps of their own, since a part that is there stays there while a call
  lives.  That another key's fsync of the same directory makes this key's entry
  durable too is left out: it only takes losses away.
- `MemoryStorage` is `storage/memory.py`, whose calls act in one step, and with
  `storage/fault_injection.py` what an answer may be.  It is the abstract
  specification that `PosixStorage` implements until an operating system crash
  (`ImplementsMemory`).
- `ReferenceModel` is the abstract specification of the log: `SystemState` of
  `log/model.py` with publication, commits and terminal decisions in one linear
  history, and `check_invariants` by its labels I-001 to I-005.
- `TransactionLog` is the log of `log/commit.py` on its store, object by object:
  processes initialize a generation (genesis tensors, frontier, manifest, head),
  open it, publish, and put tensors, commit and frontier before they swap the
  head, and die between any two puts.  Contents are named by the history that
  led to them (a *tip*), so that `Replays` can ask of a head whether all that
  `replay_log` reads from it is there and right.  The production log initializes
  in the same steps and the same order.  `ImplementsModel` instantiates
  `ReferenceModel` with what the head names.
- `FencedLog` is what `log/production.py` adds, on an initialized generation
  whose commits are single values.  It has writers that prepare on a head they
  read, compare the head, and swap it, each in a step of its own, as `prepare_transition`,
  `prepare_control_transition`, `commit_prepared` and `resolve_prepared` do.  A
  swap may be applied without an answer.  `ImplementsReference` instantiates
  `Coordination` with the committed chain.
- `LeaseManager` has sessions that read the head epoch, read their clock, load
  the lease, and replace it, in four steps, with reconciliation after a lost
  answer; `Fence` is the epoch bump that follows.  `LeaseBook` is the lease of
  the coordination reference, changed in one step; `ImplementsLeaseBook` says
  that four steps, renewals and releases never do more.
- `SyncerRun` has whole syncer processes: their view of the log, the tensors
  they hold (named by the commit that made them), the lease, and the two
  exports.  One action is one stretch of `run_syncer` between two points where
  another process, a crash or a storage error can come in.  `rivals` is the
  deployment: nobody's (successive processes) or a syncer with its standbys.
  `Bootstrap` and `BootstrapExport` are a session that runs
  `bootstrap_new_generation` instead, the first time or again; it is not run
  beside a live syncer.
- `ProposalAdmission` states the admission rules of catalog (`Eligible`,
  `Selections`), prepare (`Prepares`) and replay (`Replays`), and
  `AdmissionSpec`, the log that any publication and any offered selection may
  lead to.
- `LearnerRun` has learners and the syncer around that log.  The owner of the
  log is one role here; its processes are the business of `SyncerRun`.  A
  learner trains an interval (`Train`), uploads it (marker, then metadata) or
  skips the upload, waits for a newer export, reads `latest.json` and loads what
  it names in two steps, and leaves on a stop, on its local step limit, after
  which the syncer drains what is left and stops, or for want of progress; then
  it cleans up its mailbox.  `mode` is the configuration of a run: `limit`
  (`max_local_steps`), `adopt`, `skips`, `keep` and `updates` (retention) and
  `faults`.
- `MC*` give TLC symmetry sets and small constants; `*_proofs` hold the proofs.

Definitions keep the names of the code where they can; `PROJECT.json` maps each
to the lines it translates.  Next to a definition stands its mutant, where a
check relies on one: the definition with a plausible bug, which TLC must see.

## Runs

| Run | Question | Bounds and why they suffice |
|---|---|---|
| `storage` | does a call act at once like the memory backend's, has a version one winner, and does what a publisher was told of survive? | 4 calls, 2 payloads, 2 requests, 3 effects, 1 OS crash, a path of 2 parts that this key's calls or others make; `FourthCall` lets a fourth call begin only when the path is durable and at most one call creates and one removes: with 3 calls, one that fails or dies below a part it made and one that takes its place fit, with 4, a creation, two racing replacements of it and a retry, with a crash anywhere |
| `storage_durability` | does everything acknowledged survive in a durable directory? violated | as `storage`, with nothing to make (`Depth` 0) |
| `fenced_log` | is the racing log exactly once, fenced and always readable, and does it implement the reference? | 2 writers, 2 proposals, 4 requests, 4 commits: two epochs, a step by each, a stop |
| `lease` | one leader at a time, an epoch one holder's, epochs in step, the steps of the reference's lease book, and does a standby take over? | 2 sessions, skew 1, lease 1, time 3: acquisition, renewal, expiry and takeover fit, with a crash in any phase |
| `lease_wedge` | the same liveness without its excuse: violated | as `lease`, crash only between lease and fence |
| `transaction_log` | does the head replay at any moment, do configurations never mix, can an initialization be repeated, and does the log do what the reference model does? | 2 processes, 2 configurations, 3 proposals of 2 learners (two from one base), 2 commits, 9 objects: a genesis by each, two commits and the orphans of lost races and crashes fit |
| `syncer` | do restarted processes and repeated bootstraps step from committed parameters and export the head, do an owner and a standby at once stay within the reference, and leave? | two deployments: 3 sessions one after the other, each a syncer or a bootstrap, and 2 at once; 1 fragment, so that the second of 2 steps builds on the first; 6 commits: bump, steps, takeover bumps, stop; crashes and storage errors anywhere |
| `syncer_takeover` | does a standby step from the committed parameters? violated | 2 sessions |
| `syncer_ambiguous` | does `latest.json` point to the tensors of the commit it names? violated | 1 session, storage errors |
| `learner` | do the three admission rules agree in a run, are intervals disjoint, does deletion meet no reader, does every run end, and only for a cause? | 2 learners and a quorum of both, staleness bounds 1 and 0, 2 steps, 1 takeover, one learner that may crash once in any phase; the four configurations of `MCModes`: open-ended with the crash and the takeover, the learner coming back or not; retention down to one export and one proposal; a local step limit of 2 with skipped uploads, retention and the crash; the limit without adoption and with a takeover |
| `learner_fragment` | is the scheduled fragment published? violated | 2 fragments |
| `learner_wedge` | does a run whose learners all come back make its steps? violated | a crash between marker and metadata |

Deadlock checking is off where processes end: storage calls, leases, syncers
and learners terminate, and the bounds of the histories end the rest.

### Fairness

`LeaseManager`: weak fairness of each session's own next step and of time; a
release is a wish and is not fair.  `SyncerRun`: weak fairness of a process's
next step, strong fairness of a head swap, since the code retries a lost one and
the failure model (`docs/duraloco/failure_model.md:16`) lets storage fail
repeatedly but not for ever.  `LearnerRun`: weak fairness of the syncer's step,
of its scan of the mailboxes and of its giving up, and of the next step of each
learner process; restarts, takeovers and skipped uploads are the environment's
and bounded.  The no-progress timeouts are taken to be patient (`Stuck`): they
fire only when everybody waits, so that what the run shows is due to the
protocol and not to a short timeout.

### What the violated runs show

1. `lease_wedge`: `LeaseManager.acquire` refuses every candidate whose head is
   behind the stored lease.  When the process that took the lease dies before
   its epoch bump, the head never gets there, and no standby can take over.
   `StandbyTakesOverUnlessWedged` shows that this is the only obstacle.
2. `syncer_takeover`: tensors are loaded before the wait for the lease and not
   again after it, so a standby's first step merges into old parameters.
3. `syncer_ambiguous`: after a swap that was applied and raised, the finishing
   path exports the old tensors under the new commit.
4. `learner_fragment`: the loop variable of the token counts in
   `run_fragment_learner` hides the scheduled fragment.
5. `storage_durability`: a retry that finds its object already published is
   answered at once.  If the publisher died before its fsync, the object that
   was acknowledged to the retry can vanish in an OS crash, in a directory that
   has long been durable.
6. `learner_wedge`: a marker without metadata holds up its learner in every
   later session.  `EndsForCause` says what else can hold a run up: only a
   lost learner, a published interval that went stale before it was consumed,
   or a local step limit that was reached; and when a limit ends the run, that
   nothing mergeable is left unmerged.  `RunEndsForCause` adds that every run
   ends.

### Disagreements noted without a run

- `docs/duraloco/failure_model.md:13-14` assumes that an acknowledged object
  remains.  While its directory is new, not even the publisher's own success is
  safe.  `_ensure_parent` fsyncs the directory above a part only after a `mkdir`
  of its own (`posix.py:178-179`); a call that finds the part (172), or loses the
  race for it (180), does not, publishes, fsyncs the object's directory alone
  (389) and reports success.  Until the maker's fsync, or for good when the maker
  failed or died, an OS crash can take the directory and every object other
  calls were told of in it.  The model has this (`OthersMake`, `Left`, `Loses`),
  and `PublishedSurvives` excuses it, by `gone`, and nothing else: a part the call
  itself made is fsynced above before the call publishes, an entry it fsynced
  stays with its directory, and a path whose parts are all durable stays so
  (`DurablePathStays`).
- `config.py:142-143` says that normal successful runs keep only the final
  syncer checkpoint; with the setting unset, `syncer.py:605` deletes nothing.
- `docs/user-guide/02-training.zh-en.md:54` says that a historical bootstrap
  always creates a new generation; a repeated one opens the existing head and
  exports the checkpoint's tensors under it.  `LoopExportsHead` shows that the
  next owner's first export corrects this before it takes proposals.

## Proofs

All are checked by TLAPS for every value of the constants, under the named
assumptions of the modules (sets of owners, requests, sessions and learners
need not be finite).

- `References_proofs`: the two abstract specifications.  Of `Coordination`:
  owners, epochs and counts never go back, so that the last event alone decides
  who commits; one owner per epoch, nothing but bumps after a stop, and no
  request twice follow together.  Of `ReferenceModel`: `Inv`, the types with I-001 to
  I-005, is inductive as it stands.  An event leaves every earlier prefix of the
  history as it was (`HistoryKept`), so old events keep what they satisfied
  (`PrefixKept`), and a fragment keeps its producer when the event is another
  fragment's or a decision (`StillLast`).  So `assert_invariants`, which the
  code runs after every transition, never raises.  The two results are made
  to be inherited: `PromiseInherited` and `ModelInherited` instantiate this
  module with the histories of `SyncerRun` and `TransactionLog`, whose
  refinements are proved, and so have what the abstract specifications promise
  of the concrete logs.
- `PosixStorage_proofs`: `IInv` says who holds the lock, that what a call saw
  under it still holds when it publishes, that the versions an object descends
  from form a chain in which a replacement follows directly on the version it
  expected, what a success is about, that a part of the path just made has its
  maker still before the fsync and nothing below it (`Rooted`, `Making`), and
  what a crash may leave.  The chain is
  what makes two winners for one expectation the same effect.  `Implements`
  maps the rename or link of a call to the one step of the memory backend, and
  every other step to a stutter or an answer, as long as no crash of the
  operating system has taken an unsynced entry back.  The violated
  `storage_durability` has its counterpart in `ProcessDeathsLoseNothing`: until
  such a crash every object descends from all before it (`Lineal`), so what was
  acknowledged is lost by no death of a caller, whichever retry observed it.
- `FencedLog_proofs`: `IInv` is inductive: beyond the properties it says that a
  prepared commit was justified when its head was read (`PrepJustified`), what
  a reported result refers to, and which token a writer may hold.  It is needed
  because the swap looks at the head alone, not at what justified the commit.
  Every safety invariant of the run is a conjunct or follows; the refinement of
  `Coordination` follows step by step, and so does `LogVerifies`: what replay
  asks of a commit concerns the prefix below it, which never changes.
  `RetriesCommitOnce` is the part of it that a retry after a lost answer relies
  on.
- `TransactionLog_proofs`: the inductive `IInv` says that what a process has
  prepared was accepted on the head it read, whatever was published or committed
  since, and that every object of it is put or still queued (`PreparedInv`);
  that genesis objects are there before the manifest and the manifest before the
  head (`GenesisInv`); and that the head's versions and producers agree
  (`WellBuilt`).  A swap happens only on the head the transition stands on, so
  the new head replays: below it nothing changed (`ConformsOn`), and its own
  objects were put.  `Refinement` maps a swap to one commit of `ReferenceModel`;
  `WellBuilt` supplies the producer the model's `VersionIs` asks for.
  `AncestryIsFinal` is for readers that follow the head over several reads: it
  moves to children of the commit it named, and nothing they have read is
  replaced.
- `LeaseManager_proofs`: `IInv` says of each session what its held lease has to
  do with the stored one: it is the stored one or a shorter version of it, or
  its holder's clock has passed its end.  From that, exclusion for every skew
  bound and lease duration, epochs in step, no change of hands without a new
  epoch, and no epoch with two holders, however long ago (`OneHolder`).
  `BookImplemented` follows: the conditional write that succeeds found the lease
  it had checked, so checks and write count as one step of `LeaseBook`.
  `TenureIsAtomic` says the same of head and clock: when a takeover succeeds,
  head and lease are in step and nobody believes, and what is fenced is the
  stored lease's epoch, by its owner.  This is what lets `SyncerRun` make an
  acquisition one step and a fence another.  `ClaimInv` follows the sessions
  that have proposed an epoch and not fenced it: an unfenced lease belongs to
  one of them or to one that died.  From it comes the safety half of
  `StandbyTakesOverUnlessWedged` (`CandidateRefusedForCause`: a candidate that
  comes after the lease's end is refused only by an owner about to fence, or
  dead before it did), and what `lease_wedge` shows of one run, of all
  (`WedgeIsPermanent`).
- `ProposalAdmission_proofs`: `AdmissionInv` is inductive.  The step that
  matters is `PreparedReplays`: prepare bounds staleness in commits, replay in
  optimizer transitions, and `CountsLag` makes the first bound imply the
  second.  Prefixes keep their meaning when the log grows (`PrefixKept`).
- `LearnerRun_proofs`: the inductive invariant ties the directory to the
  sessions: a marker is there before its metadata, sequence numbers of a session
  are below its next one, a base a session trains from is newer than those it
  has published from, what a learner is about to load is there, and what the
  syncer has picked the catalog would still select.  From it, intervals are disjoint (`Intervals`), a catalog
  selection prepares although the catalog's staleness and lineage rules are not
  prepare's (`SelectionsPrepare`), and every step is one of `AdmissionSpec`
  (`Refines`), so that `Replayable` is inherited (`RunReplays`).  `Exports`
  needs that a running syncer keeps all exports, and the final cleanup the one
  `latest.json` names.  `EndsOnlyForCause`, the safety half of
  `RunEndsForCause`, has an invariant of its own, `EndInv`.  It speaks of the
  last commit before the stop (`Tip`), since the timeouts fire there and what
  follows must not lose the cause.  A learner that waits, has not been lost and
  has adopted the tip has published from it, so its proposal is eligible unless
  it was held by another interval (`MailInv`); were the run stuck without a
  cause, these proposals would make a quorum, and the syncer would not be
  stuck.  After a timeout learners still adopt and load, but none publishes
  anything the tip could merge (`SettledInv`), and once a local step limit has
  been reached the syncer gives up only when it has merged all it can
  (`Drained`).  The theorem has two hypotheses: `Frags = 1`, since the fragment
  loop publishes under the wrong fragment (`learner_fragment`), and `Quorate`,
  that the quorum is not larger than the number of learners, without which no
  run makes a step: `config.py:280-283` cuts it to a number given on the command
  line, and elsewhere it is the configuration's to respect.  That a learner
  has a least eligible number is drawn from the library's well-founded order of
  finite sets, which needs no induction with an operator parameter.
- `SyncerRun_proofs`: two layers.  `SafeInv` holds in every deployment: fencing
  epochs do not run ahead of their position, a stop is the end of the log, a
  session that may still fence holds the stored lease, views are prefixes of
  the log and prepared steps were justified on their parent.  It gives types,
  exported stops, leased epochs and the refinement of `Coordination`.
  `FullInv` adds what a *trusted* session knows, one that runs while nothing is
  committed, or alone, or as the first and still the owner: it holds the
  parameters of its head, and nobody else commits while it is trusted.  Trust
  once lost is never regained, which is where `syncer_takeover` comes from;
  with it, `ExactRecovery` and `ExportsCurrent`.  More stands on these:
  `TenureInv` ties the epochs of a session's commits to the one grant it ever
  gets, so that its commits are one stretch of the log and fencing is for good
  (`FencedForGood`); `RunEndIsFinal` says that nothing is
  committed after a stop and `stop.json` never changes.  `BudgetInv` says that
  the view a session decides on is the head's for as long as it owns the log
  (`CurrentView`), although it is neither read again before a step nor compared
  with the head.  So no takeover makes a step beyond `stop_after_outer_steps`
  or of a fragment whose turn it is not (`BudgetKept`); and the safety half of
  `LoopEnds` follows (`LoopGoesForward`): a conflict means that the session has
  been fenced, so it tries once more at most, and every other pass counts one
  step of the budget.  What fairness must exclude is only a storage that times
  out for ever.  `ExportsGoForward` says what `latest.json` may do: the commit
  it names falls only by the one export a session was about to make when a rival
  fenced it off, and never where processes follow one another.

Only model-checked: the liveness properties (`LoopEnds`, `RunEndsForCause`,
`StandbyTakesOverUnlessWedged`), since fairness and ENABLED are out of the
prover's reach; of each of them the part that is safety, what a process that
does not go on is waiting for, is proved (`LoopGoesForward`, `EndsOnlyForCause`,
`CandidateRefusedForCause`).  Every safety invariant and refinement of the
passing runs is proved.  Only proved: the decisions of `ReferenceModel`, which
the log does not make; that counted staleness bounds the commits of a
transition (`CountsLag`); and the results above that say of all runs what a
run or an abstraction of this project relies on.  The strengthened invariants
are no properties of the runs, since they are proved.  No module uses recursive
operators.

## Not modelled

Payload contents, digests and parsing (identities are values, and validation of
payloads succeeds), hence schemas, canonical JSON and codecs; numerics of merging
and of the outer optimizer; logging, metrics, the active/degraded classification
of learners, which only feeds metrics, and heartbeats but for the one that says
a learner is done; the bounded explorer in `coordination/state_machine.py` and
the simulator and its tools, which are tests of their own; the capability probe,
the CLI and cluster drivers.  In fragment mode, the final wait
(`learner.py:913-974`) and what takes more than the first intervals is not
checked: every interval is published under the last fragment, so in a run that
needs a quorum the turn of another fragment never comes, and the two hazards of
this mode that `PROJECT.json` lists without a property lie behind that fault.
`LearnerRun` has `latest.json` go forward, which `ExportsGoForward` proves of
successive syncers; a learner that restarts just when a fenced syncer has put it
back for a moment is not modelled.  The reasons stand with each component in
`PROJECT.json`.

## Plan

Done: every component the table of modules names, with its runs, the proofs
of all their safety properties and refinements, and of the safety half of each
liveness property.

Left, should the code move on: fragment mode of `LearnerRun` beyond its first
interval, with the cursor of a restarted learner, once the loop of
`run_fragment_learner` is corrected; a composition of `SyncerRun` and
`LearnerRun` in one state space, beyond what a check of minutes can cover, since
both share the log only through properties proved of each.
