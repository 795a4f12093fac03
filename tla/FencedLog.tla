------------------------------ MODULE FencedLog ------------------------------
(***************************************************************************)
(* The committed transition log of a head-fenced run: several writer       *)
(* processes, each a ProductionTransactionalLog, advance one head object   *)
(* by compare-and-swap.  A writer replays the head, prepares a successor   *)
(* (epoch bump, stop, or optimizer transition), checks that the head is    *)
(* still its parent, and swaps.  Between any two of these steps another    *)
(* writer may run, the writer may crash, and the answer of the swap may be *)
(* lost.  Leases only pick who tries, so here any writer may try with any  *)
(* epoch: what holds of this module holds whatever leases and clocks do.   *)
(*                                                                         *)
(* The head names a commit whose ancestry never changes, so the committed  *)
(* prefix is a sequence, a head version is its length, and replaying the   *)
(* head reads it.                                                          *)
(***************************************************************************)
EXTENDS Integers, Sequences

CONSTANTS
    Writer,      \* owner sessions: (owner_id, owner_session_id)
    Proposal,    \* published proposal identities
    Request,     \* request identities
    NoWriter,    \* the owner of a log without commits
    NoPrep,      \* no prepared transition in hand
    MaxEpoch,    \* bound: largest fencing epoch a lease proposes
    MaxCommits   \* bound: commits in the log

ASSUME FencedLogAssumption ==
    /\ MaxEpoch \in Nat /\ MaxCommits \in Nat
    /\ NoWriter \notin Writer

VARIABLES
    chain,       \* the commits reachable from head.json
    token,       \* _owner_token: its epoch, or 0 for None
    pc,          \* where each writer is in prepare / check / swap / verify
    prep,        \* its PreparedLogTransition
    result       \* what its last commit_prepared told it

vars == <<chain, token, pc, prep, result>>

Kind == {"epoch_bump", "stop", "optimizer"}

Commit == [kind : Kind, owner : Writer, epoch : 1..MaxEpoch, req : Request,
           count : Nat, props : SUBSET Proposal]

Prepared == [parent : Nat, commit : Commit]

ASSUME NoPrepAssumption == NoPrep \notin Prepared

-----------------------------------------------------------------------------
(* What a replay of the first n commits reports.                            *)

EpochAt(n) == IF n = 0 THEN 0 ELSE chain[n].epoch

OwnerAt(n) == IF n = 0 THEN NoWriter ELSE chain[n].owner

CountAt(n) == IF n = 0 THEN 0 ELSE chain[n].count

StoppedAt(n) == n # 0 /\ chain[n].kind = "stop"

Consumed(n) == UNION {chain[i].props : i \in 1..n}

ControlRequests(n) == {chain[i].req : i \in 1..n}

HeadSeq == Len(chain)

BumpIn(log, w, e) ==
    \E i \in 1..Len(log) :
        log[i].kind = "epoch_bump" /\ log[i].owner = w /\ log[i].epoch = e

(* resolve_prepared: the head, or the replayed ancestry below it, holds the *)
(* prepared commit.                                                         *)
Resolved(p) == HeadSeq > p.parent /\ chain[p.parent + 1] = p.commit

-----------------------------------------------------------------------------
Init ==
    /\ chain = <<>>
    /\ token = [w \in Writer |-> 0]
    /\ pc = [w \in Writer |-> "ready"]
    /\ prep = [w \in Writer |-> NoPrep]
    /\ result = [w \in Writer |-> "none"]

NewCommit(w, kind, e, r, props) ==
    [kind |-> kind, owner |-> w, epoch |-> e, req |-> r,
     count |-> CountAt(HeadSeq) + (IF kind = "optimizer" THEN 1 ELSE 0),
     props |-> props]

Prepare(w, kind, e, r, props) ==
    /\ HeadSeq < MaxCommits
    /\ prep' = [prep EXCEPT ![w] =
           [parent |-> HeadSeq, commit |-> NewCommit(w, kind, e, r, props)]]
    /\ pc' = [pc EXCEPT ![w] = "prepared"]
    /\ result' = [result EXCEPT ![w] = "none"]

(* Mutants of BumpAllowed: a stopped log may be taken over; a request is    *)
(* not looked up.                                                           *)
BumpAfterStop(e, r) == e > EpochAt(HeadSeq) /\ r \notin ControlRequests(HeadSeq)

BumpWithoutLookup(e, r) == ~StoppedAt(HeadSeq) /\ e > EpochAt(HeadSeq)

(* activate_owner up to its swap: the token is dropped first, so a refused  *)
(* activation leaves the writer without one.                                *)
BumpAllowed(e, r) ==
    /\ ~StoppedAt(HeadSeq)
    /\ e > EpochAt(HeadSeq)
    /\ r \notin ControlRequests(HeadSeq)

(* Mutant of PrepareBump: the token is set before its bump is committed. *)
PrepareBumpEager(w, e, r) ==
    /\ pc[w] = "ready"
    /\ BumpAllowed(e, r)
    /\ token' = [token EXCEPT ![w] = e]
    /\ Prepare(w, "epoch_bump", e, r, {})
    /\ UNCHANGED chain

PrepareBump(w, e, r) ==
    /\ pc[w] = "ready"
    /\ BumpAllowed(e, r)
    /\ token' = [token EXCEPT ![w] = 0]
    /\ Prepare(w, "epoch_bump", e, r, {})
    /\ UNCHANGED chain

RefuseBump(w, e, r) ==
    /\ pc[w] = "ready"
    /\ ~BumpAllowed(e, r)
    /\ token' = [token EXCEPT ![w] = 0]
    /\ UNCHANGED <<chain, pc, prep, result>>

(* Mutant of IsHeadOwner: having been activated once is enough. *)
WasActivated(w) == token[w] # 0

(* commit_stop up to its swap. *)
IsHeadOwner(w) ==
    /\ token[w] # 0
    /\ OwnerAt(HeadSeq) = w
    /\ EpochAt(HeadSeq) = token[w]

PrepareStop(w, r) ==
    /\ pc[w] = "ready"
    /\ ~StoppedAt(HeadSeq)
    /\ IsHeadOwner(w)
    /\ r \notin ControlRequests(HeadSeq)
    /\ Prepare(w, "stop", token[w], r, {})
    /\ UNCHANGED <<chain, token>>

(* Mutant of PrepareOptimizer: the replayed consumption is not consulted. *)
PrepareOptimizerBlind(w, r, props) ==
    /\ pc[w] = "ready"
    /\ ~StoppedAt(HeadSeq)
    /\ IsHeadOwner(w)
    /\ props # {}
    /\ r \notin ControlRequests(HeadSeq)
    /\ Prepare(w, "optimizer", EpochAt(HeadSeq), r, props)
    /\ UNCHANGED <<chain, token>>

(* prepare_transition: the commit carries the head's epoch, and no proposal *)
(* of the selection is in the replayed consumption.                         *)
PrepareOptimizer(w, r, props) ==
    /\ pc[w] = "ready"
    /\ ~StoppedAt(HeadSeq)
    /\ IsHeadOwner(w)
    /\ props # {} /\ props \cap Consumed(HeadSeq) = {}
    /\ r \notin ControlRequests(HeadSeq)
    /\ Prepare(w, "optimizer", EpochAt(HeadSeq), r, props)
    /\ UNCHANGED <<chain, token>>

-----------------------------------------------------------------------------
(* activate_owner goes on to verify its bump; a caller that retries an      *)
(* unresolved commit_prepared gets the result only.                         *)
Finish(w, outcome) ==
    /\ result' = [result EXCEPT ![w] = outcome]
    /\ pc' = [pc EXCEPT ![w] =
           IF /\ outcome = "committed" /\ result[w] = "none"
              /\ prep[w].commit.kind = "epoch_bump"
           THEN "verify" ELSE "ready"]

(* commit_prepared, the head check: the parent is still the head; or the    *)
(* transition is found committed; or it lost and the owner state goes.      *)
HeadUnmoved(w) ==
    /\ pc[w] = "prepared"
    /\ HeadSeq = prep[w].parent
    /\ pc' = [pc EXCEPT ![w] = "checked"]
    /\ UNCHANGED <<chain, token, prep, result>>

HeadMovedResolved(w) ==
    /\ pc[w] = "prepared"
    /\ Resolved(prep[w])
    /\ Finish(w, "committed")
    /\ UNCHANGED <<chain, token, prep>>

HeadMovedLost(w) ==
    /\ pc[w] = "prepared"
    /\ HeadSeq # prep[w].parent
    /\ ~Resolved(prep[w])
    /\ token' = [token EXCEPT ![w] = 0]
    /\ Finish(w, "conflict")
    /\ UNCHANGED <<chain, prep>>

(* Mutant of Swap: put instead of conditional_replace.                      *)
SwapBlind(w) == chain' = Append(chain, prep[w].commit)

(* conditional_replace of the head, answered; a committed control           *)
(* transition sets the owner token.                                         *)
Swap(w) ==
    /\ HeadSeq = prep[w].parent
    /\ chain' = Append(chain, prep[w].commit)

TokenAfter(w) ==
    IF prep[w].commit.kind = "optimizer" THEN token
    ELSE [token EXCEPT ![w] = prep[w].commit.epoch]

CasCommits(w) ==
    /\ pc[w] = "checked"
    /\ Swap(w)
    /\ token' = TokenAfter(w)
    /\ Finish(w, "committed")
    /\ UNCHANGED prep

(* The head moved after the check: PreconditionFailed, then resolve, which  *)
(* cannot find the commit unless the swap took place after all.             *)
CasResolves(w) ==
    /\ pc[w] = "checked"
    /\ Resolved(prep[w])
    /\ token' = TokenAfter(w)
    /\ Finish(w, "committed")
    /\ UNCHANGED <<chain, prep>>

CasLoses(w) ==
    /\ pc[w] = "checked"
    /\ HeadSeq # prep[w].parent
    /\ ~Resolved(prep[w])
    /\ Finish(w, "conflict")
    /\ UNCHANGED <<chain, token, prep>>

CasMisses(w) ==
    /\ pc[w] = "checked"
    /\ IF Resolved(prep[w]) THEN CasResolves(w) ELSE CasLoses(w)

(* Mutant of CasUnknown: a lost answer is reported as a lost swap. *)
CasPresumedLost(w) ==
    /\ pc[w] = "checked"
    /\ Swap(w) \/ UNCHANGED chain
    /\ Finish(w, "conflict")
    /\ UNCHANGED <<token, prep>>

(* An I/O error or a timeout whose resolution fails too: the writer does    *)
(* not know whether the swap took place; it still holds the transition.     *)
CasUnknown(w) ==
    /\ pc[w] = "checked"
    /\ Swap(w) \/ UNCHANGED chain
    /\ result' = [result EXCEPT ![w] = "unknown"]
    /\ pc' = [pc EXCEPT ![w] = "prepared"]
    /\ UNCHANGED <<token, prep>>

(* The caller gives an unresolved transition up instead of retrying it.     *)
Abandon(w) ==
    /\ pc[w] = "prepared"
    /\ result[w] = "unknown"
    /\ pc' = [pc EXCEPT ![w] = "ready"]
    /\ UNCHANGED <<chain, token, prep, result>>

(* activate_owner after its swap: a strict replay must show this owner.     *)
VerifyOwner(w) ==
    /\ pc[w] = "verify"
    /\ pc' = [pc EXCEPT ![w] = "ready"]
    /\ token' =
           IF /\ OwnerAt(HeadSeq) = w
              /\ EpochAt(HeadSeq) = prep[w].commit.epoch
           THEN [token EXCEPT ![w] = prep[w].commit.epoch]
           ELSE token
    /\ UNCHANGED <<chain, prep, result>>

(* Mutant of Crash: a restarted writer believes to be in mid-commit. *)
CrashMidway(w) ==
    /\ token' = [token EXCEPT ![w] = 0]
    /\ prep' = [prep EXCEPT ![w] = NoPrep]
    /\ result' = [result EXCEPT ![w] = "none"]
    /\ UNCHANGED <<chain, pc>>

(* The process dies; everything it held is gone, what it put is an orphan.  *)
Crash(w) ==
    /\ token' = [token EXCEPT ![w] = 0]
    /\ pc' = [pc EXCEPT ![w] = "ready"]
    /\ prep' = [prep EXCEPT ![w] = NoPrep]
    /\ result' = [result EXCEPT ![w] = "none"]
    /\ UNCHANGED chain

WriterStep(w) ==
    \/ \E e \in 1..MaxEpoch, r \in Request : PrepareBump(w, e, r) \/ RefuseBump(w, e, r)
    \/ \E r \in Request : PrepareStop(w, r)
    \/ \E r \in Request, P \in SUBSET Proposal : PrepareOptimizer(w, r, P)
    \/ HeadUnmoved(w) \/ HeadMovedResolved(w) \/ HeadMovedLost(w)
    \/ CasCommits(w) \/ CasMisses(w) \/ CasUnknown(w)
    \/ Abandon(w) \/ VerifyOwner(w) \/ Crash(w)

Next == \E w \in Writer : WriterStep(w)

Spec == Init /\ [][Next]_vars

-----------------------------------------------------------------------------
(* Type invariant of the log and of the writers' private state.             *)
TypeOK ==
    /\ chain \in Seq(Commit)
    /\ Len(chain) <= MaxCommits
    /\ token \in [Writer -> 0..MaxEpoch]
    /\ pc \in [Writer -> {"ready", "prepared", "checked", "verify"}]
    /\ prep \in [Writer -> Prepared \cup {NoPrep}]
    /\ result \in [Writer -> {"none", "committed", "conflict", "unknown"}]
    /\ \A w \in Writer : pc[w] # "ready" => prep[w] # NoPrep

(* What commit_prepared reports is true and stays true (I-006, the CAS is   *)
(* the only commit point): a transition reported committed is in the        *)
(* ancestry at its place, and one reported as a conflict never gets in,     *)
(* however late a lost answer is resolved and whoever has committed since.  *)
ResultIsFinal ==
    \A w \in Writer :
        /\ result[w] = "committed" => Resolved(prep[w])
        /\ result[w] = "conflict" => HeadSeq > prep[w].parent /\ ~Resolved(prep[w])

(* I-003: however prepares, retries and takeovers of several writers        *)
(* interleave, a proposal is in the selection of at most one commit.        *)
ConsumedOnce ==
    \A i, j \in 1..HeadSeq :
        i # j => chain[i].props \cap chain[j].props = {}

(* A process that believes it owns an epoch (its _owner_token) does so      *)
(* because the log really holds its bump for that epoch: a lost swap, a     *)
(* refused activation or a crash never leaves a token behind.               *)
TokenIsCommitted ==
    \A w \in Writer : token[w] # 0 => BumpIn(chain, w, token[w])

(* I-007 over the whole ancestry: epochs never decrease, and an epoch       *)
(* belongs to the one session that bumped to it, so commits of a fenced-off *)
(* owner never follow those of its successor.                               *)
Fenced ==
    \A i, j \in 1..HeadSeq :
        i < j => /\ chain[i].epoch <= chain[j].epoch
                 /\ chain[i].epoch = chain[j].epoch => chain[i].owner = chain[j].owner
                 /\ chain[j].kind = "epoch_bump" => chain[i].epoch < chain[j].epoch

(* The authoritative stop ends the log: nothing, not even a takeover's      *)
(* epoch bump prepared before the stop, is committed after it.              *)
NothingAfterStop ==
    \A i \in 1..HeadSeq : chain[i].kind = "stop" => i = HeadSeq

(* _replay_production_log on commit i: a control transition against the     *)
(* frontier it follows, and an optimizer transition.                        *)
VerifiedControl(i) ==
    LET c == chain[i]
    IN  /\ ~StoppedAt(i - 1)
        /\ c.req \notin ControlRequests(i - 1)
        /\ c.count = CountAt(i - 1)
        /\ c.props = {}
        /\ IF c.kind = "epoch_bump" THEN c.epoch > EpochAt(i - 1)
           ELSE c.owner = OwnerAt(i - 1) /\ c.epoch = EpochAt(i - 1)

VerifiedOptimizer(i) ==
    LET c == chain[i]
    IN  /\ i > 1 /\ ~StoppedAt(i - 1)
        /\ c.req \notin ControlRequests(i - 1)
        /\ c.count = CountAt(i - 1) + 1
        /\ c.props \cap Consumed(i - 1) = {}
        /\ c.owner = OwnerAt(i - 1) /\ c.epoch = EpochAt(i - 1)

(* Whatever races over the head, the log stays readable: every commit       *)
(* passes the verification that each process runs over the whole ancestry   *)
(* before it does anything.  One that does not would end every run of the   *)
(* generation for good.                                                     *)
LogVerifies ==
    \A i \in 1..HeadSeq :
        IF chain[i].kind = "optimizer" THEN VerifiedOptimizer(i) ELSE VerifiedControl(i)

-----------------------------------------------------------------------------
(* The inductive strengthening: requests are unique along the log, and what *)
(* a writer has prepared was justified by the prefix it replayed, which is  *)
(* still a prefix of the log.                                               *)
RequestsOnce ==
    \A i, j \in 1..HeadSeq : chain[i].req = chain[j].req => i = j

JustifiedBy(p, w) ==
    /\ p.parent <= HeadSeq /\ p.parent < MaxCommits
    /\ ~StoppedAt(p.parent)
    /\ p.commit.owner = w
    /\ p.commit.count = CountAt(p.parent) + (IF p.commit.kind = "optimizer" THEN 1 ELSE 0)
    /\ \A i \in 1..p.parent : /\ chain[i].req # p.commit.req
                              /\ p.commit.props \cap chain[i].props = {}
    /\ p.commit.kind # "optimizer" => p.commit.props = {}
    /\ p.commit.kind = "epoch_bump" => p.commit.epoch > EpochAt(p.parent)
    /\ p.commit.kind # "epoch_bump" =>
           /\ p.commit.epoch = EpochAt(p.parent)
           /\ w = OwnerAt(p.parent)
           /\ \E i \in 1..p.parent : /\ chain[i].kind = "epoch_bump"
                                    /\ chain[i].owner = w
                                    /\ chain[i].epoch = p.commit.epoch

PrepJustified ==
    \A w \in Writer :
        /\ prep[w] # NoPrep => JustifiedBy(prep[w], w)
        /\ result[w] # "none" => prep[w] # NoPrep
        /\ pc[w] = "verify" => /\ result[w] = "committed"
                              /\ prep[w].commit.kind = "epoch_bump"

IInv ==
    /\ TypeOK /\ ResultIsFinal /\ ConsumedOnce /\ TokenIsCommitted
    /\ Fenced /\ NothingAfterStop /\ RequestsOnce /\ PrepJustified

-----------------------------------------------------------------------------
(* The log as the history of the reference state machine.                   *)
History == [i \in 1..Len(chain) |->
               [kind |-> chain[i].kind, req |-> chain[i].req,
                owner |-> chain[i].owner, epoch |-> chain[i].epoch,
                count |-> chain[i].count]]

StopFact == IF StoppedAt(HeadSeq) THEN [req |-> chain[HeadSeq].req, seq |-> HeadSeq]
                                  ELSE [req |-> "none", seq |-> 0]

Reference == INSTANCE Coordination
    WITH Owner <- Writer, MaxEvents <- MaxCommits, NoRequest <- "none",
         history <- History, stop <- StopFact

(* The production log implements the coordination reference: every head     *)
(* swap is one committed event of CoordinationState, every other step of    *)
(* every writer is invisible to it.                                         *)
ImplementsReference == Reference!Spec
=============================================================================
