---------------------------- MODULE LeaseManager ----------------------------
(***************************************************************************)
(* The lease object of a run generation and the syncer sessions competing  *)
(* for it: LeaseManager (coordination/lease.py) as                         *)
(* _acquire_and_activate_owner and _renew_owner_lease (syncer.py) call it. *)
(*                                                                         *)
(* A session reads the head's fencing epoch, reads its clock, loads the    *)
(* lease, checks it, and replaces it by a conditional write: four steps    *)
(* between which other sessions run, clocks advance and processes die.     *)
(* Every session has a clock of its own; they differ by at most MaxSkew,   *)
(* the bound max_clock_skew_seconds configures.                            *)
(*                                                                         *)
(* A session is one process lifetime (run_syncer draws a session id per    *)
(* start), so a restarted syncer is another session.  The committed log is *)
(* its fencing epoch only; FencedLog says how the epoch is committed.      *)
(***************************************************************************)
EXTENDS Integers

CONSTANTS
    Session,     \* owner sessions: (owner_id, owner_session_id)
    NoOwner,     \* the owner field of the missing lease
    Ttl,         \* lease_ttl_seconds
    MaxSkew,     \* max_clock_skew_seconds
    MaxTime,     \* bound: the last instant of real time
    MaxEpoch,    \* bound: the largest epoch a lease proposes
    MaxSeq,      \* bound: lease mutations
    CrashAt      \* the phases in which a session may die

Phase == {"idle", "read", "stamped", "checked", "reconcile", "fencing", "owner", "dead"}

ASSUME LeaseAssumption ==
    /\ Ttl \in Nat \ {0} /\ MaxSkew \in Nat /\ MaxTime \in Nat
    /\ MaxEpoch \in Nat /\ MaxSeq \in Nat
    /\ NoOwner \notin Session
    /\ CrashAt \subseteq Phase

VARIABLES
    lease,       \* the stored LeaseRecord, or NoLease
    head,        \* fencing epoch of the committed head
    now,         \* real time
    skew,        \* what each session's clock adds to it
    phase,       \* where each session is
    obs,         \* the fencing epoch its mutation carries
    op,          \* the operation of its mutation
    at,          \* its requested_at_utc_ns
    seen,        \* the lease its last load returned
    held         \* its LoadedLease, or NoLease

vars == <<lease, head, now, skew, phase, obs, op, at, seen, held>>
private == <<obs, op, at, seen>>

NoLease == [owner |-> NoOwner, epoch |-> 0, seq |-> 0, expires |-> 0]

Record == [owner : Session, epoch : 1..MaxEpoch, seq : 1..MaxSeq, expires : Nat]

Clock(s) == now + skew[s]

(* The session takes its own lease to be live. *)
Believes(s) == held[s] # NoLease /\ Clock(s) < held[s].expires

-----------------------------------------------------------------------------
Init ==
    /\ lease = NoLease
    /\ head = 0
    /\ now = 0
    /\ skew \in [Session -> 0..MaxSkew]
    /\ phase = [s \in Session |-> "idle"]
    /\ obs = [s \in Session |-> 0]
    /\ op = [s \in Session |-> "acquire"]
    /\ at = [s \in Session |-> 0]
    /\ seen = [s \in Session |-> NoLease]
    /\ held = [s \in Session |-> NoLease]

Goto(s, p) == phase' = [phase EXCEPT ![s] = p]

(* _acquire_and_activate_owner: the head is read before the clock. *)
ReadHead(s) ==
    /\ phase[s] = "idle"
    /\ obs' = [obs EXCEPT ![s] = head]
    /\ Goto(s, "read")
    /\ UNCHANGED <<lease, head, now, skew, op, at, seen, held>>

Stamp(s, operation) ==
    /\ op' = [op EXCEPT ![s] = operation]
    /\ at' = [at EXCEPT ![s] = Clock(s)]
    /\ Goto(s, "stamped")

StampAcquire(s) ==
    /\ phase[s] = "read"
    /\ Stamp(s, "acquire")
    /\ UNCHANGED <<lease, head, now, skew, obs, seen, held>>

StampRenew(s) ==
    /\ phase[s] = "owner"
    /\ Stamp(s, "renew")
    /\ obs' = [obs EXCEPT ![s] = held[s].epoch]
    /\ UNCHANGED <<lease, head, now, skew, seen, held>>

(* An owner that releases its lease stops relying on it first. *)
StampRelease(s) ==
    /\ phase[s] = "owner"
    /\ Stamp(s, "release")
    /\ obs' = [obs EXCEPT ![s] = held[s].epoch]
    /\ held' = [held EXCEPT ![s] = NoLease]
    /\ UNCHANGED <<lease, head, now, skew, seen>>

-----------------------------------------------------------------------------
(* Mutant of Expired: the skew of the clocks is forgotten. *)
ExpiredUnskewed(s) == at[s] >= lease.expires

(* What acquire, renew and release require of the lease they load. *)
Expired(s) == at[s] >= lease.expires + MaxSkew

(* Mutants of MayAcquire: the candidate's head may be older than the lease; *)
(* its head must be newer.                                                  *)
MayAcquireBehind(s) == IF lease = NoLease THEN obs[s] = 0 ELSE Expired(s)

MayAcquireAhead(s) ==
    IF lease = NoLease THEN obs[s] = 0
    ELSE Expired(s) /\ obs[s] > lease.epoch

MayAcquire(s) ==
    IF lease = NoLease THEN obs[s] = 0
    ELSE Expired(s) /\ obs[s] >= lease.epoch

IsMine(s) == lease.owner = s /\ lease.epoch = obs[s]

MayRenew(s) == IsMine(s) /\ at[s] < lease.expires

Allowed(s) ==
    \/ op[s] = "acquire" /\ MayAcquire(s)
    \/ op[s] = "renew" /\ MayRenew(s)
    \/ op[s] = "release" /\ IsMine(s)

Load(s) ==
    /\ phase[s] = "stamped"
    /\ lease.seq < MaxSeq
    /\ op[s] = "acquire" => obs[s] < MaxEpoch
    /\ Allowed(s)
    /\ seen' = [seen EXCEPT ![s] = lease]
    /\ Goto(s, "checked")
    /\ UNCHANGED <<lease, head, now, skew, obs, op, at, held>>

(* CoordinationConflict: a candidate may poll again, an owner is done. *)
Refused(s) ==
    /\ phase[s] = "stamped"
    /\ ~Allowed(s)
    /\ Goto(s, IF op[s] = "acquire" THEN "idle" ELSE "dead")
    /\ held' = [held EXCEPT ![s] = NoLease]
    /\ UNCHANGED <<lease, head, now, skew, private>>

(* Mutant of NewRecord: the lease sequence stands still. *)
NewRecordSameSeq(s) ==
    [owner |-> s,
     epoch |-> IF op[s] = "acquire" THEN obs[s] + 1 ELSE seen[s].epoch,
     seq |-> seen[s].seq,
     expires |-> IF op[s] = "release" THEN at[s] ELSE at[s] + Ttl]

(* Mutant of NewRecord: a renewal proposes the next epoch, too. *)
NewRecordNextEpoch(s) ==
    [owner |-> s, epoch |-> obs[s] + 1, seq |-> seen[s].seq + 1,
     expires |-> IF op[s] = "release" THEN at[s] ELSE at[s] + Ttl]

(* The record a checked mutation writes. *)
NewRecord(s) ==
    [owner |-> s,
     epoch |-> IF op[s] = "acquire" THEN obs[s] + 1 ELSE seen[s].epoch,
     seq |-> seen[s].seq + 1,
     expires |-> IF op[s] = "release" THEN at[s] ELSE at[s] + Ttl]

(* The mutation succeeded: an acquirer goes on to fence, a renewer is the   *)
(* owner as before, a released session is a candidate again.                *)
Installed(s) ==
    /\ held' = [held EXCEPT ![s] = IF op[s] = "release" THEN NoLease ELSE NewRecord(s)]
    /\ Goto(s, [acquire |-> "fencing", renew |-> "owner", release |-> "idle"][op[s]])

(* Mutant of Swap: an unconditional write. *)
SwapBlind(s) == lease' = NewRecord(s)

Swap(s) == lease = seen[s] /\ lease' = NewRecord(s)

SwapAnswered(s) ==
    /\ phase[s] = "checked"
    /\ Swap(s)
    /\ Installed(s)
    /\ UNCHANGED <<head, now, skew, private>>

(* The write timed out, with or without effect, or found another version.   *)
SwapUnanswered(s) ==
    /\ phase[s] = "checked"
    /\ Swap(s) \/ UNCHANGED lease
    /\ Goto(s, "reconcile")
    /\ UNCHANGED <<head, now, skew, private, held>>

(* The reload after it: the stored mutation is the session's own, or not.   *)
(* Only a lost conditional replace is a CoordinationConflict, so only a     *)
(* candidate that loses one polls on; the loser of the first put, and every *)
(* timeout without effect, leave the syncer by their exception.             *)
ReconcileMine(s) ==
    /\ phase[s] = "reconcile"
    /\ lease = NewRecord(s)
    /\ Installed(s)
    /\ UNCHANGED <<lease, head, now, skew, private>>

ReconcileLost(s) ==
    /\ phase[s] = "reconcile"
    /\ lease # NewRecord(s)
    /\ \/ op[s] = "acquire" /\ seen[s] # NoLease /\ lease # seen[s] /\ Goto(s, "idle")
       \/ Goto(s, "dead")
    /\ held' = [held EXCEPT ![s] = NoLease]
    /\ UNCHANGED <<lease, head, now, skew, private>>

-----------------------------------------------------------------------------
(* activate_owner: the epoch of the lease is committed to the log, or the   *)
(* log has moved past it.                                                   *)
FenceCommits(s) ==
    /\ phase[s] = "fencing"
    /\ held[s].epoch > head
    /\ head' = held[s].epoch
    /\ Goto(s, "owner")
    /\ UNCHANGED <<lease, now, skew, private, held>>

FenceRefused(s) ==
    /\ phase[s] = "fencing"
    /\ held[s].epoch <= head
    /\ Goto(s, "dead")
    /\ held' = [held EXCEPT ![s] = NoLease]
    /\ UNCHANGED <<lease, head, now, skew, private>>

Fence(s) == IF held[s].epoch > head THEN FenceCommits(s) ELSE FenceRefused(s)

(* The process dies: killed, or by an exception nothing catches.  In phase  *)
(* "fencing" this is also a head CAS lost to a commit of the present owner. *)
Crash(s) ==
    /\ phase[s] \in CrashAt
    /\ Goto(s, "dead")
    /\ held' = [held EXCEPT ![s] = NoLease]
    /\ UNCHANGED <<lease, head, now, skew, private>>

Tick ==
    /\ now < MaxTime
    /\ now' = now + 1
    /\ UNCHANGED <<lease, head, skew, phase, private, held>>

(* What a session does on its own; a release is an operator's wish. *)
Proceed(s) ==
    \/ ReadHead(s) \/ StampAcquire(s) \/ StampRenew(s)
    \/ Load(s) \/ Refused(s)
    \/ SwapAnswered(s) \/ SwapUnanswered(s)
    \/ ReconcileMine(s) \/ ReconcileLost(s)
    \/ Fence(s)

Next ==
    \/ \E s \in Session : Proceed(s) \/ StampRelease(s) \/ Crash(s)
    \/ Tick

Spec == Init /\ [][Next]_vars

(* A syncer's loop takes its next step and real time passes. *)
FairSpec == Spec /\ WF_vars(Tick) /\ \A s \in Session : WF_vars(Proceed(s))

-----------------------------------------------------------------------------
(* Type invariant of the lease object and of the sessions.                  *)
TypeOK ==
    /\ lease \in Record \cup {NoLease}
    /\ head \in 0..MaxEpoch
    /\ now \in 0..MaxTime
    /\ skew \in [Session -> 0..MaxSkew]
    /\ phase \in [Session -> Phase]
    /\ obs \in [Session -> 0..MaxEpoch]
    /\ op \in [Session -> {"acquire", "renew", "release"}]
    /\ at \in [Session -> Nat]
    /\ seen \in [Session -> Record \cup {NoLease}]
    /\ held \in [Session -> Record \cup {NoLease}]

(* The lease elects one leader: whatever the skews within their bound, and  *)
(* however loads, delayed writes and lost answers interleave, no two        *)
(* sessions take their lease to be live at the same time.                   *)
LeaseExclusion ==
    \A s, t \in Session : Believes(s) /\ Believes(t) => s = t

(* Leases and log stay in step: a lease never proposes an epoch more than   *)
(* one above the head, and the head never carries an epoch no lease         *)
(* proposed, although the two objects are written by separate swaps.        *)
NoEpochSkipped == head <= lease.epoch /\ lease.epoch <= head + 1

(* No two sessions ever hold, or fence, leases of the same epoch, not even  *)
(* when one of them holds a lease that was taken over long ago.             *)
EpochNotShared ==
    \A s, t \in Session :
        (held[s] # NoLease /\ held[s].epoch = held[t].epoch) => s = t

(* A lease that changes hands changes its epoch; a renewal or a release     *)
(* does neither.                                                            *)
NewOwnerNewEpoch ==
    [][ lease' # lease =>
          \/ lease'.epoch > lease.epoch
          \/ lease'.epoch = lease.epoch /\ lease'.owner = lease.owner ]_vars

Book == INSTANCE LeaseBook WITH
            record <- lease, Time <- 0..(MaxTime + MaxSkew), Epoch <- 0..MaxEpoch

(* Renewal and release, which the reference book does not have. *)
SameTenure ==
    /\ lease.owner \in Session
    /\ lease'.owner = lease.owner /\ lease'.epoch = lease.epoch
    /\ lease'.seq = lease.seq + 1

(* Load, check and conditional write act like the reference book's one      *)
(* step: what changes a lease is an acquisition that the record replaced    *)
(* at that moment allows, or the owner's own renewal or release.            *)
ImplementsLeaseBook == Book!Init /\ [][Book!Next \/ SameTenure]_lease

(* A candidate the lease has expired for keeps trying until somebody has    *)
(* the lease or the candidate gives up: the standby eventually takes over.  *)
Eligible(s) ==
    /\ phase[s] \notin {"owner", "dead"}
    /\ lease # NoLease /\ Clock(s) >= lease.expires + MaxSkew
    /\ lease.seq < MaxSeq /\ lease.epoch < MaxEpoch     \* the bounds leave room

StandbyTakesOver ==
    \A s \in Session : Eligible(s) ~> ~Eligible(s)

(* What keeps it from that is one crash only: the owner of the lease died   *)
(* before it fenced the epoch the lease proposes.                           *)
Wedged == lease.epoch > head /\ phase[lease.owner] = "dead"

StandbyTakesOverUnlessWedged ==
    \A s \in Session : Eligible(s) ~> ~Eligible(s) \/ Wedged

-----------------------------------------------------------------------------
(* The inductive strengthening.  A held lease is the stored one, at least   *)
(* as long-lived, or its holder's clock has passed its end.                 *)
HeldIsKnown(s) ==
    /\ held[s].owner = s
    /\ held[s].expires <= Clock(s) + Ttl
    /\ held[s].epoch <= lease.epoch
    /\ held[s].epoch = lease.epoch => lease.owner = s
    /\ \/ held[s].epoch = lease.epoch /\ lease.expires >= held[s].expires
       \/ Clock(s) >= held[s].expires

InMutation(s) == phase[s] \in {"stamped", "checked", "reconcile"}

(* Who holds a lease in which phase, and what it has stamped. *)
PhaseOK(s) ==
    /\ phase[s] \in {"fencing", "owner"} => held[s] # NoLease
    /\ phase[s] \in {"idle", "read", "dead"} => held[s] = NoLease
    /\ phase[s] = "read" => obs[s] <= head
    /\ InMutation(s) =>
           /\ at[s] <= Clock(s)
           /\ op[s] = "acquire" => held[s] = NoLease /\ obs[s] <= head
           /\ op[s] = "release" => held[s] = NoLease
           /\ op[s] = "renew" => /\ held[s] # NoLease
                                /\ obs[s] = held[s].epoch
                                /\ held[s].expires <= at[s] + Ttl

(* What the checks of a loaded lease leave true of it. *)
SeenOK(s) ==
    phase[s] \in {"checked", "reconcile"} =>
        /\ seen[s].seq < MaxSeq
        /\ op[s] = "acquire" =>
               /\ obs[s] < MaxEpoch
               /\ obs[s] >= seen[s].epoch
               /\ seen[s] # NoLease => at[s] >= seen[s].expires + MaxSkew
        /\ op[s] # "acquire" => seen[s].owner = s /\ seen[s].epoch = obs[s]

IInv ==
    /\ TypeOK
    /\ NoEpochSkipped
    /\ EpochNotShared
    /\ \A s \in Session : /\ held[s] # NoLease => HeldIsKnown(s)
                          /\ PhaseOK(s)
                          /\ SeenOK(s)
=============================================================================
