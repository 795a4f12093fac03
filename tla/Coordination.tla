---------------------------- MODULE Coordination ----------------------------
(***************************************************************************)
(* The coordination promise of the run: the pure reference state machine   *)
(* of fs_diloco/coordination/state_machine.py (class CoordinationState).   *)
(* One authoritative history of control events; a token becomes the owner  *)
(* only by committing an epoch bump, and only the committed owner may add  *)
(* optimizer or stop events.  Leases, clocks, processes and storage do not *)
(* occur here: FencedLog and SyncerRun implement this module.              *)
(***************************************************************************)
EXTENDS Integers, Sequences

CONSTANTS
    Owner,       \* (owner_id, owner_session_id) pairs
    Request,     \* request identities
    NoRequest,   \* the request of a stop that is not committed
    MaxEpoch,    \* bound: largest fencing epoch a token may carry
    MaxEvents    \* bound: length of the history

VARIABLES
    history,     \* tuple[ControlEvent, ...]
    stop         \* the StopState, or NoStop

vars == <<history, stop>>

NoOwner == "no owner"
NoStop == [req |-> NoRequest, seq |-> 0]

Token == [owner : Owner, epoch : 1..MaxEpoch]

Event == [kind : {"epoch_bump", "optimizer", "stop"}, req : Request,
          owner : Owner, epoch : 1..MaxEpoch, count : Nat]

-----------------------------------------------------------------------------
(* The fields of CoordinationState that the last event of the history fixes. *)

HeadOf(h) == h[Len(h)]

FencingEpoch(h) == IF h = <<>> THEN 0 ELSE HeadOf(h).epoch

OptimizerCount(h) == IF h = <<>> THEN 0 ELSE HeadOf(h).count

OwnerToken(h) ==
    IF h = <<>> THEN [owner |-> NoOwner, epoch |-> 0]
                ELSE [owner |-> HeadOf(h).owner, epoch |-> HeadOf(h).epoch]

CommittedRequests(h) == {h[i].req : i \in 1..Len(h)}

-----------------------------------------------------------------------------
Init == history = <<>> /\ stop = NoStop

(* _commit: a request that is already committed returns the state itself   *)
(* (same digest) or raises, so it never adds an event.                     *)
Commit(kind, t, r, increment) ==
    /\ Len(history) < MaxEvents
    /\ r \notin CommittedRequests(history)
    /\ history' = Append(history,
           [kind |-> kind, req |-> r, owner |-> t.owner, epoch |-> t.epoch,
            count |-> OptimizerCount(history) + increment])

CommitEpochBump(t, r) ==
    /\ t.epoch > FencingEpoch(history)
    /\ Commit("epoch_bump", t, r, 0)
    /\ UNCHANGED stop

CommitOptimizer(t, r) ==
    /\ OwnerToken(history) = t
    /\ stop = NoStop
    /\ Commit("optimizer", t, r, 1)
    /\ UNCHANGED stop

CommitStop(t, r) ==
    /\ OwnerToken(history) = t
    /\ stop = NoStop
    /\ Commit("stop", t, r, 0)
    /\ stop' = [req |-> r, seq |-> Len(history) + 1]

Next ==
    \E t \in Token, r \in Request :
        \/ CommitEpochBump(t, r)
        \/ CommitOptimizer(t, r)
        \/ CommitStop(t, r)

Spec == Init /\ [][Next]_vars

-----------------------------------------------------------------------------
(* Split brain, as _check_state counts it: two events of one fencing epoch  *)
(* are by one owner, so a lease two candidates both believe in can make     *)
(* only one of them a writer.                                               *)
OneOwnerPerEpoch ==
    \A i, j \in 1..Len(history) :
        history[i].epoch = history[j].epoch => history[i].owner = history[j].owner

(* Stale commits, as _check_state counts them: along the history neither    *)
(* the fencing epoch nor the optimizer count ever goes back.                *)
HistoryMonotone ==
    \A i, j \in 1..Len(history) :
        i <= j => /\ history[i].epoch <= history[j].epoch
                  /\ history[i].count <= history[j].count

(* A committed stop ends training for good: whatever owners are fenced in   *)
(* afterwards, no optimizer event and no second stop follow it.             *)
StopIsFinal ==
    \A i, j \in 1..Len(history) :
        (history[i].kind = "stop" /\ i < j) => history[j].kind = "epoch_bump"

(* A retried request never commits twice, whoever resends it and however    *)
(* many owners committed in between (_retry_or_conflict).                   *)
RequestCommitsOnce ==
    \A i, j \in 1..Len(history) :
        history[i].req = history[j].req => i = j
=============================================================================
