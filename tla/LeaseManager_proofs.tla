------------------------- MODULE LeaseManager_proofs -------------------------
(***************************************************************************)
(* Proofs about LeaseManager: for any number of sessions, any TTL, any     *)
(* clock skews within the configured bound and any crash phases, the lease *)
(* elects at most one leader and keeps in step with the committed log.     *)
(***************************************************************************)
EXTENDS LeaseManager, TLAPS

USE LeaseAssumption

SessionOK(s) ==
    /\ held[s] # NoLease => HeldIsKnown(s)
    /\ PhaseOK(s)
    /\ SeenOK(s)

-----------------------------------------------------------------------------
(* The parts of a stored record and of the missing lease. *)
LEMMA RecordFields ==
    ASSUME NEW r \in Record \cup {NoLease}
    PROVE  /\ r.epoch \in 0..MaxEpoch
           /\ r.seq \in Nat
           /\ r.expires \in Nat
           /\ r \in Record => r.owner \in Session /\ r.owner # NoOwner /\ r # NoLease
           /\ r # NoLease => r \in Record /\ r.epoch >= 1
  <1>1. CASE r = NoLease
    <2>1. NoLease \notin Record
      BY DEF Record, NoLease
    <2> QED
      BY <1>1, <2>1 DEF NoLease
  <1>2. CASE r \in Record
    <2>1. NoLease \notin Record
      BY DEF Record, NoLease
    <2> QED
      BY <1>2, <2>1 DEF Record
  <1> QED
    BY <1>1, <1>2

(* Initially every session is idle, and no lease and no epoch exist. *)
LEMMA InitIInv == Init => IInv
  <1> SUFFICES ASSUME Init PROVE IInv
    OBVIOUS
  <1>1. TypeOK
    BY DEF Init, TypeOK, Phase
  <1>2. NoEpochSkipped /\ EpochNotShared
    BY DEF Init, NoEpochSkipped, EpochNotShared, NoLease
  <1>3. \A s \in Session : SessionOK(s)
    BY DEF Init, SessionOK, PhaseOK, SeenOK, InMutation
  <1> QED
    BY <1>1, <1>2, <1>3 DEF IInv, SessionOK

(* A record a checked mutation writes is a lease record of its session. *)
LEMMA NewRecordIsRecord ==
    ASSUME TypeOK, NEW s \in Session, SessionOK(s),
           phase[s] \in {"checked", "reconcile"}
    PROVE  /\ NewRecord(s) \in Record
           /\ NewRecord(s) # NoLease
           /\ NewRecord(s).owner = s
           /\ NewRecord(s).epoch = IF op[s] = "acquire" THEN obs[s] + 1 ELSE obs[s]
           /\ NewRecord(s).seq = seen[s].seq + 1
           /\ NewRecord(s).expires = IF op[s] = "release" THEN at[s] ELSE at[s] + Ttl
           /\ seen[s] \in Record \cup {NoLease}
           /\ op[s] # "acquire" => seen[s] \in Record
  <1>1. /\ seen[s] \in Record \cup {NoLease} /\ obs[s] \in 0..MaxEpoch
        /\ at[s] \in Nat /\ op[s] \in {"acquire", "renew", "release"}
    BY DEF TypeOK
  <1>2. /\ seen[s].seq < MaxSeq
        /\ op[s] = "acquire" => obs[s] < MaxEpoch
        /\ op[s] # "acquire" => seen[s].owner = s /\ seen[s].epoch = obs[s]
    BY DEF SessionOK, SeenOK
  <1>3. /\ seen[s].seq \in Nat /\ seen[s].epoch \in 0..MaxEpoch
        /\ seen[s] # NoLease => seen[s] \in Record /\ seen[s].epoch >= 1
    BY <1>1, RecordFields
  <1>4. op[s] # "acquire" => seen[s] # NoLease
    BY <1>2 DEF NoLease
  <1>5. /\ NewRecord(s).owner = s
        /\ NewRecord(s).epoch = IF op[s] = "acquire" THEN obs[s] + 1 ELSE obs[s]
        /\ NewRecord(s).seq = seen[s].seq + 1
        /\ NewRecord(s).expires = IF op[s] = "release" THEN at[s] ELSE at[s] + Ttl
    BY <1>2 DEF NewRecord
  <1>6. /\ NewRecord(s).epoch \in 1..MaxEpoch /\ NewRecord(s).seq \in 1..MaxSeq
        /\ NewRecord(s).expires \in Nat
    BY <1>1, <1>2, <1>3, <1>4, <1>5
  <1>7. NewRecord(s) \in Record
    BY <1>6, <1>5 DEF NewRecord, Record
  <1> QED
    BY <1>1, <1>3, <1>4, <1>5, <1>7, RecordFields

-----------------------------------------------------------------------------
Steps(s) == Proceed(s) \/ StampRelease(s) \/ Crash(s)

LEMMA TypeStep == IInv /\ [Next]_vars => TypeOK'
  <1> SUFFICES ASSUME IInv, [Next]_vars PROVE TypeOK'
    OBVIOUS
  <1> USE DEF TypeOK, Goto, Phase
  <1>0. TypeOK /\ \A s \in Session : SessionOK(s)
    BY DEF IInv, SessionOK
  <1>1. CASE UNCHANGED vars
    BY <1>0, <1>1 DEF vars
  <1>2. CASE Tick
    BY <1>0, <1>2 DEF Tick, private
  <1>3. ASSUME NEW s \in Session, Steps(s) PROVE TypeOK'
    <2>1. Clock(s) \in Nat
      BY <1>0 DEF Clock
    <2>2. held[s] \in Record \cup {NoLease} /\ held[s].epoch \in 0..MaxEpoch
      BY <1>0, RecordFields
    <2>3. NoLease \in Record \cup {NoLease}
      OBVIOUS
    <2>4. CASE ReadHead(s)
      BY <1>0, <2>4 DEF ReadHead
    <2>5. CASE StampAcquire(s)
      BY <1>0, <2>1, <2>5 DEF StampAcquire, Stamp
    <2>6. CASE StampRenew(s)
      BY <1>0, <2>1, <2>2, <2>6 DEF StampRenew, Stamp
    <2>7. CASE StampRelease(s)
      BY <1>0, <2>1, <2>2, <2>3, <2>7 DEF StampRelease, Stamp
    <2>8. CASE Load(s)
      BY <1>0, <2>8 DEF Load
    <2>9. CASE Refused(s) \/ ReconcileLost(s) \/ FenceRefused(s) \/ Crash(s)
      BY <1>0, <2>3, <2>9 DEF Refused, ReconcileLost, FenceRefused, Crash, private
    <2>10. CASE SwapAnswered(s) \/ SwapUnanswered(s) \/ ReconcileMine(s)
      <3>1. NewRecord(s) \in Record
        BY <1>0, <2>10, NewRecordIsRecord DEF SwapAnswered, SwapUnanswered, ReconcileMine
      <3>2. lease' \in Record \cup {NoLease}
        BY <1>0, <2>10, <3>1 DEF SwapAnswered, SwapUnanswered, ReconcileMine, Swap
      <3>3. held' \in [Session -> Record \cup {NoLease}]
        BY <1>0, <2>10, <3>1 DEF SwapAnswered, SwapUnanswered, ReconcileMine, Installed
      <3>4. phase' \in [Session -> Phase]
        BY <1>0, <2>10 DEF SwapAnswered, SwapUnanswered, ReconcileMine, Installed
      <3> QED
        BY <1>0, <2>10, <3>2, <3>3, <3>4
           DEF SwapAnswered, SwapUnanswered, ReconcileMine, private
    <2>11. CASE FenceCommits(s)
      BY <1>0, <2>2, <2>11 DEF FenceCommits, private
    <2> QED
      BY <1>3, <2>4, <2>5, <2>6, <2>7, <2>8, <2>9, <2>10, <2>11 DEF Steps, Proceed, Fence
  <1> QED
    BY <1>1, <1>2, <1>3 DEF Next, Steps

-----------------------------------------------------------------------------
(* What a session's own variables say of it survives a step of another      *)
(* session or of the clock that leaves the lease alone.                     *)
OwnUnchanged(t) ==
    /\ phase'[t] = phase[t] /\ obs'[t] = obs[t] /\ op'[t] = op[t]
    /\ at'[t] = at[t] /\ seen'[t] = seen[t] /\ held'[t] = held[t]

LEMMA OtherSession ==
    ASSUME TypeOK, TypeOK', NEW t \in Session, SessionOK(t), OwnUnchanged(t),
           skew' = skew, now' >= now, head' >= head, lease' = lease
    PROVE  SessionOK(t)'
  <1>0. /\ now \in Nat /\ now' \in Nat /\ skew[t] \in Nat /\ head \in Nat /\ head' \in Nat
        /\ at[t] \in Nat /\ obs[t] \in Nat /\ held[t].expires \in Nat
    BY RecordFields DEF TypeOK
  <1>1. (held[t] # NoLease => HeldIsKnown(t))'
    BY <1>0 DEF SessionOK, OwnUnchanged, HeldIsKnown, Clock
  <1>2. PhaseOK(t)'
    BY <1>0 DEF SessionOK, OwnUnchanged, PhaseOK, InMutation, Clock
  <1>3. SeenOK(t)'
    BY DEF SessionOK, OwnUnchanged, SeenOK
  <1> QED
    BY <1>1, <1>2, <1>3 DEF SessionOK

(* The heart of the matter: a swap of the lease leaves every other holder   *)
(* a lease that is over by its own clock.  The skew margin of Expired is    *)
(* what a takeover needs here.                                              *)
LEMMA SwapSupersedes ==
    ASSUME TypeOK, NEW s \in Session, NEW t \in Session, s # t,
           SessionOK(s), SessionOK(t), phase[s] = "checked", Swap(s),
           held[t] # NoLease
    PROVE  /\ Clock(t) >= held[t].expires
           /\ \/ lease'.epoch > lease.epoch
              \/ lease'.epoch = lease.epoch /\ lease.owner = s
  <1>0. /\ now \in Nat /\ skew \in [Session -> 0..MaxSkew] /\ at[s] \in Nat
        /\ held[t].expires \in Nat /\ lease.expires \in Nat
        /\ held[t].epoch \in 1..MaxEpoch /\ lease.epoch \in 0..MaxEpoch
        /\ obs[s] \in 0..MaxEpoch /\ op[s] \in {"acquire", "renew", "release"}
        /\ skew[s] \in 0..MaxSkew /\ skew[t] \in 0..MaxSkew
    BY RecordFields DEF TypeOK
  <1>1. lease = seen[s] /\ lease'.epoch = IF op[s] = "acquire" THEN obs[s] + 1 ELSE obs[s]
    BY NewRecordIsRecord DEF Swap
  <1>2. /\ held[t].epoch = lease.epoch => lease.owner = t
        /\ held[t].epoch <= lease.epoch
        /\ \/ held[t].epoch = lease.epoch /\ lease.expires >= held[t].expires
           \/ Clock(t) >= held[t].expires
    BY DEF SessionOK, HeldIsKnown
  <1>3. CASE op[s] = "acquire"
    <2>1. lease # NoLease
      BY <1>0, <1>2 DEF NoLease
    <2>2. at[s] >= lease.expires + MaxSkew /\ obs[s] >= lease.epoch /\ at[s] <= Clock(s)
      BY <1>1, <1>3, <2>1 DEF SessionOK, SeenOK, PhaseOK, InMutation
    <2>3. Clock(t) >= lease.expires
      BY <1>0, <2>2 DEF Clock
    <2> QED
      BY <1>0, <1>1, <1>2, <1>3, <2>2, <2>3 DEF Clock
  <1>4. CASE op[s] # "acquire"
    <2>1. lease.owner = s /\ lease.epoch = obs[s]
      BY <1>1, <1>4 DEF SessionOK, SeenOK
    <2> QED
      BY <1>1, <1>2, <1>4, <2>1
  <1> QED
    BY <1>3, <1>4

LEMMA SwapOther ==
    ASSUME TypeOK, TypeOK', NEW s \in Session, NEW t \in Session, s # t,
           SessionOK(s), SessionOK(t), phase[s] = "checked", Swap(s),
           OwnUnchanged(t), skew' = skew, now' = now, head' = head
    PROVE  SessionOK(t)'
  <1>1. ASSUME held[t] # NoLease PROVE HeldIsKnown(t)'
    <2>1. /\ Clock(t) >= held[t].expires
          /\ \/ lease'.epoch > lease.epoch
             \/ lease'.epoch = lease.epoch /\ lease.owner = s
      BY <1>1, SwapSupersedes
    <2>2. /\ lease.epoch \in Nat /\ lease'.epoch \in Nat /\ held[t].epoch \in Nat
      BY RecordFields DEF TypeOK
    <2>3. HeldIsKnown(t)
      BY <1>1 DEF SessionOK
    <2> QED
      BY <2>1, <2>2, <2>3 DEF HeldIsKnown, OwnUnchanged, Clock
  <1>2. PhaseOK(t)'
    BY DEF SessionOK, OwnUnchanged, PhaseOK, InMutation, Clock
  <1>3. SeenOK(t)'
    BY DEF SessionOK, OwnUnchanged, SeenOK
  <1> QED
    BY <1>1, <1>2, <1>3 DEF SessionOK, OwnUnchanged

-----------------------------------------------------------------------------
(* The session that takes a step. *)
LEMMA OwnStep ==
    ASSUME TypeOK, TypeOK', NEW s \in Session, SessionOK(s), NoEpochSkipped, Steps(s)
    PROVE  SessionOK(s)'
  <1>0. /\ now \in Nat /\ skew[s] \in Nat /\ Clock(s) \in Nat /\ head \in Nat
        /\ at[s] \in Nat /\ obs[s] \in Nat /\ op[s] \in {"acquire", "renew", "release"}
        /\ held[s] \in Record \cup {NoLease} /\ lease \in Record \cup {NoLease}
    BY DEF TypeOK, Clock
  <1>00. /\ held[s].expires \in Nat /\ held[s].epoch \in Nat
         /\ lease.epoch \in Nat /\ lease.expires \in Nat /\ lease.seq \in Nat
    BY <1>0, RecordFields
  <1>t. /\ phase \in [Session -> Phase] /\ obs \in [Session -> 0..MaxEpoch]
        /\ op \in [Session -> {"acquire", "renew", "release"}]
        /\ at \in [Session -> Nat] /\ seen \in [Session -> Record \cup {NoLease}]
        /\ held \in [Session -> Record \cup {NoLease}]
    BY DEF TypeOK
  <1> USE DEF Goto
  <1>1. CASE ReadHead(s)
    BY <1>0, <1>t, <1>1 DEF ReadHead, SessionOK, HeldIsKnown, PhaseOK, SeenOK, InMutation, Clock
  <1>2. CASE StampAcquire(s)
    BY <1>0, <1>t, <1>2 DEF StampAcquire, Stamp, SessionOK, HeldIsKnown, PhaseOK, SeenOK, InMutation, Clock
  <1>3. CASE StampRenew(s)
    BY <1>0, <1>00, <1>t, <1>3 DEF StampRenew, Stamp, SessionOK, HeldIsKnown, PhaseOK, SeenOK, InMutation, Clock
  <1>4. CASE StampRelease(s)
    BY <1>0, <1>t, <1>4 DEF StampRelease, Stamp, SessionOK, HeldIsKnown, PhaseOK, SeenOK, InMutation, Clock
  <1>5. CASE Load(s)
    BY <1>0, <1>00, <1>t, <1>5
       DEF Load, Allowed, MayAcquire, MayRenew, IsMine, Expired, NoLease,
           SessionOK, HeldIsKnown, PhaseOK, SeenOK, InMutation, Clock
  <1>6. CASE Refused(s) \/ ReconcileLost(s) \/ FenceRefused(s) \/ Crash(s)
    BY <1>0, <1>t, <1>6 DEF Refused, ReconcileLost, FenceRefused, Crash, private,
                            SessionOK, PhaseOK, SeenOK, InMutation
  <1>7. CASE FenceCommits(s)
    BY <1>0, <1>00, <1>t, <1>7
       DEF FenceCommits, private, SessionOK, HeldIsKnown, PhaseOK, SeenOK, InMutation, Clock
  <1>8. ASSUME phase[s] \in {"checked", "reconcile"}
        PROVE  /\ NewRecord(s).owner = s
               /\ NewRecord(s).epoch = IF op[s] = "acquire" THEN obs[s] + 1 ELSE obs[s]
               /\ NewRecord(s).expires = IF op[s] = "release" THEN at[s] ELSE at[s] + Ttl
               /\ NewRecord(s) # NoLease
               /\ at[s] <= Clock(s)
    BY <1>8, NewRecordIsRecord DEF SessionOK, PhaseOK, InMutation
  <1>9. CASE SwapAnswered(s) \/ ReconcileMine(s)
    <2>1. phase[s] \in {"checked", "reconcile"} /\ lease' = NewRecord(s) /\ now' = now /\ skew' = skew
      BY <1>9 DEF SwapAnswered, ReconcileMine, Swap
    <2>2. held'[s] = IF op[s] = "release" THEN NoLease ELSE NewRecord(s)
      BY <1>9, <1>t DEF SwapAnswered, ReconcileMine, Installed
    <2>3. phase'[s] = IF op[s] = "acquire" THEN "fencing" ELSE IF op[s] = "renew" THEN "owner" ELSE "idle"
      BY <1>9, <1>0, <1>t DEF SwapAnswered, ReconcileMine, Installed
    <2>4. (held[s] # NoLease => HeldIsKnown(s))'
      BY <1>0, <1>8, <2>1, <2>2 DEF HeldIsKnown, Clock
    <2>5. PhaseOK(s)' /\ SeenOK(s)'
      BY <1>0, <1>8, <2>1, <2>2, <2>3 DEF PhaseOK, SeenOK, InMutation
    <2> QED
      BY <2>4, <2>5 DEF SessionOK
  <1>10. CASE SwapUnanswered(s)
    <2>1. /\ phase[s] = "checked" /\ phase'[s] = "reconcile"
          /\ OwnUnchanged(s) \/ phase'[s] # phase[s]
          /\ obs' = obs /\ op' = op /\ at' = at /\ seen' = seen /\ held' = held
          /\ now' = now /\ skew' = skew /\ head' = head
      BY <1>10, <1>t DEF SwapUnanswered, private
    <2>2. lease' = lease \/ (lease = seen[s] /\ lease' = NewRecord(s))
      BY <1>10 DEF SwapUnanswered, Swap
    <2>3. PhaseOK(s)' /\ SeenOK(s)'
      BY <2>1 DEF SessionOK, PhaseOK, SeenOK, InMutation, Clock
    <2>4. (held[s] # NoLease => HeldIsKnown(s))'
      <3>1. SUFFICES ASSUME held[s] # NoLease PROVE HeldIsKnown(s)'
        BY <2>1
      <3>2. op[s] = "renew" /\ obs[s] = held[s].epoch /\ held[s].expires <= at[s] + Ttl
        BY <3>1, <2>1, <1>0 DEF SessionOK, PhaseOK, InMutation
      <3>3. HeldIsKnown(s)
        BY <3>1 DEF SessionOK
      <3> QED
        BY <1>0, <1>00, <1>8, <2>1, <2>2, <3>2, <3>3 DEF HeldIsKnown, Clock
    <2> QED
      BY <2>3, <2>4 DEF SessionOK
  <1> QED
    BY <1>1, <1>2, <1>3, <1>4, <1>5, <1>6, <1>7, <1>9, <1>10 DEF Steps, Proceed, Fence

(* Every session's facts survive every step. *)
LEMMA SessionStep ==
    ASSUME IInv, TypeOK', NEW s \in Session, Steps(s), NEW t \in Session
    PROVE  SessionOK(t)'
  <1>0. TypeOK /\ NoEpochSkipped /\ SessionOK(s) /\ SessionOK(t)
    BY DEF IInv, SessionOK
  <1>1. CASE s = t
    BY <1>0, <1>1, OwnStep
  <1>2. CASE s # t
    <2>1. OwnUnchanged(t) /\ skew' = skew /\ now' = now
      BY <1>0, <1>2
         DEF OwnUnchanged, TypeOK, Steps, Proceed, ReadHead, StampAcquire, StampRenew,
             StampRelease, Stamp, Load, Refused, SwapAnswered, SwapUnanswered, Installed,
             ReconcileMine, ReconcileLost, Fence, FenceCommits, FenceRefused, Crash, Goto, private
    <2>2. \/ lease' = lease /\ (head' = head \/ FenceCommits(s))
          \/ phase[s] = "checked" /\ Swap(s) /\ head' = head
      BY DEF Steps, Proceed, ReadHead, StampAcquire, StampRenew, StampRelease, Stamp,
             Load, Refused, SwapAnswered, SwapUnanswered, ReconcileMine, ReconcileLost,
             Fence, FenceCommits, FenceRefused, Crash, private
    <2>3. now \in Nat /\ head \in Nat /\ held[s].epoch \in Nat
      BY <1>0, RecordFields DEF TypeOK
    <2>4. FenceCommits(s) => head' >= head
      BY <2>3 DEF FenceCommits
    <2>5. CASE lease' = lease /\ (head' = head \/ FenceCommits(s))
      BY <1>0, <2>1, <2>3, <2>4, <2>5, OtherSession
    <2>6. CASE phase[s] = "checked" /\ Swap(s) /\ head' = head
      BY <1>0, <1>2, <2>1, <2>6, SwapOther
    <2> QED
      BY <2>2, <2>5, <2>6
  <1> QED
    BY <1>1, <1>2

(* Head and lease move in step: a swap proposes at most one epoch above     *)
(* what its session saw of a head that only grows, and a fence commits an   *)
(* epoch some lease has proposed.                                           *)
LEMMA EpochStep ==
    ASSUME IInv, TypeOK', NEW s \in Session, Steps(s)
    PROVE  /\ NoEpochSkipped'
           /\ lease' # lease => \/ lease'.epoch > lease.epoch
                                \/ lease'.epoch = lease.epoch /\ lease'.owner = lease.owner
  <1>0. /\ TypeOK /\ NoEpochSkipped /\ SessionOK(s)
        /\ head \in Nat /\ lease.epoch \in Nat /\ held[s].epoch \in Nat /\ obs[s] \in Nat
    BY RecordFields DEF IInv, SessionOK, TypeOK
  <1>1. \/ lease' = lease /\ head' = head
        \/ lease' = lease /\ FenceCommits(s)
        \/ phase[s] = "checked" /\ Swap(s) /\ head' = head
    BY DEF Steps, Proceed, ReadHead, StampAcquire, StampRenew, StampRelease, Stamp,
           Load, Refused, SwapAnswered, SwapUnanswered, ReconcileMine, ReconcileLost,
           Fence, FenceCommits, FenceRefused, Crash, private
  <1>2. CASE lease' = lease /\ head' = head
    BY <1>0, <1>2 DEF NoEpochSkipped
  <1>3. CASE lease' = lease /\ FenceCommits(s)
    <2>1. held[s] # NoLease /\ HeldIsKnown(s)
      BY <1>0, <1>3 DEF FenceCommits, SessionOK, PhaseOK
    <2> QED
      BY <1>0, <1>3, <2>1 DEF FenceCommits, HeldIsKnown, NoEpochSkipped
  <1>4. CASE phase[s] = "checked" /\ Swap(s) /\ head' = head
    <2>1. /\ lease'.owner = s /\ lease = seen[s]
          /\ lease'.epoch = IF op[s] = "acquire" THEN obs[s] + 1 ELSE obs[s]
      BY <1>0, <1>4, NewRecordIsRecord DEF Swap
    <2>2. /\ op[s] = "acquire" => obs[s] >= lease.epoch /\ obs[s] <= head
          /\ op[s] # "acquire" => lease.owner = s /\ lease.epoch = obs[s]
      BY <1>0, <1>4, <2>1 DEF SessionOK, SeenOK, PhaseOK, InMutation
    <2> QED
      BY <1>0, <1>4, <2>1, <2>2 DEF NoEpochSkipped
  <1> QED
    BY <1>1, <1>2, <1>3, <1>4

(* A session comes to hold only the stored lease, whose epoch nobody else   *)
(* holds.                                                                   *)
LEMMA NotSharedStep ==
    ASSUME IInv, TypeOK', NEW s \in Session, Steps(s), \A t \in Session : SessionOK(t)'
    PROVE  EpochNotShared'
  <1>0. TypeOK /\ EpochNotShared
    BY DEF IInv
  <1>1. \/ held' = held
        \/ held' = [held EXCEPT ![s] = NoLease]
        \/ (SwapAnswered(s) \/ ReconcileMine(s)) /\ held' = [held EXCEPT ![s] = NewRecord(s)]
    BY DEF Steps, Proceed, ReadHead, StampAcquire, StampRenew, StampRelease, Stamp,
           Load, Refused, SwapAnswered, SwapUnanswered, Installed, ReconcileMine,
           ReconcileLost, Fence, FenceCommits, FenceRefused, Crash, private
  <1>2. \A r \in Record : r # NoLease /\ r.epoch >= 1
    BY RecordFields
  <1>3. CASE held' = held
    BY <1>0, <1>3 DEF EpochNotShared
  <1>4. CASE held' = [held EXCEPT ![s] = NoLease]
    <2>1. \A t \in Session : held[t] # NoLease => held[t].epoch >= 1
      BY <1>0, <1>2 DEF TypeOK
    <2>2. NoLease.epoch = 0
      BY DEF NoLease
    <2>3. \A t \in Session : held'[t] = IF t = s THEN NoLease ELSE held[t]
      BY <1>0, <1>4 DEF TypeOK
    <2>4. \A t \in Session : held[t].epoch \in Nat
      BY <1>0, RecordFields DEF TypeOK
    <2> QED
      BY <1>0, <2>1, <2>2, <2>3, <2>4 DEF EpochNotShared
  <1>5. CASE (SwapAnswered(s) \/ ReconcileMine(s)) /\ held' = [held EXCEPT ![s] = NewRecord(s)]
    <2>1. /\ lease' = NewRecord(s) /\ lease'.owner = s /\ lease' # NoLease /\ lease'.epoch >= 1
      BY <1>5, <1>2, NewRecordIsRecord DEF SwapAnswered, ReconcileMine, Swap, IInv, SessionOK
    <2>2. \A t \in Session : held'[t] = IF t = s THEN lease' ELSE held[t]
      BY <1>0, <1>5, <2>1 DEF TypeOK
    <2>3. \A t \in Session : (held'[t] # NoLease /\ held'[t].epoch = lease'.epoch) => t = s
      BY <2>1 DEF SessionOK, HeldIsKnown
    <2>4. NoLease.epoch = 0
      BY DEF NoLease
    <2>5. \A t \in Session : t # s => held'[t].epoch # lease'.epoch
      BY <2>1, <2>3, <2>4
    <2> QED
      BY <1>0, <2>1, <2>2, <2>5 DEF EpochNotShared
  <1> QED
    BY <1>1, <1>3, <1>4, <1>5

LEMMA StepIInv == IInv /\ [Next]_vars => IInv'
  <1> SUFFICES ASSUME IInv, [Next]_vars PROVE IInv'
    OBVIOUS
  <1>1. TypeOK'
    BY TypeStep
  <1>2. CASE UNCHANGED vars
    BY <1>1, <1>2 DEF vars, IInv, NoEpochSkipped, EpochNotShared, HeldIsKnown, PhaseOK, SeenOK, InMutation, Clock
  <1>3. CASE Tick
    <2>1. \A t \in Session : OwnUnchanged(t)
      BY <1>3 DEF Tick, OwnUnchanged, private
    <2>2. now' >= now /\ head' >= head /\ lease' = lease /\ skew' = skew /\ head' = head /\ held' = held
      BY <1>3 DEF Tick, IInv, TypeOK
    <2>3. \A t \in Session : SessionOK(t)'
      BY <1>1, <2>1, <2>2, OtherSession DEF IInv, SessionOK
    <2>4. NoEpochSkipped' /\ EpochNotShared'
      BY <2>2 DEF IInv, NoEpochSkipped, EpochNotShared
    <2> QED
      BY <1>1, <2>3, <2>4 DEF IInv, SessionOK
  <1>4. ASSUME NEW s \in Session, Steps(s) PROVE IInv'
    <2>1. \A t \in Session : SessionOK(t)'
      BY <1>1, <1>4, SessionStep
    <2>2. NoEpochSkipped' /\ EpochNotShared'
      BY <1>1, <1>4, <2>1, EpochStep, NotSharedStep
    <2> QED
      BY <1>1, <2>1, <2>2 DEF IInv, SessionOK
  <1> QED
    BY <1>2, <1>3, <1>4 DEF Next, Steps

(* The strengthening holds in every reachable state. *)
THEOREM Invariance == Spec => []IInv
  BY InitIInv, StepIInv, PTL DEF Spec

(* Type correctness of the lease object and of every session's state.       *)
THEOREM TypeCorrect == Spec => []TypeOK
  <1>1. IInv => TypeOK
    BY DEF IInv
  <1> QED
    BY Invariance, <1>1, PTL

(* At most one session takes its lease to be live at any moment, for every  *)
(* choice of clocks within the configured skew.                             *)
THEOREM Exclusion == Spec => []LeaseExclusion
  <1>1. IInv => LeaseExclusion
    <2> SUFFICES ASSUME IInv, NEW s \in Session, NEW t \in Session,
                        Believes(s), Believes(t)
                 PROVE  s = t
      BY DEF LeaseExclusion
    <2>1. HeldIsKnown(s) /\ HeldIsKnown(t)
      BY DEF IInv, Believes
    <2>2. held[s].expires \in Nat /\ held[t].expires \in Nat /\ Clock(s) \in Nat /\ Clock(t) \in Nat
      BY RecordFields DEF IInv, TypeOK, Clock
    <2>3. lease.owner = s /\ lease.owner = t
      BY <2>1, <2>2 DEF HeldIsKnown, Believes
    <2> QED
      BY <2>3
  <1> QED
    BY Invariance, <1>1, PTL

(* Lease epochs and the committed epoch stay in step.                       *)
THEOREM EpochsInStep == Spec => []NoEpochSkipped
  <1>1. IInv => NoEpochSkipped
    BY DEF IInv
  <1> QED
    BY Invariance, <1>1, PTL

(* An epoch is held by one session only, ever.                              *)
THEOREM OneHolder == Spec => []EpochNotShared
  <1>1. IInv => EpochNotShared
    BY DEF IInv
  <1> QED
    BY Invariance, <1>1, PTL

(* A lease changes hands only together with its epoch.                      *)
THEOREM Takeover == Spec => NewOwnerNewEpoch
  <1>1. IInv /\ [Next]_vars =>
          [ lease' # lease =>
              \/ lease'.epoch > lease.epoch
              \/ lease'.epoch = lease.epoch /\ lease'.owner = lease.owner ]_vars
    <2> SUFFICES ASSUME IInv, Next, lease' # lease
                 PROVE  \/ lease'.epoch > lease.epoch
                        \/ lease'.epoch = lease.epoch /\ lease'.owner = lease.owner
      OBVIOUS
    <2>1. PICK s \in Session : Steps(s)
      BY DEF Next, Steps, Tick
    <2> QED
      BY <2>1, TypeStep, EpochStep
  <1> QED
    BY Invariance, <1>1, PTL DEF Spec, NewOwnerNewEpoch

(* What a step does to the lease, it does as the reference book would: the  *)
(* conditional write makes the record that was checked the one replaced.    *)
LEMMA BookStep ==
    ASSUME IInv, NEW s \in Session, Steps(s), lease' # lease
    PROVE  Book!Next \/ SameTenure
  <1>0. TypeOK /\ SessionOK(s)
    BY DEF IInv, SessionOK
  <1>1. phase[s] = "checked" /\ Swap(s)
    BY DEF Steps, Proceed, ReadHead, StampAcquire, StampRenew, StampRelease, Stamp,
           Load, Refused, SwapAnswered, SwapUnanswered, ReconcileMine, ReconcileLost,
           Fence, FenceCommits, FenceRefused, Crash, private
  <1>2. lease = seen[s] /\ lease' = NewRecord(s)
    BY <1>1 DEF Swap
  <1>3. CASE op[s] = "acquire"
    <2>1. /\ at[s] \in Nat /\ obs[s] \in 0..MaxEpoch /\ now \in 0..MaxTime
          /\ skew[s] \in 0..MaxSkew
      BY <1>0 DEF TypeOK
    <2>2. /\ at[s] <= Clock(s)
          /\ seen[s] # NoLease => at[s] >= seen[s].expires + MaxSkew
      BY <1>0, <1>1, <1>3 DEF SessionOK, PhaseOK, SeenOK, InMutation
    <2>3. lease.expires \in Nat
      BY <1>0, RecordFields DEF TypeOK
    <2>4. at[s] \in 0..(MaxTime + MaxSkew)
      BY <2>1, <2>2 DEF Clock
    <2>5. lease # Book!Empty => at[s] >= lease.expires
      BY <1>2, <2>1, <2>2, <2>3 DEF Book!Empty, NoLease
    <2>6. Book!Acquire(s, obs[s], at[s])
      BY <1>2, <1>3, <2>5 DEF Book!Acquire, NewRecord
    <2> QED
      BY <2>1, <2>4, <2>6 DEF Book!Next
  <1>4. CASE op[s] # "acquire"
    <2>1. seen[s].owner = s /\ seen[s].epoch = obs[s]
      BY <1>0, <1>1, <1>4 DEF SessionOK, SeenOK
    <2> QED
      BY <1>2, <1>4, <2>1 DEF SameTenure, NewRecord
  <1> QED
    BY <1>3, <1>4

(* The manager's three steps implement the reference book's one.            *)
THEOREM BookImplemented == Spec => ImplementsLeaseBook
  <1>1. Init => Book!Init
    BY DEF Init, Book!Init, Book!Empty, NoLease
  <1>2. IInv /\ [Next]_vars => [Book!Next \/ SameTenure]_lease
    <2> SUFFICES ASSUME IInv, [Next]_vars, lease' # lease
                 PROVE  Book!Next \/ SameTenure
      OBVIOUS
    <2>1. PICK s \in Session : Steps(s)
      BY DEF Next, Steps, Tick, vars
    <2> QED
      BY <2>1, BookStep
  <1> QED
    BY Invariance, <1>1, <1>2, PTL DEF Spec, ImplementsLeaseBook

-----------------------------------------------------------------------------
(* Why a candidate is refused.  An epoch that a lease proposes and the log  *)
(* does not have yet is on its way: its owner is about to fence it, or does *)
(* not know yet that its write took effect.                                 *)
Claiming(s) ==
    \/ phase[s] = "fencing" /\ held[s] = lease
    \/ phase[s] = "reconcile" /\ op[s] = "acquire" /\ lease = NewRecord(s)

UnfencedInv ==
    lease.epoch > head => Claiming(lease.owner) \/ phase[lease.owner] = "dead"

(* Owners renew and release what they have fenced.                          *)
TenureOK(s) ==
    /\ phase[s] = "owner" => held[s].epoch <= head
    /\ InMutation(s) /\ op[s] # "acquire" => obs[s] <= head

ClaimInv == IInv /\ UnfencedInv /\ \A s \in Session : TenureOK(s)

(* What a session's step does to the objects it shares with the others.     *)
LEMMA SharedStep ==
    ASSUME NEW s \in Session, Steps(s)
    PROVE  \/ lease' = lease /\ head' = head
           \/ lease' = lease /\ FenceCommits(s)
           \/ /\ phase[s] = "checked" /\ Swap(s) /\ head' = head
              /\ SwapAnswered(s) \/ SwapUnanswered(s)
  BY DEF Steps, Proceed, ReadHead, StampAcquire, StampRenew, StampRelease, Stamp,
         Load, Refused, SwapAnswered, SwapUnanswered, ReconcileMine, ReconcileLost,
         Fence, FenceCommits, FenceRefused, Crash, private

LEMMA OthersStand ==
    ASSUME TypeOK, NEW s \in Session, Steps(s), NEW t \in Session, s # t
    PROVE  OwnUnchanged(t) /\ NewRecord(t)' = NewRecord(t)
  <1>1. OwnUnchanged(t)
    BY DEF OwnUnchanged, TypeOK, Steps, Proceed, ReadHead, StampAcquire, StampRenew,
           StampRelease, Stamp, Load, Refused, SwapAnswered, SwapUnanswered, Installed,
           ReconcileMine, ReconcileLost, Fence, FenceCommits, FenceRefused, Crash, Goto,
           private
  <1> QED
    BY <1>1 DEF OwnUnchanged, NewRecord

(* The one object that counts upwards.                                      *)
LEMMA HeadGrows ==
    ASSUME IInv, NEW s \in Session, Steps(s)
    PROVE  head \in Nat /\ head' \in Nat /\ head <= head'
  <1>1. head \in Nat /\ held[s].epoch \in Nat
    BY RecordFields DEF IInv, TypeOK
  <1> QED
    BY <1>1, SharedStep DEF FenceCommits

LEMMA TenureStep ==
    ASSUME ClaimInv, NEW s \in Session, Steps(s), NEW t \in Session
    PROVE  TenureOK(t)'
  <1>0. TypeOK /\ SessionOK(s) /\ TenureOK(s) /\ TenureOK(t) /\ IInv
    BY DEF ClaimInv, IInv, SessionOK
  <1>1. /\ head \in Nat /\ head' \in Nat /\ head <= head'
        /\ held[t].epoch \in Nat /\ obs[t] \in Nat
    BY <1>0, HeadGrows, RecordFields DEF TypeOK
  <1>2. CASE s # t
    BY <1>0, <1>1, <1>2, OthersStand DEF OwnUnchanged, TenureOK, InMutation
  <1>3. ASSUME s = t, phase'[s] = "owner" PROVE held'[s].epoch <= head'
    <2>1. CASE FenceCommits(s)
      BY <1>0, <1>1, <1>3, <2>1 DEF FenceCommits
    <2>2. CASE SwapAnswered(s) \/ ReconcileMine(s)
      <3>1. /\ phase[s] \in {"checked", "reconcile"}
            /\ held'[s] = IF op[s] = "release" THEN NoLease ELSE NewRecord(s)
            /\ phase'[s] = [acquire |-> "fencing", renew |-> "owner", release |-> "idle"][op[s]]
        BY <1>0, <2>2 DEF SwapAnswered, ReconcileMine, Installed, Goto, TypeOK
      <3>2. op[s] = "renew"
        BY <1>0, <1>3, <3>1 DEF TypeOK
      <3>3. held'[s].epoch = obs[s]
        BY <1>0, <3>1, <3>2, NewRecordIsRecord
      <3> QED
        BY <1>0, <1>1, <1>3, <3>1, <3>2, <3>3 DEF TenureOK, InMutation
    <2>3. CASE ~(FenceCommits(s) \/ SwapAnswered(s) \/ ReconcileMine(s))
      <3>1. phase[s] = "owner" /\ held'[s] = held[s]
        BY <1>0, <1>3, <2>3
           DEF TypeOK, Steps, Proceed, ReadHead, StampAcquire, StampRenew, StampRelease,
               Stamp, Load, Refused, SwapUnanswered, ReconcileLost, Fence, FenceRefused,
               Crash, Goto
      <3> QED
        BY <1>0, <1>1, <1>3, <3>1 DEF TenureOK
    <2> QED
      BY <2>1, <2>2, <2>3
  <1>4. ASSUME s = t, InMutation(s)', op'[s] # "acquire" PROVE obs'[s] <= head'
    <2>1. CASE StampRenew(s) \/ StampRelease(s)
      <3>1. phase[s] = "owner" /\ obs'[s] = held[s].epoch
        BY <1>0, <2>1 DEF StampRenew, StampRelease, TypeOK
      <3> QED
        BY <1>0, <1>1, <1>4, <3>1 DEF TenureOK
    <2>2. CASE ~(StampRenew(s) \/ StampRelease(s))
      <3>1. InMutation(s) /\ op'[s] = op[s] /\ obs'[s] = obs[s]
        BY <1>0, <1>4, <2>2
           DEF InMutation, TypeOK, Steps, Proceed, ReadHead, StampAcquire, Stamp, Load,
               Refused, SwapAnswered, SwapUnanswered, Installed, ReconcileMine,
               ReconcileLost, Fence, FenceCommits, FenceRefused, Crash, Goto, private
      <3> QED
        BY <1>0, <1>1, <1>4, <3>1 DEF TenureOK
    <2> QED
      BY <2>1, <2>2
  <1> QED
    BY <1>2, <1>3, <1>4 DEF TenureOK

LEMMA UnfencedStep ==
    ASSUME ClaimInv, NEW s \in Session, Steps(s)
    PROVE  UnfencedInv'
  <1> SUFFICES ASSUME lease'.epoch > head'
               PROVE  (Claiming(lease.owner) \/ phase[lease.owner] = "dead")'
    BY DEF UnfencedInv
  <1>0. IInv /\ TypeOK /\ SessionOK(s) /\ TenureOK(s) /\ UnfencedInv /\ NoEpochSkipped
    BY DEF ClaimInv, IInv, SessionOK
  <1>1. /\ head \in Nat /\ lease \in Record \cup {NoLease} /\ lease.epoch \in Nat
        /\ obs[s] \in Nat /\ held[s].epoch \in Nat
    BY <1>0, RecordFields DEF TypeOK
  <1>2. CASE lease' = lease /\ head' = head
    <2>1. lease.owner \in Session
      BY <1>1, <1>2, RecordFields DEF NoLease
    <2>2. CASE lease.owner # s
      BY <1>0, <1>2, <2>1, <2>2, OthersStand DEF UnfencedInv, Claiming, OwnUnchanged
    <2>3. CASE lease.owner = s
      <3>1. CASE phase[s] = "fencing" /\ held[s] = lease
        <4>1. Crash(s)
          BY <1>1, <1>2, <3>1
             DEF Steps, Proceed, ReadHead, StampAcquire, StampRenew, StampRelease, Load,
                 Refused, SwapAnswered, SwapUnanswered, ReconcileMine, ReconcileLost,
                 Fence, FenceCommits, FenceRefused
        <4> QED
          BY <1>0, <1>2, <2>3, <4>1 DEF Crash, Goto, TypeOK
      <3>2. CASE phase[s] = "reconcile" /\ op[s] = "acquire" /\ lease = NewRecord(s)
        <4>1. Crash(s) \/ ReconcileMine(s)
          BY <3>2
             DEF Steps, Proceed, ReadHead, StampAcquire, StampRenew, StampRelease, Load,
                 Refused, SwapAnswered, SwapUnanswered, ReconcileLost, Fence,
                 FenceCommits, FenceRefused
        <4> QED
          BY <1>0, <1>2, <2>3, <3>2, <4>1
             DEF Crash, ReconcileMine, Installed, Goto, TypeOK, Claiming
      <3>3. CASE phase[s] = "dead"
        <4>1. Crash(s)
          BY <3>3
             DEF Steps, Proceed, ReadHead, StampAcquire, StampRenew, StampRelease, Load,
                 Refused, SwapAnswered, SwapUnanswered, ReconcileMine, ReconcileLost,
                 Fence, FenceCommits, FenceRefused
        <4> QED
          BY <1>0, <1>2, <2>3, <4>1 DEF Crash, Goto, TypeOK
      <3> QED
        BY <1>0, <1>2, <2>3, <3>1, <3>2, <3>3 DEF UnfencedInv, Claiming
    <2> QED
      BY <2>2, <2>3
  <1>3. CASE lease' = lease /\ FenceCommits(s)
    BY <1>0, <1>1, <1>3 DEF FenceCommits, NoEpochSkipped
  <1>4. CASE /\ phase[s] = "checked" /\ Swap(s) /\ head' = head
             /\ SwapAnswered(s) \/ SwapUnanswered(s)
    <2>1. /\ lease' = NewRecord(s) /\ lease'.owner = s
          /\ lease'.epoch = IF op[s] = "acquire" THEN obs[s] + 1 ELSE obs[s]
      BY <1>0, <1>4, NewRecordIsRecord DEF Swap
    <2>2. op[s] = "acquire"
      BY <1>0, <1>1, <1>4, <2>1 DEF TenureOK, InMutation
    <2>3. CASE SwapAnswered(s)
      BY <1>0, <2>1, <2>2, <2>3 DEF SwapAnswered, Installed, Goto, TypeOK, Claiming
    <2>4. CASE SwapUnanswered(s)
      <3>1. NewRecord(s)' = NewRecord(s)
        BY <2>4 DEF SwapUnanswered, private, NewRecord
      <3>2. phase'[s] = "reconcile" /\ op'[s] = "acquire"
        BY <1>0, <2>2, <2>4 DEF SwapUnanswered, private, Goto, TypeOK
      <3> QED
        BY <2>1, <3>1, <3>2 DEF Claiming
    <2> QED
      BY <1>4, <2>3, <2>4
  <1> QED
    BY <1>2, <1>3, <1>4, SharedStep

LEMMA ClaimInvariance == Spec => []ClaimInv
  <1>1. Init => ClaimInv
    <2> SUFFICES ASSUME Init PROVE ClaimInv
      OBVIOUS
    <2>1. lease.epoch = 0 /\ head = 0 /\ \A s \in Session : phase[s] = "idle"
      BY DEF Init, NoLease
    <2> QED
      BY <2>1, InitIInv DEF ClaimInv, UnfencedInv, TenureOK, InMutation
  <1>2. ClaimInv /\ [Next]_vars => ClaimInv'
    <2> SUFFICES ASSUME ClaimInv, [Next]_vars PROVE ClaimInv'
      OBVIOUS
    <2>1. IInv'
      BY StepIInv DEF ClaimInv
    <2>2. CASE UNCHANGED vars \/ Tick
      BY <2>1, <2>2 DEF vars, Tick, private, ClaimInv, UnfencedInv, TenureOK, InMutation,
                        Claiming, NewRecord
    <2>3. CASE \E s \in Session : Steps(s)
      BY <2>1, <2>3, TenureStep, UnfencedStep DEF ClaimInv
    <2> QED
      BY <2>2, <2>3 DEF Next, Steps
  <1> QED
    BY <1>1, <1>2, PTL DEF Spec

(* The safety half of StandbyTakesOverUnlessWedged: a candidate that knows  *)
(* the head as it is, and comes when the lease is over by more than the     *)
(* skew, is refused only while the owner of that lease is about to fence    *)
(* the epoch it proposes, or died before it did.                            *)
RefusedOnlyForCause ==
    \A s \in Session :
        /\ phase[s] = "stamped" /\ op[s] = "acquire"
        /\ obs[s] = head
        /\ lease # NoLease => Expired(s)
        /\ ~Allowed(s)
        => Wedged \/ Claiming(lease.owner)

THEOREM CandidateRefusedForCause == Spec => []RefusedOnlyForCause
  <1>1. ClaimInv => RefusedOnlyForCause
    <2> SUFFICES ASSUME ClaimInv, NEW s \in Session, op[s] = "acquire", obs[s] = head,
                        lease # NoLease => Expired(s), ~Allowed(s)
                 PROVE  Wedged \/ Claiming(lease.owner)
      BY DEF RefusedOnlyForCause
    <2>1. head \in Nat /\ lease.epoch \in Nat /\ NoEpochSkipped /\ NoLease.epoch = 0
      BY RecordFields DEF ClaimInv, IInv, TypeOK, NoLease
    <2>2. lease.epoch > head
      BY <2>1 DEF Allowed, MayAcquire, NoEpochSkipped
    <2> QED
      BY <2>2 DEF ClaimInv, UnfencedInv, Wedged
  <1> QED
    BY <1>1, ClaimInvariance, PTL

(* What the violated StandbyTakesOver shows of one run holds of every run:  *)
(* once the owner of an unfenced lease is dead, no session, clock or retry  *)
(* ever changes the lease or commits an epoch again.                        *)
WedgedForGood == [][Wedged => Wedged' /\ lease' = lease /\ head' = head]_vars

THEOREM WedgeIsPermanent == Spec => WedgedForGood
  <1>1. IInv /\ [Next]_vars => [Wedged => Wedged' /\ lease' = lease /\ head' = head]_vars
    <2> SUFFICES ASSUME IInv, Next, Wedged
                 PROVE  Wedged' /\ lease' = lease /\ head' = head
      OBVIOUS
    <2>1. CASE Tick
      BY <2>1 DEF Tick, Wedged
    <2>2. ASSUME NEW s \in Session, Steps(s)
          PROVE  Wedged' /\ lease' = lease /\ head' = head
      <3>0. TypeOK /\ SessionOK(s) /\ NoEpochSkipped
        BY DEF IInv, SessionOK
      <3>1. /\ head \in Nat /\ lease \in Record \cup {NoLease} /\ lease.epoch \in Nat
            /\ obs[s] \in Nat /\ held[s].epoch \in Nat /\ lease.epoch > head
            /\ phase[lease.owner] = "dead"
        BY <3>0, RecordFields DEF TypeOK, Wedged
      <3>2. lease.owner \in Session
        BY <3>1, RecordFields DEF NoLease
      <3>3. ~(phase[s] = "checked" /\ Swap(s))
        <4> SUFFICES ASSUME phase[s] = "checked", Swap(s) PROVE FALSE
          OBVIOUS
        <4>1. lease = seen[s] /\ lease.owner # s
          BY <3>1 DEF Swap
        <4>2. op[s] = "acquire" => obs[s] >= lease.epoch /\ obs[s] <= head
          BY <3>0, <4>1 DEF SessionOK, SeenOK, PhaseOK, InMutation
        <4>3. op[s] # "acquire" => lease.owner = s
          BY <3>0, <4>1 DEF SessionOK, SeenOK
        <4> QED
          BY <3>1, <4>1, <4>2, <4>3
      <3>4. ~FenceCommits(s)
        <4> SUFFICES ASSUME FenceCommits(s) PROVE FALSE
          OBVIOUS
        <4>1. held[s] # NoLease /\ HeldIsKnown(s) /\ held[s].epoch > head
          BY <3>0 DEF FenceCommits, SessionOK, PhaseOK
        <4>2. lease.owner = s
          BY <3>0, <3>1, <4>1 DEF HeldIsKnown, NoEpochSkipped
        <4> QED
          BY <3>1, <4>2 DEF FenceCommits
      <3>5. lease' = lease /\ head' = head
        BY <2>2, <3>3, <3>4, SharedStep
      <3>6. phase'[lease.owner] = "dead"
        <4>1. CASE s # lease.owner
          BY <2>2, <3>0, <3>1, <3>2, <4>1, OthersStand DEF OwnUnchanged
        <4>2. CASE s = lease.owner
          <5>1. Crash(s)
            BY <2>2, <3>1, <4>2
               DEF Steps, Proceed, ReadHead, StampAcquire, StampRenew, StampRelease, Load,
                   Refused, SwapAnswered, SwapUnanswered, ReconcileMine, ReconcileLost,
                   Fence, FenceCommits, FenceRefused
          <5> QED
            BY <3>0, <4>2, <5>1 DEF Crash, Goto, TypeOK
        <4> QED
          BY <4>1, <4>2
      <3> QED
        BY <3>1, <3>5, <3>6 DEF Wedged
    <2> QED
      BY <2>1, <2>2 DEF Next, Steps
  <1> QED
    BY Invariance, <1>1, PTL DEF Spec, WedgedForGood

-----------------------------------------------------------------------------
(* The acquisition as SyncerRun has it, in one step: although a candidate   *)
(* reads the head, its clock and the lease one after the other and writes   *)
(* last, it takes the lease over only when head and lease agree at that     *)
(* moment, proposes the next epoch, and finds no session that still relies  *)
(* on its own; and the epoch that is fenced is that of the stored lease, by *)
(* its owner.                                                               *)
AtomicTenure ==
    [][ /\ lease'.epoch # lease.epoch =>
               /\ head' = head /\ head = lease.epoch /\ lease'.epoch = head + 1
               /\ \A t \in Session : ~Believes(t)
        /\ head' # head =>
               /\ lease' = lease /\ lease.epoch = head + 1 /\ head' = lease.epoch
               /\ phase[lease.owner] = "fencing" ]_vars

THEOREM TenureIsAtomic == Spec => AtomicTenure
  <1>1. ASSUME IInv, NEW s \in Session, Steps(s), lease'.epoch # lease.epoch
        PROVE  /\ head' = head /\ head = lease.epoch /\ lease'.epoch = head + 1
               /\ \A t \in Session : ~Believes(t)
    <2>0. /\ TypeOK /\ NoEpochSkipped /\ \A t \in Session : SessionOK(t)
          /\ head \in Nat /\ lease.epoch \in Nat /\ obs[s] \in Nat
      BY <1>1, RecordFields DEF IInv, SessionOK, TypeOK
    <2>1. phase[s] = "checked" /\ Swap(s) /\ head' = head
      BY <1>1, SharedStep
    <2>2. /\ lease = seen[s]
          /\ lease'.epoch = IF op[s] = "acquire" THEN obs[s] + 1 ELSE obs[s]
      BY <2>0, <2>1, NewRecordIsRecord DEF Swap
    <2>3. op[s] = "acquire"
      BY <1>1, <2>0, <2>1, <2>2 DEF SessionOK, SeenOK
    <2>4. lease.epoch <= obs[s] /\ obs[s] <= head /\ held[s] = NoLease
      BY <2>0, <2>1, <2>2, <2>3 DEF SessionOK, SeenOK, PhaseOK, InMutation
    <2>5. head = lease.epoch /\ lease'.epoch = head + 1
      BY <2>0, <2>2, <2>3, <2>4 DEF NoEpochSkipped
    <2>6. ASSUME NEW t \in Session, Believes(t) PROVE FALSE
      <3>1. held[t] # NoLease /\ Clock(t) < held[t].expires /\ s # t
        BY <2>4, <2>6 DEF Believes
      <3>2. Clock(t) >= held[t].expires
        BY <2>0, <2>1, <3>1, SwapSupersedes
      <3>3. Clock(t) \in Nat /\ held[t].expires \in Nat
        BY <2>0, RecordFields DEF TypeOK, Clock
      <3> QED
        BY <3>1, <3>2, <3>3
    <2> QED
      BY <2>1, <2>5, <2>6
  <1>2. ASSUME IInv, NEW s \in Session, Steps(s), head' # head
        PROVE  /\ lease' = lease /\ lease.epoch = head + 1 /\ head' = lease.epoch
               /\ phase[lease.owner] = "fencing"
    <2>0. /\ TypeOK /\ NoEpochSkipped /\ SessionOK(s)
          /\ head \in Nat /\ lease.epoch \in Nat /\ held[s].epoch \in Nat
      BY <1>2, RecordFields DEF IInv, SessionOK, TypeOK
    <2>1. lease' = lease /\ FenceCommits(s)
      BY <1>2, SharedStep
    <2>2. HeldIsKnown(s)
      BY <2>0, <2>1 DEF FenceCommits, SessionOK, PhaseOK
    <2> QED
      BY <2>0, <2>1, <2>2 DEF FenceCommits, HeldIsKnown, NoEpochSkipped
  <1>3. IInv /\ [Next]_vars =>
          [ /\ lease'.epoch # lease.epoch =>
                   /\ head' = head /\ head = lease.epoch /\ lease'.epoch = head + 1
                   /\ \A t \in Session : ~Believes(t)
            /\ head' # head =>
                   /\ lease' = lease /\ lease.epoch = head + 1 /\ head' = lease.epoch
                   /\ phase[lease.owner] = "fencing" ]_vars
    <2> SUFFICES ASSUME IInv, Next,
                        ~Tick
                 PROVE  /\ lease'.epoch # lease.epoch =>
                               /\ head' = head /\ head = lease.epoch
                               /\ lease'.epoch = head + 1
                               /\ \A t \in Session : ~Believes(t)
                        /\ head' # head =>
                               /\ lease' = lease /\ lease.epoch = head + 1
                               /\ head' = lease.epoch
                               /\ phase[lease.owner] = "fencing"
      BY DEF Tick
    <2>1. PICK s \in Session : Steps(s)
      BY DEF Next, Steps
    <2> QED
      BY <1>1, <1>2, <2>1
  <1> QED
    BY <1>3, Invariance, PTL DEF Spec, AtomicTenure
=============================================================================
