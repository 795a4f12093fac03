--------------------------- MODULE FencedLog_proofs ---------------------------
(***************************************************************************)
(* Proofs about FencedLog for every set of writers, proposals and requests *)
(* and every bound.  IInv is inductive; every safety property the run      *)
(* checks is one of its conjuncts, and with it each step of the log is a   *)
(* step of Coordination or invisible to it.                                *)
(***************************************************************************)
EXTENDS FencedLog, TLAPS

USE FencedLogAssumption, NoPrepAssumption

(* Every action either swaps one writer's prepared commit in or leaves the  *)
(* log alone: the head moves in no other way.                               *)
LEMMA ChainStep ==
    ASSUME [Next]_vars
    PROVE  \/ UNCHANGED chain
           \/ \E w \in Writer : pc[w] = "checked" /\ Swap(w)
<1>1. CASE UNCHANGED vars
  BY <1>1 DEF vars
<1>2. CASE Next
  <2>1. PICK w \in Writer : WriterStep(w)
    BY <1>2 DEF Next
  <2> QED
    BY <2>1 DEF WriterStep, CasMisses, PrepareBump, RefuseBump, PrepareStop, PrepareOptimizer,
                HeadUnmoved, HeadMovedResolved, HeadMovedLost, CasCommits,
                CasResolves, CasLoses, CasUnknown, Abandon, VerifyOwner, Crash
<1> QED BY <1>1, <1>2

LEMMA NewCommitType ==
    ASSUME TypeOK, NEW w \in Writer, NEW kind \in Kind, NEW e \in 1..MaxEpoch,
           NEW r \in Request, NEW P \in SUBSET Proposal
    PROVE  NewCommit(w, kind, e, r, P) \in Commit
<1>1. CountAt(HeadSeq) \in Nat
  <2>1. HeadSeq \in Nat /\ (HeadSeq # 0 => chain[HeadSeq] \in Commit)
    BY DEF TypeOK, HeadSeq
  <2> QED BY <2>1 DEF CountAt, Commit
<1> QED BY <1>1 DEF NewCommit, Commit

LEMMA SwapType ==
    ASSUME TypeOK, PrepJustified, NEW w \in Writer, pc[w] = "checked", Swap(w)
    PROVE  chain' \in Seq(Commit) /\ Len(chain') <= MaxCommits
<1>1. prep[w] \in Prepared /\ JustifiedBy(prep[w], w)
  BY DEF TypeOK, PrepJustified
<1>2. prep[w].commit \in Commit
  BY <1>1 DEF Prepared
<1> QED BY <1>1, <1>2 DEF TypeOK, Swap, JustifiedBy, HeadSeq

-----------------------------------------------------------------------------
LEMMA TypeStep ==
    ASSUME IInv, Next
    PROVE  TypeOK'
<1> USE DEF IInv
<1>1. PICK w \in Writer : WriterStep(w)
  BY DEF Next
<1>2. chain' \in Seq(Commit) /\ Len(chain') <= MaxCommits
  BY ChainStep, SwapType DEF TypeOK
<1>3. ASSUME NEW e \in 1..MaxEpoch, NEW r \in Request, PrepareBump(w, e, r)
      PROVE  TypeOK'
  <2>1. NewCommit(w, "epoch_bump", e, r, {}) \in Commit
    BY NewCommitType DEF Kind
  <2> QED
    BY <1>2, <1>3, <2>1 DEF PrepareBump, Prepare, TypeOK, Prepared, HeadSeq
<1>4. ASSUME NEW r \in Request, PrepareStop(w, r)
      PROVE  TypeOK'
  <2>1. NewCommit(w, "stop", token[w], r, {}) \in Commit
    BY <1>4, NewCommitType DEF Kind, TypeOK, PrepareStop, IsHeadOwner
  <2> QED
    BY <1>2, <1>4, <2>1 DEF PrepareStop, Prepare, TypeOK, Prepared, HeadSeq
<1>5. ASSUME NEW r \in Request, NEW P \in SUBSET Proposal, PrepareOptimizer(w, r, P)
      PROVE  TypeOK'
  <2>1. NewCommit(w, "optimizer", EpochAt(HeadSeq), r, P) \in Commit
    BY <1>5, NewCommitType DEF Kind, TypeOK, PrepareOptimizer, IsHeadOwner
  <2> QED
    BY <1>2, <1>5, <2>1 DEF PrepareOptimizer, Prepare, TypeOK, Prepared, HeadSeq
<1>6. ASSUME NEW e \in 1..MaxEpoch, NEW r \in Request, RefuseBump(w, e, r)
      PROVE  TypeOK'
  BY <1>2, <1>6 DEF RefuseBump, TypeOK
<1>7. CASE HeadUnmoved(w) \/ Abandon(w)
  BY <1>2, <1>7 DEF HeadUnmoved, Abandon, TypeOK
<1>8. CASE CasUnknown(w)
  BY <1>2, <1>8 DEF CasUnknown, TypeOK
<1>9. CASE Crash(w)
  BY <1>2, <1>9 DEF Crash, TypeOK
<1>10. CASE HeadMovedResolved(w) \/ CasLoses(w)
  BY <1>2, <1>10 DEF HeadMovedResolved, CasLoses, Finish, TypeOK
<1>11. CASE HeadMovedLost(w)
  BY <1>2, <1>11 DEF HeadMovedLost, Finish, TypeOK
<1>12. CASE CasCommits(w) \/ CasResolves(w)
  <2>1. prep[w].commit.epoch \in 0..MaxEpoch
    BY <1>12 DEF CasCommits, CasResolves, TypeOK, Prepared, Commit
  <2> QED
    BY <1>2, <1>12, <2>1 DEF CasCommits, CasResolves, TokenAfter, Finish, TypeOK
<1>13. CASE VerifyOwner(w)
  <2>1. prep[w].commit.epoch \in 0..MaxEpoch
    BY <1>13 DEF VerifyOwner, TypeOK, Prepared, Commit
  <2> QED BY <1>2, <1>13, <2>1 DEF VerifyOwner, TypeOK
<1> QED
  BY <1>1, <1>3, <1>4, <1>5, <1>6, <1>7, <1>8, <1>9,
     <1>10, <1>11, <1>12, <1>13 DEF WriterStep, CasMisses

-----------------------------------------------------------------------------
(* What a replay has read never changes: the log only grows at its end.     *)
LEMMA PrefixStable ==
    ASSUME IInv, [Next]_vars
    PROVE  /\ HeadSeq \in Nat /\ HeadSeq' \in Nat /\ HeadSeq <= HeadSeq'
           /\ \A i \in 1..HeadSeq : chain'[i] = chain[i]
<1>1. CASE UNCHANGED chain
  BY <1>1 DEF IInv, TypeOK, HeadSeq
<1>2. CASE \E w \in Writer : pc[w] = "checked" /\ Swap(w)
  <2>1. PICK w \in Writer : pc[w] = "checked" /\ Swap(w)
    BY <1>2
  <2>2. prep[w].commit \in Commit
    BY <2>1 DEF IInv, TypeOK, Prepared
  <2> QED BY <2>1, <2>2 DEF IInv, TypeOK, Swap, HeadSeq
<1> QED BY <1>1, <1>2, ChainStep

(* So what justified a prepared transition still justifies it.              *)
LEMMA JustifiedStable ==
    ASSUME IInv, [Next]_vars, NEW w \in Writer, NEW p \in Prepared,
           JustifiedBy(p, w)
    PROVE  JustifiedBy(p, w)'
<1>1. /\ HeadSeq \in Nat /\ HeadSeq' \in Nat /\ HeadSeq <= HeadSeq'
      /\ \A i \in 1..HeadSeq : chain'[i] = chain[i]
  BY PrefixStable
<1>2. p.parent \in Nat /\ p.parent <= HeadSeq
  BY DEF JustifiedBy, Prepared
<1>3. \A i \in 1..p.parent : chain'[i] = chain[i]
  BY <1>1, <1>2
<1>4. /\ EpochAt(p.parent)' = EpochAt(p.parent)
      /\ OwnerAt(p.parent)' = OwnerAt(p.parent)
      /\ CountAt(p.parent)' = CountAt(p.parent)
      /\ StoppedAt(p.parent)' = StoppedAt(p.parent)
  BY <1>2, <1>3 DEF EpochAt, OwnerAt, CountAt, StoppedAt
<1> QED BY <1>1, <1>2, <1>3, <1>4 DEF JustifiedBy

(* Swapping in a justified commit keeps the log fenced, its stop final, its *)
(* selections disjoint and its requests unique.                             *)
LEMMA LogStep ==
    ASSUME IInv, [Next]_vars
    PROVE  Fenced' /\ NothingAfterStop' /\ ConsumedOnce' /\ RequestsOnce'
<1>1. CASE UNCHANGED chain
  BY <1>1 DEF IInv, Fenced, NothingAfterStop, ConsumedOnce, RequestsOnce, HeadSeq
<1>2. CASE \E w \in Writer : pc[w] = "checked" /\ Swap(w)
  <2>1. PICK w \in Writer : pc[w] = "checked" /\ Swap(w)
    BY <1>2
  <2> DEFINE c == prep[w].commit
             n == HeadSeq
  <2>2. prep[w] \in Prepared /\ c \in Commit /\ JustifiedBy(prep[w], w)
    BY <2>1 DEF IInv, TypeOK, PrepJustified, Prepared
  <2>3. /\ n \in Nat /\ prep[w].parent = n /\ HeadSeq' = n + 1
        /\ \A i \in 1..n : chain'[i] = chain[i] /\ chain[i] \in Commit
        /\ chain'[n + 1] = c
    BY <2>1, <2>2 DEF IInv, TypeOK, Swap, HeadSeq
  <2>4. n # 0 => chain[n].kind # "stop"
    BY <2>2, <2>3 DEF JustifiedBy, StoppedAt
  <2>5. /\ c.kind = "epoch_bump" => c.epoch > EpochAt(n)
        /\ c.kind # "epoch_bump" =>
             n # 0 /\ c.epoch = chain[n].epoch /\ c.owner = chain[n].owner
    <3>1. /\ c.owner = w
          /\ c.kind = "epoch_bump" => c.epoch > EpochAt(n)
          /\ c.kind # "epoch_bump" => c.epoch = EpochAt(n) /\ w = OwnerAt(n)
      BY <2>2, <2>3 DEF JustifiedBy
    <3> QED BY <2>3, <3>1 DEF EpochAt, OwnerAt
  <2>6. \A i \in 1..n : /\ chain[i].epoch \in Nat
                        /\ chain[i].epoch <= chain[n].epoch
                        /\ chain[i].epoch = chain[n].epoch => chain[i].owner = chain[n].owner
    BY <2>3 DEF IInv, Fenced, Commit
  <2>7. \A i \in 1..n : /\ chain[i].epoch <= c.epoch
                        /\ chain[i].epoch = c.epoch => chain[i].owner = c.owner
                        /\ c.kind = "epoch_bump" => chain[i].epoch < c.epoch
    <3>1. c.epoch \in Nat
      BY <2>2 DEF Commit
    <3> QED BY <2>3, <2>5, <2>6, <3>1 DEF EpochAt
  <2>8. \A i \in 1..n : chain[i].req # c.req /\ c.props \cap chain[i].props = {}
    BY <2>2, <2>3 DEF JustifiedBy
  <2> HIDE DEF c, n
  <2>9. Fenced'
    <3> SUFFICES ASSUME NEW i \in 1..(n + 1), NEW j \in 1..(n + 1), i < j
                 PROVE  /\ chain'[i].epoch <= chain'[j].epoch
                        /\ chain'[i].epoch = chain'[j].epoch
                             => chain'[i].owner = chain'[j].owner
                        /\ chain'[j].kind = "epoch_bump"
                             => chain'[i].epoch < chain'[j].epoch
      BY <2>3 DEF Fenced
    <3>1. CASE j = n + 1
      BY <2>3, <2>7, <3>1
    <3>2. CASE j \in 1..n
      <4>1. i \in 1..n
        BY <2>3, <3>2
      <4>2. chain'[i] = chain[i] /\ chain'[j] = chain[j]
        BY <2>3, <3>2, <4>1
      <4> QED BY <3>2, <4>1, <4>2 DEF IInv, Fenced, n
    <3> QED BY <2>3, <3>1, <3>2
  <2>10. NothingAfterStop'
    <3> SUFFICES ASSUME NEW i \in 1..n PROVE chain'[i].kind # "stop"
      BY <2>3 DEF NothingAfterStop
    <3>1. chain[i].kind = "stop" => i = n
      BY DEF IInv, NothingAfterStop, n
    <3> QED BY <2>3, <2>4, <3>1
  <2>11. ConsumedOnce'
    <3> SUFFICES ASSUME NEW i \in 1..(n + 1), NEW j \in 1..(n + 1), i < j
                 PROVE  chain'[i].props \cap chain'[j].props = {}
      BY <2>3 DEF ConsumedOnce
    <3>1. i \in 1..n
      BY <2>3
    <3>2. CASE j = n + 1
      BY <2>3, <2>8, <3>1, <3>2
    <3>3. CASE j \in 1..n
      BY <2>3, <3>1, <3>3 DEF IInv, ConsumedOnce, n
    <3> QED BY <2>3, <3>2, <3>3
  <2>12. RequestsOnce'
    <3> SUFFICES ASSUME NEW i \in 1..(n + 1), NEW j \in 1..(n + 1), i < j
                 PROVE  chain'[i].req # chain'[j].req
      BY <2>3 DEF RequestsOnce
    <3>1. i \in 1..n
      BY <2>3
    <3>2. CASE j = n + 1
      BY <2>3, <2>8, <3>1, <3>2
    <3>3. CASE j \in 1..n
      BY <2>3, <3>1, <3>3 DEF IInv, RequestsOnce, n
    <3> QED BY <2>3, <3>2, <3>3
  <2> QED BY <2>9, <2>10, <2>11, <2>12
<1> QED BY <1>1, <1>2, ChainStep

-----------------------------------------------------------------------------
(* What the three prepare steps put into prep is justified by the head.     *)
LEMMA FreshPrepJustified ==
    ASSUME IInv, NEW w \in Writer, NEW kind \in Kind, NEW e \in 1..MaxEpoch,
           NEW r \in Request, NEW P \in SUBSET Proposal,
           HeadSeq < MaxCommits, ~StoppedAt(HeadSeq),
           r \notin ControlRequests(HeadSeq), P \cap Consumed(HeadSeq) = {},
           kind # "optimizer" => P = {},
           kind = "epoch_bump" => e > EpochAt(HeadSeq),
           kind # "epoch_bump" => IsHeadOwner(w) /\ e = EpochAt(HeadSeq)
    PROVE  LET p == [parent |-> HeadSeq, commit |-> NewCommit(w, kind, e, r, P)]
           IN  p \in Prepared /\ JustifiedBy(p, w)
<1> DEFINE c == NewCommit(w, kind, e, r, P)
           p == [parent |-> HeadSeq, commit |-> c]
<1>1. HeadSeq \in Nat /\ p \in Prepared
  BY NewCommitType DEF IInv, TypeOK, HeadSeq, Prepared
<1>2. /\ c.kind = kind /\ c.owner = w /\ c.epoch = e /\ c.req = r /\ c.props = P
      /\ c.count = CountAt(HeadSeq) + (IF kind = "optimizer" THEN 1 ELSE 0)
  BY DEF NewCommit
<1>3. \A i \in 1..HeadSeq : chain[i].req # r /\ P \cap chain[i].props = {}
  BY DEF ControlRequests, Consumed
<1>4. kind # "epoch_bump" =>
        /\ e = EpochAt(HeadSeq) /\ w = OwnerAt(HeadSeq)
        /\ \E i \in 1..HeadSeq : /\ chain[i].kind = "epoch_bump"
                                 /\ chain[i].owner = w
                                 /\ chain[i].epoch = e
  BY DEF IInv, TokenIsCommitted, IsHeadOwner, BumpIn, HeadSeq
<1> HIDE DEF c
<1>5. JustifiedBy(p, w)
  BY <1>1, <1>2, <1>3, <1>4 DEF JustifiedBy
<1> QED BY <1>1, <1>5 DEF c

(* One writer's step touches no other writer's state; its own prep either   *)
(* stays, goes with a crash, or is freshly justified.                       *)
LEMMA PrepStep ==
    ASSUME IInv, NEW w \in Writer, WriterStep(w)
    PROVE  /\ prep' \in [Writer -> Prepared \cup {NoPrep}]
           /\ \A v \in Writer \ {w} : /\ prep'[v] = prep[v]
                                     /\ result'[v] = result[v]
                                     /\ pc'[v] = pc[v]
                                     /\ token'[v] = token[v]
           /\ \/ prep'[w] = prep[w]
              \/ prep'[w] = NoPrep /\ result'[w] = "none" /\ pc'[w] = "ready"
              \/ /\ JustifiedBy(prep'[w], w) /\ prep'[w] \in Prepared
                 /\ result'[w] = "none" /\ pc'[w] = "prepared"
                 /\ UNCHANGED chain
<1> USE DEF IInv
<1>1. ASSUME NEW e \in 1..MaxEpoch, NEW r \in Request, PrepareBump(w, e, r)
      PROVE  /\ JustifiedBy([parent |-> HeadSeq,
                             commit |-> NewCommit(w, "epoch_bump", e, r, {})], w)
             /\ NewCommit(w, "epoch_bump", e, r, {}) \in Commit
  <2>1. HeadSeq < MaxCommits /\ BumpAllowed(e, r)
    BY <1>1 DEF PrepareBump, Prepare
  <2> QED BY <2>1, FreshPrepJustified, NewCommitType DEF BumpAllowed, Kind
<1>2. ASSUME NEW r \in Request, PrepareStop(w, r)
      PROVE  /\ JustifiedBy([parent |-> HeadSeq,
                             commit |-> NewCommit(w, "stop", token[w], r, {})], w)
             /\ NewCommit(w, "stop", token[w], r, {}) \in Commit
  <2>1. token[w] \in 1..MaxEpoch /\ token[w] = EpochAt(HeadSeq)
    BY <1>2 DEF PrepareStop, IsHeadOwner, TypeOK
  <2> QED BY <1>2, <2>1, FreshPrepJustified, NewCommitType DEF PrepareStop, Prepare, Kind
<1>3. ASSUME NEW r \in Request, NEW P \in SUBSET Proposal, PrepareOptimizer(w, r, P)
      PROVE  /\ JustifiedBy([parent |-> HeadSeq,
                   commit |-> NewCommit(w, "optimizer", EpochAt(HeadSeq), r, P)], w)
             /\ NewCommit(w, "optimizer", EpochAt(HeadSeq), r, P) \in Commit
  <2>1. EpochAt(HeadSeq) \in 1..MaxEpoch
    BY <1>3 DEF PrepareOptimizer, IsHeadOwner, TypeOK
  <2> QED BY <1>3, <2>1, FreshPrepJustified, NewCommitType DEF PrepareOptimizer, Prepare, Kind
<1>4. HeadSeq \in Nat
  BY DEF TypeOK, HeadSeq
<1>5. CASE \/ \E e \in 1..MaxEpoch, r \in Request : PrepareBump(w, e, r)
           \/ \E r \in Request : PrepareStop(w, r)
           \/ \E r \in Request, P \in SUBSET Proposal : PrepareOptimizer(w, r, P)
  <2>1. PICK c \in Commit :
           /\ JustifiedBy([parent |-> HeadSeq, commit |-> c], w)
           /\ prep' = [prep EXCEPT ![w] = [parent |-> HeadSeq, commit |-> c]]
           /\ pc' = [pc EXCEPT ![w] = "prepared"]
           /\ result' = [result EXCEPT ![w] = "none"]
           /\ UNCHANGED chain
           /\ token' = [token EXCEPT ![w] = 0] \/ UNCHANGED token
    <3>1. CASE \E e \in 1..MaxEpoch, r \in Request : PrepareBump(w, e, r)
      BY <1>1, <3>1 DEF PrepareBump, Prepare
    <3>2. CASE \E r \in Request : PrepareStop(w, r)
      BY <1>2, <3>2 DEF PrepareStop, Prepare
    <3>3. CASE \E r \in Request, P \in SUBSET Proposal : PrepareOptimizer(w, r, P)
      BY <1>3, <3>3 DEF PrepareOptimizer, Prepare
    <3> QED BY <1>5, <3>1, <3>2, <3>3
  <2> DEFINE p == [parent |-> HeadSeq, commit |-> c]
  <2>2. p \in Prepared
    BY <1>4 DEF Prepared
  <2> HIDE DEF p
  <2> QED BY <2>1, <2>2 DEF TypeOK, p
<1>6. CASE \/ \E e \in 1..MaxEpoch, r \in Request : RefuseBump(w, e, r)
           \/ HeadUnmoved(w) \/ HeadMovedResolved(w) \/ HeadMovedLost(w)
           \/ Abandon(w) \/ VerifyOwner(w) \/ Crash(w)
  BY <1>6 DEF RefuseBump, HeadUnmoved, HeadMovedResolved, HeadMovedLost, Abandon,
              VerifyOwner, Crash, Finish, TypeOK
<1>7. CASE CasCommits(w) \/ CasResolves(w) \/ CasLoses(w) \/ CasUnknown(w)
  BY <1>7 DEF CasCommits, CasResolves, CasLoses, CasUnknown, TokenAfter, Finish, TypeOK
<1> QED BY <1>5, <1>6, <1>7 DEF WriterStep, CasMisses

LEMMA PrepJustifiedStep ==
    ASSUME IInv, NEW w \in Writer, WriterStep(w)
    PROVE  PrepJustified'
<1>1. [Next]_vars
  BY DEF Next
<1>2. ASSUME NEW v \in Writer, prep'[v] # NoPrep
      PROVE  JustifiedBy(prep[v], v)' 
  <2>1. CASE prep'[v] = prep[v]
    <3>1. prep[v] \in Prepared /\ JustifiedBy(prep[v], v)
      BY <1>2, <2>1 DEF IInv, TypeOK, PrepJustified
    <3>2. PICK p \in Prepared : p = prep[v]
      BY <3>1
    <3>3. JustifiedBy(p, v)'
      BY <1>1, <3>1, <3>2, JustifiedStable
    <3> QED BY <2>1, <3>2, <3>3
  <2>2. CASE v = w /\ JustifiedBy(prep'[w], w) /\ UNCHANGED chain
    BY <2>2 DEF JustifiedBy, HeadSeq, StoppedAt, EpochAt, OwnerAt, CountAt
  <2> QED BY <1>2, <2>1, <2>2, PrepStep
<1>3. ASSUME NEW v \in Writer
      PROVE  /\ result'[v] # "none" => prep'[v] # NoPrep
             /\ pc'[v] = "verify" => /\ result'[v] = "committed"
                                    /\ prep'[v].commit.kind = "epoch_bump"
  <2>1. CASE v # w
    BY <2>1, PrepStep DEF IInv, PrepJustified
  <2>2. CASE v = w
    <3> USE <2>2 DEF IInv, TypeOK, PrepJustified
    <3>1. CASE \/ \E e \in 1..MaxEpoch, r \in Request : PrepareBump(w, e, r)
               \/ \E r \in Request : PrepareStop(w, r)
               \/ \E r \in Request, P \in SUBSET Proposal : PrepareOptimizer(w, r, P)
      BY <3>1 DEF PrepareBump, PrepareStop, PrepareOptimizer, Prepare
    <3>2. CASE \/ \E e \in 1..MaxEpoch, r \in Request : RefuseBump(w, e, r)
               \/ HeadUnmoved(w) \/ Abandon(w) \/ VerifyOwner(w) \/ Crash(w)
      BY <3>2 DEF RefuseBump, HeadUnmoved, Abandon, VerifyOwner, Crash
    <3>3. CASE HeadMovedResolved(w) \/ HeadMovedLost(w) \/ CasLoses(w)
      BY <3>3 DEF HeadMovedResolved, HeadMovedLost, CasLoses, Finish
    <3>4. CASE CasCommits(w) \/ CasResolves(w) \/ CasUnknown(w)
      BY <3>4 DEF CasCommits, CasResolves, CasUnknown, Finish
    <3> QED BY <3>1, <3>2, <3>3, <3>4 DEF WriterStep, CasMisses
  <2> QED BY <2>1, <2>2
<1> QED BY <1>2, <1>3 DEF PrepJustified

-----------------------------------------------------------------------------
LEMMA TokenStep ==
    ASSUME IInv, NEW w \in Writer, WriterStep(w)
    PROVE  TokenIsCommitted'
<1> USE DEF IInv, TypeOK
<1>1. /\ HeadSeq \in Nat /\ HeadSeq' \in Nat /\ HeadSeq <= HeadSeq'
      /\ \A i \in 1..HeadSeq : chain'[i] = chain[i]
  BY PrefixStable DEF Next
<1>2. ASSUME NEW v, NEW e, BumpIn(chain, v, e) PROVE BumpIn(chain', v, e)
  BY <1>1, <1>2 DEF BumpIn, HeadSeq
<1>3. \A v \in Writer : token[v] # 0 => BumpIn(chain, v, token[v])
  BY DEF TokenIsCommitted
<1>4. \A v \in Writer : token'[v] = 0 \/ token'[v] = token[v] \/ BumpIn(chain', v, token'[v])
  <2>1. CASE CasCommits(w) \/ CasResolves(w)
    <3> DEFINE p == prep[w]
    <3>1. p \in Prepared /\ JustifiedBy(p, w)
      BY <2>1 DEF CasCommits, CasResolves, PrepJustified
    <3>2. p.commit \in Commit /\ p.commit.owner = w
      BY <3>1 DEF Prepared, JustifiedBy
    <3>3. HeadSeq' > p.parent /\ chain'[p.parent + 1] = p.commit
      BY <2>1, <3>1, <3>2 DEF CasCommits, CasResolves, Swap, Resolved, HeadSeq, Prepared
    <3>4. CASE p.commit.kind = "epoch_bump"
      <4>1. p.parent + 1 \in 1..HeadSeq'
        BY <1>1, <3>1, <3>3 DEF Prepared
      <4>2. BumpIn(chain', w, p.commit.epoch)
        BY <3>2, <3>3, <3>4, <4>1 DEF BumpIn, HeadSeq
      <4> QED BY <2>1, <4>2 DEF CasCommits, CasResolves, TokenAfter
    <3>5. CASE p.commit.kind # "epoch_bump"
      <4>1. \E i \in 1..p.parent : /\ chain[i].kind = "epoch_bump"
                                  /\ chain[i].owner = w
                                  /\ chain[i].epoch = p.commit.epoch
        BY <3>1, <3>5 DEF JustifiedBy
      <4>2. p.parent <= HeadSeq /\ p.parent \in Nat
        BY <3>1 DEF JustifiedBy, Prepared
      <4>3. BumpIn(chain, w, p.commit.epoch)
        BY <1>1, <4>1, <4>2 DEF BumpIn, HeadSeq
      <4>4. BumpIn(chain', w, p.commit.epoch)
        BY <1>2, <4>3
      <4> QED BY <2>1, <4>4 DEF CasCommits, CasResolves, TokenAfter
    <3> QED BY <3>4, <3>5
  <2>2. CASE VerifyOwner(w)
    <3>1. prep[w] \in Prepared /\ JustifiedBy(prep[w], w)
      BY <2>2 DEF VerifyOwner, PrepJustified
    <3>2. /\ result[w] = "committed" /\ prep[w].commit.kind = "epoch_bump"
          /\ Resolved(prep[w])
      BY <2>2 DEF VerifyOwner, PrepJustified, ResultIsFinal
    <3>3. prep[w].commit.owner = w /\ prep[w].parent \in Nat
      BY <3>1 DEF JustifiedBy, Prepared
    <3>4. BumpIn(chain, w, prep[w].commit.epoch)
      <4>1. /\ prep[w].parent + 1 \in 1..HeadSeq
            /\ chain[prep[w].parent + 1] = prep[w].commit
        BY <1>1, <3>2, <3>3 DEF Resolved
      <4> QED BY <3>2, <3>3, <4>1 DEF BumpIn, HeadSeq
    <3>5. BumpIn(chain', w, prep[w].commit.epoch)
      BY <1>2, <3>4
    <3> QED BY <2>2, <3>5 DEF VerifyOwner
  <2>3. CASE \/ \E e \in 1..MaxEpoch, r \in Request :
                  PrepareBump(w, e, r) \/ RefuseBump(w, e, r)
             \/ HeadMovedLost(w) \/ Crash(w)
    BY <2>3 DEF PrepareBump, RefuseBump, HeadMovedLost, Crash
  <2>4. CASE \/ \E r \in Request : PrepareStop(w, r)
             \/ \E r \in Request, P \in SUBSET Proposal : PrepareOptimizer(w, r, P)
             \/ HeadUnmoved(w) \/ HeadMovedResolved(w) \/ CasLoses(w)
             \/ CasUnknown(w) \/ Abandon(w)
    BY <2>4 DEF PrepareStop, PrepareOptimizer, HeadUnmoved, HeadMovedResolved,
                CasLoses, CasUnknown, Abandon
  <2> QED BY <2>1, <2>2, <2>3, <2>4 DEF WriterStep, CasMisses
<1>5. \A v \in Writer : token'[v] # 0 => BumpIn(chain', v, token'[v])
  BY <1>2, <1>3, <1>4
<1> QED BY <1>5 DEF TokenIsCommitted

LEMMA ResultStep ==
    ASSUME IInv, NEW w \in Writer, WriterStep(w)
    PROVE  ResultIsFinal'
<1> USE DEF IInv, TypeOK
<1>1. /\ HeadSeq \in Nat /\ HeadSeq' \in Nat /\ HeadSeq <= HeadSeq'
      /\ \A i \in 1..HeadSeq : chain'[i] = chain[i]
  BY PrefixStable DEF Next
<1>2. ASSUME NEW p \in Prepared, HeadSeq > p.parent
      PROVE  HeadSeq' > p.parent /\ (Resolved(p)' <=> Resolved(p))
  <2>1. p.parent + 1 \in 1..HeadSeq
    BY <1>1, <1>2 DEF Prepared
  <2> QED BY <1>1, <1>2, <2>1 DEF Resolved, Prepared
<1>3. ASSUME NEW v \in Writer, prep'[v] = prep[v], result'[v] = result[v]
      PROVE  /\ result'[v] = "committed" => Resolved(prep[v])'
             /\ result'[v] = "conflict" => HeadSeq' > prep'[v].parent /\ ~Resolved(prep[v])'
  <2>1. CASE result[v] \in {"committed", "conflict"}
    <3>1. prep[v] \in Prepared
      BY <2>1 DEF PrepJustified
    <3>2. HeadSeq > prep[v].parent
      BY <2>1 DEF ResultIsFinal, Resolved
    <3>3. PICK p \in Prepared : p = prep[v]
      BY <3>1
    <3>4. HeadSeq' > p.parent /\ (Resolved(p)' <=> Resolved(p))
      BY <1>2, <3>2, <3>3
    <3>5. Resolved(prep[v])' <=> Resolved(p)'
      BY <1>3, <3>3 DEF Resolved
    <3>6. Resolved(prep[v]) <=> Resolved(p)
      BY <3>3
    <3> QED BY <1>3, <3>3, <3>4, <3>5, <3>6 DEF ResultIsFinal
  <2>2. CASE result[v] \notin {"committed", "conflict"}
    BY <1>3, <2>2
  <2> QED BY <2>1, <2>2
<1>4. /\ result'[w] = "committed" => Resolved(prep[w])'
      /\ result'[w] = "conflict" => HeadSeq' > prep'[w].parent /\ ~Resolved(prep[w])'
  <2>1. CASE pc[w] \in {"prepared", "checked"} /\ UNCHANGED <<chain, prep>>
               /\ \/ Resolved(prep[w]) /\ result'[w] = "committed"
                  \/ HeadSeq > prep[w].parent /\ ~Resolved(prep[w])
                     /\ result'[w] = "conflict"
    BY <2>1 DEF Resolved, HeadSeq
  <2>2. CASE CasCommits(w)
    <3>1. prep[w] \in Prepared /\ prep[w].commit \in Commit
      BY <2>2 DEF CasCommits, Prepared
    <3>2. /\ prep' = prep /\ result'[w] = "committed"
          /\ prep[w].parent = Len(chain) /\ chain' = Append(chain, prep[w].commit)
      BY <2>2 DEF CasCommits, Swap, Finish, HeadSeq
    <3> QED BY <3>1, <3>2 DEF Resolved, HeadSeq
  <2>3. CASE HeadMovedResolved(w) \/ CasResolves(w)
    BY <2>1, <2>3 DEF HeadMovedResolved, CasResolves, Finish
  <2>4. CASE HeadMovedLost(w) \/ CasLoses(w)
    <3>1. prep[w] \in Prepared /\ prep[w].parent <= HeadSeq
      BY <2>4 DEF HeadMovedLost, CasLoses, PrepJustified, JustifiedBy
    <3>2. prep[w].parent \in Nat /\ HeadSeq > prep[w].parent
      BY <1>1, <2>4, <3>1 DEF HeadMovedLost, CasLoses, Prepared
    <3> QED BY <2>1, <2>4, <3>2 DEF HeadMovedLost, CasLoses, Finish
  <2>5. CASE CasUnknown(w) \/ Crash(w)
    BY <2>5 DEF CasUnknown, Crash
  <2>6. CASE \/ \E e \in 1..MaxEpoch, r \in Request : RefuseBump(w, e, r)
             \/ HeadUnmoved(w) \/ Abandon(w) \/ VerifyOwner(w)
    BY <1>3, <2>6 DEF RefuseBump, HeadUnmoved, Abandon, VerifyOwner
  <2>7. CASE \/ \E e \in 1..MaxEpoch, r \in Request : PrepareBump(w, e, r)
             \/ \E r \in Request : PrepareStop(w, r)
             \/ \E r \in Request, P \in SUBSET Proposal : PrepareOptimizer(w, r, P)
    BY <2>7 DEF PrepareBump, PrepareStop, PrepareOptimizer, Prepare
  <2> QED BY <2>2, <2>3, <2>4, <2>5, <2>6, <2>7 DEF WriterStep, CasMisses
<1>5. \A v \in Writer \ {w} : prep'[v] = prep[v] /\ result'[v] = result[v]
  BY PrepStep
<1> QED BY <1>3, <1>4, <1>5 DEF ResultIsFinal

-----------------------------------------------------------------------------
LEMMA InitInv ==
    ASSUME Init
    PROVE  IInv
<1>1. HeadSeq = 0 /\ chain = <<>>
  BY DEF Init, HeadSeq
<1>2. TypeOK
  BY DEF Init, TypeOK
<1> QED
  BY <1>1, <1>2 DEF Init, IInv, ResultIsFinal, ConsumedOnce, TokenIsCommitted, Fenced,
       NothingAfterStop, RequestsOnce, PrepJustified

LEMMA StepInv ==
    ASSUME IInv, [Next]_vars
    PROVE  IInv'
<1>1. CASE UNCHANGED vars
  <2>1. UNCHANGED <<chain, token, pc, prep, result>>
    BY <1>1 DEF vars
  <2>2. HeadSeq' = HeadSeq /\ UNCHANGED chain
    BY <2>1 DEF HeadSeq
  <2>3. TypeOK' /\ ConsumedOnce' /\ Fenced' /\ NothingAfterStop' /\ RequestsOnce'
    BY <2>1, <2>2 DEF IInv, TypeOK, ConsumedOnce, Fenced, NothingAfterStop, RequestsOnce
  <2>4. ResultIsFinal' /\ TokenIsCommitted'
    BY <2>1, <2>2 DEF IInv, ResultIsFinal, Resolved, TokenIsCommitted, BumpIn
  <2>5. \A p \in Prepared, w \in Writer : JustifiedBy(p, w) => JustifiedBy(p, w)'
    BY JustifiedStable
  <2>6. ASSUME NEW w \in Writer, prep[w] # NoPrep PROVE JustifiedBy(prep[w], w)'
    <3>1. PICK p \in Prepared : p = prep[w]
      BY <2>6 DEF IInv, TypeOK
    <3>2. JustifiedBy(p, w)'
      BY <2>5, <2>6, <3>1 DEF IInv, PrepJustified
    <3> QED BY <2>1, <3>1, <3>2
  <2>7. PrepJustified'
    BY <2>1, <2>6 DEF IInv, PrepJustified
  <2> QED BY <2>3, <2>4, <2>7 DEF IInv
<1>2. CASE Next
  <2>1. PICK w \in Writer : WriterStep(w)
    BY <1>2 DEF Next
  <2> QED
    BY <1>2, <2>1, TypeStep, LogStep, PrepJustifiedStep, TokenStep, ResultStep DEF IInv
<1> QED BY <1>1, <1>2

(* The inductive invariant holds in every reachable state. *)
THEOREM Invariance == Spec => []IInv
<1>1. Init => IInv
  BY InitInv
<1>2. IInv /\ [Next]_vars => IInv'
  BY StepInv
<1> QED BY <1>1, <1>2, PTL DEF Spec

(* Type correctness of the log and of every writer's private state. *)
THEOREM TypeCorrect == Spec => []TypeOK
<1>1. IInv => TypeOK
  BY DEF IInv
<1> QED BY <1>1, Invariance, PTL

(* commit_prepared never lies, for any number of writers: committed means   *)
(* in the ancestry for good, conflict means out of it for good.             *)
THEOREM ResultsAreFinal == Spec => []ResultIsFinal
<1>1. IInv => ResultIsFinal
  BY DEF IInv
<1> QED BY <1>1, Invariance, PTL

(* I-003: no proposal is ever consumed by two commits. *)
THEOREM ExactlyOnce == Spec => []ConsumedOnce
<1>1. IInv => ConsumedOnce
  BY DEF IInv
<1> QED BY <1>1, Invariance, PTL

(* I-007: epochs never go back along the log and each has a single owner,   *)
(* without any assumption on leases or clocks.                              *)
THEOREM Fencing == Spec => []Fenced
<1>1. IInv => Fenced
  BY DEF IInv
<1> QED BY <1>1, Invariance, PTL

(* The committed stop is the last commit of the log. *)
THEOREM StopEndsLog == Spec => []NothingAfterStop
<1>1. IInv => NothingAfterStop
  BY DEF IInv
<1> QED BY <1>1, Invariance, PTL

(* A request commits at most once, however often its answer is lost and the *)
(* request prepared again, by whichever session.                            *)
THEOREM RetriesCommitOnce == Spec => []RequestsOnce
<1>1. IInv => RequestsOnce
  BY DEF IInv
<1> QED BY <1>1, Invariance, PTL

(* An owner token in memory always has its epoch bump in the log. *)
THEOREM TokensAreCommitted == Spec => []TokenIsCommitted
<1>1. IInv => TokenIsCommitted
  BY DEF IInv
<1> QED BY <1>1, Invariance, PTL

-----------------------------------------------------------------------------
(* What the replay verifies of a commit speaks of the prefix below it only. *)
LEMMA VerifiedStable ==
    ASSUME IInv, [Next]_vars, NEW i \in 1..HeadSeq
    PROVE  /\ chain'[i] = chain[i]
           /\ VerifiedControl(i) => VerifiedControl(i)'
           /\ VerifiedOptimizer(i) => VerifiedOptimizer(i)'
<1>1. \A j \in 1..i : chain'[j] = chain[j]
  BY PrefixStable
<1>2. /\ EpochAt(i - 1)' = EpochAt(i - 1) /\ OwnerAt(i - 1)' = OwnerAt(i - 1)
      /\ CountAt(i - 1)' = CountAt(i - 1) /\ StoppedAt(i - 1)' = StoppedAt(i - 1)
  BY <1>1, PrefixStable DEF EpochAt, OwnerAt, CountAt, StoppedAt
<1>3. Consumed(i - 1)' = Consumed(i - 1) /\ ControlRequests(i - 1)' = ControlRequests(i - 1)
  <2>1. \A j \in 1..(i - 1) : chain'[j] = chain[j]
    BY <1>1, PrefixStable
  <2> QED BY <2>1 DEF Consumed, ControlRequests
<1> QED BY <1>1, <1>2, <1>3, PrefixStable DEF VerifiedControl, VerifiedOptimizer

(* And a justified commit has it.                                           *)
LEMMA SwapVerifies ==
    ASSUME IInv, [Next]_vars, NEW w \in Writer, pc[w] = "checked", Swap(w),
           NEW n \in Nat, n = HeadSeq
    PROVE  IF prep[w].commit.kind = "optimizer" THEN VerifiedOptimizer(n + 1)'
                                                ELSE VerifiedControl(n + 1)'
<1> DEFINE c == prep[w].commit
<1>1. prep[w] \in Prepared /\ c \in Commit /\ JustifiedBy(prep[w], w) /\ prep[w].parent = n
  BY DEF IInv, TypeOK, PrepJustified, Prepared, Swap
<1>2. /\ chain'[n + 1] = c
      /\ \A i \in 1..n : chain'[i] = chain[i]
  BY <1>1 DEF IInv, TypeOK, Swap, HeadSeq
<1>3. /\ EpochAt(n)' = EpochAt(n) /\ OwnerAt(n)' = OwnerAt(n)
      /\ CountAt(n)' = CountAt(n) /\ StoppedAt(n)' = StoppedAt(n)
  BY <1>2 DEF EpochAt, OwnerAt, CountAt, StoppedAt
<1>4. c.req \notin ControlRequests(n)' /\ c.props \cap Consumed(n)' = {}
  BY <1>1, <1>2 DEF ControlRequests, Consumed, JustifiedBy
<1>5. /\ ~StoppedAt(n) /\ c.owner = w
      /\ c.count = CountAt(n) + (IF c.kind = "optimizer" THEN 1 ELSE 0)
      /\ c.kind = "epoch_bump" => c.epoch > EpochAt(n)
      /\ c.kind # "epoch_bump" => c.epoch = EpochAt(n) /\ w = OwnerAt(n) /\ n # 0
      /\ c.kind # "optimizer" => c.props = {}
  BY <1>1 DEF JustifiedBy
<1>6. CountAt(n) \in Nat /\ (n + 1) - 1 = n
  <2>1. n # 0 => chain[n] \in Commit
    BY DEF IInv, TypeOK, HeadSeq
  <2> QED BY <2>1 DEF CountAt, Commit
<1> HIDE DEF c
<1>7. CASE c.kind = "optimizer"
  <2>1. n + 1 > 1 /\ ~StoppedAt(n)' /\ c.count = CountAt(n)' + 1
        /\ c.owner = OwnerAt(n)' /\ c.epoch = EpochAt(n)'
    BY <1>3, <1>5, <1>7
  <2>2. VerifiedOptimizer(n + 1)'
    BY <1>2, <1>4, <1>6, <2>1 DEF VerifiedOptimizer
  <2> QED BY <1>7, <2>2 DEF c
<1>8. CASE c.kind # "optimizer"
  <2>1. /\ ~StoppedAt(n)' /\ c.count = CountAt(n)' /\ c.props = {}
        /\ IF c.kind = "epoch_bump" THEN c.epoch > EpochAt(n)'
           ELSE c.owner = OwnerAt(n)' /\ c.epoch = EpochAt(n)'
    BY <1>3, <1>5, <1>6, <1>8
  <2>2. VerifiedControl(n + 1)'
    BY <1>2, <1>4, <1>6, <2>1 DEF VerifiedControl
  <2> QED BY <1>8, <2>2 DEF c
<1> QED BY <1>7, <1>8

(* No race of any number of writers makes the log unreadable: each commit   *)
(* passes the replay that every process runs over the ancestry.             *)
THEOREM Readable == Spec => []LogVerifies
<1>1. Init => LogVerifies
  BY DEF Init, LogVerifies, HeadSeq
<1>2. IInv /\ LogVerifies /\ [Next]_vars => LogVerifies'
  <2> SUFFICES ASSUME IInv, LogVerifies, [Next]_vars
               PROVE  LogVerifies'
    OBVIOUS
  <2>1. \A i \in 1..HeadSeq : /\ chain'[i] = chain[i]
                              /\ IF chain[i].kind = "optimizer" THEN VerifiedOptimizer(i)'
                                                               ELSE VerifiedControl(i)'
    BY VerifiedStable DEF LogVerifies
  <2>2. CASE UNCHANGED chain
    BY <2>1, <2>2 DEF LogVerifies, HeadSeq
  <2>3. CASE \E w \in Writer : pc[w] = "checked" /\ Swap(w)
    <3>1. PICK w \in Writer : pc[w] = "checked" /\ Swap(w)
      BY <2>3
    <3>2. PICK n \in Nat : n = HeadSeq
      BY DEF IInv, TypeOK, HeadSeq
    <3>3. HeadSeq' = n + 1 /\ chain'[n + 1] = prep[w].commit
      BY <3>1, <3>2 DEF IInv, TypeOK, PrepJustified, JustifiedBy, Prepared, Swap, HeadSeq
    <3>4. IF prep[w].commit.kind = "optimizer" THEN VerifiedOptimizer(n + 1)'
                                               ELSE VerifiedControl(n + 1)'
      BY <3>1, <3>2, SwapVerifies
    <3> QED BY <2>1, <3>2, <3>3, <3>4 DEF LogVerifies
  <2> QED BY <2>2, <2>3, ChainStep
<1> QED BY <1>1, <1>2, Invariance, PTL DEF Spec

-----------------------------------------------------------------------------
(* A swap of a justified commit is one step of the reference machine.       *)
LEMMA SwapRefines ==
    ASSUME IInv, NEW w \in Writer, pc[w] = "checked", Swap(w)
    PROVE  Reference!Next
<1> DEFINE c == prep[w].commit
           n == HeadSeq
           h == History
           t == [owner |-> c.owner, epoch |-> c.epoch]
<1>1. prep[w] \in Prepared /\ c \in Commit /\ JustifiedBy(prep[w], w)
  BY DEF IInv, TypeOK, PrepJustified, Prepared
<1>2. /\ n \in Nat /\ prep[w].parent = n /\ n < MaxCommits /\ HeadSeq' = n + 1
      /\ \A i \in 1..n : chain'[i] = chain[i] /\ chain[i] \in Commit
      /\ chain'[n + 1] = c
  BY <1>1 DEF IInv, TypeOK, Swap, HeadSeq, JustifiedBy
<1>3. /\ c.kind \in Kind /\ c.owner \in Writer /\ c.epoch \in 1..MaxEpoch
      /\ c.req \in Request /\ c.count \in Nat
  BY <1>1 DEF Commit
<1>4. t \in Reference!Token
  BY <1>3 DEF Reference!Token
<1>5. /\ Len(h) = n /\ h \in Seq(Reference!Event)
      /\ h = <<>> <=> n = 0
      /\ \A i \in 1..n : h[i] = [kind |-> chain[i].kind, req |-> chain[i].req,
                                 owner |-> chain[i].owner, epoch |-> chain[i].epoch,
                                 count |-> chain[i].count]
  <2>1. \A i \in 1..n : [kind |-> chain[i].kind, req |-> chain[i].req,
                         owner |-> chain[i].owner, epoch |-> chain[i].epoch,
                         count |-> chain[i].count] \in Reference!Event
    BY <1>2 DEF Commit, Kind, Reference!Event
  <2> QED BY <1>2, <2>1 DEF History, HeadSeq
<1>6. /\ Reference!FencingEpoch(h) = EpochAt(n)
      /\ Reference!OptimizerCount(h) = CountAt(n)
      /\ n # 0 => Reference!OwnerToken(h) = [owner |-> chain[n].owner,
                                            epoch |-> chain[n].epoch]
  BY <1>2, <1>5 DEF Reference!FencingEpoch, Reference!OptimizerCount,
       Reference!OwnerToken, Reference!HeadOf, EpochAt, CountAt
<1>7. c.req \notin Reference!CommittedRequests(h)
  BY <1>1, <1>2, <1>5 DEF Reference!CommittedRequests, JustifiedBy
<1>8. c.count = Reference!OptimizerCount(h) + (IF c.kind = "optimizer" THEN 1 ELSE 0)
  BY <1>1, <1>2, <1>6 DEF JustifiedBy
<1>9. History' = Append(h, [kind |-> c.kind, req |-> c.req, owner |-> t.owner,
                            epoch |-> t.epoch, count |-> c.count])
  BY <1>2, <1>5 DEF History, HeadSeq
<1>10. /\ StopFact = Reference!NoStop
       /\ StopFact' = IF c.kind = "stop" THEN [req |-> c.req, seq |-> n + 1]
                                         ELSE Reference!NoStop
  BY <1>1, <1>2 DEF StopFact, StoppedAt, JustifiedBy, Reference!NoStop
<1>11. CASE c.kind = "epoch_bump"
  <2>1. Reference!CommitEpochBump(t, c.req)
    BY <1>1, <1>2, <1>5, <1>6, <1>7, <1>8, <1>9, <1>10, <1>11
       DEF JustifiedBy, Reference!CommitEpochBump, Reference!Commit
  <2> QED BY <1>3, <1>4, <2>1 DEF Reference!Next
<1>12. CASE c.kind # "epoch_bump"
  <2>1. Reference!OwnerToken(h) = t
    BY <1>1, <1>2, <1>6, <1>12 DEF JustifiedBy, EpochAt, OwnerAt
  <2>2. CASE c.kind = "optimizer"
    <3>1. Reference!CommitOptimizer(t, c.req)
      BY <1>2, <1>5, <1>7, <1>8, <1>9, <1>10, <2>1, <2>2
         DEF Reference!CommitOptimizer, Reference!Commit
    <3> QED BY <1>3, <1>4, <3>1 DEF Reference!Next
  <2>3. CASE c.kind = "stop"
    <3>1. Reference!CommitStop(t, c.req)
      BY <1>2, <1>5, <1>7, <1>8, <1>9, <1>10, <2>1, <2>3
         DEF Reference!CommitStop, Reference!Commit
    <3> QED BY <1>3, <1>4, <3>1 DEF Reference!Next
  <2> QED BY <1>3, <1>12, <2>2, <2>3 DEF Kind
<1> QED BY <1>11, <1>12

(* The production log implements the reference coordination machine. *)
THEOREM Refinement == Spec => ImplementsReference
<1>1. Init => Reference!Init
  BY DEF Init, Reference!Init, History, StopFact, StoppedAt, HeadSeq, Reference!NoStop
<1>2. IInv /\ [Next]_vars => [Reference!Next]_(Reference!vars)
  <2> SUFFICES ASSUME IInv, [Next]_vars
               PROVE  [Reference!Next]_(Reference!vars)
    OBVIOUS
  <2>1. CASE UNCHANGED chain
    BY <2>1 DEF Reference!vars, History, StopFact, StoppedAt, HeadSeq
  <2>2. CASE \E w \in Writer : pc[w] = "checked" /\ Swap(w)
    BY <2>2, SwapRefines
  <2> QED BY <2>1, <2>2, ChainStep
<1> QED BY <1>1, <1>2, Invariance, PTL DEF Spec, ImplementsReference, Reference!Spec
=============================================================================
