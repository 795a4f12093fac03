-------------------------- MODULE SyncerRun_proofs --------------------------
(***************************************************************************)
(* The safety of syncer processes, for any number of sessions, standbys    *)
(* and fragments: types, lease and log in step, the derived stop, exact    *)
(* recovery of restarted syncers, and the refinement of Coordination.      *)
(***************************************************************************)
EXTENDS SyncerRun, TLAPS

Act(s) == Start(s) \/ Bootstrap(s) \/ Proceed(s) \/ Crash(s)

Before == {"off", "opened", "leased", "bumping"}

-----------------------------------------------------------------------------
(* Epochs do not outrun the log, and a stop is its end. *)
LogInv ==
    /\ HeadSeq <= MaxLog
    /\ \A i \in 1..HeadSeq :
           /\ log[i].epoch <= i
           /\ log[i].kind = "stop" => i = HeadSeq
           /\ pc[log[i].owner] \notin Before

(* A session that may still fence holds the stored lease. *)
LeaseInv ==
    /\ EpochIsLeased
    /\ \A s \in Session :
           pc[s] \in {"leased", "bumping"} /\ grant[s] > EpochAt(HeadSeq) =>
               lease.owner = s /\ lease.epoch = grant[s]

(* What a session has seen is a prefix of the log, and what it prepared was *)
(* justified by it.                                                         *)
MayBump(s) == ~StoppedAt(parent[s]) /\ grant[s] > EpochAt(parent[s])
MaySwap(s) ==
    ~StoppedAt(parent[s]) /\ OwnerAt(parent[s]) = s /\ EpochAt(parent[s]) = token[s]

ViewInv ==
    \A s \in Session :
        /\ view[s] <= HeadSeq /\ parent[s] <= HeadSeq
        /\ pc[s] = "bumping" => MayBump(s)
        /\ pc[s] = "prepared" => MaySwap(s)
        /\ pc[s] = "stopExport" => StoppedAt(view[s])

(* The parameters of a prefix: for each fragment the last commit of it.     *)
LastProducer(i, n, f) ==
    i \in 0..n /\ Produces(i, f) /\ \A j \in (i + 1)..n : ~Produces(j, f)

HasProducers ==
    \A n \in 0..HeadSeq : \A f \in Fragment : \E i \in 0..n : LastProducer(i, n, f)

SafeInv == TypeOK /\ LogInv /\ LeaseInv /\ ViewInv /\ HasProducers /\ StopIsExported

-----------------------------------------------------------------------------
(* The steps that touch the log. *)
LEMMA LogStep ==
    ASSUME NEW s \in Session, Act(s)
    PROVE  \/ log' = log
           \/ /\ pc[s] = "bumping" /\ HeadSeq = parent[s]
              /\ CommitEntry(s, "epoch_bump", grant[s], 0, 0)
           \/ /\ pc[s] = "prepared" /\ StepSwap(s)
           \/ /\ pc[s] = "final" /\ IsHeadOwner(s)
              /\ CommitEntry(s, "stop", token[s], 0, 0)
BY SMTT(60) DEF Act, Proceed, Start, Bootstrap, BootstrapExport,
       StandbySeesStop, Acquire, AcquireRefused, BumpPrepare, BumpCas, BumpLost,
       Activated, FirstExport, LeaveLoop, StepPrepare, StepCas, StepRetry,
       StepIoError, PostCas, Export, FinalSeen, FinalStop, FinalRefused,
       FinalIoError, FinalExport, PublishStop, Crash

(* The log keeps its prefixes. *)
LEMMA Grown ==
    ASSUME log \in Seq(Entry), NEW e, log' = Append(log, e)
    PROVE  /\ HeadSeq \in Nat /\ HeadSeq' = HeadSeq + 1
           /\ \A i \in 1..HeadSeq : log'[i] = log[i]
           /\ log'[HeadSeq + 1] = e
BY DEF HeadSeq

LEMMA PrefixKept ==
    ASSUME log \in Seq(Entry), log' = log \/ \E e : log' = Append(log, e)
    PROVE  /\ HeadSeq \in Nat /\ HeadSeq' \in Nat /\ HeadSeq <= HeadSeq'
           /\ \A i \in 1..HeadSeq : log'[i] = log[i]
           /\ \A n \in 0..HeadSeq :
                  /\ EpochAt(n)' = EpochAt(n) /\ OwnerAt(n)' = OwnerAt(n)
                  /\ CountAt(n)' = CountAt(n) /\ CursorAt(n)' = CursorAt(n)
                  /\ StoppedAt(n)' <=> StoppedAt(n)
<1>1. /\ HeadSeq \in Nat /\ HeadSeq' \in Nat /\ HeadSeq <= HeadSeq'
      /\ \A i \in 1..HeadSeq : log'[i] = log[i]
  <2>1. CASE log' = log
    <3>1. HeadSeq \in Nat
      BY DEF HeadSeq
    <3>2. HeadSeq' = HeadSeq
      BY <2>1 DEF HeadSeq
    <3>3. HeadSeq' \in Nat /\ HeadSeq <= HeadSeq'
      BY <3>1, <3>2
    <3>4. \A i \in 1..HeadSeq : log'[i] = log[i]
      BY <2>1
    <3> HIDE <2>1
    <3> QED
      BY <3>1, <3>3, <3>4
  <2>2. ASSUME NEW e, log' = Append(log, e)
        PROVE  /\ HeadSeq \in Nat /\ HeadSeq' \in Nat /\ HeadSeq <= HeadSeq'
               /\ \A i \in 1..HeadSeq : log'[i] = log[i]
    <3>1. /\ HeadSeq \in Nat /\ HeadSeq' = HeadSeq + 1
          /\ \A i \in 1..HeadSeq : log'[i] = log[i]
      BY <2>2, Grown
    <3> HIDE <2>2
    <3> QED
      BY <3>1
  <2> QED
    BY <2>1, <2>2
<1>2. ASSUME NEW n \in 0..HeadSeq
      PROVE  /\ EpochAt(n)' = EpochAt(n) /\ OwnerAt(n)' = OwnerAt(n)
             /\ CountAt(n)' = CountAt(n) /\ CursorAt(n)' = CursorAt(n)
             /\ StoppedAt(n)' <=> StoppedAt(n)
  <2>1. n = 0 \/ log'[n] = log[n]
    BY <1>1
  <2>2. EpochAt(n)' = EpochAt(n)
    BY <2>1 DEF EpochAt
  <2>3. OwnerAt(n)' = OwnerAt(n)
    BY <2>1 DEF OwnerAt
  <2>4. CountAt(n)' = CountAt(n)
    BY <2>1 DEF CountAt
  <2>5. StoppedAt(n)' <=> StoppedAt(n)
    BY <2>1 DEF StoppedAt
  <2>6. CursorAt(n)' = CursorAt(n)
    BY <2>4 DEF CursorAt
  <2> QED
    BY <2>2, <2>3, <2>4, <2>5, <2>6
<1> QED
  BY <1>1, <1>2

LEMMA LogGrows ==
    ASSUME TypeOK, NEW s \in Session, Act(s)
    PROVE  log' = log \/ \E e : log' = Append(log, e)
BY LogStep DEF CommitEntry, StepSwap

(* Numbers of a prefix. *)
LEMMA Numbers ==
    ASSUME log \in Seq(Entry)
    PROVE  /\ HeadSeq \in Nat
           /\ \A n \in 0..HeadSeq :
                  /\ EpochAt(n) \in Nat /\ CountAt(n) \in Nat
                  /\ OwnerAt(n) \in Session \cup {NoSession}
                  /\ n # 0 => EpochAt(n) \in 1..MaxLog /\ OwnerAt(n) \in Session
<1>1. HeadSeq \in Nat /\ \A i \in 1..HeadSeq : log[i] \in Entry
  BY DEF HeadSeq
<1>2. \A n \in 0..HeadSeq : n = 0 \/ n \in 1..HeadSeq
  BY <1>1
<1>3. \A i \in 1..HeadSeq :
          log[i].epoch \in 1..MaxLog /\ log[i].count \in Nat /\ log[i].owner \in Session
  BY <1>1 DEF Entry
<1> QED
  BY <1>1, <1>2, <1>3, SyncerAssumption
     DEF EpochAt, CountAt, OwnerAt, SyncerAssumption

LEMMA CursorFragment ==
    ASSUME log \in Seq(Entry), NEW n \in 0..HeadSeq
    PROVE  CursorAt(n) \in Fragment
<1>1. CountAt(n) \in Nat /\ Frags \in Nat \ {0}
  BY Numbers, SyncerAssumption DEF SyncerAssumption
<1>2. \A k \in Nat : \A m \in Nat \ {0} : k % m \in 0..(m - 1)
  OBVIOUS
<1> QED
  BY <1>1, <1>2 DEF CursorAt, Fragment

-----------------------------------------------------------------------------
(* What a step commits is justified by the head it lands on. *)
LEMMA Justified ==
    ASSUME SafeInv, NEW s \in Session, Act(s), log' # log
    PROVE  \E e \in Entry :
               /\ log' = Append(log, e) /\ HeadSeq < MaxLog
               /\ e.owner = s /\ ~StoppedAt(HeadSeq) /\ e.epoch <= HeadSeq + 1
               /\ e.count = CountAt(HeadSeq) + (IF e.kind = "optimizer" THEN 1 ELSE 0)
               /\ \/ /\ e.kind = "epoch_bump" /\ pc[s] = "bumping"
                     /\ e.epoch = lease.epoch /\ lease.owner = s
                     /\ e.epoch > EpochAt(HeadSeq)
                  \/ /\ e.kind = "optimizer" /\ pc[s] = "prepared"
                     /\ e.epoch = EpochAt(HeadSeq) /\ OwnerAt(HeadSeq) = s
                     /\ HeadSeq = parent[s]
                     /\ e.frag = CursorAt(view[s]) /\ e.from = tensors[s][CursorAt(view[s])]
                  \/ /\ e.kind = "stop" /\ pc[s] = "final"
                     /\ e.epoch = EpochAt(HeadSeq) /\ OwnerAt(HeadSeq) = s
<1>1. /\ log \in Seq(Entry) /\ HeadSeq \in Nat /\ CountAt(HeadSeq) \in Nat
      /\ EpochAt(HeadSeq) \in Nat /\ lease.epoch \in Nat /\ MaxLog \in Nat
  BY Numbers, SyncerAssumption DEF SafeInv, TypeOK, SyncerAssumption
<1>2. EpochAt(HeadSeq) <= HeadSeq
  BY <1>1 DEF EpochAt, SafeInv, LogInv
<1>3. 0 \in Fragment /\ 0 \in 0..MaxLog
  BY SyncerAssumption DEF SyncerAssumption, Fragment
<1>4. CASE pc[s] = "bumping" /\ HeadSeq = parent[s]
           /\ CommitEntry(s, "epoch_bump", grant[s], 0, 0)
  <2> DEFINE e == [kind |-> "epoch_bump", owner |-> s, epoch |-> grant[s],
                   count |-> CountAt(HeadSeq) + 0, frag |-> 0, from |-> 0]
  <2>1. log' = Append(log, e) /\ HeadSeq < MaxLog
    BY <1>4 DEF CommitEntry
  <2>2. /\ ~StoppedAt(HeadSeq) /\ grant[s] > EpochAt(HeadSeq)
        /\ lease.owner = s /\ lease.epoch = grant[s]
        /\ lease.epoch <= EpochAt(HeadSeq) + 1
    BY <1>4 DEF SafeInv, ViewInv, MayBump, LeaseInv, EpochIsLeased
  <2>3. grant[s] <= HeadSeq + 1 /\ grant[s] \in 1..MaxLog
    BY <1>1, <1>2, <2>1, <2>2
  <2>4. e \in Entry
    BY <1>1, <1>3, <2>3 DEF Entry
  <2> QED
    BY <1>1, <1>4, <2>1, <2>2, <2>3, <2>4
<1>5. CASE pc[s] = "prepared" /\ StepSwap(s)
  <2> DEFINE f == CursorAt(view[s])
             e == [kind |-> "optimizer", owner |-> s, epoch |-> token[s],
                   count |-> CountAt(HeadSeq) + 1, frag |-> f, from |-> tensors[s][f]]
  <2>1. log' = Append(log, e) /\ HeadSeq < MaxLog /\ HeadSeq = parent[s]
    BY <1>5 DEF StepSwap, CommitEntry
  <2>2. ~StoppedAt(HeadSeq) /\ OwnerAt(HeadSeq) = s /\ EpochAt(HeadSeq) = token[s]
    BY <1>5, <2>1 DEF SafeInv, ViewInv, MaySwap
  <2>3. HeadSeq # 0
    BY <2>2, SyncerAssumption DEF OwnerAt, SyncerAssumption
  <2>4. token[s] \in 1..MaxLog /\ token[s] <= HeadSeq + 1
    BY <1>1, <1>2, <2>2, <2>3, Numbers
  <2>5. f \in Fragment
    BY <1>1, CursorFragment DEF SafeInv, ViewInv, TypeOK
  <2>6. tensors[s][f] \in 0..MaxLog
    BY <2>5 DEF SafeInv, TypeOK
  <2>7. e \in Entry
    BY <1>1, <2>4, <2>5, <2>6 DEF Entry
  <2> QED
    BY <1>1, <1>5, <2>1, <2>2, <2>4, <2>7
<1>6. CASE pc[s] = "final" /\ IsHeadOwner(s) /\ CommitEntry(s, "stop", token[s], 0, 0)
  <2> DEFINE e == [kind |-> "stop", owner |-> s, epoch |-> token[s],
                   count |-> CountAt(HeadSeq) + 0, frag |-> 0, from |-> 0]
  <2>1. log' = Append(log, e) /\ HeadSeq < MaxLog
    BY <1>6 DEF CommitEntry
  <2>2. ~StoppedAt(HeadSeq) /\ OwnerAt(HeadSeq) = s /\ EpochAt(HeadSeq) = token[s]
    BY <1>6 DEF IsHeadOwner
  <2>3. HeadSeq # 0
    BY <2>2, SyncerAssumption DEF OwnerAt, SyncerAssumption
  <2>4. token[s] \in 1..MaxLog /\ token[s] <= HeadSeq + 1
    BY <1>1, <1>2, <2>2, <2>3, Numbers
  <2>5. e \in Entry
    BY <1>1, <1>3, <2>4 DEF Entry
  <2> QED
    BY <1>1, <1>6, <2>1, <2>2, <2>4, <2>5
<1> QED
  BY <1>4, <1>5, <1>6, LogStep

-----------------------------------------------------------------------------
(* What the parameters of a prefix are, and how a commit changes them.      *)

LEMMA ParamsLast ==
    ASSUME HasProducers, NEW n \in 0..HeadSeq, NEW f \in Fragment
    PROVE  LastProducer(ParamsAt(n)[f], n, f)
<1>1. PICK k \in 0..n : Produces(k, f) /\ \A j \in (k + 1)..n : ~Produces(j, f)
  BY DEF HasProducers, LastProducer
<1>2. ParamsAt(n)[f] =
          CHOOSE i \in 0..n : Produces(i, f) /\ \A j \in (i+1)..n : ~Produces(j, f)
  BY DEF ParamsAt
<1> QED
  BY <1>1, <1>2 DEF LastProducer

(* The same of the next state. *)
LEMMA NextLast ==
    ASSUME HasProducers', NEW n \in 0..HeadSeq', HeadSeq' \in Nat, NEW f \in Fragment
    PROVE  /\ LastProducer(ParamsAt(n)[f], n, f)'
           /\ \A i : LastProducer(i, n, f)' => i = ParamsAt(n)'[f]
<1>1. PICK k \in 0..n : Produces(k, f)' /\ \A j \in (k + 1)..n : ~Produces(j, f)'
  BY DEF HasProducers, LastProducer
<1>2. ParamsAt(n)'[f] =
          CHOOSE i \in 0..n : Produces(i, f)' /\ \A j \in (i+1)..n : ~Produces(j, f)'
  BY DEF ParamsAt
<1>3. LastProducer(ParamsAt(n)[f], n, f)'
  BY <1>1, <1>2 DEF LastProducer
<1>4. ASSUME NEW i, NEW j, LastProducer(i, n, f)', LastProducer(j, n, f)'
      PROVE  i = j
  <2>1. /\ i \in 0..n /\ Produces(i, f)' /\ \A x \in (i + 1)..n : ~Produces(x, f)'
        /\ j \in 0..n /\ Produces(j, f)' /\ \A x \in (j + 1)..n : ~Produces(x, f)'
    BY <1>4 DEF LastProducer
  <2>2. (i < j => j \in (i + 1)..n) /\ (j < i => i \in (j + 1)..n)
    BY <2>1
  <2>3. i < j \/ j < i \/ i = j
    BY <2>1
  <2> QED
    BY <2>1, <2>2, <2>3
<1> QED
  BY <1>3, <1>4

LEMMA ParamsTyped ==
    ASSUME HasProducers, NEW n \in 0..HeadSeq, HeadSeq \in Nat
    PROVE  ParamsAt(n) \in [Fragment -> 0..n]
<1>1. \A f \in Fragment : ParamsAt(n)[f] \in 0..n
  BY ParamsLast DEF LastProducer
<1>2. ParamsAt(n) = [f \in Fragment |-> ParamsAt(n)[f]]
  BY DEF ParamsAt
<1> QED
  BY <1>1, <1>2

LEMMA LastKept ==
    ASSUME log \in Seq(Entry), NEW e, log' = Append(log, e), NEW n \in 0..HeadSeq,
           NEW f \in Fragment, NEW i
    PROVE  LastProducer(i, n, f)' <=> LastProducer(i, n, f)
<1>1. HeadSeq \in Nat /\ \A k \in 1..HeadSeq : log'[k] = log[k]
  BY Grown
<1>2. \A k \in 0..HeadSeq : Produces(k, f)' <=> Produces(k, f)
  <2>1. \A k \in 0..HeadSeq : k = 0 \/ k \in 1..HeadSeq
    BY <1>1
  <2> QED
    BY <1>1, <2>1 DEF Produces
<1>3. i \in 0..n => i \in 0..HeadSeq /\ \A j \in (i + 1)..n : j \in 0..HeadSeq
  BY <1>1
<1> QED
  BY <1>2, <1>3 DEF LastProducer

LEMMA LastNew ==
    ASSUME log \in Seq(Entry), NEW e, log' = Append(log, e), NEW h \in Nat, h = HeadSeq,
           NEW f \in Fragment
    PROVE  /\ e.kind = "optimizer" /\ e.frag = f => LastProducer(h + 1, h + 1, f)'
           /\ ~(e.kind = "optimizer" /\ e.frag = f) =>
                  \A i : LastProducer(i, h, f) => LastProducer(i, h + 1, f)'
<1>1. log'[h + 1] = e /\ HeadSeq' = h + 1
  BY Grown
<1>2. Produces(h + 1, f)' <=> (e.kind = "optimizer" /\ e.frag = f)
  BY <1>1 DEF Produces
<1>3. e.kind = "optimizer" /\ e.frag = f => LastProducer(h + 1, h + 1, f)'
  <2>1. (h + 1 + 1)..(h + 1) = {}
    OBVIOUS
  <2> QED
    BY <1>2, <2>1 DEF LastProducer
<1>4. ASSUME ~(e.kind = "optimizer" /\ e.frag = f), NEW i, LastProducer(i, h, f)
      PROVE  LastProducer(i, h + 1, f)'
  <2>1. LastProducer(i, h, f)'
    BY <1>4, LastKept
  <2>2. i \in 0..(h + 1) /\ \A j \in (i + 1)..(h + 1) : j \in (i + 1)..h \/ j = h + 1
    BY <2>1 DEF LastProducer
  <2> QED
    BY <1>2, <1>4, <2>1, <2>2 DEF LastProducer
<1> QED
  BY <1>3, <1>4

LEMMA ProducersKept ==
    ASSUME log \in Seq(Entry), HasProducers, NEW e, log' = Append(log, e)
    PROVE  HasProducers'
<1>1. PICK h \in Nat : h = HeadSeq
  BY Grown
<1>2. HeadSeq' = h + 1
  BY <1>1, Grown
<1>3. ASSUME NEW n \in 0..h, NEW f \in Fragment
      PROVE  \E i \in 0..n : LastProducer(i, n, f)'
  BY <1>1, LastKept DEF HasProducers
<1>4. ASSUME NEW f \in Fragment
      PROVE  \E i \in 0..(h + 1) : LastProducer(i, h + 1, f)'
  <2>1. PICK i \in 0..h : LastProducer(i, h, f)
    BY <1>1 DEF HasProducers
  <2>2. LastProducer(h + 1, h + 1, f)' \/ LastProducer(i, h + 1, f)'
    BY <1>1, <2>1, LastNew
  <2> QED
    BY <2>2
<1>5. \A n \in 0..(h + 1) : n \in 0..h \/ n = h + 1
  BY <1>1
<1> QED
  BY <1>2, <1>3, <1>4, <1>5 DEF HasProducers

(* Earlier parameters stay, and a commit changes those of its fragment.     *)
LEMMA ParamsKept ==
    ASSUME log \in Seq(Entry), HasProducers, NEW e, log' = Append(log, e),
           NEW n \in 0..HeadSeq
    PROVE  ParamsAt(n)' = ParamsAt(n)
<1>1. HeadSeq \in Nat /\ HeadSeq' \in Nat /\ n \in 0..HeadSeq' /\ HasProducers'
  BY Grown, ProducersKept
<1>2. \A f \in Fragment : ParamsAt(n)'[f] = ParamsAt(n)[f]
  <2> SUFFICES ASSUME NEW f \in Fragment
               PROVE  ParamsAt(n)'[f] = ParamsAt(n)[f]
    OBVIOUS
  <2>1. LastProducer(ParamsAt(n)[f], n, f)
    BY ParamsLast
  <2> DEFINE i == ParamsAt(n)[f]
  <2>3. LastProducer(i, n, f)
    BY <2>1
  <2> HIDE DEF i
  <2>4. i = ParamsAt(n)'[f]
    BY <1>1, <2>3, LastKept, NextLast
  <2> QED
    BY <2>4 DEF i
<1> QED
  BY <1>2 DEF ParamsAt

LEMMA ParamsNew ==
    ASSUME log \in Seq(Entry), HasProducers, NEW e, log' = Append(log, e), NEW h \in Nat,
           h = HeadSeq
    PROVE  ParamsAt(h + 1)' =
               [f \in Fragment |-> IF e.kind = "optimizer" /\ e.frag = f
                                   THEN h + 1 ELSE ParamsAt(h)[f]]
<1>1. HasProducers' /\ h + 1 \in 0..HeadSeq' /\ HeadSeq' \in Nat
  BY Grown, ProducersKept
<1>2. ASSUME NEW f \in Fragment
      PROVE  ParamsAt(h + 1)'[f] = IF e.kind = "optimizer" /\ e.frag = f
                                   THEN h + 1 ELSE ParamsAt(h)[f]
  <2>1. PICK i \in 0..h : i = ParamsAt(h)[f] /\ LastProducer(i, h, f)
    BY ParamsLast DEF LastProducer
  <2>2. \A k : LastProducer(k, h + 1, f)' => k = ParamsAt(h + 1)'[f]
    BY <1>1, NextLast
  <2>3. CASE e.kind = "optimizer" /\ e.frag = f
    <3>1. LastProducer(h + 1, h + 1, f)'
      BY <2>3, LastNew
    <3>2. h + 1 = ParamsAt(h + 1)'[f]
      BY <2>2, <3>1
    <3> QED
      BY <2>3, <3>2
  <2>4. CASE ~(e.kind = "optimizer" /\ e.frag = f)
    <3>1. LastProducer(i, h + 1, f)'
      BY <2>1, <2>4, LastNew
    <3>2. i = ParamsAt(h + 1)'[f]
      BY <2>2, <3>1
    <3> QED
      BY <2>1, <2>4, <3>2
  <2> QED
    BY <2>3, <2>4
<1> QED
  BY <1>2 DEF ParamsAt

-----------------------------------------------------------------------------
(* What moves a session into the phases the invariant speaks of, and what   *)
(* changes the lease and the exported stop.                                 *)
LEMMA PhaseStep ==
    ASSUME TypeOK, NEW s \in Session, Act(s)
    PROVE  /\ \E p \in Phase : Goto(s, p)
           /\ pc'[s] \in Phase /\ \A t \in Session \ {s} : pc'[t] = pc[t]
BY SMTT(60) DEF TypeOK, Phase, Goto, Act, Proceed, Start, Bootstrap,
       BootstrapExport, StandbySeesStop, Acquire, AcquireRefused, BumpPrepare,
       BumpCas, BumpLost, Activated, FirstExport, LeaveLoop, StepPrepare,
       StepCas, StepRetry, StepIoError, PostCas, Export, FinalSeen, FinalStop,
       FinalRefused, FinalIoError, FinalExport, PublishStop, Crash

LEMMA EntryStep ==
    ASSUME TypeOK, NEW s \in Session, Act(s)
    PROVE  /\ pc'[s] = "off" => FALSE
           /\ pc'[s] = "opened" => Start(s)
           /\ pc'[s] = "leased" => Acquire(s)
           /\ pc'[s] = "bumping" => BumpPrepare(s)
           /\ pc'[s] = "prepared" => StepPrepare(s)
           /\ pc'[s] = "stopExport" => FinalExport(s)
           /\ pc'[s] = "exited" => FinalExport(s) \/ PublishStop(s)
BY SMTT(60) DEF TypeOK, Phase, Goto, Act, Proceed, Start, Bootstrap,
       BootstrapExport, StandbySeesStop, Acquire, AcquireRefused, BumpPrepare,
       BumpCas, BumpLost, Activated, FirstExport, LeaveLoop, StepPrepare,
       StepCas, StepRetry, StepIoError, PostCas, Export, FinalSeen, FinalStop,
       FinalRefused, FinalIoError, FinalExport, PublishStop, Crash

LEMMA SharedStep ==
    ASSUME TypeOK, NEW s \in Session, Act(s)
    PROVE  /\ UNCHANGED lease \/ Acquire(s)
           /\ UNCHANGED stopFile \/ PublishStop(s)
           /\ UNCHANGED latest \/ PublishLatest(s)
BY SMTT(60) DEF exports, Act, Proceed, Start, Bootstrap, BootstrapExport,
       StandbySeesStop, Acquire, AcquireRefused, BumpPrepare, BumpCas, BumpLost,
       Activated, FirstExport, LeaveLoop, StepPrepare, StepCas, StepRetry,
       StepIoError, PostCas, Export, FinalSeen, FinalStop, FinalRefused,
       FinalIoError, FinalExport, PublishStop, Crash

LEMMA OwnStep ==
    ASSUME TypeOK, NEW s \in Session, Act(s)
    PROVE  /\ UNCHANGED view \/ Rebuild(s) \/ FinalStop(s)
           /\ \/ UNCHANGED tensors \/ Reload(s) \/ PostCas(s)
              \/ tensors' = [tensors EXCEPT ![s] = [f \in Fragment |-> 0]]
           /\ UNCHANGED grant \/ grant' = [grant EXCEPT ![s] = EpochAt(HeadSeq) + 1]
           /\ \/ UNCHANGED token
              \/ token' = [token EXCEPT ![s] = grant[s]]
              \/ token' = [token EXCEPT ![s] = 0]
           /\ UNCHANGED parent \/ parent' = [parent EXCEPT ![s] = HeadSeq]
BY SMTT(60) DEF owned, CommitEntry, Act, Proceed, Start, Bootstrap,
       BootstrapExport, StandbySeesStop, Acquire, AcquireRefused, BumpPrepare,
       BumpCas, BumpLost, Activated, FirstExport, LeaveLoop, StepPrepare,
       StepCas, StepRetry, StepIoError, PostCas, Export, FinalSeen, FinalStop,
       FinalRefused, FinalIoError, FinalExport, PublishStop, Crash

-----------------------------------------------------------------------------
(* Each part of the invariant through a step of a session.                  *)
LEMMA Types ==
    ASSUME SafeInv
    PROVE  /\ TypeOK /\ LogInv
           /\ log \in Seq(Entry) /\ HeadSeq \in 0..MaxLog
           /\ HeadSeq \in Nat /\ MaxLog \in Nat /\ EpochAt(HeadSeq) \in Nat
           /\ lease \in [owner : Session \cup {NoSession}, epoch : Nat, live : BOOLEAN]
           /\ latest \in [version : 0..MaxLog, params : [Fragment -> 0..MaxLog]]
           /\ stopFile \in 0..MaxLog
           /\ pc \in [Session -> Phase]
           /\ view \in [Session -> 0..MaxLog]
           /\ tensors \in [Session -> [Fragment -> 0..MaxLog]]
           /\ grant \in [Session -> Nat] /\ token \in [Session -> Nat]
           /\ parent \in [Session -> 0..MaxLog]
<1>1. TypeOK /\ LogInv /\ MaxLog \in Nat
  BY SyncerAssumption DEF SafeInv, SyncerAssumption
<1>2. log \in Seq(Entry)
  BY <1>1 DEF TypeOK
<1>3. HeadSeq \in Nat /\ HeadSeq <= MaxLog
  BY <1>1, <1>2, Numbers DEF LogInv
<1>4. HeadSeq \in 0..HeadSeq
  BY <1>3
<1>5. EpochAt(HeadSeq) \in Nat
  BY <1>2, <1>4, Numbers
<1> QED
  BY <1>1, <1>2, <1>3, <1>5 DEF TypeOK

(* A step of one session leaves the others' variables alone. *)
LEMMA Bystander ==
    ASSUME SafeInv, NEW s \in Session, Act(s), NEW t \in Session \ {s}
    PROVE  /\ view'[t] = view[t] /\ parent'[t] = parent[t] /\ grant'[t] = grant[t]
           /\ token'[t] = token[t] /\ pc'[t] = pc[t] /\ tensors'[t] = tensors[t]
<1>1. /\ view \in [Session -> 0..MaxLog] /\ parent \in [Session -> 0..MaxLog]
      /\ grant \in [Session -> Nat] /\ token \in [Session -> Nat]
      /\ tensors \in [Session -> [Fragment -> 0..MaxLog]]
  BY Types
<1>2. view'[t] = view[t]
  <2>1. UNCHANGED view \/ \E x : view' = [view EXCEPT ![s] = x]
    BY Types, OwnStep DEF Rebuild, FinalStop
  <2> QED
    BY <1>1, <2>1
<1>3. tensors'[t] = tensors[t]
  <2>1. UNCHANGED tensors \/ \E x : tensors' = [tensors EXCEPT ![s] = x]
    BY Types, OwnStep DEF Reload, PostCas
  <2> QED
    BY <1>1, <2>1
<1>4. parent'[t] = parent[t]
  <2>1. UNCHANGED parent \/ parent' = [parent EXCEPT ![s] = HeadSeq]
    BY Types, OwnStep
  <2> QED
    BY <1>1, <2>1
<1>5. grant'[t] = grant[t]
  <2>1. UNCHANGED grant \/ grant' = [grant EXCEPT ![s] = EpochAt(HeadSeq) + 1]
    BY Types, OwnStep
  <2> QED
    BY <1>1, <2>1
<1>6. token'[t] = token[t]
  <2>1. \/ UNCHANGED token
        \/ token' = [token EXCEPT ![s] = grant[s]]
        \/ token' = [token EXCEPT ![s] = 0]
    BY Types, OwnStep
  <2> QED
    BY <1>1, <2>1
<1>7. pc'[t] = pc[t]
  BY Types, PhaseStep
<1> QED
  BY <1>2, <1>3, <1>4, <1>5, <1>6, <1>7

LEMMA TypeStep ==
    ASSUME SafeInv, NEW s \in Session, Act(s)
    PROVE  TypeOK'
<1>1. log' \in Seq(Entry)
  <2>0. log \in Seq(Entry)
    BY Types
  <2>1. log' = log \/ \E e \in Entry : log' = Append(log, e)
    BY Types, Justified
  <2> QED
    BY <2>0, <2>1
<1>2. lease' \in [owner : Session \cup {NoSession}, epoch : Nat, live : BOOLEAN]
  <2>0. /\ lease \in [owner : Session \cup {NoSession}, epoch : Nat, live : BOOLEAN]
        /\ EpochAt(HeadSeq) \in Nat
    BY Types
  <2>1. UNCHANGED lease \/ lease' = [owner |-> s, epoch |-> EpochAt(HeadSeq) + 1, live |-> TRUE]
    BY Types, SharedStep DEF Acquire
  <2>2. s \in Session \cup {NoSession} /\ EpochAt(HeadSeq) + 1 \in Nat /\ TRUE \in BOOLEAN
    BY <2>0
  <2>3. [owner |-> s, epoch |-> EpochAt(HeadSeq) + 1, live |-> TRUE] \in
            [owner : Session \cup {NoSession}, epoch : Nat, live : BOOLEAN]
    BY <2>2
  <2> QED
    BY <2>0, <2>1, <2>3
<1>3. latest' \in [version : 0..MaxLog, params : [Fragment -> 0..MaxLog]]
  <2>0. /\ latest \in [version : 0..MaxLog, params : [Fragment -> 0..MaxLog]]
        /\ view \in [Session -> 0..MaxLog] /\ tensors \in [Session -> [Fragment -> 0..MaxLog]]
    BY Types
  <2>1. UNCHANGED latest \/ latest' = [version |-> view[s], params |-> tensors[s]]
    BY Types, SharedStep DEF PublishLatest
  <2> QED
    BY <2>0, <2>1
<1>4. stopFile' \in 0..MaxLog
  <2>0. stopFile \in 0..MaxLog /\ view \in [Session -> 0..MaxLog]
    BY Types
  <2>1. stopFile' = stopFile \/ stopFile' = view[s]
    BY Types, SharedStep DEF PublishStop
  <2> QED
    BY <2>0, <2>1
<1>5. pc' \in [Session -> Phase]
  <2>0. pc \in [Session -> Phase]
    BY Types
  <2>1. PICK p \in Phase : pc' = [pc EXCEPT ![s] = p]
    BY Types, PhaseStep DEF Goto
  <2> QED
    BY <2>0, <2>1
<1>6. view' \in [Session -> 0..MaxLog]
  <2>0. view \in [Session -> 0..MaxLog] /\ HeadSeq \in 0..MaxLog /\ MaxLog \in Nat
    BY Types
  <2>1. \/ UNCHANGED view
        \/ view' = [view EXCEPT ![s] = HeadSeq]
        \/ HeadSeq < MaxLog /\ view' = [view EXCEPT ![s] = HeadSeq + 1]
    BY Types, OwnStep DEF Rebuild, FinalStop, CommitEntry
  <2> QED
    BY <2>0, <2>1
<1>7. tensors' \in [Session -> [Fragment -> 0..MaxLog]]
  <2>0. tensors \in [Session -> [Fragment -> 0..MaxLog]] /\ HeadSeq \in 0..MaxLog
    BY Types
  <2>1. CASE UNCHANGED tensors
    BY <2>0, <2>1
  <2>2. CASE Reload(s)
    <3>1. ParamsAt(HeadSeq) \in [Fragment -> 0..HeadSeq]
      BY <2>0, Types, ParamsTyped DEF SafeInv
    <3>2. PICK h \in 0..MaxLog : h = HeadSeq
      BY <2>0
    <3>3. 0..h \subseteq 0..MaxLog
      BY <3>2, SyncerAssumption DEF SyncerAssumption
    <3>4. ParamsAt(HeadSeq) \in [Fragment -> 0..MaxLog]
      BY <3>1, <3>2, <3>3
    <3> QED
      BY <2>0, <2>2, <3>4 DEF Reload
  <2>3. CASE PostCas(s)
    <3>1. \/ UNCHANGED tensors
          \/ tensors' = [tensors EXCEPT ![s][CursorAt(view[s])] = HeadSeq]
      BY <2>3 DEF PostCas
    <3> QED
      BY <2>0, <3>1
  <2>4. CASE tensors' = [tensors EXCEPT ![s] = [f \in Fragment |-> 0]]
    <3>1. [f \in Fragment |-> 0] \in [Fragment -> 0..MaxLog]
      BY Types
    <3> QED
      BY <2>0, <2>4, <3>1
  <2> QED
    BY <2>1, <2>2, <2>3, <2>4, Types, OwnStep
<1>8. grant' \in [Session -> Nat]
  <2>0. grant \in [Session -> Nat] /\ EpochAt(HeadSeq) \in Nat
    BY Types
  <2>1. UNCHANGED grant \/ grant' = [grant EXCEPT ![s] = EpochAt(HeadSeq) + 1]
    BY Types, OwnStep
  <2> QED
    BY <2>0, <2>1
<1>9. token' \in [Session -> Nat]
  <2>0. token \in [Session -> Nat] /\ grant \in [Session -> Nat]
    BY Types
  <2>1. \/ UNCHANGED token
        \/ token' = [token EXCEPT ![s] = grant[s]]
        \/ token' = [token EXCEPT ![s] = 0]
    BY Types, OwnStep
  <2> QED
    BY <2>0, <2>1
<1>10. parent' \in [Session -> 0..MaxLog]
  <2>0. parent \in [Session -> 0..MaxLog] /\ HeadSeq \in 0..MaxLog
    BY Types
  <2>1. UNCHANGED parent \/ parent' = [parent EXCEPT ![s] = HeadSeq]
    BY Types, OwnStep
  <2> QED
    BY <2>0, <2>1
<1> QED
  BY <1>1, <1>2, <1>3, <1>4, <1>5, <1>6, <1>7, <1>8, <1>9, <1>10 DEF TypeOK

LEMMA Prefixes ==
    ASSUME SafeInv, NEW s \in Session, Act(s)
    PROVE  /\ HeadSeq \in Nat /\ HeadSeq' \in Nat /\ HeadSeq <= HeadSeq'
           /\ \A i \in 1..HeadSeq : log'[i] = log[i]
           /\ \A n \in 0..HeadSeq :
                  /\ EpochAt(n)' = EpochAt(n) /\ OwnerAt(n)' = OwnerAt(n)
                  /\ CountAt(n)' = CountAt(n) /\ CursorAt(n)' = CursorAt(n)
                  /\ StoppedAt(n)' <=> StoppedAt(n)
BY LogGrows, PrefixKept DEF SafeInv, TypeOK

LEMMA LogInvStep ==
    ASSUME SafeInv, NEW s \in Session, Act(s)
    PROVE  LogInv'
<1>1. /\ TypeOK /\ LogInv /\ HeadSeq \in Nat /\ log \in Seq(Entry)
      /\ \A i \in 1..HeadSeq : log[i].owner \in Session
  <2>1. TypeOK /\ LogInv /\ HeadSeq \in Nat /\ log \in Seq(Entry)
    BY Types
  <2>2. \A i \in 1..HeadSeq : log[i] \in Entry
    BY <2>1 DEF HeadSeq
  <2> QED
    BY <2>1, <2>2 DEF Entry
<1>2. ASSUME NEW t \in Session, pc[t] \notin Before
      PROVE  pc'[t] \notin Before
  BY <1>1, <1>2, PhaseStep, EntryStep DEF Before, Start, MayStart, Acquire, BumpPrepare
<1>3. CASE log' = log
  <2>1. HeadSeq' = HeadSeq
    BY <1>3 DEF HeadSeq
  <2>2. HeadSeq' <= MaxLog
    BY <1>1, <2>1 DEF LogInv
  <2>3. ASSUME NEW i \in 1..HeadSeq'
        PROVE  /\ log'[i].epoch <= i
               /\ log'[i].kind = "stop" => i = HeadSeq'
               /\ pc'[log'[i].owner] \notin Before
    <3>1. i \in 1..HeadSeq /\ log'[i] = log[i]
      BY <1>3, <2>1
    <3>2. /\ log[i].epoch <= i /\ (log[i].kind = "stop" => i = HeadSeq)
          /\ pc[log[i].owner] \notin Before
      BY <1>1, <3>1 DEF LogInv
    <3>3. pc'[log[i].owner] \notin Before
      BY <1>1, <1>2, <3>1, <3>2
    <3> QED
      BY <2>1, <3>1, <3>2, <3>3
  <2> QED
    BY <2>2, <2>3 DEF LogInv
<1>4. CASE log' # log
  <2>1. PICK e \in Entry :
            /\ log' = Append(log, e) /\ HeadSeq < MaxLog
            /\ e.owner = s /\ ~StoppedAt(HeadSeq) /\ e.epoch <= HeadSeq + 1
    BY <1>4, Justified
  <2>2. /\ HeadSeq' = HeadSeq + 1 /\ log'[HeadSeq + 1] = e
        /\ \A i \in 1..HeadSeq : log'[i] = log[i]
    BY <1>1, <2>1, Grown
  <2>3. HeadSeq' <= MaxLog
    BY <1>1, <2>1, <2>2, SyncerAssumption DEF SyncerAssumption
  <2>4. pc'[s] \notin Before
    BY <1>1, <1>4, EntryStep DEF Before, Start, Acquire, BumpPrepare
  <2>5. ASSUME NEW i \in 1..HeadSeq
        PROVE  /\ log'[i].epoch <= i /\ log'[i].kind # "stop"
               /\ pc'[log'[i].owner] \notin Before
    <3>1. /\ log[i].epoch <= i /\ (log[i].kind = "stop" => i = HeadSeq)
          /\ pc[log[i].owner] \notin Before /\ log[i].owner \in Session
      BY <1>1 DEF LogInv
    <3>2. log[i].kind # "stop"
      BY <1>1, <2>1, <3>1 DEF StoppedAt
    <3>3. pc'[log[i].owner] \notin Before
      BY <1>2, <3>1
    <3> QED
      BY <2>2, <3>1, <3>2, <3>3
  <2>6. \A i \in 1..HeadSeq' : i \in 1..HeadSeq \/ i = HeadSeq + 1
    BY <1>1, <2>2
  <2>7. ASSUME NEW i \in 1..HeadSeq'
        PROVE  /\ log'[i].epoch <= i
               /\ log'[i].kind = "stop" => i = HeadSeq'
               /\ pc'[log'[i].owner] \notin Before
    BY <2>1, <2>2, <2>4, <2>5, <2>6
  <2> QED
    BY <2>3, <2>7 DEF LogInv
<1> QED
  BY <1>3, <1>4

(* A commit of a session leaves its head an epoch the stored lease covers.  *)
LEMMA HeadStep ==
    ASSUME SafeInv, NEW s \in Session, Act(s), log' # log
    PROVE  /\ HeadSeq' = HeadSeq + 1 /\ OwnerAt(HeadSeq)' = s
           /\ ~StoppedAt(HeadSeq)
           /\ EpochAt(HeadSeq)' >= EpochAt(HeadSeq)
           /\ \/ /\ EpochAt(HeadSeq)' = lease.epoch /\ lease.owner = s
                 /\ pc[s] = "bumping"
              \/ EpochAt(HeadSeq)' = EpochAt(HeadSeq) /\ OwnerAt(HeadSeq) = s
<1>1. log \in Seq(Entry) /\ HeadSeq \in Nat /\ EpochAt(HeadSeq) \in Nat
  BY Types
<1>2. PICK e \in Entry :
          /\ log' = Append(log, e) /\ e.owner = s /\ ~StoppedAt(HeadSeq)
          /\ \/ /\ e.epoch = lease.epoch /\ lease.owner = s
                /\ e.epoch > EpochAt(HeadSeq) /\ pc[s] = "bumping"
             \/ e.epoch = EpochAt(HeadSeq) /\ OwnerAt(HeadSeq) = s
  BY Justified
<1>3. HeadSeq' = HeadSeq + 1 /\ log'[HeadSeq + 1] = e /\ HeadSeq + 1 # 0
  <2>1. HeadSeq' = HeadSeq + 1 /\ log'[HeadSeq + 1] = e
    BY <1>1, <1>2, Grown
  <2>2. HeadSeq + 1 # 0
    BY <1>1
  <2> QED
    BY <2>1, <2>2
<1>4. OwnerAt(HeadSeq)' = e.owner /\ EpochAt(HeadSeq)' = e.epoch
  BY <1>3 DEF OwnerAt, EpochAt
<1>5. e.epoch \in Nat
  BY <1>1, <1>2, SyncerAssumption DEF Entry, SyncerAssumption
<1> QED
  BY <1>1, <1>2, <1>3, <1>4, <1>5

LEMMA SameHead ==
    ASSUME log' = log
    PROVE  /\ HeadSeq' = HeadSeq
           /\ EpochAt(HeadSeq)' = EpochAt(HeadSeq) /\ OwnerAt(HeadSeq)' = OwnerAt(HeadSeq)
           /\ (StoppedAt(HeadSeq)' <=> StoppedAt(HeadSeq))
BY DEF HeadSeq, EpochAt, OwnerAt, StoppedAt

LEMMA LeaseStep ==
    ASSUME SafeInv, NEW s \in Session, Act(s)
    PROVE  LeaseInv'
<1>1. /\ HeadSeq \in Nat /\ EpochAt(HeadSeq) \in Nat
      /\ lease.epoch \in Nat /\ grant \in [Session -> Nat]
  BY Types
<1>2. /\ EpochAt(HeadSeq) <= lease.epoch /\ lease.epoch <= EpochAt(HeadSeq) + 1
      /\ EpochAt(HeadSeq) = lease.epoch => OwnerAt(HeadSeq) = lease.owner
      /\ \A t \in Session :
             pc[t] \in {"leased", "bumping"} /\ grant[t] > EpochAt(HeadSeq) =>
                 lease.owner = t /\ lease.epoch = grant[t]
  BY DEF SafeInv, LeaseInv, EpochIsLeased
<1>3. CASE Acquire(s)
  <2>1. /\ log' = log /\ EpochAt(HeadSeq) >= lease.epoch
        /\ lease'.owner = s /\ lease'.epoch = EpochAt(HeadSeq) + 1
        /\ grant' = [grant EXCEPT ![s] = EpochAt(HeadSeq) + 1]
        /\ pc' = [pc EXCEPT ![s] = "leased"]
    BY <1>3 DEF Acquire, Goto
  <2>2. EpochAt(HeadSeq)' = EpochAt(HeadSeq) /\ OwnerAt(HeadSeq)' = OwnerAt(HeadSeq)
    BY <2>1, SameHead
  <2>3. EpochIsLeased'
    BY <1>1, <2>1, <2>2 DEF EpochIsLeased
  <2>4. ASSUME NEW t \in Session, pc'[t] \in {"leased", "bumping"},
               grant'[t] > EpochAt(HeadSeq)'
        PROVE  lease'.owner = t /\ lease'.epoch = grant'[t]
    <3>1. CASE t = s
      BY <1>1, <2>1, <3>1
    <3>2. CASE t # s
      <4>1. pc[t] \in {"leased", "bumping"} /\ grant[t] > EpochAt(HeadSeq)
        BY <2>1, <2>2, <2>4, <3>2, Types
      <4>2. lease.epoch = grant[t]
        BY <1>2, <4>1
      <4> QED
        BY <1>1, <2>1, <4>1, <4>2
    <3> QED
      BY <3>1, <3>2
  <2> QED
    BY <2>3, <2>4 DEF LeaseInv
<1>4. CASE ~Acquire(s)
  <2>1. lease' = lease
    BY <1>4, Types, SharedStep
  <2>2. /\ EpochAt(HeadSeq)' \in Nat /\ EpochAt(HeadSeq)' >= EpochAt(HeadSeq)
        /\ EpochAt(HeadSeq)' <= lease.epoch /\ lease.epoch <= EpochAt(HeadSeq)' + 1
        /\ EpochAt(HeadSeq)' = lease.epoch => OwnerAt(HeadSeq)' = lease.owner
    <3>1. CASE log' = log
      BY <1>1, <1>2, <3>1, SameHead
    <3>2. CASE log' # log
      BY <1>1, <1>2, <3>2, HeadStep
    <3> QED
      BY <3>1, <3>2
  <2>3. ASSUME NEW t \in Session, pc'[t] \in {"leased", "bumping"}
        PROVE  pc[t] \in {"leased", "bumping"} /\ grant'[t] = grant[t]
    <3>1. CASE t # s
      BY <2>3, <3>1, Bystander
    <3>2. CASE t = s
      <4>1. BumpPrepare(s)
        BY <1>4, <2>3, <3>2, Types, EntryStep
      <4> QED
        BY <3>2, <4>1 DEF BumpPrepare, owned
    <3> QED
      BY <3>1, <3>2
  <2>4. ASSUME NEW t \in Session, pc'[t] \in {"leased", "bumping"},
               grant'[t] > EpochAt(HeadSeq)'
        PROVE  lease'.owner = t /\ lease'.epoch = grant'[t]
    <3>1. pc[t] \in {"leased", "bumping"} /\ grant[t] > EpochAt(HeadSeq)
      BY <1>1, <2>2, <2>3, <2>4
    <3> QED
      BY <1>2, <2>1, <2>3, <2>4, <3>1
  <2> QED
    BY <2>1, <2>2, <2>4 DEF LeaseInv, EpochIsLeased
<1> QED
  BY <1>3, <1>4

LEMMA ProducersSame ==
    ASSUME HasProducers, log' = log
    PROVE  HasProducers'
<1>1. HeadSeq' = HeadSeq
  BY DEF HeadSeq
<1>2. ASSUME NEW i, NEW f
      PROVE  Produces(i, f)' <=> Produces(i, f)
  BY DEF Produces
<1>3. ASSUME NEW i, NEW n, NEW f
      PROVE  LastProducer(i, n, f)' <=> LastProducer(i, n, f)
  BY <1>2 DEF LastProducer
<1> QED
  BY <1>1, <1>3 DEF HasProducers

LEMMA ProducersStep ==
    ASSUME SafeInv, NEW s \in Session, Act(s)
    PROVE  HasProducers'
<1>1. log \in Seq(Entry) /\ HasProducers
  BY Types DEF SafeInv
<1>2. CASE log' # log
  <2>1. PICK e \in Entry : log' = Append(log, e)
    BY <1>2, Justified
  <2> QED
    BY <1>1, <2>1, ProducersKept
<1> QED
  BY <1>1, <1>2, ProducersSame

LEMMA ViewStep ==
    ASSUME SafeInv, NEW s \in Session, Act(s)
    PROVE  ViewInv'
<1>1. /\ HeadSeq \in Nat /\ HeadSeq' \in Nat /\ HeadSeq <= HeadSeq'
      /\ view \in [Session -> 0..MaxLog] /\ parent \in [Session -> 0..MaxLog]
      /\ grant \in [Session -> Nat] /\ pc \in [Session -> Phase]
  BY Types, Prefixes
<1>2. \A n \in 0..HeadSeq :
          /\ EpochAt(n)' = EpochAt(n) /\ OwnerAt(n)' = OwnerAt(n)
          /\ (StoppedAt(n)' <=> StoppedAt(n))
  BY Prefixes
<1>3. \A t \in Session :
          /\ view[t] \in 0..HeadSeq /\ parent[t] \in 0..HeadSeq
          /\ pc[t] = "bumping" => MayBump(t)
          /\ pc[t] = "prepared" => MaySwap(t)
          /\ pc[t] = "stopExport" => StoppedAt(view[t])
  BY <1>1 DEF SafeInv, ViewInv
<1>4. PICK h \in Nat : h = HeadSeq
  BY <1>1
<1>5. /\ h \in 0..HeadSeq /\ EpochAt(h)' = EpochAt(h) /\ OwnerAt(h)' = OwnerAt(h)
      /\ (StoppedAt(h)' <=> StoppedAt(h))
  BY <1>2, <1>4
<1>6. view'[s] <= HeadSeq'
  <2>1. CASE FinalStop(s)
    <3>1. /\ view' = [view EXCEPT ![s] = HeadSeq + 1]
          /\ \E e : log' = Append(log, e)
      BY <2>1 DEF FinalStop, CommitEntry
    <3>2. HeadSeq' = HeadSeq + 1
      BY <3>1, Types, Grown
    <3> QED
      BY <1>1, <3>1, <3>2
  <2>2. CASE UNCHANGED view \/ Rebuild(s)
    BY <1>1, <1>3, <2>2 DEF Rebuild
  <2> QED
    BY <2>1, <2>2, Types, OwnStep
<1>7. parent'[s] <= HeadSeq'
  <2>1. UNCHANGED parent \/ parent' = [parent EXCEPT ![s] = HeadSeq]
    BY Types, OwnStep
  <2> QED
    BY <1>1, <1>3, <2>1
<1>8. ASSUME pc'[s] = "bumping"
      PROVE  MayBump(s)'
  <2>1. BumpPrepare(s)
    BY <1>8, Types, EntryStep
  <2>2. /\ parent' = [parent EXCEPT ![s] = HeadSeq] /\ grant' = grant
        /\ pc' = [pc EXCEPT ![s] = IF StoppedAt(HeadSeq) \/ grant[s] <= EpochAt(HeadSeq)
                                   THEN "dead" ELSE "bumping"]
    BY <2>1 DEF BumpPrepare, owned, Goto
  <2>3. parent'[s] = h /\ ~StoppedAt(h) /\ ~(grant[s] <= EpochAt(h))
    BY <1>1, <1>4, <1>8, <2>2
  <2>4. EpochAt(h) \in Nat /\ grant[s] \in Nat
    BY <1>1, <1>4, Types
  <2>5. parent'[s] = h /\ ~StoppedAt(h)' /\ grant'[s] > EpochAt(h)'
    BY <1>5, <2>2, <2>3, <2>4
  <2> QED
    BY <2>5 DEF MayBump, StoppedAt, EpochAt
<1>9. ASSUME pc'[s] = "prepared"
      PROVE  MaySwap(s)'
  <2>1. StepPrepare(s)
    BY <1>9, Types, EntryStep
  <2>2. /\ parent' = [parent EXCEPT ![s] = HeadSeq] /\ token' = token
        /\ pc' = [pc EXCEPT ![s] = IF IsHeadOwner(s) THEN "prepared" ELSE "final"]
    BY <2>1 DEF StepPrepare, owned, Goto
  <2>3. parent'[s] = h /\ IsHeadOwner(s)
    BY <1>1, <1>4, <1>9, <2>2
  <2>4. ~StoppedAt(h) /\ OwnerAt(h) = s /\ EpochAt(h) = token[s]
    BY <1>4, <2>3 DEF IsHeadOwner
  <2>5. ~StoppedAt(h)' /\ OwnerAt(h)' = s /\ EpochAt(h)' = token'[s]
    BY <1>5, <2>2, <2>4
  <2> QED
    BY <2>3, <2>5 DEF MaySwap, StoppedAt, OwnerAt, EpochAt
<1>10. ASSUME pc'[s] = "stopExport"
       PROVE  StoppedAt(view[s])'
  <2>1. FinalExport(s)
    BY <1>10, Types, EntryStep
  <2>2. StoppedAt(view[s]) /\ view' = view /\ log' = log
    BY <1>1, <1>10, <2>1 DEF FinalExport, Goto
  <2> QED
    BY <2>2 DEF StoppedAt
<1>11. ASSUME NEW t \in Session, t # s
       PROVE  /\ view'[t] <= HeadSeq' /\ parent'[t] <= HeadSeq'
              /\ pc'[t] = "bumping" => MayBump(t)'
              /\ pc'[t] = "prepared" => MaySwap(t)'
              /\ pc'[t] = "stopExport" => StoppedAt(view[t])'
  <2>1. /\ view'[t] = view[t] /\ parent'[t] = parent[t] /\ grant'[t] = grant[t]
        /\ token'[t] = token[t] /\ pc'[t] = pc[t]
    BY <1>11, Bystander
  <2>2. PICK v \in 0..HeadSeq, q \in 0..HeadSeq : v = view[t] /\ q = parent[t]
    BY <1>3
  <2>3. /\ EpochAt(q)' = EpochAt(q) /\ OwnerAt(q)' = OwnerAt(q)
        /\ (StoppedAt(q)' <=> StoppedAt(q)) /\ (StoppedAt(v)' <=> StoppedAt(v))
    BY <1>2
  <2>4. view'[t] <= HeadSeq' /\ parent'[t] <= HeadSeq'
    BY <1>1, <1>3, <2>1
  <2>5. ASSUME pc'[t] = "bumping"
        PROVE  MayBump(t)'
    <3>1. ~StoppedAt(q) /\ grant[t] > EpochAt(q)
      BY <1>3, <2>1, <2>2, <2>5 DEF MayBump
    <3>2. ~StoppedAt(q)' /\ grant'[t] > EpochAt(q)' /\ parent'[t] = q
      BY <2>1, <2>2, <2>3, <3>1
    <3> QED
      BY <3>2 DEF MayBump, StoppedAt, EpochAt
  <2>6. ASSUME pc'[t] = "prepared"
        PROVE  MaySwap(t)'
    <3>1. ~StoppedAt(q) /\ OwnerAt(q) = t /\ EpochAt(q) = token[t]
      BY <1>3, <2>1, <2>2, <2>6 DEF MaySwap
    <3>2. ~StoppedAt(q)' /\ OwnerAt(q)' = t /\ EpochAt(q)' = token'[t] /\ parent'[t] = q
      BY <2>1, <2>2, <2>3, <3>1
    <3> QED
      BY <3>2 DEF MaySwap, StoppedAt, OwnerAt, EpochAt
  <2>7. ASSUME pc'[t] = "stopExport"
        PROVE  StoppedAt(view[t])'
    <3>1. StoppedAt(v)' /\ view'[t] = v
      BY <1>3, <2>1, <2>2, <2>3, <2>7
    <3> QED
      BY <3>1 DEF StoppedAt
  <2> QED
    BY <2>4, <2>5, <2>6, <2>7
<1> QED
  BY <1>6, <1>7, <1>8, <1>9, <1>10, <1>11 DEF ViewInv

LEMMA StopExportStep ==
    ASSUME SafeInv, NEW s \in Session, Act(s)
    PROVE  StopIsExported'
<1>1. /\ HeadSeq \in Nat /\ stopFile \in 0..MaxLog /\ view \in [Session -> 0..MaxLog]
      /\ pc \in [Session -> Phase]
  BY Types
<1>2. /\ stopFile # 0 => stopFile = HeadSeq /\ StoppedAt(HeadSeq)
      /\ \A t \in Session : pc[t] = "exited" /\ StoppedAt(view[t]) => stopFile = HeadSeq
  BY DEF SafeInv, StopIsExported
<1>3. \A t \in Session : view[t] \in 0..HeadSeq
  BY <1>1 DEF SafeInv, ViewInv
<1>4. ASSUME NEW t \in Session, StoppedAt(view[t])
      PROVE  view[t] = HeadSeq /\ StoppedAt(HeadSeq)
  BY <1>1, <1>3, <1>4 DEF StoppedAt, SafeInv, LogInv
<1>5. StoppedAt(HeadSeq) =>
          log' = log /\ HeadSeq' = HeadSeq /\ StoppedAt(HeadSeq)'
  BY HeadStep, SameHead
<1>6. UNCHANGED stopFile \/ (stopFile' = view[s] /\ StoppedAt(view[s]))
  <2>1. UNCHANGED stopFile \/ PublishStop(s)
    BY Types, SharedStep
  <2>2. PublishStop(s) => stopFile' = view[s] /\ pc[s] = "stopExport"
    BY DEF PublishStop
  <2>3. pc[s] = "stopExport" => StoppedAt(view[s])
    BY DEF SafeInv, ViewInv
  <2> QED
    BY <2>1, <2>2, <2>3
<1>7. stopFile' # 0 => stopFile' = HeadSeq' /\ StoppedAt(HeadSeq)'
  BY <1>2, <1>4, <1>5, <1>6
<1>8. ASSUME NEW t \in Session, t # s, pc'[t] = "exited", StoppedAt(view[t])'
      PROVE  stopFile' = HeadSeq'
  <2>1. pc'[t] = pc[t] /\ view'[t] = view[t]
    BY <1>8, Bystander
  <2>2. PICK v \in 0..HeadSeq : v = view[t]
    BY <1>3
  <2>3. StoppedAt(v)' <=> StoppedAt(v)
    BY Prefixes
  <2>4. StoppedAt(v)'
    BY <1>8, <2>1, <2>2 DEF StoppedAt
  <2>5. StoppedAt(view[t])
    BY <2>2, <2>3, <2>4
  <2>6. view[t] = HeadSeq /\ StoppedAt(HeadSeq) /\ stopFile = HeadSeq
    BY <1>2, <1>4, <1>8, <2>1, <2>5
  <2> QED
    BY <1>4, <1>5, <1>6, <2>6
<1>9. ASSUME pc'[s] = "exited", StoppedAt(view[s])'
      PROVE  stopFile' = HeadSeq'
  <2>1. FinalExport(s) \/ PublishStop(s)
    BY <1>9, Types, EntryStep
  <2>2. CASE FinalExport(s)
    <3>1. view' = view /\ log' = log /\ ~StoppedAt(view[s])
      BY <1>1, <1>9, <2>2 DEF FinalExport, Goto
    <3> QED
      BY <1>9, <3>1 DEF StoppedAt
  <2>3. CASE PublishStop(s)
    <3>1. stopFile' = view[s] /\ pc[s] = "stopExport"
      BY <2>3 DEF PublishStop
    <3>2. StoppedAt(view[s])
      BY <3>1 DEF SafeInv, ViewInv
    <3> QED
      BY <1>4, <1>5, <3>1, <3>2
  <2> QED
    BY <2>1, <2>2, <2>3
<1> QED
  BY <1>7, <1>8, <1>9 DEF StopIsExported

LEMMA SafeStep ==
    ASSUME SafeInv, [Next]_<<rivals, vars>>
    PROVE  SafeInv'
<1>1. CASE \E s \in Session : Act(s)
  BY <1>1, TypeStep, LogInvStep, LeaseStep, ViewStep, ProducersStep, StopExportStep
     DEF SafeInv
<1>2. CASE LeaseEnds
  <2>1. /\ UNCHANGED <<log, latest, stopFile, pc, view, tensors, grant, token, parent>>
        /\ lease' = [lease EXCEPT !.live = FALSE]
    BY <1>2 DEF LeaseEnds, exports, owned
  <2>2. lease' \in [owner : Session \cup {NoSession}, epoch : Nat, live : BOOLEAN]
        /\ lease'.owner = lease.owner /\ lease'.epoch = lease.epoch
    <3>1. lease \in [owner : Session \cup {NoSession}, epoch : Nat, live : BOOLEAN]
      BY Types
    <3> QED
      BY <2>1, <3>1
  <2>3. TypeOK'
    BY <2>1, <2>2 DEF SafeInv, TypeOK
  <2>4. LogInv'
    BY <2>1 DEF SafeInv, LogInv, HeadSeq
  <2>5. LeaseInv'
    BY <2>1, <2>2 DEF SafeInv, LeaseInv, EpochIsLeased, HeadSeq, EpochAt, OwnerAt
  <2>6. ViewInv'
    BY <2>1 DEF SafeInv, ViewInv, MayBump, MaySwap, HeadSeq, EpochAt, OwnerAt, StoppedAt
  <2>7. HasProducers'
    BY <2>1, ProducersSame DEF SafeInv
  <2>8. StopIsExported'
    BY <2>1 DEF SafeInv, StopIsExported, HeadSeq, StoppedAt
  <2> QED
    BY <2>3, <2>4, <2>5, <2>6, <2>7, <2>8 DEF SafeInv
<1>3. CASE UNCHANGED <<rivals, vars>>
  <2>1. UNCHANGED <<log, lease, latest, stopFile, pc, view, tensors, grant, token, parent>>
    BY <1>3 DEF vars
  <2>2. TypeOK' /\ LogInv' /\ LeaseInv'
    BY <2>1 DEF SafeInv, TypeOK, LogInv, LeaseInv, EpochIsLeased, HeadSeq, EpochAt, OwnerAt
  <2>3. ViewInv' /\ StopIsExported'
    BY <2>1 DEF SafeInv, ViewInv, MayBump, MaySwap, StopIsExported,
                HeadSeq, EpochAt, OwnerAt, StoppedAt
  <2>4. HasProducers'
    BY <2>1, ProducersSame DEF SafeInv
  <2> QED
    BY <2>2, <2>3, <2>4 DEF SafeInv
<1> QED
  BY <1>1, <1>2, <1>3 DEF Next, Step, Act

LEMMA InitSafe == Init => SafeInv
<1> SUFFICES ASSUME Init
             PROVE  SafeInv
  OBVIOUS
<1> USE DEF Init
<1>1. HeadSeq = 0
  BY DEF HeadSeq
<1>2. /\ log \in Seq(Entry) /\ 0 \in 0..MaxLog
      /\ [f \in Fragment |-> 0] \in [Fragment -> 0..MaxLog]
  BY SyncerAssumption DEF SyncerAssumption
<1>3. latest \in [version : 0..MaxLog, params : [Fragment -> 0..MaxLog]]
  BY <1>2
<1>4. TypeOK
  BY <1>2, <1>3 DEF TypeOK, Phase
<1>5. LogInv
  BY <1>1, SyncerAssumption DEF LogInv, SyncerAssumption
<1>6. LeaseInv
  BY <1>1 DEF LeaseInv, EpochIsLeased, EpochAt, OwnerAt
<1>7. ViewInv
  <2>1. \A s \in Session : view[s] = 0 /\ parent[s] = 0 /\ pc[s] = "off"
    OBVIOUS
  <2> HIDE DEF Init
  <2>2. ASSUME NEW s \in Session
        PROVE  /\ view[s] <= HeadSeq /\ parent[s] <= HeadSeq
               /\ pc[s] \notin {"bumping", "prepared", "stopExport"}
    BY <1>1, <2>1
  <2> QED
    BY <2>2 DEF ViewInv
<1>8. HasProducers
  <2>1. \A f \in Fragment : LastProducer(0, 0, f)
    BY DEF LastProducer, Produces
  <2>2. \A n \in 0..0 : n = 0
    OBVIOUS
  <2> QED
    BY <1>1, <2>1, <2>2 DEF HasProducers
<1>9. StopIsExported
  BY DEF StopIsExported
<1> QED
  BY <1>4, <1>5, <1>6, <1>7, <1>8, <1>9 DEF SafeInv

LEMMA SafeInvariance == Spec => []SafeInv
BY InitSafe, SafeStep, PTL DEF Spec

-----------------------------------------------------------------------------
(* Every state of any number of overlapping and restarted sessions is       *)
(* typed; views and parents never outrun the log.                           *)
THEOREM TypeCorrect == Spec => []TypeOK
<1>1. SafeInv => TypeOK
  BY DEF SafeInv
<1> QED
  BY <1>1, SafeInvariance, PTL

(* The derived stop.json names a committed stop, and no process that knows  *)
(* of one leaves without it, whichever session committed it.                *)
THEOREM StopExported == Spec => []StopIsExported
<1>1. SafeInv => StopIsExported
  BY DEF SafeInv
<1> QED
  BY <1>1, SafeInvariance, PTL

(* The stored lease and the log stay in step through every takeover.        *)
THEOREM LeaseAndLog == Spec => []EpochIsLeased
<1>1. SafeInv => EpochIsLeased
  BY DEF SafeInv, LeaseInv
<1> QED
  BY <1>1, SafeInvariance, PTL

-----------------------------------------------------------------------------
LEMMA AppendIsFunction ==
    ASSUME NEW S, NEW q \in Seq(S), NEW x \in S
    PROVE  Append(q, x) = [i \in 1..(Len(q) + 1) |-> IF i = Len(q) + 1 THEN x ELSE q[i]]
<1> DEFINE z == Append(q, x)
<1>1. Len(q) \in Nat /\ z \in Seq(S) /\ Len(z) = Len(q) + 1
  OBVIOUS
<1>2. (\A i \in 1..Len(q) : z[i] = q[i]) /\ z[Len(q) + 1] = x
  OBVIOUS
<1> HIDE DEF z
<1>3. z = [i \in 1..(Len(q) + 1) |-> z[i]]
  BY <1>1
<1>4. \A i \in 1..(Len(q) + 1) : z[i] = IF i = Len(q) + 1 THEN x ELSE q[i]
  BY <1>1, <1>2
<1>5. z = [i \in 1..(Len(q) + 1) |-> IF i = Len(q) + 1 THEN x ELSE q[i]]
  BY <1>3, <1>4
<1> QED
  BY <1>5 DEF z

(* A commit of a session is one step of the reference machine. *)
LEMMA CommitRefines ==
    ASSUME SafeInv, NEW s \in Session, Act(s), log' # log
    PROVE  Reference!Next
<1>1. PICK n \in Nat : n = HeadSeq
  BY Types
<1>2. PICK e \in Entry :
          /\ log' = Append(log, e) /\ HeadSeq < MaxLog
          /\ e.owner = s /\ ~StoppedAt(HeadSeq)
          /\ e.count = CountAt(HeadSeq) + (IF e.kind = "optimizer" THEN 1 ELSE 0)
          /\ \/ e.kind = "epoch_bump" /\ e.epoch > EpochAt(HeadSeq)
             \/ /\ e.kind \in {"optimizer", "stop"}
                /\ e.epoch = EpochAt(HeadSeq) /\ OwnerAt(HeadSeq) = s
  BY Justified
<1> DEFINE h == History
           t == [owner |-> s, epoch |-> e.epoch]
           r == n + 1
<1>3. /\ log \in Seq(Entry) /\ HeadSeq' = n + 1 /\ n < MaxLog /\ MaxLog \in Nat
      /\ \A i \in 1..n : log'[i] = log[i]
      /\ log'[n + 1] = e
  BY <1>1, <1>2, Grown, Types
<1>4. \A i \in 1..n : log[i] \in Entry
  BY <1>1, <1>3 DEF HeadSeq
<1>5. e.kind \in {"epoch_bump", "optimizer", "stop"} /\ e.epoch \in 1..MaxLog /\ e.count \in Nat
  BY <1>2 DEF Entry
<1>6. t \in Reference!Token /\ r \in 1..MaxLog
  BY <1>1, <1>3, <1>5 DEF Reference!Token
<1>7. /\ Len(h) = n /\ h \in Seq(Reference!Event)
      /\ h = <<>> <=> n = 0
      /\ \A i \in 1..n : h[i] = [kind |-> log[i].kind, req |-> i, owner |-> log[i].owner,
                                 epoch |-> log[i].epoch, count |-> log[i].count]
  <2>1. \A i \in 1..n : [kind |-> log[i].kind, req |-> i, owner |-> log[i].owner,
                         epoch |-> log[i].epoch, count |-> log[i].count] \in Reference!Event
    BY <1>3, <1>4 DEF Entry, Reference!Event
  <2> QED
    BY <1>1, <2>1 DEF History
<1>8. /\ Reference!FencingEpoch(h) = EpochAt(n)
      /\ Reference!OptimizerCount(h) = CountAt(n)
      /\ n # 0 => Reference!OwnerToken(h) = [owner |-> log[n].owner, epoch |-> log[n].epoch]
  BY <1>7 DEF Reference!FencingEpoch, Reference!OptimizerCount,
       Reference!OwnerToken, Reference!HeadOf, EpochAt, CountAt
<1>9. r \notin Reference!CommittedRequests(h)
  BY <1>7 DEF Reference!CommittedRequests
<1>10. e.count = Reference!OptimizerCount(h) + (IF e.kind = "optimizer" THEN 1 ELSE 0)
  BY <1>1, <1>2, <1>8
<1>11. History' = Append(h, [kind |-> e.kind, req |-> r, owner |-> t.owner,
                             epoch |-> t.epoch, count |-> e.count])
  <2> DEFINE x == [kind |-> e.kind, req |-> r, owner |-> t.owner,
                   epoch |-> t.epoch, count |-> e.count]
  <2>1. t.owner = e.owner /\ t.epoch = e.epoch
    BY <1>2
  <2>2. History' = [i \in 1..(n + 1) |->
                        [kind |-> log'[i].kind, req |-> i, owner |-> log'[i].owner,
                         epoch |-> log'[i].epoch, count |-> log'[i].count]]
    BY <1>3 DEF History
  <2>3. x = [kind |-> log'[n + 1].kind, req |-> n + 1, owner |-> log'[n + 1].owner,
             epoch |-> log'[n + 1].epoch, count |-> log'[n + 1].count]
    BY <1>3, <2>1
  <2>3a. x \in Reference!Event
    BY <1>2, <1>5, <1>6 DEF Reference!Event
  <2> HIDE DEF x, h
  <2>4. Append(h, x) = [i \in 1..(n + 1) |-> IF i = n + 1 THEN x ELSE h[i]]
    BY <1>7, <2>3a, AppendIsFunction
  <2>5. \A i \in 1..(n + 1) : i # n + 1 => i \in 1..n
    BY <1>1
  <2>6. ASSUME NEW i \in 1..(n + 1)
        PROVE  [kind |-> log'[i].kind, req |-> i, owner |-> log'[i].owner,
                epoch |-> log'[i].epoch, count |-> log'[i].count]
                   = IF i = n + 1 THEN x ELSE h[i]
    BY <1>3, <1>7, <2>3, <2>5
  <2>7. History' = Append(h, x)
    BY <2>2, <2>4, <2>6
  <2> QED
    BY <2>7 DEF x
<1>12. /\ StopFact = Reference!NoStop
       /\ StopFact' = IF e.kind = "stop" THEN [req |-> r, seq |-> n + 1]
                                         ELSE Reference!NoStop
  BY <1>1, <1>2, <1>3 DEF StopFact, StoppedAt, Reference!NoStop
<1>13. CASE e.kind = "epoch_bump"
  <2>1. Reference!CommitEpochBump(t, r)
    BY <1>1, <1>2, <1>3, <1>7, <1>8, <1>9, <1>10, <1>11, <1>12, <1>13
       DEF Reference!CommitEpochBump, Reference!Commit
  <2> QED
    BY <1>6, <2>1 DEF Reference!Next
<1>14. CASE e.kind # "epoch_bump"
  <2>1. n # 0
    BY <1>1, <1>2, <1>5, <1>14 DEF EpochAt
  <2>2. Reference!OwnerToken(h) = t
    BY <1>1, <1>2, <1>8, <1>14, <2>1 DEF EpochAt, OwnerAt
  <2>3. CASE e.kind = "optimizer"
    <3>1. Reference!CommitOptimizer(t, r)
      BY <1>3, <1>7, <1>9, <1>10, <1>11, <1>12, <2>2, <2>3
         DEF Reference!CommitOptimizer, Reference!Commit
    <3> QED
      BY <1>6, <3>1 DEF Reference!Next
  <2>4. CASE e.kind = "stop"
    <3>1. Reference!CommitStop(t, r)
      BY <1>3, <1>7, <1>9, <1>10, <1>11, <1>12, <2>2, <2>4
         DEF Reference!CommitStop, Reference!Commit
    <3> QED
      BY <1>6, <3>1 DEF Reference!Next
  <2> QED
    BY <1>5, <1>14, <2>3, <2>4
<1> QED
  BY <1>13, <1>14

(* The log of whole runs, restarts, standbys and retries included, is a     *)
(* history of the reference coordination machine.                           *)
THEOREM Refinement == Spec => ImplementsReference
<1>1. Init => Reference!Init
  BY DEF Init, Reference!Init, History, StopFact, StoppedAt, HeadSeq, Reference!NoStop
<1>2. SafeInv /\ [Next]_<<rivals, vars>> => [Reference!Next]_(Reference!vars)
  <2> SUFFICES ASSUME SafeInv, [Next]_<<rivals, vars>>
               PROVE  [Reference!Next]_(Reference!vars)
    OBVIOUS
  <2>1. CASE log' = log
    BY <2>1 DEF Reference!vars, History, StopFact, StoppedAt, HeadSeq
  <2>2. CASE log' # log
    <3>1. \E s \in Session : Act(s)
      BY <2>2 DEF Next, Step, Act, LeaseEnds, vars
    <3> QED
      BY <2>2, <3>1, CommitRefines
  <2> QED
    BY <2>1, <2>2
<1> QED
  BY <1>1, <1>2, SafeInvariance, PTL DEF Spec, ImplementsReference, Reference!Spec

-----------------------------------------------------------------------------
(* Recovery.  A session is trusted while no rival can have come between it  *)
(* and the log: nothing is committed, it runs alone, or it was the first    *)
(* owner and still is the owner.                                            *)
Trusted(s) ==
    \/ HeadSeq = 0
    \/ rivals = {}
    \/ OwnerAt(1) = s /\ OwnerAt(HeadSeq) = s

Alone == rivals = {} => \A s, t \in Session : Running(s) /\ Running(t) => s = t

Holding == {"opened", "leased", "bumping", "bumped", "firstExport", "loop", "prepared", "export"}

(* A step just committed, and the tensors not yet replaced. *)
Behind(s) ==
    /\ HeadSeq = parent[s] + 1
    /\ [tensors[s] EXCEPT ![CursorAt(view[s])] = HeadSeq] = ParamsAt(HeadSeq)

ExactInv ==
    \A s \in Session : Trusted(s) =>
        /\ pc[s] \in Holding => tensors[s] = ParamsAt(HeadSeq)
        /\ pc[s] = "committed" => Behind(s)

ExportInv ==
    rivals = {} => \A s \in Session :
        /\ pc[s] \in {"firstExport", "export"} => view[s] = HeadSeq
        /\ pc[s] \in {"loop", "prepared"} =>
               latest = [version |-> HeadSeq, params |-> ParamsAt(HeadSeq)]

FullInv ==
    SafeInv /\ Alone /\ ExactInv /\ ExportInv /\ RestartStepsFromCommitted

(* The steps that touch the tensors, the log or the exports on the way into *)
(* the phases the invariant speaks of.                                      *)
LEMMA HoldStep ==
    ASSUME TypeOK, NEW s \in Session, Act(s)
    PROVE  /\ \/ Start(s) \/ StepRetry(s) \/ BumpCas(s) \/ StepCas(s) \/ PostCas(s)
              \/ log' = log /\ tensors' = tensors /\ pc[s] \in Holding
              \/ pc'[s] \notin Holding
           /\ pc'[s] = "committed" => StepCas(s)
           /\ pc'[s] = "firstExport" => Activated(s)
           /\ pc'[s] = "export" => PostCas(s)
           /\ pc'[s] = "loop" => FirstExport(s) \/ Export(s) \/ StepRetry(s)
<1>1. \/ Start(s) \/ StepRetry(s) \/ BumpCas(s) \/ StepCas(s) \/ PostCas(s)
      \/ log' = log /\ tensors' = tensors /\ pc[s] \in Holding
      \/ pc'[s] \notin Holding
  BY SMTT(60) DEF Holding, TypeOK, Phase, Goto, Act, Proceed, Start, Bootstrap,
         BootstrapExport, StandbySeesStop, Acquire, AcquireRefused, BumpPrepare,
         BumpCas, BumpLost, Activated, FirstExport, LeaveLoop, StepPrepare,
         StepCas, StepRetry, StepIoError, PostCas, Export, FinalSeen, FinalStop,
         FinalRefused, FinalIoError, FinalExport, PublishStop, Crash
<1>2. pc'[s] = "committed" => StepCas(s)
  BY SMTT(60) DEF Holding, TypeOK, Phase, Goto, Act, Proceed, Start, Bootstrap,
         BootstrapExport, StandbySeesStop, Acquire, AcquireRefused, BumpPrepare,
         BumpCas, BumpLost, Activated, FirstExport, LeaveLoop, StepPrepare,
         StepCas, StepRetry, StepIoError, PostCas, Export, FinalSeen, FinalStop,
         FinalRefused, FinalIoError, FinalExport, PublishStop, Crash
<1>3. /\ pc'[s] = "firstExport" => Activated(s)
      /\ pc'[s] = "export" => PostCas(s)
      /\ pc'[s] = "loop" => FirstExport(s) \/ Export(s) \/ StepRetry(s)
  BY SMTT(60) DEF Holding, TypeOK, Phase, Goto, Act, Proceed, Start, Bootstrap,
         BootstrapExport, StandbySeesStop, Acquire, AcquireRefused, BumpPrepare,
         BumpCas, BumpLost, Activated, FirstExport, LeaveLoop, StepPrepare,
         StepCas, StepRetry, StepIoError, PostCas, Export, FinalSeen, FinalStop,
         FinalRefused, FinalIoError, FinalExport, PublishStop, Crash
<1> QED
  BY <1>1, <1>2, <1>3

LEMMA ActorRuns ==
    ASSUME NEW s \in Session, Act(s)
    PROVE  Start(s) \/ Bootstrap(s) \/ Running(s)
BY SMTT(60) DEF Running, Act, Proceed, BootstrapExport, StandbySeesStop,
       Acquire, AcquireRefused, BumpPrepare, BumpCas, BumpLost, Activated,
       FirstExport, LeaveLoop, StepPrepare, StepCas, StepRetry, StepIoError,
       PostCas, Export, FinalSeen, FinalStop, FinalRefused, FinalIoError,
       FinalExport, PublishStop, Crash

(* Without rivals only the session that acts is running afterwards. *)
LEMMA Sole ==
    ASSUME SafeInv, Alone, NEW s \in Session, Act(s), rivals = {},
           NEW t \in Session, Running(t)'
    PROVE  t = s
<1> SUFFICES ASSUME t # s
             PROVE  FALSE
  OBVIOUS
<1>1. Running(t)
  BY Bystander DEF Running
<1>2. ~Start(s) /\ ~Bootstrap(s)
  BY <1>1 DEF Start, Bootstrap, MayStart
<1> QED
  BY <1>1, <1>2, ActorRuns DEF Alone

LEMMA AloneStep ==
    ASSUME SafeInv, Alone, NEW s \in Session, Act(s), rivals' = rivals
    PROVE  Alone'
BY Sole DEF Alone

(* Trust is never regained, and while it lasts nobody else commits. *)
LEMMA TrustStep ==
    ASSUME SafeInv, Alone, NEW s \in Session, Act(s), rivals' = rivals,
           NEW t \in Session, Running(t)', Trusted(t)'
    PROVE  Trusted(t) /\ (t = s \/ log' = log)
<1>1. HeadSeq \in Nat
  BY Types
<1>2. CASE rivals = {}
  BY <1>2, Sole DEF Trusted
<1>3. CASE rivals # {} /\ log' = log
  BY <1>3, SameHead DEF Trusted, OwnerAt
<1>4. CASE rivals # {} /\ log' # log
  <2>1. HeadSeq' # 0 /\ OwnerAt(HeadSeq)' = s
    BY <1>1, <1>4, HeadStep
  <2>2. t = s /\ OwnerAt(1)' = s
    BY <1>4, <2>1 DEF Trusted
  <2>3. ASSUME HeadSeq # 0
        PROVE  Trusted(s)
    <3>1. 1 \in 0..HeadSeq /\ 1 \in 1..HeadSeq
      BY <1>1, <2>3
    <3>2. OwnerAt(1) = s
      BY <2>2, <3>1, Prefixes
    <3>3. pc[s] # "bumping"
      BY <3>1, <3>2 DEF SafeInv, LogInv, Before, OwnerAt
    <3>4. OwnerAt(HeadSeq) = s
      BY <1>4, <3>3, HeadStep
    <3> QED
      BY <3>2, <3>4 DEF Trusted
  <2> QED
    BY <2>2, <2>3 DEF Trusted
<1> QED
  BY <1>2, <1>3, <1>4

LEMMA ParamsSame ==
    ASSUME log' = log, NEW n
    PROVE  ParamsAt(n)' = ParamsAt(n)
<1>1. \A i, f : Produces(i, f)' <=> Produces(i, f)
  BY DEF Produces
<1> QED
  BY <1>1 DEF ParamsAt

LEMMA HeadParamsSame ==
    ASSUME log' = log
    PROVE  ParamsAt(HeadSeq)' = ParamsAt(HeadSeq)
<1>1. PICK h : h = HeadSeq
  OBVIOUS
<1>2. HeadSeq' = h
  BY <1>1 DEF HeadSeq
<1>3. ParamsAt(h)' = ParamsAt(h)
  BY ParamsSame
<1> QED
  BY <1>1, <1>2, <1>3 DEF ParamsAt

(* The parameters after a commit that is not, or is, an optimizer's. *)
LEMMA HeadParamsNew ==
    ASSUME SafeInv, NEW e \in Entry, log' = Append(log, e)
    PROVE  /\ e.kind # "optimizer" => ParamsAt(HeadSeq)' = ParamsAt(HeadSeq)
           /\ e.kind = "optimizer" =>
                  [ParamsAt(HeadSeq) EXCEPT ![e.frag] = HeadSeq + 1] = ParamsAt(HeadSeq)'
<1>1. PICK h \in Nat : h = HeadSeq
  BY Types
<1>2. HeadSeq' = h + 1 /\ log \in Seq(Entry) /\ HasProducers
  BY <1>1, Types, Grown DEF SafeInv
<1>3. ParamsAt(h + 1)' =
          [f \in Fragment |-> IF e.kind = "optimizer" /\ e.frag = f
                              THEN h + 1 ELSE ParamsAt(h)[f]]
  BY <1>1, <1>2, ParamsNew
<1>4. ParamsAt(HeadSeq)' = ParamsAt(h + 1)'
  BY <1>2 DEF ParamsAt
<1>5. ParamsAt(h) = [f \in Fragment |-> ParamsAt(h)[f]]
  BY DEF ParamsAt
<1>6. e.frag \in Fragment
  BY DEF Entry
<1>7. CASE e.kind # "optimizer"
  BY <1>1, <1>3, <1>4, <1>5, <1>7
<1>8. CASE e.kind = "optimizer"
  <2> DEFINE P == ParamsAt(h)
  <2>1. P = [f \in Fragment |-> P[f]]
    BY <1>5
  <2>2. ParamsAt(HeadSeq)' = [f \in Fragment |-> IF e.frag = f THEN h + 1 ELSE P[f]]
    BY <1>3, <1>4, <1>8
  <2> HIDE DEF P
  <2>3. [P EXCEPT ![e.frag] = h + 1] =
            [f \in Fragment |-> IF e.frag = f THEN h + 1 ELSE P[f]]
    BY <2>1
  <2> QED
    BY <1>1, <1>8, <2>2, <2>3 DEF P
<1> QED
  BY <1>7, <1>8

LEMMA ExactStep ==
    ASSUME SafeInv, Alone, ExactInv, NEW s \in Session, Act(s), rivals' = rivals
    PROVE  ExactInv'
<1>1. /\ pc \in [Session -> Phase] /\ tensors \in [Session -> [Fragment -> 0..MaxLog]]
      /\ parent \in [Session -> 0..MaxLog] /\ view \in [Session -> 0..MaxLog]
      /\ HeadSeq \in Nat /\ log \in Seq(Entry)
  BY Types
<1>2. SUFFICES ASSUME NEW t \in Session, Trusted(t)', pc'[t] \in Holding \cup {"committed"}
               PROVE  /\ pc'[t] \in Holding => tensors'[t] = ParamsAt(HeadSeq)'
                      /\ pc'[t] = "committed" => Behind(t)'
  BY DEF ExactInv
<1>3. Running(t)'
  BY <1>2 DEF Running, Holding
<1>4. Trusted(t) /\ (t = s \/ log' = log)
  BY <1>2, <1>3, TrustStep
<1>5. /\ pc[t] \in Holding => tensors[t] = ParamsAt(HeadSeq)
      /\ pc[t] = "committed" => Behind(t)
  BY <1>4 DEF ExactInv
<1>6. CASE t # s
  <2>1. /\ pc'[t] = pc[t] /\ tensors'[t] = tensors[t] /\ parent'[t] = parent[t]
        /\ view'[t] = view[t]
    BY <1>6, Bystander
  <2>2. log' = log /\ HeadSeq' = HeadSeq /\ ParamsAt(HeadSeq)' = ParamsAt(HeadSeq)
    BY <1>4, <1>6, HeadParamsSame, SameHead
  <2>3. CursorAt(view[t])' = CursorAt(view[t])
    BY <2>1, <2>2 DEF CursorAt, CountAt
  <2> QED
    BY <1>5, <2>1, <2>2, <2>3 DEF Behind
<1>7. CASE t = s /\ (Start(s) \/ StepRetry(s))
  <2>1. log' = log /\ Reload(s) /\ pc'[s] # "committed"
    BY <1>1, <1>7 DEF Start, StepRetry, Goto
  <2>2. tensors'[s] = ParamsAt(HeadSeq)
    BY <1>1, <2>1 DEF Reload
  <2> QED
    BY <1>7, <2>1, <2>2, HeadParamsSame
<1>8. CASE t = s /\ BumpCas(s)
  <2>1. /\ pc[s] = "bumping" /\ pc'[s] = "bumped" /\ tensors' = tensors
        /\ CommitEntry(s, "epoch_bump", grant[s], 0, 0)
    BY <1>1, <1>8 DEF BumpCas, Goto
  <2>2. log' # log
    BY <1>1, <2>1 DEF CommitEntry
  <2>3. PICK e \in Entry : log' = Append(log, e) /\ e.kind # "optimizer"
    BY <2>1, <2>2, Justified
  <2>4. ParamsAt(HeadSeq)' = ParamsAt(HeadSeq)
    BY <2>3, HeadParamsNew
  <2> QED
    BY <1>5, <1>8, <2>1, <2>4 DEF Holding
<1>9. CASE t = s /\ StepCas(s)
  <2>1. /\ pc[s] = "prepared" /\ pc'[s] = "committed" /\ StepSwap(s)
        /\ tensors' = tensors /\ view' = view /\ parent' = parent
    BY <1>1, <1>9 DEF StepCas, Goto
  <2>2. log' # log /\ HeadSeq = parent[s]
    BY <1>1, <2>1 DEF StepSwap, CommitEntry
  <2>3. PICK e \in Entry :
            log' = Append(log, e) /\ e.kind = "optimizer" /\ e.frag = CursorAt(view[s])
    BY <2>1, <2>2, Justified
  <2>4. /\ HeadSeq' = HeadSeq + 1
        /\ [ParamsAt(HeadSeq) EXCEPT ![e.frag] = HeadSeq + 1] = ParamsAt(HeadSeq)'
    BY <1>1, <2>3, Grown, HeadParamsNew
  <2>5. tensors'[s] = ParamsAt(HeadSeq)
    BY <1>5, <1>9, <2>1 DEF Holding
  <2>6. CursorAt(view[s])' = CursorAt(view[s])
    <3>1. PICK v \in 0..HeadSeq : v = view[s]
      BY <1>1 DEF SafeInv, ViewInv
    <3>2. CursorAt(v)' = CursorAt(v)
      BY Prefixes
    <3> QED
      BY <2>1, <3>1, <3>2 DEF CursorAt, CountAt
  <2>7. Behind(s)'
    BY <2>1, <2>2, <2>3, <2>4, <2>5, <2>6 DEF Behind
  <2> QED
    BY <1>9, <2>1, <2>7 DEF Holding
<1>10. CASE t = s /\ PostCas(s)
  <2>1. pc[s] = "committed" /\ log' = log
    BY <1>10 DEF PostCas
  <2>2. Behind(s)
    BY <1>5, <1>10, <2>1
  <2>3. tensors' = [tensors EXCEPT ![s][CursorAt(view[s])] = HeadSeq] /\ pc'[s] # "committed"
    BY <1>1, <1>10, <2>2 DEF PostCas, Goto, Behind
  <2>4. tensors'[s] = [tensors[s] EXCEPT ![CursorAt(view[s])] = HeadSeq]
    BY <1>1, <2>3
  <2> QED
    BY <1>10, <2>1, <2>2, <2>3, <2>4, HeadParamsSame DEF Behind
<1>11. CASE t = s /\ log' = log /\ tensors' = tensors /\ pc[s] \in Holding /\ ~StepCas(s)
  <2>1. pc'[s] # "committed"
    BY <1>11, Types, HoldStep
  <2> QED
    BY <1>5, <1>11, <2>1, HeadParamsSame
<1> QED
  BY <1>2, <1>6, <1>7, <1>8, <1>9, <1>10, <1>11, Types, HoldStep DEF Holding

LEMMA ExportStep ==
    ASSUME SafeInv, Alone, ExactInv, ExportInv, NEW s \in Session, Act(s), rivals' = rivals
    PROVE  ExportInv'
<1>1. /\ pc \in [Session -> Phase] /\ view \in [Session -> 0..MaxLog]
      /\ tensors \in [Session -> [Fragment -> 0..MaxLog]]
  BY Types
<1>2. SUFFICES ASSUME NEW t \in Session, rivals = {},
                      pc'[t] \in {"firstExport", "export", "loop", "prepared"}
               PROVE  /\ pc'[t] \in {"firstExport", "export"} => view'[t] = HeadSeq'
                      /\ pc'[t] \in {"loop", "prepared"} =>
                             latest' = [version |-> HeadSeq', params |-> ParamsAt(HeadSeq)']
  BY DEF ExportInv
<1>3. t = s
  BY <1>2, Sole DEF Running
<1>4. /\ pc[s] \in {"firstExport", "export"} => view[s] = HeadSeq
      /\ pc[s] \in {"loop", "prepared"} =>
             latest = [version |-> HeadSeq, params |-> ParamsAt(HeadSeq)]
      /\ pc[s] \in Holding => tensors[s] = ParamsAt(HeadSeq)
  BY <1>2 DEF ExportInv, ExactInv, Trusted
<1>5. CASE pc'[s] = "firstExport"
  <2>1. Activated(s)
    BY <1>5, Types, HoldStep
  <2>2. log' = log /\ view' = [view EXCEPT ![s] = HeadSeq]
    BY <1>1, <1>5, <2>1 DEF Activated, Rebuild, Goto
  <2> QED
    BY <1>1, <1>3, <1>5, <2>2, SameHead
<1>6. CASE pc'[s] = "export"
  <2>1. PostCas(s)
    BY <1>6, Types, HoldStep
  <2>2. log' = log /\ view' = [view EXCEPT ![s] = HeadSeq]
    BY <2>1 DEF PostCas, Rebuild
  <2> QED
    BY <1>1, <1>3, <1>6, <2>2, SameHead
<1>7. CASE pc'[s] = "loop" /\ (FirstExport(s) \/ Export(s))
  <2>1. /\ log' = log /\ pc[s] \in {"firstExport", "export"}
        /\ latest' = [version |-> view[s], params |-> tensors[s]]
    BY <1>7 DEF FirstExport, Export, PublishLatest
  <2>2. latest' = [version |-> HeadSeq, params |-> ParamsAt(HeadSeq)]
    BY <1>4, <2>1 DEF Holding
  <2> QED
    BY <1>3, <1>7, <2>1, <2>2, SameHead, HeadParamsSame
<1>8. CASE pc'[s] = "loop" /\ StepRetry(s)
  <2>1. log' = log /\ pc[s] = "prepared" /\ latest' = latest
    BY <1>8 DEF StepRetry, exports
  <2> QED
    BY <1>3, <1>4, <1>8, <2>1, SameHead, HeadParamsSame
<1>9. CASE pc'[s] = "prepared"
  <2>1. StepPrepare(s)
    BY <1>9, Types, EntryStep
  <2>2. log' = log /\ pc[s] = "loop" /\ latest' = latest
    BY <2>1 DEF StepPrepare, exports
  <2> QED
    BY <1>3, <1>4, <1>9, <2>2, SameHead, HeadParamsSame
<1> QED
  BY <1>2, <1>3, <1>5, <1>6, <1>7, <1>8, <1>9, Types, HoldStep

LEMMA RestartSame ==
    ASSUME RestartStepsFromCommitted, log' = log, rivals' = rivals
    PROVE  RestartStepsFromCommitted'
<1>1. HeadSeq' = HeadSeq /\ OwnerAt(1)' = OwnerAt(1)
  BY DEF HeadSeq, OwnerAt
<1>2. ASSUME NEW i \in 1..HeadSeq
      PROVE  StepsFromParent(i)' <=> StepsFromParent(i)
  <2>1. ParamsAt(i - 1)' = ParamsAt(i - 1)
    BY ParamsSame
  <2> QED
    BY <2>1 DEF StepsFromParent
<1> QED
  BY <1>1, <1>2 DEF RestartStepsFromCommitted

LEMMA RestartStep ==
    ASSUME SafeInv, Alone, ExactInv, RestartStepsFromCommitted,
           NEW s \in Session, Act(s), rivals' = rivals
    PROVE  RestartStepsFromCommitted'
<1>1. log \in Seq(Entry) /\ HeadSeq \in Nat /\ HasProducers
  BY Types DEF SafeInv
<1>2. CASE log' # log
  <2>1. PICK e \in Entry :
            /\ log' = Append(log, e) /\ e.owner = s
            /\ e.kind = "optimizer" => /\ pc[s] = "prepared" /\ OwnerAt(HeadSeq) = s
                                       /\ e.frag = CursorAt(view[s])
                                       /\ e.from = tensors[s][CursorAt(view[s])]
    BY <1>2, Justified
  <2>2. PICK h \in Nat : h = HeadSeq
    BY <1>1
  <2>3. /\ HeadSeq' = h + 1 /\ log'[h + 1] = e
        /\ \A i \in 1..h : log'[i] = log[i]
    BY <1>1, <2>1, <2>2, Grown
  <2>4. \A n \in 0..h : ParamsAt(n)' = ParamsAt(n)
    BY <1>1, <2>1, <2>2, ParamsKept
  <2>5. h # 0 => OwnerAt(1)' = OwnerAt(1)
    BY <2>2, <2>3 DEF OwnerAt
  <2>6. ASSUME NEW i \in 1..h, rivals = {} \/ log'[i].owner = OwnerAt(1)'
        PROVE  StepsFromParent(i)'
    <3>1. rivals = {} \/ log[i].owner = OwnerAt(1)
      BY <2>3, <2>5, <2>6
    <3>2. StepsFromParent(i)
      BY <2>2, <3>1 DEF RestartStepsFromCommitted
    <3>3. log'[i] = log[i] /\ ParamsAt(i - 1)' = ParamsAt(i - 1)
      BY <2>3, <2>4
    <3> QED
      BY <3>2, <3>3 DEF StepsFromParent
  <2>7. ASSUME rivals = {} \/ e.owner = OwnerAt(1)', e.kind = "optimizer"
        PROVE  StepsFromParent(h + 1)'
    <3>1. h # 0
      BY <2>1, <2>2, <2>7, SyncerAssumption DEF OwnerAt, SyncerAssumption
    <3>2. Trusted(s)
      BY <2>1, <2>5, <2>7, <3>1 DEF Trusted
    <3>3. tensors[s] = ParamsAt(h)
      BY <2>1, <2>2, <2>7, <3>2 DEF ExactInv, Holding
    <3>4. e.from = ParamsAt(h)[e.frag]
      BY <2>1, <2>7, <3>3
    <3>5. ParamsAt(h)' = ParamsAt(h) /\ h + 1 - 1 = h
      BY <2>2, <2>4
    <3> QED
      BY <2>3, <3>4, <3>5 DEF StepsFromParent
  <2>8. e.kind # "optimizer" => StepsFromParent(h + 1)'
    BY <2>3 DEF StepsFromParent
  <2>9. ASSUME NEW i \in 1..(h + 1), rivals = {} \/ log'[i].owner = OwnerAt(1)'
        PROVE  StepsFromParent(i)'
    <3>1. i \in 1..h \/ i = h + 1
      BY <2>2
    <3>2. CASE i \in 1..h
      BY <2>6, <2>9, <3>2
    <3>3. CASE i = h + 1
      BY <2>3, <2>7, <2>8, <2>9, <3>3
    <3> QED
      BY <3>1, <3>2, <3>3
  <2> QED
    BY <2>3, <2>9 DEF RestartStepsFromCommitted
<1> QED
  BY <1>2, RestartSame

LEMMA FullStep ==
    ASSUME FullInv, [Next]_<<rivals, vars>>
    PROVE  FullInv'
<1>1. rivals' = rivals /\ SafeInv'
  BY SafeStep DEF FullInv, Next
<1>2. CASE \E s \in Session : Act(s)
  BY <1>1, <1>2, AloneStep, ExactStep, ExportStep, RestartStep DEF FullInv
<1>3. CASE UNCHANGED <<log, latest, pc, view, tensors, parent>>
  <2>1. UNCHANGED <<log, latest, pc, view, tensors, parent, rivals>>
    BY <1>1, <1>3
  <2>2. Alone' /\ ExactInv' /\ ExportInv'
    BY <2>1 DEF FullInv, Alone, Running, ExactInv, Trusted, Behind, Holding, ExportInv,
                ParamsAt, Produces, HeadSeq, OwnerAt, CursorAt, CountAt
  <2>3. RestartStepsFromCommitted'
    BY <2>1, RestartSame DEF FullInv
  <2> QED
    BY <1>1, <2>2, <2>3 DEF FullInv
<1> QED
  BY <1>2, <1>3 DEF Next, Step, Act, LeaseEnds, exports, vars

LEMMA InitFull == Init => FullInv
<1> SUFFICES ASSUME Init
             PROVE  FullInv
  OBVIOUS
<1>1. SafeInv /\ HasProducers
  BY InitSafe DEF SafeInv
<1>2. HeadSeq = 0 /\ \A s \in Session : pc[s] = "off"
  BY DEF Init, HeadSeq
<1>3. Alone /\ ExactInv /\ ExportInv
  BY <1>2 DEF Alone, Running, ExactInv, Holding, ExportInv
<1>4. RestartStepsFromCommitted
  BY <1>2 DEF RestartStepsFromCommitted
<1> QED
  BY <1>1, <1>3, <1>4 DEF FullInv

LEMMA FullInvariance == Spec => []FullInv
BY InitFull, FullStep, PTL DEF Spec

(* However often a syncer is restarted, and however often rivals fence the  *)
(* first owner off, its optimizer commits start from the parameters their   *)
(* parent prefix determines.                                                *)
THEOREM ExactRecovery == Spec => []RestartStepsFromCommitted
<1>1. FullInv => RestartStepsFromCommitted
  BY DEF FullInv
<1> QED
  BY <1>1, FullInvariance, PTL

(* While a syncer without rivals waits for proposals, latest.json names the *)
(* head and points to its tensors.                                          *)
THEOREM ExportsCurrent == Spec => []LoopExportsHead
<1>1. FullInv => LoopExportsHead
  BY DEF FullInv, ExportInv, LoopExportsHead
<1> QED
  BY <1>1, FullInvariance, PTL

-----------------------------------------------------------------------------
(* The coordination reference at the log of whole runs, with what is proved *)
(* of it; the reference model in the same module does not occur here.       *)
Promised == INSTANCE References_proofs
    WITH Owner <- Session, Request <- 1..MaxLog, NoRequest <- 0,
         MaxEpoch <- MaxLog, MaxEvents <- MaxLog, history <- History, stop <- StopFact,
         Learner <- {}, Offered <- {}, MaxGlobal <- 0, MaxFragment <- 0,
         proposals <- {}, commits <- <<>>, fragments <- {}, consumed <- {},
         decisions <- {}

LEMMA SameReference ==
    /\ Reference!Init => Promised!C!Init
    /\ [Reference!Next]_(Reference!vars) => [Promised!C!Next]_(Promised!C!vars)
    /\ Promised!Promise => /\ Reference!OneOwnerPerEpoch /\ Reference!StopIsFinal
                           /\ Reference!HistoryMonotone
<1>1. Reference!Init => Promised!C!Init
  BY DEF Reference!Init, Promised!C!Init, Reference!NoStop, Promised!C!NoStop
<1>2. [Reference!Next]_(Reference!vars) => [Promised!C!Next]_(Promised!C!vars)
  BY DEF Reference!Next, Reference!vars, Reference!Token, Reference!NoStop,
         Reference!CommitEpochBump, Reference!CommitOptimizer, Reference!CommitStop,
         Reference!Commit, Reference!CommittedRequests, Reference!FencingEpoch,
         Reference!OptimizerCount, Reference!OwnerToken, Reference!HeadOf,
         Reference!NoOwner,
         Promised!C!Next, Promised!C!vars, Promised!C!Token, Promised!C!NoStop,
         Promised!C!CommitEpochBump, Promised!C!CommitOptimizer,
         Promised!C!CommitStop, Promised!C!Commit, Promised!C!CommittedRequests,
         Promised!C!FencingEpoch, Promised!C!OptimizerCount,
         Promised!C!OwnerToken, Promised!C!HeadOf, Promised!C!NoOwner
<1>3. Promised!Promise => /\ Reference!OneOwnerPerEpoch /\ Reference!StopIsFinal
                          /\ Reference!HistoryMonotone
  BY DEF Promised!Promise, Promised!C!OneOwnerPerEpoch, Promised!C!StopIsFinal,
         Promised!C!HistoryMonotone, Reference!OneOwnerPerEpoch,
         Reference!StopIsFinal, Reference!HistoryMonotone
<1> QED
  BY <1>1, <1>2, <1>3

(* What _check_state counts as split brain or stale is never in the log of  *)
(* whole runs: whatever restarts, standbys, revoked leases and lost answers *)
(* do, the events of one epoch have one owner, epochs and optimizer counts  *)
(* never go back, and after a stop only takeovers are committed.            *)
THEOREM PromiseInherited ==
    Spec => [](/\ Reference!OneOwnerPerEpoch /\ Reference!StopIsFinal
               /\ Reference!HistoryMonotone)
<1>1. Promised!C!Spec => []Promised!Promise
  BY Promised!PromiseKept
<1> QED
  BY <1>1, SameReference, Refinement, PTL
     DEF ImplementsReference, Reference!Spec, Promised!C!Spec

-----------------------------------------------------------------------------
(* What a session has committed carries the one epoch its lease granted,    *)
(* and began with its one epoch bump.                                       *)
Bump(i) == log[i].kind = "epoch_bump"

TenureInv ==
    \A i \in 1..HeadSeq :
        /\ log[i].epoch = grant[log[i].owner]
        /\ \E b \in 1..i : log[b].owner = log[i].owner /\ Bump(b)
        /\ \A j \in 1..HeadSeq :
               Bump(i) /\ Bump(j) /\ log[i].owner = log[j].owner => i = j

(* A session takes a lease once, before it commits anything.                *)
LEMMA GrantsStand ==
    ASSUME SafeInv, NEW s \in Session, Act(s), NEW i \in 1..HeadSeq
    PROVE  log[i].owner \in Session /\ grant'[log[i].owner] = grant[log[i].owner]
<1>1. /\ log[i] \in Entry /\ pc[log[i].owner] \notin Before
      /\ grant \in [Session -> Nat]
  BY Types DEF LogInv, HeadSeq
<1>2. log[i].owner \in Session
  BY <1>1 DEF Entry
<1>3. CASE log[i].owner # s
  BY <1>2, <1>3, Bystander
<1>4. CASE log[i].owner = s
  <2>1. ~Acquire(s)
    BY <1>1, <1>4 DEF Acquire, Before
  <2>2. UNCHANGED grant
    BY <2>1 DEF owned, Act, Proceed, Start, Bootstrap, BootstrapExport,
       StandbySeesStop, AcquireRefused, BumpPrepare, BumpCas, BumpLost,
       Activated, FirstExport, LeaveLoop, StepPrepare, StepCas, StepRetry,
       StepIoError, PostCas, Export, FinalSeen, FinalStop, FinalRefused,
       FinalIoError, FinalExport, PublishStop, Crash
  <2> QED
    BY <1>2, <2>2
<1> QED
  BY <1>2, <1>3, <1>4

LEMMA TenureStep ==
    ASSUME SafeInv, TenureInv, NEW s \in Session, Act(s)
    PROVE  TenureInv'
<1>0. /\ log \in Seq(Entry) /\ HeadSeq \in Nat /\ grant \in [Session -> Nat]
      /\ TypeOK
  BY Types
<1>1. ASSUME NEW i \in 1..HeadSeq
      PROVE  /\ log[i].owner \in Session /\ grant'[log[i].owner] = log[i].epoch
             /\ \E b \in 1..i : log[b].owner = log[i].owner /\ Bump(b)
             /\ \A j \in 1..HeadSeq :
                    Bump(i) /\ Bump(j) /\ log[i].owner = log[j].owner => i = j
  BY <1>1, GrantsStand DEF TenureInv
<1>2. CASE log' = log
  <2>1. HeadSeq' = HeadSeq
    BY <1>2 DEF HeadSeq
  <2> QED
    BY <1>1, <1>2, <2>1 DEF TenureInv, Bump
<1>3. ASSUME NEW e, log' = Append(log, e), e.owner = s, e.epoch = grant'[s],
             \/ e.kind = "epoch_bump" /\ \A i \in 1..HeadSeq : log[i].owner # s
             \/ e.kind # "epoch_bump" /\ HeadSeq # 0 /\ log[HeadSeq].owner = s
      PROVE  TenureInv'
  <2>1. /\ HeadSeq' = HeadSeq + 1 /\ log'[HeadSeq + 1] = e
        /\ \A i \in 1..HeadSeq : log'[i] = log[i]
    BY <1>0, <1>3, Grown
  <2>2. \A i \in 1..(HeadSeq + 1) : i \in 1..HeadSeq \/ i = HeadSeq + 1
    BY <1>0
  <2>3. \A i \in 1..(HeadSeq + 1) : log'[i].epoch = grant'[log'[i].owner]
    BY <1>1, <1>3, <2>1, <2>2
  <2>4. ASSUME NEW i \in 1..(HeadSeq + 1)
        PROVE  \E b \in 1..i : log'[b].owner = log'[i].owner /\ log'[b].kind = "epoch_bump"
    <3>1. CASE i \in 1..HeadSeq
      <4>1. PICK b \in 1..i : log[b].owner = log[i].owner /\ Bump(b)
        BY <1>1, <3>1
      <4>2. log'[b] = log[b] /\ log'[i] = log[i]
        BY <1>0, <2>1, <3>1
      <4> QED
        BY <4>1, <4>2 DEF Bump
    <3>2. CASE i = HeadSeq + 1 /\ e.kind = "epoch_bump"
      BY <1>0, <2>1, <3>2
    <3>3. CASE i = HeadSeq + 1 /\ e.kind # "epoch_bump"
      <4>1. HeadSeq \in 1..HeadSeq /\ log[HeadSeq].owner = s
        BY <1>0, <1>3, <3>3
      <4>2. PICK b \in 1..HeadSeq : log[b].owner = s /\ Bump(b)
        BY <1>1, <4>1
      <4>3. log'[b] = log[b] /\ b \in 1..i
        BY <1>0, <2>1, <3>3
      <4> QED
        BY <1>3, <2>1, <3>3, <4>2, <4>3 DEF Bump
    <3> QED
      BY <2>2, <3>1, <3>2, <3>3
  <2>5. ASSUME NEW i \in 1..(HeadSeq + 1), NEW j \in 1..(HeadSeq + 1),
               log'[i].kind = "epoch_bump", log'[j].kind = "epoch_bump",
               log'[i].owner = log'[j].owner
        PROVE  i = j
    <3>1. CASE i \in 1..HeadSeq /\ j \in 1..HeadSeq
      BY <1>1, <2>1, <2>5, <3>1 DEF Bump
    <3>2. CASE i = HeadSeq + 1 \/ j = HeadSeq + 1
      BY <1>3, <2>1, <2>2, <2>5, <3>2
    <3> QED
      BY <2>2, <3>1, <3>2
  <2> QED
    BY <2>1, <2>3, <2>4, <2>5 DEF TenureInv, Bump
<1>4. CASE log' # log
  <2>1. CASE /\ pc[s] = "bumping"
             /\ CommitEntry(s, "epoch_bump", grant[s], 0, 0)
    <3>1. grant' = grant
      BY <2>1, <1>0 DEF owned, CommitEntry, Act, Proceed, Start, Bootstrap, MayStart,
         BootstrapExport, StandbySeesStop, Acquire, AcquireRefused, BumpPrepare, BumpCas,
         BumpLost, Activated, FirstExport, LeaveLoop, StepPrepare, StepCas, StepRetry,
         StepIoError, PostCas, Export, FinalSeen, FinalStop, FinalRefused,
         FinalIoError, FinalExport, PublishStop, Crash
    <3>2. \A i \in 1..HeadSeq : log[i].owner # s
      BY <2>1, Types DEF LogInv, Before
    <3> QED
      BY <1>3, <2>1, <3>1, <3>2 DEF CommitEntry
  <2>2. ASSUME NEW kind, NEW f, NEW p, kind # "epoch_bump",
               CommitEntry(s, kind, token[s], f, p),
               OwnerAt(HeadSeq) = s, EpochAt(HeadSeq) = token[s]
        PROVE  TenureInv'
    <3>1. HeadSeq # 0 /\ log[HeadSeq].owner = s /\ log[HeadSeq].epoch = token[s]
      BY <2>2, SyncerAssumption DEF OwnerAt, EpochAt, SyncerAssumption
    <3>2. HeadSeq \in 1..HeadSeq
      BY <1>0, <3>1
    <3>3. grant'[s] = token[s]
      BY <1>1, <3>1, <3>2
    <3> QED
      BY <1>3, <2>2, <3>1, <3>3 DEF CommitEntry
  <2>3. CASE pc[s] = "prepared" /\ StepSwap(s)
    <3>1. OwnerAt(HeadSeq) = s /\ EpochAt(HeadSeq) = token[s]
      BY <2>3 DEF SafeInv, ViewInv, MaySwap, StepSwap
    <3> QED
      BY <2>2, <2>3, <3>1 DEF StepSwap
  <2>4. CASE IsHeadOwner(s) /\ CommitEntry(s, "stop", token[s], 0, 0)
    BY <2>2, <2>4 DEF IsHeadOwner
  <2> QED
    BY <1>0, <1>4, <2>1, <2>3, <2>4, LogStep
<1> QED
  BY <1>2, <1>4

LEMMA TenureInvariance == Spec => []TenureInv
<1>1. Init => TenureInv
  BY DEF Init, TenureInv, HeadSeq
<1>2. SafeInv /\ TenureInv /\ [Next]_<<rivals, vars>> => TenureInv'
  <2> SUFFICES ASSUME SafeInv, TenureInv, [Next]_<<rivals, vars>> PROVE TenureInv'
    OBVIOUS
  <2>1. CASE \E s \in Session : Act(s)
    BY <2>1, TenureStep
  <2>2. CASE log' = log /\ grant' = grant
    BY <2>2 DEF TenureInv, Bump, HeadSeq
  <2> QED
    BY <2>1, <2>2 DEF Next, Step, Act, LeaseEnds, owned, vars
<1> QED
  BY <1>1, <1>2, SafeInvariance, PTL DEF Spec

(* Fencing is for good: the commits of a session are one stretch of the log *)
(* that begins with its only epoch bump, so one that has been fenced off,   *)
(* whatever it still believes, retries or stops, never commits again.       *)
OneTenure ==
    \A i, j \in 1..HeadSeq : log[i].owner = log[j].owner =>
        /\ \A k \in i..j : log[k].owner = log[i].owner
        /\ Bump(i) /\ Bump(j) => i = j
        /\ Bump(j) => j <= i

THEOREM FencedForGood == Spec => []OneTenure
<1>1. SafeInv /\ TenureInv /\ Reference!OneOwnerPerEpoch /\ Reference!HistoryMonotone
        => OneTenure
  <2> SUFFICES ASSUME SafeInv, TenureInv, Reference!OneOwnerPerEpoch,
                      Reference!HistoryMonotone,
                      NEW i \in 1..HeadSeq, NEW j \in 1..HeadSeq,
                      log[i].owner = log[j].owner
               PROVE  /\ \A k \in i..j : log[k].owner = log[i].owner
                      /\ Bump(i) /\ Bump(j) => i = j
                      /\ Bump(j) => j <= i
    BY DEF OneTenure
  <2>0. HeadSeq \in Nat /\ \A k \in 1..HeadSeq : log[k].epoch \in Nat
    <3>1. HeadSeq \in Nat /\ MaxLog \in Nat /\ \A k \in 1..HeadSeq : log[k] \in Entry
      BY Types DEF HeadSeq
    <3> QED
      BY <3>1 DEF Entry
  <2>1. /\ Len(History) = HeadSeq
        /\ \A k \in 1..HeadSeq : /\ History[k].epoch = log[k].epoch
                                 /\ History[k].owner = log[k].owner
    BY <2>0 DEF History
  <2>2. \A m, n \in 1..HeadSeq :
            /\ m <= n => log[m].epoch <= log[n].epoch
            /\ log[m].epoch = log[n].epoch => log[m].owner = log[n].owner
    BY <2>1 DEF Reference!OneOwnerPerEpoch, Reference!HistoryMonotone
  <2>3. log[i].epoch = log[j].epoch
    BY DEF TenureInv
  <2>4. ASSUME NEW k \in i..j PROVE log[k].owner = log[i].owner
    <3>1. k \in 1..HeadSeq /\ i <= k /\ k <= j
      BY <2>0
    <3>2. log[k].epoch = log[i].epoch
      BY <2>0, <2>2, <2>3, <3>1
    <3> QED
      BY <2>2, <3>1, <3>2
  <2>5. Bump(j) => j <= i
    <3>1. PICK b \in 1..i : log[b].owner = log[i].owner /\ Bump(b)
      BY DEF TenureInv
    <3>2. b \in 1..HeadSeq /\ b <= i
      BY <2>0
    <3>3. Bump(j) => b = j
      BY <3>1, <3>2 DEF TenureInv
    <3> QED
      BY <3>2, <3>3
  <2>6. Bump(i) /\ Bump(j) => i = j
    BY DEF TenureInv
  <2> QED
    BY <2>4, <2>5, <2>6
<1> QED
  BY <1>1, SafeInvariance, TenureInvariance, PromiseInherited, PTL

(* The end of a run is final: once a stop is committed no session commits   *)
(* anything, and stop.json, once there, stays as it is.                     *)
EndIsFinal ==
    [][StoppedAt(HeadSeq) => /\ log' = log
                             /\ stopFile # 0 => stopFile' = stopFile]_<<rivals, vars>>

THEOREM RunEndIsFinal == Spec => EndIsFinal
<1>1. SafeInv /\ SafeInv' /\ [Next]_<<rivals, vars>> =>
          [StoppedAt(HeadSeq) => /\ log' = log
                                 /\ stopFile # 0 => stopFile' = stopFile]_<<rivals, vars>>
  <2> SUFFICES ASSUME SafeInv, SafeInv', Next, StoppedAt(HeadSeq)
               PROVE  log' = log /\ (stopFile # 0 => stopFile' = stopFile)
    OBVIOUS
  <2>1. CASE LeaseEnds
    BY <2>1 DEF LeaseEnds, exports
  <2>2. ASSUME NEW s \in Session, Act(s)
        PROVE  log' = log /\ (stopFile # 0 => stopFile' = stopFile)
    <3>1. log' = log
      BY <2>2, HeadStep
    <3>2. HeadSeq' = HeadSeq
      BY <3>1 DEF HeadSeq
    <3>3. stopFile' = stopFile \/ (PublishStop(s) /\ stopFile' # 0)
      <4>1. stopFile' = stopFile \/ PublishStop(s)
        BY <2>2, Types, SharedStep
      <4>2. PublishStop(s) => stopFile' # 0
        BY DEF PublishStop, SafeInv, ViewInv, StoppedAt
      <4> QED
        BY <4>1, <4>2
    <3>4. (stopFile # 0 => stopFile = HeadSeq) /\ (stopFile' # 0 => stopFile' = HeadSeq')
      BY DEF SafeInv, StopIsExported
    <3> QED
      BY <3>1, <3>2, <3>3, <3>4
  <2> QED
    BY <2>1, <2>2 DEF Next, Step, Act
<1> QED
  BY <1>1, SafeInvariance, PTL DEF Spec, EndIsFinal

-----------------------------------------------------------------------------
(* The step budget and the loop.  A process decides on the view it last     *)
(* built, not on the head: the view is the head's as long as the log knows  *)
(* the session as its owner.                                                *)
Viewing == {"firstExport", "loop", "export"}

CurrentView(s) ==
    /\ pc[s] \in Viewing /\ OwnerAt(HeadSeq) = s => view[s] = HeadSeq
    /\ pc[s] = "prepared" =>
           /\ view[s] = parent[s] /\ CountAt(parent[s]) < StopAfter
           /\ OwnerAt(HeadSeq) = s => HeadSeq = parent[s]
    /\ pc[s] = "committed" =>
           /\ view[s] = parent[s] /\ parent[s] < HeadSeq
           /\ CountAt(parent[s] + 1) = CountAt(parent[s]) + 1
           /\ OwnerAt(HeadSeq) = s => HeadSeq = parent[s] + 1

(* Restarts, standbys, retries and takeovers together make no more outer    *)
(* steps than stop_after_outer_steps, and each step is of the fragment      *)
(* whose turn it is.                                                        *)
WithinBudget ==
    /\ \A n \in 0..HeadSeq : CountAt(n) <= StopAfter
    /\ \A i \in 1..HeadSeq : log[i].kind = "optimizer" => log[i].frag = CursorAt(i - 1)

BudgetInv == WithinBudget /\ \A s \in Session : CurrentView(s)

LEMMA ArrivalStep ==
    ASSUME TypeOK, NEW s \in Session, Act(s)
    PROVE  /\ pc'[s] \in Viewing => /\ log' = log
                                    /\ Rebuild(s) \/ (pc[s] \in Viewing /\ view' = view)
           /\ pc'[s] = "committed" => StepCas(s)
BY SMTT(60) DEF TypeOK, Viewing, Phase, Goto, Act, Proceed, Start, Bootstrap,
       BootstrapExport, StandbySeesStop, Acquire, AcquireRefused, BumpPrepare,
       BumpCas, BumpLost, Activated, FirstExport, LeaveLoop, StepPrepare,
       StepCas, StepRetry, StepIoError, PostCas, Export, FinalSeen, FinalStop,
       FinalRefused, FinalIoError, FinalExport, PublishStop, Crash

LEMMA OwnViewStep ==
    ASSUME SafeInv, NEW s \in Session, CurrentView(s), Act(s)
    PROVE  CurrentView(s)'
<1>1. /\ HeadSeq \in Nat /\ log \in Seq(Entry) /\ pc \in [Session -> Phase]
      /\ view \in [Session -> 0..MaxLog] /\ parent \in [Session -> 0..MaxLog]
      /\ view[s] \in 0..HeadSeq /\ parent[s] \in 0..HeadSeq
  BY Types DEF SafeInv, ViewInv
<1>2. ASSUME pc'[s] \in Viewing, OwnerAt(HeadSeq)' = s
      PROVE  view'[s] = HeadSeq'
  <2>1. log' = log /\ (Rebuild(s) \/ (pc[s] \in Viewing /\ view' = view))
    BY <1>2, Types, ArrivalStep
  <2>2. HeadSeq' = HeadSeq /\ OwnerAt(HeadSeq) = s
    BY <1>2, <2>1, SameHead
  <2> QED
    BY <1>1, <2>1, <2>2 DEF Rebuild, CurrentView
<1>3. ASSUME pc'[s] = "prepared"
      PROVE  /\ view'[s] = parent'[s] /\ CountAt(parent[s])' < StopAfter
             /\ HeadSeq' = parent'[s]
  <2>1. StepPrepare(s)
    BY <1>3, Types, EntryStep
  <2>2. /\ pc[s] = "loop" /\ MayStep(s) /\ parent'[s] = HeadSeq
        /\ view' = view /\ log' = log /\ IsHeadOwner(s)
    BY <1>1, <1>3, <2>1 DEF StepPrepare, Goto
  <2>3. HeadSeq' = HeadSeq
    BY <2>2, SameHead
  <2>4. view[s] = HeadSeq
    BY <2>2 DEF IsHeadOwner, CurrentView, Viewing
  <2>5. CountAt(parent[s])' = CountAt(view[s])
    BY <2>2, <2>4 DEF CountAt
  <2> QED
    BY <2>2, <2>3, <2>4, <2>5 DEF MayStep
<1>4. ASSUME pc'[s] = "committed"
      PROVE  /\ view'[s] = parent'[s] /\ HeadSeq' = parent'[s] + 1
             /\ CountAt(parent[s] + 1)' = CountAt(parent[s])' + 1
  <2>1. StepCas(s)
    BY <1>4, Types, ArrivalStep
  <2>2. /\ pc[s] = "prepared" /\ HeadSeq = parent[s]
        /\ view' = view /\ parent' = parent
        /\ \E e : log' = Append(log, e) /\ e.count = CountAt(HeadSeq) + 1
    BY <2>1 DEF StepCas, StepSwap, CommitEntry
  <2>3. PICK e : log' = Append(log, e) /\ e.count = CountAt(HeadSeq) + 1
    BY <2>2
  <2>4. HeadSeq' = HeadSeq + 1 /\ log'[HeadSeq + 1] = e
    BY <1>1, <2>3, Grown
  <2>5. PICK h \in 0..HeadSeq : h = HeadSeq
    BY <1>1
  <2>6. CountAt(h)' = CountAt(h)
    BY Prefixes
  <2>7. log'[h + 1].count = CountAt(h)' + 1
    <3>1. log'[h + 1] = e /\ e.count = CountAt(h) + 1
      BY <2>3, <2>4, <2>5
    <3> QED
      BY <2>6, <3>1
  <2>8. CountAt(h + 1)' = CountAt(h)' + 1
    <3>1. h + 1 # 0
      BY <1>1
    <3> QED
      BY <2>7, <3>1 DEF CountAt
  <2>9. parent'[s] = h /\ view'[s] = h /\ HeadSeq' = h + 1
    BY <2>2, <2>4, <2>5 DEF CurrentView
  <2>10. /\ CountAt(parent[s])' = CountAt(h)'
         /\ CountAt(parent[s] + 1)' = CountAt(h + 1)'
    BY <2>9 DEF CountAt
  <2> QED
    BY <2>8, <2>9, <2>10
<1>5. HeadSeq' \in Nat /\ parent'[s] \in Nat
  <2>1. HeadSeq' \in Nat
    BY Prefixes
  <2>2. parent' \in [Session -> 0..MaxLog] /\ MaxLog \in Nat
    BY Types, TypeStep DEF TypeOK
  <2> QED
    BY <2>1, <2>2
<1> QED
  BY <1>2, <1>3, <1>4, <1>5 DEF CurrentView

LEMMA OthersViewStep ==
    ASSUME SafeInv, NEW s \in Session, NEW t \in Session \ {s}, CurrentView(t), Act(s)
    PROVE  CurrentView(t)'
<1>1. /\ HeadSeq \in Nat /\ HeadSeq' \in Nat /\ HeadSeq <= HeadSeq'
      /\ view[t] \in 0..HeadSeq /\ parent[t] \in 0..HeadSeq
  BY Types, Prefixes DEF SafeInv, ViewInv
<1>2. view'[t] = view[t] /\ parent'[t] = parent[t] /\ pc'[t] = pc[t]
  BY Bystander
<1>3. /\ OwnerAt(HeadSeq)' = t => OwnerAt(HeadSeq) = t /\ HeadSeq' = HeadSeq
  BY HeadStep, SameHead
<1>4. PICK p \in 0..HeadSeq : p = parent[t]
  BY <1>1
<1>5. CountAt(p)' = CountAt(p) /\ (p < HeadSeq => CountAt(p + 1)' = CountAt(p + 1))
  <2>1. p < HeadSeq => p + 1 \in 0..HeadSeq
    BY <1>1
  <2> QED
    BY <2>1, Prefixes
<1>6. CountAt(parent[t])' = CountAt(p)' /\ CountAt(parent[t] + 1)' = CountAt(p + 1)'
  BY <1>2, <1>4 DEF CountAt
<1> QED
  BY <1>1, <1>2, <1>3, <1>4, <1>5, <1>6 DEF CurrentView

LEMMA BudgetStep ==
    ASSUME SafeInv, BudgetInv, NEW s \in Session, Act(s)
    PROVE  WithinBudget'
<1>1. /\ HeadSeq \in Nat /\ log \in Seq(Entry) /\ StopAfter \in Nat
      /\ \A i \in 1..HeadSeq : log'[i] = log[i]
      /\ \A n \in 0..HeadSeq : CountAt(n) \in Nat /\ CountAt(n)' = CountAt(n)
                               /\ CursorAt(n)' = CursorAt(n)
  BY Types, Prefixes, Numbers, SyncerAssumption DEF SyncerAssumption
<1>2. /\ \A n \in 0..HeadSeq : CountAt(n)' <= StopAfter
      /\ \A i \in 1..HeadSeq : log'[i].kind = "optimizer" => log'[i].frag = CursorAt(i - 1)'
  <2>1. \A i \in 1..HeadSeq : i - 1 \in 0..HeadSeq
    BY <1>1
  <2> QED
    BY <1>1, <2>1 DEF BudgetInv, WithinBudget
<1>3. CASE log' = log
  <2>1. HeadSeq' = HeadSeq
    BY <1>3, SameHead
  <2> QED
    BY <1>2, <2>1 DEF WithinBudget
<1>4. CASE log' # log
  <2>1. PICK e \in Entry :
            /\ log' = Append(log, e)
            /\ e.count = CountAt(HeadSeq) + (IF e.kind = "optimizer" THEN 1 ELSE 0)
            /\ e.kind = "optimizer" => /\ pc[s] = "prepared" /\ HeadSeq = parent[s]
                                       /\ e.frag = CursorAt(view[s])
    BY <1>4, Justified
  <2>2. PICK h \in Nat : h = HeadSeq
    BY <1>1
  <2>3. /\ HeadSeq' = h + 1 /\ log'[h + 1] = e
        /\ h + 1 # 0 /\ h + 1 - 1 = h
    <3>1. HeadSeq' = HeadSeq + 1 /\ log'[HeadSeq + 1] = e
      BY <1>1, <2>1, Grown
    <3> QED
      BY <2>2, <3>1
  <2>4. e.kind = "optimizer" => CountAt(h) < StopAfter /\ e.frag = CursorAt(h)
    BY <2>1, <2>2 DEF BudgetInv, CurrentView
  <2>5. CountAt(h + 1)' = e.count
    BY <2>3 DEF CountAt
  <2>6. e.count <= StopAfter
    BY <1>1, <2>1, <2>2, <2>4 DEF BudgetInv, WithinBudget
  <2>7. \A n \in 0..(h + 1) : CountAt(n)' <= StopAfter
    <3>1. \A n \in 0..(h + 1) : n \in 0..h \/ n = h + 1
      BY <2>2
    <3> QED
      BY <1>2, <2>2, <2>5, <2>6, <3>1
  <2>8. ASSUME NEW i \in 1..(h + 1), log'[i].kind = "optimizer"
        PROVE  log'[i].frag = CursorAt(i - 1)'
    <3>1. i \in 1..h \/ i = h + 1
      OBVIOUS
    <3>2. CASE i \in 1..h
      BY <1>2, <2>2, <2>8, <3>2
    <3>3. CASE i = h + 1
      BY <1>1, <2>2, <2>3, <2>4, <2>8, <3>3
    <3> QED
      BY <3>1, <3>2, <3>3
  <2> QED
    BY <2>3, <2>7, <2>8 DEF WithinBudget
<1> QED
  BY <1>3, <1>4

LEMMA BudgetInvariance == Spec => []BudgetInv
<1>1. Init => BudgetInv
  <2> SUFFICES ASSUME Init PROVE BudgetInv
    OBVIOUS
  <2>1. HeadSeq = 0 /\ \A s \in Session : pc[s] = "off"
    BY DEF Init, HeadSeq
  <2>2. ASSUME NEW s \in Session PROVE CurrentView(s)
    <3>1. pc[s] \notin Viewing /\ pc[s] # "prepared" /\ pc[s] # "committed"
      BY <2>1 DEF Viewing
    <3> QED
      BY <3>1 DEF CurrentView
  <2>3. WithinBudget
    BY <2>1, SyncerAssumption DEF WithinBudget, CountAt, SyncerAssumption
  <2> QED
    BY <2>2, <2>3 DEF BudgetInv
<1>2. SafeInv /\ BudgetInv /\ [Next]_<<rivals, vars>> => BudgetInv'
  <2> SUFFICES ASSUME SafeInv, BudgetInv, [Next]_<<rivals, vars>> PROVE BudgetInv'
    OBVIOUS
  <2>1. ASSUME NEW s \in Session, Act(s) PROVE BudgetInv'
    <3>1. \A t \in Session : CurrentView(t)'
      BY <2>1, OwnViewStep, OthersViewStep DEF BudgetInv
    <3> QED
      BY <2>1, <3>1, BudgetStep DEF BudgetInv
  <2>2. CASE UNCHANGED <<log, pc, view, parent>>
    BY <2>2 DEF BudgetInv, WithinBudget, CurrentView, HeadSeq, CountAt, CursorAt, OwnerAt
  <2> QED
    BY <2>1, <2>2 DEF Next, Step, Act, LeaseEnds, vars
<1> QED
  BY <1>1, <1>2, SafeInvariance, PTL DEF Spec

THEOREM BudgetKept == Spec => []WithinBudget
<1>1. BudgetInv => WithinBudget
  BY DEF BudgetInv
<1> QED
  BY <1>1, BudgetInvariance, PTL

(* The safety half of LoopEnds.  A session that finds its swap lost, or     *)
(* another commit after its own, has been fenced off, and so for good: its  *)
(* retry ends with the next selection.  Each pass through the loop that     *)
(* exports has counted one step of the budget, since the view of the last.  *)
ConflictIsFencing ==
    \A s \in Session :
        \/ pc[s] = "prepared" /\ HeadSeq # parent[s]
        \/ pc[s] = "committed" /\ HeadSeq # parent[s] + 1
        => OwnerAt(HeadSeq) # s /\ ~IsHeadOwner(s)

PassesCount ==
    [][\A s \in Session :
           pc[s] = "committed" /\ pc'[s] = "export" =>
               CountAt(view[s])' = CountAt(view[s]) + 1 /\ CountAt(view[s])' <= StopAfter
      ]_<<rivals, vars>>

THEOREM LoopGoesForward == Spec => []ConflictIsFencing /\ PassesCount
<1>1. BudgetInv => ConflictIsFencing
  BY DEF BudgetInv, CurrentView, ConflictIsFencing, IsHeadOwner
<1>2. SafeInv /\ BudgetInv /\ [Next]_<<rivals, vars>> =>
          [\A s \in Session :
               pc[s] = "committed" /\ pc'[s] = "export" =>
                   CountAt(view[s])' = CountAt(view[s]) + 1 /\ CountAt(view[s])' <= StopAfter
          ]_<<rivals, vars>>
  <2> SUFFICES ASSUME SafeInv, BudgetInv, [Next]_<<rivals, vars>>,
                      NEW s \in Session, pc[s] = "committed", pc'[s] = "export"
               PROVE  CountAt(view[s])' = CountAt(view[s]) + 1
                      /\ CountAt(view[s])' <= StopAfter
    OBVIOUS
  <2>1. PostCas(s)
    <3>1. PICK t \in Session : Act(t)
      BY DEF Next, Step, Act, LeaseEnds, vars
    <3>2. Act(s)
      BY <3>1, Bystander
    <3> QED
      BY <3>2, Types
         DEF Act, Proceed, Start, MayStart, Bootstrap, BootstrapExport, StandbySeesStop,
             Acquire, AcquireRefused, BumpPrepare, BumpCas, BumpLost, Activated,
             FirstExport, LeaveLoop, StepPrepare, StepCas, StepRetry, StepIoError,
             Export, FinalSeen, FinalStop, FinalRefused, FinalIoError, FinalExport,
             PublishStop, Crash, Goto
  <2>2. view' = [view EXCEPT ![s] = HeadSeq] /\ log' = log /\ HeadSeq = parent[s] + 1
    BY <2>1, Types DEF PostCas, Rebuild, Goto
  <2>3. HeadSeq \in Nat /\ view'[s] = parent[s] + 1
    BY <2>2, Types
  <2>4. view[s] = parent[s] /\ CountAt(parent[s] + 1) = CountAt(parent[s]) + 1
    BY DEF BudgetInv, CurrentView
  <2>5. CountAt(view[s])' = CountAt(HeadSeq)
    BY <2>2, <2>3 DEF CountAt
  <2>6. CountAt(HeadSeq) <= StopAfter
    BY <2>3 DEF BudgetInv, WithinBudget
  <2> QED
    BY <2>2, <2>4, <2>5, <2>6
<1> QED
  BY <1>1, <1>2, SafeInvariance, BudgetInvariance, PTL DEF Spec, PassesCount

-----------------------------------------------------------------------------
(* The exports. *)
LatestInv ==
    /\ latest.version <= HeadSeq
    /\ \A s \in Session : pc[s] = "bootstrapped" => rivals = {} /\ view[s] = HeadSeq

LEMMA PublishStep ==
    ASSUME TypeOK, NEW s \in Session, Act(s)
    PROVE  /\ \/ UNCHANGED latest
              \/ /\ PublishLatest(s) /\ log' = log
                 /\ \/ pc[s] = "bootstrapped"
                    \/ pc[s] \in {"firstExport", "export"} /\ pc'[s] = "loop"
                    \/ pc[s] = "finalExport" /\ StoppedAt(view[s])
           /\ pc'[s] = "bootstrapped" => Bootstrap(s)
BY SMTT(60) DEF TypeOK, exports, Phase, Goto, Act, Proceed, Start, Bootstrap,
       BootstrapExport, StandbySeesStop, Acquire, AcquireRefused, BumpPrepare,
       BumpCas, BumpLost, Activated, FirstExport, LeaveLoop, StepPrepare,
       StepCas, StepRetry, StepIoError, PostCas, Export, FinalSeen, FinalStop,
       FinalRefused, FinalIoError, FinalExport, PublishStop, Crash

LEMMA LatestStep ==
    ASSUME FullInv, LatestInv, NEW s \in Session, Act(s), rivals' = rivals
    PROVE  LatestInv'
<1>0. SafeInv /\ Alone /\ TypeOK
  BY Types DEF FullInv
<1>1. /\ HeadSeq \in Nat /\ HeadSeq' \in Nat /\ HeadSeq <= HeadSeq'
      /\ view[s] \in Nat /\ view[s] <= HeadSeq /\ latest.version \in Nat
      /\ view \in [Session -> 0..MaxLog]
  <2>1. HeadSeq \in Nat /\ HeadSeq' \in Nat /\ HeadSeq <= HeadSeq'
    BY <1>0, Prefixes
  <2>2. view[s] <= HeadSeq
    BY <1>0 DEF SafeInv, ViewInv
  <2>3. view \in [Session -> 0..MaxLog] /\ latest.version \in Nat
    BY <1>0, Types
  <2> QED
    BY <2>1, <2>2, <2>3
<1>2. latest'.version <= HeadSeq'
  <2>1. latest' = latest \/ latest'.version = view[s]
    BY <1>0, PublishStep DEF PublishLatest
  <2> QED
    BY <1>1, <2>1 DEF LatestInv
<1>3. ASSUME NEW t \in Session, pc'[t] = "bootstrapped"
      PROVE  rivals' = {} /\ view'[t] = HeadSeq'
  <2>1. CASE t = s
    <3>1. Bootstrap(s)
      BY <1>0, <1>3, <2>1, PublishStep
    <3>2. rivals = {} /\ view'[s] = HeadSeq /\ log' = log
      BY <1>1, <3>1 DEF Bootstrap, Rebuild
    <3> QED
      BY <2>1, <3>2, SameHead
  <2>2. CASE t # s
    <3>1. pc[t] = "bootstrapped"
      BY <1>0, <1>3, <2>2, Bystander
    <3>2. rivals = {}
      BY <3>1 DEF LatestInv
    <3>3. Running(t)'
      BY <1>3 DEF Running
    <3> QED
      BY <1>0, <2>2, <3>2, <3>3, Sole
  <2> QED
    BY <2>1, <2>2
<1> QED
  BY <1>2, <1>3 DEF LatestInv

LEMMA LatestInvariance == Spec => []LatestInv
<1>1. Init => LatestInv
  BY DEF Init, LatestInv, HeadSeq
<1>2. FullInv /\ LatestInv /\ [Next]_<<rivals, vars>> => LatestInv'
  <2> SUFFICES ASSUME FullInv, LatestInv, [Next]_<<rivals, vars>> PROVE LatestInv'
    OBVIOUS
  <2>1. CASE \E s \in Session : Act(s)
    BY <2>1, LatestStep DEF Next, vars
  <2>2. CASE UNCHANGED <<rivals, log, latest, pc, view>>
    BY <2>2 DEF LatestInv, HeadSeq
  <2> QED
    BY <2>1, <2>2 DEF Next, Step, Act, LeaseEnds, exports, vars
<1> QED
  BY <1>1, <1>2, FullInvariance, PTL DEF Spec

(* latest.json goes back to an older commit only by the export a syncer was *)
(* about to make when its rival fenced it off; where processes follow one   *)
(* another, whatever crashes between swap and export and however often a    *)
(* bootstrap is repeated, the version learners see never falls.             *)
ExportsForward ==
    [][ \/ latest'.version >= latest.version
        \/ rivals # {} /\ \E s \in Session :
               /\ pc[s] \in {"firstExport", "export"} /\ pc'[s] = "loop"
               /\ latest'.version = view[s] /\ OwnerAt(HeadSeq) # s ]_<<rivals, vars>>

THEOREM ExportsGoForward == Spec => ExportsForward
<1>1. FullInv /\ BudgetInv /\ LatestInv /\ [Next]_<<rivals, vars>> =>
          [ \/ latest'.version >= latest.version
            \/ rivals # {} /\ \E s \in Session :
                   /\ pc[s] \in {"firstExport", "export"} /\ pc'[s] = "loop"
                   /\ latest'.version = view[s] /\ OwnerAt(HeadSeq) # s ]_<<rivals, vars>>
  <2> SUFFICES ASSUME FullInv, BudgetInv, LatestInv, Next,
                      ~(latest'.version >= latest.version)
               PROVE  rivals # {} /\ \E s \in Session :
                          /\ pc[s] \in {"firstExport", "export"} /\ pc'[s] = "loop"
                          /\ latest'.version = view[s] /\ OwnerAt(HeadSeq) # s
    OBVIOUS
  <2>1. SafeInv /\ TypeOK /\ HeadSeq \in Nat /\ latest.version \in Nat
    BY Types DEF FullInv
  <2>2. latest' # latest
    BY <2>1
  <2>3. PICK s \in Session : Act(s)
    BY <2>2 DEF Next, Step, Act, LeaseEnds, exports
  <2>4. /\ latest'.version = view[s] /\ view[s] # HeadSeq
        /\ \/ pc[s] = "bootstrapped"
           \/ pc[s] \in {"firstExport", "export"} /\ pc'[s] = "loop"
           \/ pc[s] = "finalExport" /\ StoppedAt(view[s])
    <3>1. latest'.version = view[s]
      BY <2>1, <2>2, <2>3, PublishStep DEF PublishLatest
    <3>2. view[s] # HeadSeq
      BY <2>1, <3>1 DEF LatestInv
    <3> QED
      BY <2>1, <2>2, <2>3, <3>1, <3>2, PublishStep
  <2>5. pc[s] # "bootstrapped"
    BY <2>4 DEF LatestInv
  <2>6. ~StoppedAt(view[s])
    <3>1. view[s] \in 0..HeadSeq
      BY <2>1, Types DEF SafeInv, ViewInv
    <3> QED
      BY <2>1, <2>4, <3>1 DEF StoppedAt, SafeInv, LogInv
  <2>7. pc[s] \in {"firstExport", "export"} /\ pc'[s] = "loop"
    BY <2>4, <2>5, <2>6
  <2>8. OwnerAt(HeadSeq) # s
    BY <2>4, <2>7 DEF BudgetInv, CurrentView, Viewing
  <2>9. rivals # {}
    BY <2>4, <2>7 DEF FullInv, ExportInv
  <2> QED
    BY <2>4, <2>7, <2>8, <2>9
<1> QED
  BY <1>1, FullInvariance, BudgetInvariance, LatestInvariance, PTL
     DEF Spec, ExportsForward
=============================================================================
