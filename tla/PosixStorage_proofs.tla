------------------------- MODULE PosixStorage_proofs -------------------------
(***************************************************************************)
(* Proofs about PosixStorage for every set of calls, payloads and requests *)
(* and every bound.                                                        *)
(***************************************************************************)
EXTENDS PosixStorage, TLAPS

USE PosixStorageAssumption

(* Whoever is between lock and unlock holds the lock.                       *)
Exclusive ==
    \A c \in Call : pc[c] \in {"look", "publish", "above", "sync", "unlock"} => lock = c

(* What a call saw when it was admitted still holds when it publishes, and  *)
(* until it has synced what is visible is its own publication.              *)
CurrentAt(c) ==
    /\ pc[c] \in {"publish", "above"} => Admits(args[c])
    /\ pc[c] = "sync" => at[c] = visible /\ visible # 0
                         /\ effects[visible].by = args[c]
    /\ pc[c] \in {"new", "lock", "look", "publish", "above", "sync"} => outcome[c] = "none"
    /\ pc[c] \in {"new", "lock", "look", "publish", "above"} => at[c] = 0

Current == \A c \in Call : CurrentAt(c)

(* The objects one descends from are a chain, and a replacement follows     *)
(* directly on the version it expected.                                     *)
Chain ==
    \A i \in 1..Len(effects) :
        /\ \A j \in effects[i].past : j < i
        /\ \A j, k \in Past(i) : j < k => j \in effects[k].past
        /\ effects[i].by.kind = "replace" =>
              /\ effects[i].by.expected \in effects[i].past
              /\ \A j \in effects[i].past : j <= effects[i].by.expected

(* What a success is about: the call's own effect, or one it repeats.  An   *)
(* effect has one publisher.                                                *)
Success ==
    /\ \A c \in Call :
        outcome[c] # "none" =>
            /\ at[c] # 0
            /\ outcome[c] = "published" \/ args[c].kind = "replace"
                  => effects[at[c]].by = args[c]
            /\ args[c].kind = "replace" /\ args[c].req = NoRequest
                  => outcome[c] = "published"
    /\ \A c, d \in Call :
        /\ at[c] = at[d] /\ at[c] # 0
        /\ outcome[c] # "observed" /\ outcome[d] # "observed"
        => c = d

(* A published success is durable, whether or not its answer arrived,       *)
(* unless a crash took a part of the path that was left.                    *)
Durable ==
    \A c \in Call :
        outcome[c] = "published" /\ gone < at[c] => \A s \in survivors : at[c] \in Past(s)

(* Nothing is found, nor ever will be, below a part that is missing or just *)
(* made, and who made it is about to fsync the directory above.             *)
Rooted == \A i \in 1..Depth : parts[i] \in {"missing", "made"} => survivors = {0}

Making == \A i \in 1..Depth : parts[i] = "made" => \E c \in Call : pc[c] = "above"

(* Only a success is answered.                                              *)
Told == \A c \in Call : pc[c] = "answered" => outcome[c] # "none"

(* A call has the arguments of some method.                                 *)
Called == \A c \in Call : pc[c] # "new" => args[c] \in Memory!Requests

(* The inductive invariant.                                                 *)
IInv ==
    /\ TypeOK /\ Exclusive /\ Current /\ Chain /\ Success /\ Rooted /\ Making /\ Durable
    /\ Told /\ Called

-----------------------------------------------------------------------------
LEMMA InitIInv == Init => IInv
<1> SUFFICES ASSUME Init PROVE IInv
  OBVIOUS
<1>1. TypeOK
  BY DEF Init, TypeOK, NoArgs, Args, Kind, Over
<1>2. Exclusive /\ Current /\ Chain /\ Success /\ Durable /\ Told /\ Called
  BY DEF Init, Exclusive, Current, CurrentAt, Chain, Success, Durable, Told, Called
<1>3. Rooted /\ Making
  BY DEF Init, Rooted, Making
<1> QED BY <1>1, <1>2, <1>3 DEF IInv

(* Every step but a publication, its fsync and a crash leaves the entry and *)
(* its history alone.  Calls of other keys change nothing but the path.     *)
Quiet == UNCHANGED <<effects, visible, survivors>>

Touches(c) == Publish(c) \/ SyncParent(c)

Others == OthersMake \/ OthersSync

Elsewhere ==
    UNCHANGED <<effects, visible, survivors, gone, lock, pc, args, outcome, at, osCrashes>>

LEMMA OthersElsewhere == Others => Elsewhere
BY DEF Others, OthersMake, OthersSync, Elsewhere

LEMMA Steps ==
    ASSUME Next
    PROVE  (\E c \in Call : CallStep(c) /\ (Quiet \/ Touches(c))) \/ Quiet \/ OsCrash
BY OthersElsewhere
DEF Next, CallStep, Touches, Quiet, Begin, Lock, LockTimeout, Admitted, Observed, Refused,
    MakePart, SyncAbove, Fail, Answer, Raise, Die, Others, Elsewhere

LEMMA PastField ==
    ASSUME TypeOK
    PROVE  \A i \in 1..Len(effects) : effects[i].past \in SUBSET (0..MaxEffects)
<1>1. \A i \in 1..Len(effects) : effects[i] \in Effect
  BY DEF TypeOK
<1> QED BY <1>1 DEF Effect

LEMMA PastType ==
    ASSUME TypeOK, NEW v \in 0..Len(effects)
    PROVE  Past(v) \in SUBSET (0..MaxEffects)
BY PastField DEF Past, TypeOK

LEMMA EffectType ==
    ASSUME TypeOK, NEW c \in Call
    PROVE  [by |-> args[c], past |-> Past(visible)] \in Effect
<1>1. args[c] \in Args /\ visible \in 0..Len(effects)
  BY DEF TypeOK
<1>2. Past(visible) \in SUBSET (0..MaxEffects)
  BY <1>1, PastType
<1> QED BY <1>1, <1>2 DEF Effect

(* Facts about one publication, used for every conjunct below.              *)
LEMMA Published ==
    ASSUME TypeOK, NEW c \in Call, Publish(c)
    PROVE  /\ Len(effects) \in Nat /\ Len(effects') = Len(effects) + 1
           /\ effects' \in Seq(Effect)
           /\ visible' = Len(effects) + 1
           /\ effects'[Len(effects) + 1].by = args[c]
           /\ effects'[Len(effects) + 1].past = Past(visible)
           /\ \A i \in 1..Len(effects) : effects'[i] = effects[i]
<1> DEFINE e == [by |-> args[c], past |-> Past(visible)]
<1>1. e \in Effect
  BY EffectType
<1>2. effects' = Append(effects, e) /\ visible' = Len(effects) + 1
  BY DEF Publish
<1> HIDE DEF e
<1>3. effects \in Seq(Effect)
  BY DEF TypeOK
<1>4. /\ Len(effects) \in Nat /\ Len(effects') = Len(effects) + 1
      /\ effects' \in Seq(Effect)
      /\ effects'[Len(effects) + 1] = e
      /\ \A i \in 1..Len(effects) : effects'[i] = effects[i]
  BY <1>1, <1>2, <1>3
<1> QED BY <1>2, <1>4 DEF e

LEMMA TypeStep ==
    ASSUME IInv, Next
    PROVE  TypeOK'
<1> USE DEF IInv
<1>1. CASE OsCrash
  <2>1. /\ osCrashes' \in 0..MaxOsCrashes /\ lock' \in Call \cup {NoCall}
        /\ pc' \in [Call -> {"answered", "raised", "new"}]
        /\ UNCHANGED <<effects, args, outcome, at>> /\ survivors' = {visible'}
    BY <1>1 DEF OsCrash, TypeOK, Over
  <2>2. visible' \in 0..Len(effects) /\ gone' \in 0..Len(effects)
    <3>1. /\ Len(effects) \in Nat /\ 0 \in 0..Len(effects) /\ gone \in 0..Len(effects)
          /\ survivors \in SUBSET (0..Len(effects))
      BY DEF TypeOK
    <3>2. visible' \in survivors \cup {0} /\ gone' \in {gone, Len(effects)}
      BY <1>1 DEF OsCrash, Shows, Loses
    <3> HIDE DEF IInv
    <3> QED BY <3>1, <3>2
  <2>3. parts' \in [1..Depth -> {"missing", "made", "left", "durable"}]
    BY <1>1 DEF OsCrash, Shows, Loses, TypeOK
  <2> QED BY <2>1, <2>2, <2>3 DEF TypeOK, Over
<1>2. ASSUME NEW c \in Call, CallStep(c) PROVE TypeOK'
  <2>1. ASSUME NEW r \in Requests, Begin(c, r) PROVE TypeOK'
    <3>1. r \in Args
      BY <2>1 DEF Requests, Args, Kind, TypeOK
    <3> QED BY <2>1, <3>1 DEF Begin, TypeOK, Over, tree
  <2>2. CASE Lock(c) \/ LockTimeout(c) \/ Admitted(c) \/ Refused(c) \/ Answer(c) \/ Raise(c)
    BY <2>2 DEF Lock, LockTimeout, Admitted, Refused, Answer, Raise, Free, TypeOK, Over, tree
  <2>6. CASE MakePart(c) \/ SyncAbove(c) \/ Fail(c) \/ Die(c)
    <3>1. parts' \in [1..Depth -> {"missing", "made", "left", "durable"}]
      BY <2>6 DEF MakePart, SyncAbove, Fail, Die, Left, TypeOK
    <3>2. pc' \in [Call -> {"lock", "look", "publish", "above", "sync", "unlock"} \cup Over]
      BY <2>6 DEF MakePart, SyncAbove, Fail, Die, TypeOK, Over
    <3>3. lock' \in Call \cup {NoCall}
      BY <2>6 DEF MakePart, SyncAbove, Fail, Die, Free, TypeOK
    <3> QED BY <2>6, <3>1, <3>2, <3>3 DEF MakePart, SyncAbove, Fail, Die, TypeOK
  <2>3. CASE Observed(c)
    BY <2>3 DEF Observed, TypeOK, Over, tree
  <2>4. CASE Publish(c)
    <3>1. Len(effects) + 1 <= MaxEffects /\ visible' \in 0..Len(effects')
      BY <2>4, Published DEF Publish, TypeOK
    <3>2. (\A s \in survivors' : s \in 0..Len(effects')) /\ visible' \in survivors'
      <4>1. survivors \in SUBSET (0..Len(effects)) /\ Len(effects) \in Nat
        BY DEF TypeOK
      <4>2. survivors' = survivors \cup {visible'} /\ visible' = Len(effects) + 1
        BY <2>4 DEF Publish
      <4>3. Len(effects') = Len(effects) + 1
        BY <2>4, Published
      <4> HIDE DEF IInv
      <4> QED BY <4>1, <4>2, <4>3
    <3>3. at' \in [Call -> 0..Len(effects')]
      BY <2>4, <3>1, Published DEF Publish, TypeOK
    <3>4. gone' \in 0..Len(effects') /\ UNCHANGED parts
      BY <2>4, Published DEF Publish, TypeOK, tree
    <3>5. effects' \in Seq(Effect) /\ Len(effects') <= MaxEffects
      BY <2>4, <3>1, Published
    <3>6. /\ pc' \in [Call -> {"lock", "look", "publish", "above", "sync", "unlock"} \cup Over]
          /\ UNCHANGED <<lock, args, outcome, osCrashes>>
      BY <2>4 DEF Publish, TypeOK
    <3> QED BY <3>1, <3>2, <3>3, <3>4, <3>5, <3>6 DEF TypeOK
  <2>5. CASE SyncParent(c)
    BY <2>5 DEF SyncParent, TypeOK, Over, tree
  <2> QED BY <1>2, <2>1, <2>2, <2>3, <2>4, <2>5, <2>6 DEF CallStep
<1>3. CASE Others
  BY <1>3 DEF Others, OthersMake, OthersSync, TypeOK
<1> QED BY <1>1, <1>2, <1>3 DEF Next, Others

LEMMA ExclusiveStep ==
    ASSUME IInv, Next
    PROVE  Exclusive'
<1> USE DEF IInv
<1>1. CASE OsCrash
  BY <1>1 DEF OsCrash, Exclusive, Over, TypeOK
<1>2. ASSUME NEW c \in Call, CallStep(c) PROVE Exclusive'
  <2>1. CASE \E r \in Requests : Begin(c, r)
    BY <2>1 DEF Begin, Exclusive, TypeOK
  <2>2. CASE Lock(c) \/ LockTimeout(c)
    BY <2>2 DEF Lock, LockTimeout, Exclusive, TypeOK
  <2>3. CASE Admitted(c) \/ Observed(c) \/ Refused(c) \/ Fail(c) \/ Publish(c) \/ SyncParent(c)
             \/ MakePart(c) \/ SyncAbove(c)
    BY <2>3 DEF Admitted, Observed, Refused, Fail, Publish, SyncParent, MakePart, SyncAbove,
                Exclusive, TypeOK
  <2>4. CASE Answer(c) \/ Raise(c) \/ Die(c)
    BY <2>4 DEF Answer, Raise, Die, Free, Exclusive, TypeOK
  <2> QED BY <1>2, <2>1, <2>2, <2>3, <2>4 DEF CallStep
<1>3. CASE Others
  BY <1>3, OthersElsewhere DEF Elsewhere, Exclusive
<1> QED BY <1>1, <1>2, <1>3 DEF Next, Others

-----------------------------------------------------------------------------
(* A publication leaves the past of every older object alone, and the new   *)
(* object descends from what was visible.                                   *)
LEMMA PastKept ==
    ASSUME TypeOK, NEW c \in Call, Publish(c)
    PROVE  /\ \A v \in 0..Len(effects) : Past(v)' = Past(v)
           /\ \A v \in Nat : v = Len(effects) + 1 => Past(v)' = {v} \cup Past(visible)
<1>1. \A i \in 1..Len(effects) : effects'[i].past = effects[i].past
  BY Published
<1>2. effects'[Len(effects) + 1].past = Past(visible)
  BY Published
<1>3. Len(effects) \in Nat
  BY DEF TypeOK
<1> QED BY <1>1, <1>2, <1>3 DEF Past

LEMMA PastSame ==
    ASSUME UNCHANGED effects
    PROVE  \A v : Past(v)' = Past(v)
BY DEF Past

(* What another call looked at under the lock cannot change.                *)
LEMMA CurrentStep ==
    ASSUME IInv, Next
    PROVE  Current'
<1> USE DEF IInv
<1>1. CASE OsCrash
  <2>1. \A d \in Call : pc'[d] \in Over \cup {"raised"}
    BY <1>1 DEF OsCrash, TypeOK, Over
  <2>2. \A d \in Call : pc'[d] = "new" => pc[d] = "new"
    BY <1>1 DEF OsCrash, TypeOK, Over
  <2> QED BY <1>1, <2>1, <2>2 DEF OsCrash, Current, CurrentAt, Over
<1>2. ASSUME NEW c \in Call, CallStep(c), NEW d \in Call PROVE CurrentAt(d)'
  <2>0. /\ pc \in [Call -> {"lock", "look", "publish", "above", "sync", "unlock"} \cup Over]
        /\ args \in [Call -> Args] /\ at \in [Call -> 0..Len(effects)]
        /\ outcome \in [Call -> {"none", "published", "observed"}]
        /\ CurrentAt(d) /\ CurrentAt(c)
    BY DEF TypeOK, Current
  <2> HIDE DEF IInv
  <2>1. CASE \E r \in Requests : Begin(c, r)
    BY <2>0, <2>1 DEF Begin, CurrentAt, Admits, Exists
  <2>2. CASE Lock(c) \/ LockTimeout(c)
    BY <2>0, <2>2 DEF Lock, LockTimeout, CurrentAt, Admits, Exists
  <2>8. CASE Refused(c)
    BY <2>0, <2>8 DEF Refused, CurrentAt, Admits, Exists
  <2>9. CASE Fail(c)
    BY <2>0, <2>9 DEF Fail, CurrentAt, Admits, Exists
  <2>10. CASE MakePart(c) \/ SyncAbove(c)
    BY <2>0, <2>10 DEF MakePart, SyncAbove, CurrentAt, Admits, Exists
  <2>3. CASE Admitted(c)
    BY <2>0, <2>3 DEF Admitted, CurrentAt, Admits, Exists
  <2>4. CASE Observed(c)
    BY <2>0, <2>4 DEF Observed, CurrentAt, Admits, Exists
  <2>5. CASE Publish(c)
    <3>1. d # c => pc[d] \notin {"look", "publish", "above", "sync", "unlock"}
      BY <2>5 DEF Publish, Exclusive, IInv
    <3>2. at'[c] = visible' /\ visible' # 0 /\ effects'[visible'].by = args[c]
      BY <2>5, Published DEF Publish, TypeOK, IInv
    <3>3. /\ pc'[c] = "sync" /\ UNCHANGED <<args, outcome>> /\ outcome[c] = "none"
          /\ d # c => pc'[d] = pc[d] /\ at'[d] = at[d]
      BY <2>0, <2>5 DEF Publish, CurrentAt
    <3> QED BY <2>0, <3>1, <3>2, <3>3 DEF CurrentAt
  <2>6. CASE SyncParent(c)
    BY <2>0, <2>6 DEF SyncParent, CurrentAt, Admits, Exists
  <2>7. CASE Answer(c) \/ Raise(c) \/ Die(c)
    BY <2>0, <2>7 DEF Answer, Raise, Die, CurrentAt, Admits, Exists
  <2> QED BY <1>2, <2>1, <2>2, <2>3, <2>4, <2>5, <2>6, <2>7, <2>8, <2>9,
             <2>10 DEF CallStep
<1>3. CASE Others
  BY <1>3, OthersElsewhere DEF Elsewhere, Current, CurrentAt, Admits, Exists
<1> QED BY <1>1, <1>2, <1>3 DEF Next, Others, Current

(* The history only grows by publications, onto what was visible.           *)
LEMMA ChainStep ==
    ASSUME IInv, Next
    PROVE  Chain'
<1> USE DEF IInv
<1>1. CASE UNCHANGED effects
  BY <1>1, PastSame DEF Chain
<1>2. ASSUME NEW c \in Call, Publish(c) PROVE Chain'
  <2> DEFINE n == Len(effects)
  <2>1. /\ n \in Nat /\ Len(effects') = n + 1
        /\ effects'[n + 1].by = args[c] /\ effects'[n + 1].past = Past(visible)
        /\ \A i \in 1..n : effects'[i] = effects[i]
    BY <1>2, Published
  <2>2. \A v \in 0..n : Past(v)' = Past(v)
    BY <1>2, PastKept
  <2>3. \A v \in Nat : v = n + 1 => Past(v)' = {v} \cup Past(visible)
    BY <1>2, PastKept
  <2>4. visible \in 0..n
    BY DEF TypeOK
  <2>5. \A j \in Past(visible) : j \in Int /\ 0 <= j /\ j <= visible
    <3>1. \A i \in 1..n : effects[i].past \in SUBSET (0..MaxEffects)
      BY PastField
    <3> QED BY <2>4, <3>1 DEF Past, Chain
  <2>6. \A j, k \in Past(visible) : j < k => j \in effects[k].past /\ k \in 1..n
    BY <2>4, <2>5 DEF Past, Chain
  <2>7. args[c].kind = "replace" => args[c].expected = visible
    BY <1>2 DEF Publish, Current, CurrentAt, Admits
  <2> HIDE DEF n
  <2>8. ASSUME NEW i \in 1..n
        PROVE  /\ \A j \in effects'[i].past : j < i
               /\ \A j, k \in Past(i)' : j < k => j \in effects'[k].past
               /\ effects'[i].by.kind = "replace" =>
                     /\ effects'[i].by.expected \in effects'[i].past
                     /\ \A j \in effects'[i].past : j <= effects'[i].by.expected
    <3>1. /\ \A j \in effects[i].past : j < i
          /\ \A j, k \in Past(i) : j < k => j \in effects[k].past
          /\ effects[i].by.kind = "replace" =>
                /\ effects[i].by.expected \in effects[i].past
                /\ \A j \in effects[i].past : j <= effects[i].by.expected
      BY DEF Chain, n
    <3>2. \A j \in Past(i) : j \in Int /\ 0 <= j /\ j <= i
      <4>1. effects[i].past \in SUBSET (0..MaxEffects)
        BY PastField DEF n
      <4> QED BY <2>1, <3>1, <4>1 DEF Past
    <3>3. Past(i)' = Past(i)
      BY <2>1, <2>2
    <3>4. \A j, k \in Past(i) : j < k => k \in 1..n
      BY <2>1, <3>2
    <3> QED BY <2>1, <3>1, <3>3, <3>4
  <2>9. /\ \A j \in effects'[n + 1].past : j < n + 1
        /\ \A j, k \in {n + 1} \cup Past(visible) : j < k => j \in effects'[k].past
        /\ effects'[n + 1].by.kind = "replace" =>
              /\ effects'[n + 1].by.expected \in effects'[n + 1].past
              /\ \A j \in effects'[n + 1].past : j <= effects'[n + 1].by.expected
    <3>1. visible \in Past(visible)
      BY DEF Past
    <3>2. ASSUME NEW j \in {n + 1} \cup Past(visible),
                 NEW k \in {n + 1} \cup Past(visible), j < k
          PROVE  j \in effects'[k].past
      <4>1. CASE k = n + 1
        BY <2>1, <2>4, <2>5, <3>2, <4>1
      <4>2. CASE k # n + 1
        <5>1. k \in Past(visible) /\ j \in Past(visible)
          BY <2>1, <2>4, <2>5, <3>2, <4>2
        <5> QED BY <2>1, <2>6, <3>2, <5>1
      <4> QED BY <4>1, <4>2
    <3> QED BY <2>1, <2>4, <2>5, <2>7, <3>1, <3>2
  <2>10. \A v \in Nat : v = n + 1 => \A j, k \in Past(v)' : j < k => j \in effects'[k].past
    BY <2>3, <2>9
  <2> QED BY <2>1, <2>8, <2>9, <2>10 DEF Chain
<1> QED BY <1>1, <1>2, Steps DEF Quiet, Touches, SyncParent, OsCrash

LEMMA SuccessStep ==
    ASSUME IInv, Next
    PROVE  Success'
<1> USE DEF IInv
<1>1. CASE UNCHANGED <<effects, args, outcome, at>>
  BY <1>1 DEF Success
<1>2. ASSUME NEW c \in Call, NEW r \in Requests, Begin(c, r) PROVE Success'
  BY <1>2 DEF Begin, Success, Current, CurrentAt, TypeOK
<1>3. ASSUME NEW c \in Call, Observed(c) PROVE Success'
  <2>1. /\ visible # 0 /\ at' = [at EXCEPT ![c] = visible]
        /\ outcome' = [outcome EXCEPT ![c] = "observed"] /\ UNCHANGED <<effects, args>>
        /\ args[c].kind = "replace" =>
              effects[visible].by = args[c] /\ args[c].req # NoRequest
    BY <1>3 DEF Observed, Repeats, Exists
  <2> QED BY <2>1 DEF Success, TypeOK
<1>4. ASSUME NEW c \in Call, Publish(c) PROVE Success'
  <2>1. /\ at' = [at EXCEPT ![c] = Len(effects) + 1] /\ UNCHANGED <<outcome, args>>
        /\ outcome[c] = "none"
    BY <1>4 DEF Publish, Current, CurrentAt
  <2>2. \A d \in Call : at[d] \in Nat /\ at[d] <= Len(effects) /\ Len(effects) \in Nat
    BY DEF TypeOK
  <2>3. \A d \in Call : outcome[d] # "none" => effects'[at[d]] = effects[at[d]]
    <3>1. \A d \in Call : outcome[d] # "none" => at[d] \in 1..Len(effects)
      BY <2>2 DEF Success
    <3> QED BY <1>4, <3>1, Published
  <2>4. \A d \in Call : at'[d] = IF d = c THEN Len(effects) + 1 ELSE at[d]
    BY <2>1 DEF TypeOK
  <2> QED BY <2>1, <2>2, <2>3, <2>4 DEF Success
<1>5. ASSUME NEW c \in Call, SyncParent(c) PROVE Success'
  <2>1. /\ outcome' = [outcome EXCEPT ![c] = "published"] /\ UNCHANGED <<effects, args, at>>
        /\ outcome[c] = "none" /\ at[c] # 0 /\ effects[at[c]].by = args[c]
    BY <1>5 DEF SyncParent, Current, CurrentAt
  <2> QED BY <2>1 DEF Success, TypeOK
<1> QED
  BY <1>1, <1>2, <1>3, <1>4, <1>5, OthersElsewhere
  DEF Next, CallStep, Lock, LockTimeout, Admitted, Refused, MakePart, SyncAbove, Fail, Answer,
      Raise, Die, OsCrash, Others, Elsewhere

(* Nobody publishes below a part that was just made: its maker has the lock.*)
LEMMA NothingMade ==
    ASSUME IInv, NEW c \in Call, Publish(c)
    PROVE  \A i \in 1..Depth : parts[i] \notin {"missing", "made"}
<1>1. \A d \in Call : pc[d] = "above" => FALSE
  BY DEF IInv, Exclusive, Publish
<1> QED BY <1>1 DEF IInv, Making, Publish, Reached

LEMMA RootedStep ==
    ASSUME IInv, Next
    PROVE  Rooted'
<1> USE DEF IInv
<1>1. CASE UNCHANGED <<parts, survivors>>
  BY <1>1 DEF Rooted
<1>2. ASSUME NEW c \in Call, MakePart(c) \/ SyncAbove(c) PROVE Rooted'
  BY <1>2 DEF MakePart, SyncAbove, FirstMissing, Rooted, TypeOK
<1>3. ASSUME NEW c \in Call, Fail(c) \/ Die(c) PROVE Rooted'
  BY <1>3 DEF Fail, Die, Left, Rooted, TypeOK
<1>4. ASSUME NEW c \in Call, Publish(c) PROVE Rooted'
  BY <1>4, NothingMade DEF Publish, tree, Rooted
<1>5. ASSUME NEW c \in Call, SyncParent(c) PROVE Rooted'
  BY <1>5 DEF SyncParent, tree, Rooted, TypeOK
<1>6. CASE Others
  BY <1>6 DEF Others, OthersMake, OthersSync, Rooted, TypeOK
<1>7. CASE OsCrash
  BY <1>7 DEF OsCrash, Shows, Loses, Rooted, TypeOK
<1> QED
  BY <1>1, <1>2, <1>3, <1>4, <1>5, <1>6, <1>7
  DEF Next, CallStep, Begin, Lock, LockTimeout, Admitted, Observed, Refused, Answer, Raise,
      Others, tree

LEMMA MakingStep ==
    ASSUME IInv, Next
    PROVE  Making'
<1> USE DEF IInv
<1>1. ASSUME NEW c \in Call, MakePart(c) PROVE Making'
  BY <1>1 DEF MakePart, Making, TypeOK
<1>2. ASSUME NEW c \in Call, SyncAbove(c) PROVE Making'
  BY <1>2 DEF SyncAbove, Making, TypeOK
<1>3. ASSUME NEW c \in Call, Fail(c) \/ Die(c) PROVE Making'
  <2>1. CASE pc[c] = "above"
    BY <1>3, <2>1 DEF Fail, Die, Left, Making, TypeOK
  <2>2. CASE pc[c] # "above"
    BY <1>3, <2>2 DEF Fail, Die, Left, Making, TypeOK
  <2> QED BY <2>1, <2>2
<1>4. ASSUME NEW c \in Call, CallStep(c), UNCHANGED parts, pc[c] # "above" PROVE Making'
  <2>1. \A d \in Call : d # c => pc'[d] = pc[d]
    BY <1>4 DEF CallStep, Begin, Lock, LockTimeout, Admitted, Observed, Refused, MakePart,
                SyncAbove, Publish, SyncParent, Fail, Answer, Raise, Die, TypeOK
  <2> QED BY <1>4, <2>1 DEF Making
<1>5. CASE Others
  BY <1>5 DEF Others, OthersMake, OthersSync, Making, TypeOK
<1>6. CASE OsCrash
  BY <1>6 DEF OsCrash, Shows, Loses, Making, TypeOK
<1>7. ASSUME NEW c \in Call, CallStep(c)
      PROVE  \/ MakePart(c) \/ SyncAbove(c) \/ Fail(c) \/ Die(c)
             \/ UNCHANGED parts /\ pc[c] # "above"
  BY <1>7 DEF CallStep, Begin, Lock, LockTimeout, Admitted, Observed, Refused, Publish,
              SyncParent, Answer, Raise, tree
<1> QED BY <1>1, <1>2, <1>3, <1>4, <1>5, <1>6, <1>7 DEF Next, Others

LEMMA DurableStep ==
    ASSUME IInv, Next
    PROVE  Durable'
<1> USE DEF IInv
<1>1. CASE UNCHANGED <<effects, survivors, at, gone>> /\ UNCHANGED outcome
  BY <1>1, PastSame DEF Durable
<1>2. ASSUME NEW c \in Call, Observed(c) PROVE Durable'
  BY <1>2, PastSame DEF Observed, tree, Durable, Current, CurrentAt, TypeOK
<1>3. ASSUME NEW c \in Call, Publish(c) PROVE Durable'
  <2>1. /\ at' = [at EXCEPT ![c] = Len(effects) + 1] /\ UNCHANGED outcome /\ UNCHANGED gone
        /\ outcome[c] = "none" /\ survivors' = survivors \cup {Len(effects) + 1}
    BY <1>3 DEF Publish, tree, Current, CurrentAt
  <2>2. visible \in survivors /\ survivors \in SUBSET (0..Len(effects))
    BY DEF TypeOK
  <2>3. \A s \in survivors : Past(s)' = Past(s)
    BY <1>3, <2>2, PastKept
  <2>4. \A v \in Nat : v = Len(effects) + 1 => Past(visible) \subseteq Past(v)'
    BY <1>3, PastKept
  <2>6. Len(effects) + 1 \in Nat
    BY DEF TypeOK
  <2>5. \A d \in Call : d # c => at'[d] = at[d]
    BY <2>1 DEF TypeOK
  <2> QED BY <2>1, <2>2, <2>3, <2>4, <2>5, <2>6 DEF Durable
<1>4. ASSUME NEW c \in Call, SyncParent(c) PROVE Durable'
  <2>1. /\ UNCHANGED <<effects, at, gone>> /\ survivors' = {visible} /\ at[c] = visible
        /\ \A d \in Call : d # c => outcome'[d] = outcome[d]
    BY <1>4 DEF SyncParent, tree, Current, CurrentAt, TypeOK
  <2>2. visible \in survivors /\ visible \in Past(visible)
    BY DEF TypeOK, Past
  <2> QED BY <2>1, <2>2, PastSame DEF Durable
<1>5. CASE OsCrash
  <2>1. /\ UNCHANGED <<effects, outcome, at>> /\ survivors' = {visible'}
        /\ Shows \/ \E i \in 1..Depth : Loses(i)
    BY <1>5 DEF OsCrash
  <2>2. CASE Shows
    BY <2>1, <2>2, PastSame DEF Shows, Durable
  <2>3. ASSUME NEW i \in 1..Depth, Loses(i), parts[i] = "left" PROVE Durable'
    BY <2>1, <2>3 DEF Loses, Durable, TypeOK
  <2>4. ASSUME NEW i \in 1..Depth, Loses(i), parts[i] = "made" PROVE Durable'
    <3>1. survivors = {0} /\ visible' = 0 /\ UNCHANGED gone
      BY <2>4 DEF Rooted, Loses
    <3> QED BY <2>1, <3>1, PastSame DEF Durable
  <2> QED BY <2>1, <2>2, <2>3, <2>4 DEF Loses
<1> QED
  BY <1>1, <1>2, <1>3, <1>4, <1>5, OthersElsewhere
  DEF Next, CallStep, Begin, Lock, LockTimeout, Admitted, Refused, MakePart, SyncAbove, Fail,
      Answer, Raise, Die, tree, Others, Elsewhere

LEMMA ToldStep ==
    ASSUME IInv, Next
    PROVE  Told'
<1> USE DEF IInv
<1>1. CASE OsCrash
  BY <1>1 DEF OsCrash, Told, TypeOK, Over
<1>2. ASSUME NEW c \in Call, CallStep(c) PROVE Told'
  <2>1. \A d \in Call : d # c => pc'[d] = pc[d] /\ outcome'[d] = outcome[d]
    BY <1>2 DEF CallStep, Begin, Lock, LockTimeout, Admitted, Observed, Refused, MakePart,
                SyncAbove, Publish, SyncParent, Fail, Answer, Raise, Die, TypeOK
  <2>2. pc'[c] = "answered" => outcome'[c] # "none"
    BY <1>2 DEF CallStep, Begin, Lock, LockTimeout, Admitted, Observed, Refused, MakePart,
                SyncAbove, Publish, SyncParent, Fail, Answer, Raise, Die, TypeOK
  <2> QED BY <2>1, <2>2 DEF Told
<1>3. CASE Others
  BY <1>3, OthersElsewhere DEF Elsewhere, Told
<1> QED BY <1>1, <1>2, <1>3 DEF Next, Others

(* Begin passes a version that was published at some time.                  *)
LEMMA RequestsType == TypeOK => Requests \subseteq Memory!Requests
<1>1. TypeOK => DOMAIN effects \subseteq 1..MaxEffects
  BY DEF TypeOK
<1> QED BY <1>1 DEF Requests, Memory!Requests

LEMMA CalledStep ==
    ASSUME IInv, Next
    PROVE  Called'
<1> USE DEF IInv
<1>1. CASE OsCrash
  BY <1>1 DEF OsCrash, Called, TypeOK, Over, Memory!Requests
<1>2. ASSUME NEW c \in Call, CallStep(c) PROVE Called'
  <2>1. CASE \E r \in Requests : Begin(c, r)
    BY <2>1, RequestsType DEF Begin, Called, TypeOK, Memory!Requests
  <2>2. CASE ~\E r \in Requests : Begin(c, r)
    <3>1. UNCHANGED args /\ pc[c] # "new" /\ \A d \in Call : d # c => pc'[d] = pc[d]
      BY <1>2, <2>2 DEF CallStep, Lock, LockTimeout, Admitted, Observed, Refused, MakePart,
                        SyncAbove, Publish, SyncParent, Fail, Answer, Raise, Die, TypeOK, Over
    <3> QED BY <3>1 DEF Called, Memory!Requests
  <2> QED BY <2>1, <2>2
<1>3. CASE Others
  BY <1>3, OthersElsewhere DEF Elsewhere, Called, Memory!Requests
<1> QED BY <1>1, <1>2, <1>3 DEF Next, Others

-----------------------------------------------------------------------------
LEMMA StepIInv == IInv /\ [Next]_vars => IInv'
<1> SUFFICES ASSUME IInv, [Next]_vars PROVE IInv'
  OBVIOUS
<1>1. CASE Next
  BY <1>1, TypeStep, ExclusiveStep, CurrentStep, ChainStep, SuccessStep, RootedStep,
     MakingStep, DurableStep, ToldStep, CalledStep DEF IInv
<1>2. CASE UNCHANGED vars
  <2>1. UNCHANGED <<effects, visible, survivors>> /\ UNCHANGED <<parts, gone, lock, pc, args>>
        /\ UNCHANGED <<outcome, at, osCrashes>>
    BY <1>2 DEF vars
  <2>2. TypeOK' /\ Exclusive' /\ Told' /\ Rooted' /\ Making'
    BY <2>1 DEF IInv, TypeOK, Exclusive, Told, Rooted, Making
  <2>8. Called'
    BY <2>1 DEF IInv, Called, Memory!Requests
  <2>3. \A v : Past(v)' = Past(v)
    BY <2>1 DEF Past
  <2>4. Chain'
    BY <2>1, <2>3 DEF IInv, Chain
  <2>5. Current'
    BY <2>1 DEF IInv, Current, CurrentAt, Admits, Exists
  <2>6. Success'
    BY <2>1 DEF IInv, Success
  <2>7. Durable'
    BY <2>1, <2>3 DEF IInv, Durable
  <2> QED BY <2>2, <2>4, <2>5, <2>6, <2>7, <2>8 DEF IInv
<1> QED BY <1>1, <1>2

(* The inductive invariant holds of every behaviour.                        *)
THEOREM Invariance == Spec => []IInv
BY InitIInv, StepIInv, PTL DEF Spec

(* The variables of object, directory and calls keep their types.           *)
THEOREM TypeCorrect == Spec => []TypeOK
<1>1. IInv => TypeOK
  BY DEF IInv
<1> QED BY <1>1, Invariance, PTL

(* What a publisher was told of is undone by no OS crash but one that takes *)
(* a part of the path that another call left without its fsync.             *)
THEOREM Durability == Spec => []PublishedSurvives
<1>1. IInv => PublishedSurvives
  BY DEF IInv, Durable, PublishedSurvives, Answered
<1> QED BY <1>1, Invariance, PTL

(* Where every part of the path is durable, none is ever taken, so that no  *)
(* success told from then on is excused: its position is beyond `gone`.     *)
DurablePath == \A i \in 1..Depth : parts[i] = "durable"

THEOREM DurablePathStays == Spec => [][DurablePath => DurablePath' /\ gone' = gone]_vars
<1>1. ASSUME Next, DurablePath PROVE DurablePath' /\ gone' = gone
  <2>1. CASE OsCrash
    BY <1>1, <2>1 DEF DurablePath, OsCrash, Shows, Loses
  <2>2. CASE Others
    BY <1>1, <2>2 DEF DurablePath, Others, OthersMake, OthersSync, FirstMissing
  <2>3. ASSUME NEW c \in Call, CallStep(c) PROVE DurablePath' /\ gone' = gone
    BY <1>1, <2>3
    DEF DurablePath, CallStep, Begin, Lock, LockTimeout, Admitted, Observed, Refused, MakePart,
        SyncAbove, Publish, SyncParent, Fail, Answer, Raise, Die, Left, FirstMissing, tree
  <2> QED BY <1>1, <2>1, <2>2, <2>3 DEF Next, Others
<1> QED BY <1>1, PTL DEF Spec

(* Independent callers never win the same version.  Two different wins      *)
(* would both be ancestors of what is visible, so one of the other; but a   *)
(* replacement follows directly on the version it expected.                 *)
THEOREM Winner == Spec => []OneWinner
<1>1. ASSUME IInv, NEW c \in Call, NEW d \in Call,
             outcome[c] # "none", outcome[d] # "none",
             args[c].kind = "replace", args[d].kind = "replace",
             args[c].expected = args[d].expected,
             at[c] \in Past(visible), at[d] \in Past(visible), at[c] < at[d]
      PROVE  FALSE
  <2>1. at[c] \in 1..Len(effects) /\ at[d] \in 1..Len(effects)
    BY <1>1 DEF IInv, TypeOK, Success
  <2>2. effects[at[c]].by = args[c] /\ effects[at[d]].by = args[d]
    BY <1>1 DEF IInv, Success
  <2>3. visible \in 1..Len(effects)
    BY <1>1, <2>1 DEF IInv, TypeOK, Past
  <2>4. at[c] \in effects[at[d]].past
    BY <1>1, <2>3 DEF IInv, Chain
  <2>5. at[c] <= args[d].expected
    BY <1>1, <2>1, <2>2, <2>4 DEF IInv, Chain
  <2>6. args[c].expected < at[c]
    BY <1>1, <2>1, <2>2 DEF IInv, Chain
  <2>7. args[c].expected \in Int /\ at[c] \in Int
    BY <1>1, <2>1 DEF IInv, TypeOK, Args
  <2> QED BY <1>1, <2>5, <2>6, <2>7
<1>2. ASSUME IInv PROVE OneWinner
  <2> SUFFICES ASSUME NEW c \in Answered, NEW d \in Answered,
                      args[c].kind = "replace", args[d].kind = "replace",
                      args[c].expected = args[d].expected,
                      {at[c], at[d]} \subseteq Past(visible)
               PROVE  args[c] = args[d] /\ (args[c].req = NoRequest => c = d)
    BY DEF OneWinner
  <2>1. c \in Call /\ d \in Call /\ outcome[c] # "none" /\ outcome[d] # "none"
    BY <1>2 DEF Answered, IInv, Told
  <2>2. at[c] \in Int /\ at[d] \in Int
    BY <1>2, <2>1 DEF IInv, TypeOK
  <2>3. at[c] = at[d]
    BY <1>1, <1>2, <2>1, <2>2
  <2> QED BY <1>2, <2>1, <2>3 DEF IInv, Success
<1> QED BY <1>2, Invariance, PTL

-----------------------------------------------------------------------------
(* Steps that publish nothing leave the object and its versions alone.      *)
LEMMA ObjectKept ==
    ASSUME UNCHANGED <<effects, visible>>
    PROVE  Object' = Object /\ Given' = Given
BY DEF Object, Given, Exists

(* What exists is the object, under the version that is visible.            *)
LEMMA ObjectThere == Exists(visible) => \E o \in Object : o.version = visible
<1> DEFINE o == [version |-> visible, data |-> effects[visible].by.data,
                 previous |-> effects[visible].by.expected,
                 request |-> effects[visible].by.req]
<1>1. Exists(visible) => o \in Object
  BY DEF Object
<1>2. o.version = visible
  OBVIOUS
<1> HIDE DEF o
<1> QED BY <1>1, <1>2

LEMMA ResultKept ==
    ASSUME UNCHANGED <<at, args>>
    PROVE  Result' = Result
BY DEF Result

(* Being over is all that shows of a call's progress.                       *)
LEMMA StatusStep ==
    ASSUME TypeOK, NEW c \in Call, NEW q, pc' = [pc EXCEPT ![c] = q]
    PROVE  /\ q \notin Over /\ pc[c] \notin Over => Status' = Status
           /\ q \in Over => Status' = [Status EXCEPT ![c] = q]
           /\ q \notin Over => Status' = [Status EXCEPT ![c] = "called"]
           /\ pc[c] \in Over => Status[c] = pc[c]
           /\ pc[c] \notin Over => Status[c] = "called"
BY DEF TypeOK, Status

(* A publication is the creation, replacement or removal its call asked     *)
(* for: what admitted it under the lock still holds.                        *)
LEMMA PublishEffect ==
    ASSUME IInv, NEW c \in Call, Publish(c)
    PROVE  Memory!Next
<1> DEFINE n == Len(effects) + 1
<1>1. /\ visible' = n /\ effects'[n].by = args[c]
      /\ \A i \in 1..Len(effects) : effects'[i] = effects[i]
      /\ DOMAIN effects = 1..Len(effects) /\ DOMAIN effects' = 1..n
      /\ n \in 1..MaxEffects /\ n \notin DOMAIN effects /\ Len(effects) \in Nat
  BY Published DEF IInv, TypeOK, Publish
<1>2. /\ args[c] \in Memory!Requests /\ Admits(args[c]) /\ at[c] = 0
      /\ pc[c] = "publish" /\ UNCHANGED args
      /\ pc' = [pc EXCEPT ![c] = "sync"] /\ at' = [at EXCEPT ![c] = n]
  BY DEF IInv, Current, CurrentAt, Called, Publish
<1> HIDE DEF n
<1>3. UNCHANGED Status /\ Memory!Pending(c)
  BY <1>2 DEF IInv, TypeOK, Status, Result, Over, Memory!Pending, Memory!Nothing
<1>4. n # 0 /\ n \in Int
  BY <1>1
<1>5. ASSUME args[c].kind # "delete"
      PROVE  /\ Object' = {Memory!Stored(args[c], n)}
             /\ Given' = Given \cup {n} /\ n \in (1..MaxEffects) \ Given
             /\ Result' = [Result EXCEPT ![c] = n]
  <2>1. args[c].data # Absent
    BY <1>2, <1>5 DEF Memory!Requests
  <2>2. Object' = {Memory!Stored(args[c], n)}
    BY <1>1, <1>4, <2>1 DEF Object, Exists, Memory!Stored
  <2>3. Given' = Given \cup {n}
    BY <1>1, <1>5, n = Len(effects) + 1 DEF Given, n
  <2>4. n \in (1..MaxEffects) \ Given
    BY <1>1 DEF Given
  <2>5. Result' = [Result EXCEPT ![c] = n]
    BY <1>2, <1>4, <1>5 DEF Result, IInv, TypeOK
  <2> QED BY <2>2, <2>3, <2>4, <2>5
<1>6. CASE args[c].kind = "put"
  <2>1. Object = {}
    BY <1>2, <1>6 DEF Admits, Object
  <2> QED BY <1>2, <1>3, <1>5, <1>6, <2>1 DEF Memory!Create, Memory!Next
<1>7. CASE args[c].kind = "replace"
  <2>1. \E o \in Object : o.version = args[c].expected
    BY <1>2, <1>7, ObjectThere DEF Admits
  <2> QED BY <1>2, <1>3, <1>5, <1>7, <2>1 DEF Memory!Replace, Memory!Next
<1>8. CASE args[c].kind = "delete"
  <2>1. \E o \in Object : args[c].expected \in {0, o.version}
    BY <1>2, <1>8, ObjectThere DEF Admits
  <2>2. args[c].data = Absent
    BY <1>2, <1>8 DEF Memory!Requests
  <2>3. Object' = {}
    BY <1>1, <2>2 DEF Object, Exists
  <2>4. Given' = Given
    BY <1>1, <1>8, n = Len(effects) + 1 DEF Given, n
  <2>5. Result' = [Result EXCEPT ![c] = -1]
    BY <1>2, <1>4, <1>8 DEF Result, IInv, TypeOK
  <2> QED BY <1>2, <1>3, <1>8, <2>1, <2>3, <2>4, <2>5
             DEF Memory!Delete, Memory!Deleted, Memory!Next
<1> QED BY <1>2, <1>6, <1>7, <1>8 DEF Memory!Requests

(* Every step of a call is a step of the memory backend, or none.           *)
LEMMA CallEffect ==
    ASSUME IInv, NEW c \in Call, CallStep(c)
    PROVE  Memory!Next \/ UNCHANGED Memory!memoryVars
<1> USE DEF IInv
<1>1. ASSUME NEW r \in Requests, Begin(c, r) PROVE Memory!Begin(c)
  <2>1. UNCHANGED <<Object, Given>>
    BY <1>1, ObjectKept DEF Begin
  <2>2. Status[c] = "new" /\ Status' = [Status EXCEPT ![c] = "called"]
    BY <1>1, StatusStep DEF Begin, Over
  <2>3. UNCHANGED Result
    BY <1>1 DEF Begin, Result, Current, CurrentAt, TypeOK
  <2> QED BY <1>1, <2>1, <2>2, <2>3, RequestsType DEF Begin, Memory!Begin
<1>2. CASE Lock(c) \/ Admitted(c) \/ Refused(c) \/ MakePart(c) \/ SyncAbove(c) \/ SyncParent(c)
           \/ Fail(c)
  <2>1. UNCHANGED <<Object, Given>>
    BY <1>2, ObjectKept DEF Lock, Admitted, Refused, MakePart, SyncAbove, SyncParent, Fail
  <2>2. UNCHANGED Result /\ UNCHANGED args
    BY <1>2, ResultKept DEF Lock, Admitted, Refused, MakePart, SyncAbove, SyncParent, Fail
  <2>3. UNCHANGED Status
    <3>1. PICK q \in {"look", "publish", "above", "sync", "unlock"} : pc' = [pc EXCEPT ![c] = q]
      BY <1>2 DEF Lock, Admitted, Refused, MakePart, SyncAbove, SyncParent, Fail
    <3>2. pc[c] \notin Over
      BY <1>2 DEF Lock, Admitted, Refused, MakePart, SyncAbove, SyncParent, Fail, Over
    <3> QED BY <3>1, <3>2, StatusStep DEF Over
  <2> QED BY <2>1, <2>2, <2>3 DEF Memory!memoryVars
<1>3. CASE LockTimeout(c) \/ Raise(c) \/ Die(c)
  <2>1. UNCHANGED <<Object, Given>>
    BY <1>3, ObjectKept DEF LockTimeout, Raise, Die
  <2>2. UNCHANGED Result /\ UNCHANGED args
    BY <1>3, ResultKept DEF LockTimeout, Raise, Die
  <2>3. Status[c] = "called" /\ Status' = [Status EXCEPT ![c] = "raised"]
    BY <1>3, StatusStep DEF LockTimeout, Raise, Die, Over
  <2> QED BY <2>1, <2>2, <2>3 DEF Memory!Raise, Memory!Next
<1>4. CASE Answer(c)
  <2>1. UNCHANGED <<Object, Given>>
    BY <1>4, ObjectKept DEF Answer
  <2>2. UNCHANGED Result /\ UNCHANGED args
    BY <1>4, ResultKept DEF Answer
  <2>3. Status[c] = "called" /\ Status' = [Status EXCEPT ![c] = "answered"]
    BY <1>4, StatusStep DEF Answer, Over
  <2>4. Result[c] # 0
    BY <1>4 DEF Answer, Success, Result, TypeOK
  <2> QED BY <2>1, <2>2, <2>3, <2>4 DEF Memory!Answer, Memory!Nothing, Memory!Next
<1>5. CASE Observed(c)
  <2>1. UNCHANGED <<Object, Given>>
    BY <1>5, ObjectKept DEF Observed
  <2>2. Status[c] = "called" /\ UNCHANGED Status
    <3>1. pc' = [pc EXCEPT ![c] = "unlock"] /\ pc[c] = "look"
      BY <1>5 DEF Observed
    <3>2. "unlock" \notin Over /\ "look" \notin Over
      BY DEF Over
    <3>3. Status[c] = "called"
      BY <3>1, <3>2 DEF Status
    <3>4. Status' = Status
      BY <3>1, <3>2 DEF Status, TypeOK
    <3> QED BY <3>3, <3>4
  <2>3. Result[c] = 0 /\ UNCHANGED args
    BY <1>5 DEF Observed, Current, CurrentAt, Result
  <2>4. Repeats(args[c]) /\ visible # 0 /\ visible \in Int
    BY <1>5 DEF Observed, Repeats, Exists, TypeOK
  <2>5. Result' = [Result EXCEPT ![c] = visible]
    BY <1>5, <2>4 DEF Observed, Result, Repeats, TypeOK
  <2> DEFINE o == [version |-> visible, data |-> effects[visible].by.data,
                   previous |-> effects[visible].by.expected,
                   request |-> effects[visible].by.req]
  <2>6. o \in Object
    BY <2>4 DEF Repeats, Object
  <2>7. /\ o.data = args[c].data
        /\ \/ args[c].kind = "put"
           \/ /\ args[c].kind = "replace" /\ args[c].req # NoRequest
              /\ o.version # args[c].expected
              /\ o.previous = args[c].expected /\ o.request = args[c].req
    BY <2>4 DEF Repeats
  <2>8. o.version = visible
    OBVIOUS
  <2> HIDE DEF o
  <2> QED BY <2>1, <2>2, <2>3, <2>5, <2>6, <2>7, <2>8
             DEF Memory!Repeat, Memory!Pending, Memory!Nothing, Memory!Next
<1>6. CASE Publish(c)
  BY <1>6, PublishEffect
<1> QED BY <1>1, <1>2, <1>3, <1>4, <1>5, <1>6 DEF CallStep, Memory!Next

(* Without an OS crash every behaviour of the POSIX backend is one of the   *)
(* memory backend.                                                          *)
THEOREM Implements == Spec => ImplementsMemory
<1>1. Init => Memory!Init
  <2> SUFFICES ASSUME Init PROVE Memory!Init
    OBVIOUS
  <2>1. Object = {} /\ Given = {}
    BY DEF Init, Object, Exists, Given
  <2>2. Status = [c \in Call |-> "new"] /\ Result = [c \in Call |-> 0]
    BY DEF Init, Status, Result, Over
  <2> QED BY <2>1, <2>2 DEF Init, NoArgs, Memory!Init, Memory!Nothing
<1>2. ASSUME IInv, [Next]_vars
      PROVE  [osCrashes' = osCrashes + 1 \/ Memory!Next]_(Memory!memoryVars)
  <2>1. CASE UNCHANGED vars
    <3>1. UNCHANGED <<Object, Given, Result>> /\ UNCHANGED Status
      BY <2>1 DEF vars, Object, Exists, Given, Result, Status
    <3> QED BY <2>1, <3>1 DEF vars, Memory!memoryVars
  <2>2. CASE OsCrash
    BY <2>2 DEF OsCrash
  <2>3. ASSUME NEW c \in Call, CallStep(c)
        PROVE  [osCrashes' = osCrashes + 1 \/ Memory!Next]_(Memory!memoryVars)
    BY <1>2, <2>3, CallEffect
  <2>4. CASE Others
    <3>1. UNCHANGED <<Object, Given, Result>> /\ UNCHANGED Status
      BY <2>4, OthersElsewhere DEF Elsewhere, Object, Exists, Given, Result, Status
    <3> QED BY <2>4, <3>1, OthersElsewhere DEF Elsewhere, Memory!memoryVars
  <2> QED BY <1>2, <2>1, <2>2, <2>3, <2>4 DEF Next, Others
<1> QED BY <1>1, <1>2, Invariance, PTL DEF Spec, ImplementsMemory

-----------------------------------------------------------------------------
(* What AcknowledgedSurvives still has, and what it needs.  Until the       *)
(* operating system first crashes, every object descends from all before it,*)
(* so what the backend acknowledged, published or observed, has been        *)
(* replaced or removed by a call and never lost, whichever callers died.    *)
Lineal ==
    osCrashes = 0 => visible = Len(effects) /\ \A v \in 0..Len(effects) : v \in Past(visible)

LEMMA LinealStep ==
    ASSUME IInv, Lineal, [Next]_vars
    PROVE  Lineal'
<1>0. TypeOK /\ Len(effects) \in Nat /\ osCrashes \in Nat
  BY DEF IInv, TypeOK
<1>1. CASE UNCHANGED <<effects, visible, osCrashes>>
  <2>1. \A v : Past(v)' = Past(v)
    BY <1>1, PastSame
  <2> QED BY <1>1, <2>1 DEF Lineal
<1>2. ASSUME NEW c \in Call, Publish(c) PROVE Lineal'
  <2>1. osCrashes' = osCrashes /\ visible' = Len(effects) + 1 /\ Len(effects') = Len(effects) + 1
    BY <1>0, <1>2, Published DEF Publish
  <2>2. PICK n \in Nat : n = Len(effects) + 1
    BY <1>0
  <2>3. Past(n)' = {n} \cup Past(visible)
    BY <1>0, <1>2, <2>2, PastKept
  <2>4. \A v \in 0..n : v \in 0..Len(effects) \/ v = n
    BY <1>0, <2>2
  <2>5. osCrashes = 0 => \A v \in 0..n : v \in Past(n)'
    BY <2>3, <2>4 DEF Lineal
  <2>6. Past(visible)' = Past(n)'
    BY <2>1, <2>2 DEF Past
  <2> QED BY <2>1, <2>2, <2>5, <2>6 DEF Lineal
<1>3. CASE OsCrash
  BY <1>0, <1>3 DEF OsCrash, Lineal
<1>4. ASSUME Next, ~OsCrash, NEW c \in Call, CallStep(c), ~Publish(c)
      PROVE  UNCHANGED <<effects, visible, osCrashes>>
  BY <1>4 DEF CallStep, Begin, Lock, LockTimeout, Admitted, Observed, Refused, MakePart,
              SyncAbove, SyncParent, Fail, Answer, Raise, Die
<1>5. CASE Others
  BY <1>1, <1>5, OthersElsewhere DEF Elsewhere
<1> QED
  BY <1>1, <1>2, <1>3, <1>4, <1>5 DEF Next, vars, Others

OnlyOsCrashesLose ==
    osCrashes = 0 => \A c \in Answered : at[c] # 0 /\ at[c] \in Past(visible)

THEOREM ProcessDeathsLoseNothing == Spec => []OnlyOsCrashesLose
<1>1. Init => Lineal
  BY DEF Init, Lineal, Past
<1>2. IInv /\ Lineal => OnlyOsCrashesLose
  BY DEF IInv, TypeOK, Told, Success, Answered, Lineal, OnlyOsCrashesLose
<1> QED BY <1>1, <1>2, LinealStep, Invariance, PTL DEF Spec
=============================================================================
