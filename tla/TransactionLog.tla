--------------------------- MODULE TransactionLog ---------------------------
(***************************************************************************)
(* The transactional log on its object store (log/commit.py, log/run.py,   *)
(* log/replay.py): how a generation comes into being, what a prepared      *)
(* transition consists of, and what a reader follows from the head.  A     *)
(* generation has its manifest and its head under fixed keys; everything   *)
(* else is immutable and named by its content.  Several processes          *)
(* initialize, open, publish, prepare and commit, and each object put is a *)
(* step between which any of them may die and be started again.  The       *)
(* fencing of owners, which the production log adds, is in FencedLog; this *)
(* is the log both build on, in the reference codec.                       *)
(*                                                                         *)
(* Content is determined by the run specification and the history that led *)
(* to it, so that pair, a tip, names commit, frontier and tensors alike.   *)
(***************************************************************************)
EXTENDS Integers, Sequences, FiniteSets

CONSTANTS
    Process,       \* processes that use the log
    RunSpec,       \* configurations: run specification and initial fragments
    NoSpec,        \* no manifest, or a process without a log
    NoTip,         \* no head, or nothing prepared
    Learner,       \* learners
    Frags,         \* number of fragments
    Offered,       \* proposals learners may publish
    MaxGlobal,     \* max_global_staleness
    MaxFragment,   \* max_fragment_staleness
    MaxCommits,    \* bound: commits in the log
    MaxObjects     \* bound: immutable objects put, orphans included

Fragment == 0..(Frags - 1)

ASSUME TransactionLogAssumption ==
    /\ Frags \in Nat \ {0}
    /\ MaxGlobal \in Nat /\ MaxFragment \in Nat /\ MaxCommits \in Nat /\ MaxObjects \in Nat
    /\ Offered \subseteq [learner : Learner, session : Nat, seq : Nat,
                           fragment : Fragment, base : Nat, version : Nat]

VARIABLES
    store,       \* immutable objects that were put
    manifest,    \* the specification in the run manifest
    head,        \* the tip the head names
    published,   \* proposal objects
    pc,          \* where each process is
    spec,        \* the specification of its log
    todo,        \* objects it has yet to put
    prepared     \* the tip it has prepared

vars == <<store, manifest, head, published, pc, spec, todo, prepared>>

Entry == [fragment : Fragment, selected : SUBSET Offered,
          versions : [Fragment -> Nat], producers : [Fragment -> Nat]]

Tip == [spec : RunSpec, history : Seq(Entry)]

ASSUME NoTipAssumption == NoTip \notin Tip /\ NoSpec \notin RunSpec

-----------------------------------------------------------------------------
(* Histories and their frontiers. *)
Root(g) == [spec |-> g, history |-> <<>>]

Prefix(tip, n) == [tip EXCEPT !.history = SubSeq(@, 1, n)]

Parent(tip) == Prefix(tip, Len(tip.history) - 1)

VersionAt(h, n, f) == IF n = 0 THEN 0 ELSE h[n].versions[f]

ProducerAt(h, n, f) == IF n = 0 THEN 0 ELSE h[n].producers[f]

Consumed(h, n) == UNION {h[i].selected : i \in 1..n}

SameLineage(p, q) ==
    p.learner = q.learner /\ p.session = q.session /\ p.fragment = q.fragment

SameBase(p, q) == p.base = q.base /\ p.version = q.version

Extend(h, f, S) ==
    LET n == Len(h)
    IN  Append(h, [fragment |-> f, selected |-> S,
                   versions |-> [g \in Fragment |->
                       VersionAt(h, n, g) + (IF g = f THEN 1 ELSE 0)],
                   producers |-> [g \in Fragment |->
                       IF g = f THEN n + 1 ELSE ProducerAt(h, n, g)]])

-----------------------------------------------------------------------------
(* Objects.  The parameters and the outer state that a tip changes are put  *)
(* one after the other and always read together: its tensors.               *)
Object(kind, tip) == [kind |-> kind, tip |-> tip]

GenesisObjects(g) ==
    <<Object("tensors", Root(g)), Object("frontier", Root(g))>>

(* Mutant of TransitionObjects: the frontier is left to the head swap. *)
TransitionWithoutFrontier(tip) ==
    <<Object("tensors", tip), Object("commit", tip)>>

TransitionObjects(tip) ==
    <<Object("tensors", tip), Object("commit", tip), Object("frontier", tip)>>

(* What replay reads of the prefix of length n. *)
Needed(tip, n) ==
    {Object(k, Prefix(tip, n)) :
        k \in {"tensors", "frontier"} \cup (IF n = 0 THEN {} ELSE {"commit"})}

Reachable(tip) == UNION {Needed(tip, n) : n \in 0..Len(tip.history)}

(* replay's rules for commit i, given the prefix below it.                  *)
ReplaysCommit(h, i) ==
    LET c == h[i]
    IN  /\ c.selected \cap Consumed(h, i - 1) = {}
        /\ \A p \in c.selected :
               /\ p \in published
               /\ p.fragment = c.fragment
               /\ p.base < i /\ i - 1 - p.base <= MaxGlobal
               /\ p.version = VersionAt(h, p.base, c.fragment)
               /\ VersionAt(h, i - 1, c.fragment) - p.version <= MaxFragment
               /\ \A q \in Consumed(h, i - 1) :
                      SameLineage(p, q) => q.seq < p.seq /\ ~SameBase(p, q)
        /\ h = Extend(SubSeq(h, 1, i - 1), c.fragment, c.selected)
              \o SubSeq(h, i + 1, Len(h))

Replays(tip) ==
    /\ tip.spec = manifest
    /\ Reachable(tip) \subseteq store
    /\ \A i \in 1..Len(tip.history) : ReplaysCommit(tip.history, i)

-----------------------------------------------------------------------------
Init ==
    /\ store = {}
    /\ manifest = NoSpec
    /\ head = NoTip
    /\ published = {}
    /\ pc = [w \in Process |-> "off"]
    /\ spec = [w \in Process |-> NoSpec]
    /\ todo = [w \in Process |-> <<>>]
    /\ prepared = [w \in Process |-> NoTip]

Goto(w, p) == pc' = [pc EXCEPT ![w] = p]

(* initialize: genesis tensors and frontier, then the manifest, then the    *)
(* head unless there is one.                                                *)
Initialize(w, g) ==
    /\ pc[w] = "off"
    /\ spec' = [spec EXCEPT ![w] = g]
    /\ todo' = [todo EXCEPT ![w] = GenesisObjects(g)]
    /\ Goto(w, "genesis")
    /\ UNCHANGED <<store, manifest, head, published, prepared>>

PutObject(w) ==
    /\ todo[w] # <<>>
    /\ store' = store \cup {Head(todo[w])}
    /\ Cardinality(store') <= MaxObjects
    /\ todo' = [todo EXCEPT ![w] = Tail(@)]
    /\ UNCHANGED <<manifest, head, published, pc, spec, prepared>>

(* Mutant of PutManifest: the manifest is replaced. *)
PutManifestAnyway(w) ==
    /\ pc[w] = "genesis" /\ todo[w] = <<>>
    /\ manifest' = spec[w] /\ Goto(w, "probing")
    /\ UNCHANGED <<store, head, published, spec, todo, prepared>>

(* Mutant of PutManifest: a manifest that is there is always a conflict. *)
PutManifestOnce(w) ==
    /\ pc[w] = "genesis" /\ todo[w] = <<>>
    /\ IF manifest = NoSpec
       THEN manifest' = spec[w] /\ Goto(w, "probing")
       ELSE UNCHANGED manifest /\ Goto(w, "failed")
    /\ UNCHANGED <<store, head, published, spec, todo, prepared>>

(* put_immutable: a manifest with other content is a conflict. *)
PutManifest(w) ==
    /\ pc[w] = "genesis" /\ todo[w] = <<>>
    /\ IF manifest \in {NoSpec, spec[w]}
       THEN manifest' = spec[w] /\ Goto(w, "probing")
       ELSE UNCHANGED manifest /\ Goto(w, "failed")
    /\ UNCHANGED <<store, head, published, spec, todo, prepared>>

ProbeHead(w) ==
    /\ pc[w] = "probing"
    /\ Goto(w, IF head = NoTip THEN "heading" ELSE "open")
    /\ UNCHANGED <<store, manifest, head, published, spec, todo, prepared>>

(* Mutant of PutHead: a head that has come up since is replaced. *)
PutHeadAnyway(w) ==
    /\ pc[w] = "heading"
    /\ head' = Root(spec[w]) /\ Goto(w, "open")
    /\ UNCHANGED <<store, manifest, published, spec, todo, prepared>>

(* put_if_absent: a head that has moved on since the probe is a conflict. *)
PutHead(w) ==
    /\ pc[w] = "heading"
    /\ IF head \in {NoTip, Root(spec[w])}
       THEN head' = Root(spec[w]) /\ Goto(w, "open")
       ELSE UNCHANGED head /\ Goto(w, "failed")
    /\ UNCHANGED <<store, manifest, published, spec, todo, prepared>>

(* Mutant of Open: a missing manifest goes unnoticed. *)
OpenUnread(w) ==
    /\ pc[w] = "off"
    /\ spec' = [spec EXCEPT ![w] = manifest]
    /\ Goto(w, "open")
    /\ UNCHANGED <<store, manifest, head, published, todo, prepared>>

(* open: the manifest says what the run is. *)
Open(w) ==
    /\ pc[w] = "off" /\ manifest # NoSpec
    /\ spec' = [spec EXCEPT ![w] = manifest]
    /\ Goto(w, "open")
    /\ UNCHANGED <<store, manifest, head, published, todo, prepared>>

-----------------------------------------------------------------------------
(* publish_proposal.  Learners train from committed exports and use a       *)
(* sequence number of a lineage once.                                       *)
Publish(w, p) ==
    /\ pc[w] = "open" /\ head # NoTip
    /\ p.base <= Len(head.history)
    /\ \A q \in published : SameLineage(p, q) /\ p.seq = q.seq => p = q
    /\ published' = published \cup {p}
    /\ UNCHANGED <<store, manifest, head, pc, spec, todo, prepared>>

(* prepare_transition's questions to the replayed head. *)
Admissible(h, f, S) ==
    LET n == Len(h)
    IN  /\ S # {} /\ S \cap Consumed(h, n) = {}
        /\ \A p, q \in S : p.learner = q.learner => p = q
        /\ \A p \in S :
               /\ p.fragment = f
               /\ p.base <= n /\ n - p.base <= MaxGlobal
               /\ p.version = VersionAt(h, p.base, f)
               /\ VersionAt(h, n, f) - p.version <= MaxFragment
               /\ \A q \in Consumed(h, n) :
                      SameLineage(p, q) => q.seq < p.seq /\ ~SameBase(p, q)

Prepare(w, f, S) ==
    /\ pc[w] = "open" /\ head # NoTip
    /\ Len(head.history) < MaxCommits
    /\ Replays(head)
    /\ Admissible(head.history, f, S)
    /\ prepared' = [prepared EXCEPT ![w] =
           [head EXCEPT !.history = Extend(@, f, S)]]
    /\ todo' = [todo EXCEPT ![w] = TransitionObjects(prepared'[w])]
    /\ Goto(w, "preparing")
    /\ UNCHANGED <<store, manifest, head, published, spec>>

(* resolve_prepared: the head or its ancestry holds the transition. *)
Resolved(tip) ==
    /\ Len(tip.history) <= Len(head.history)
    /\ Prefix(head, Len(tip.history)) = tip

(* commit_prepared looks first. *)
ResolveFirst(w) ==
    /\ pc[w] = "preparing" /\ todo[w] = <<>>
    /\ Goto(w, IF Resolved(prepared[w]) THEN "open" ELSE "swapping")
    /\ UNCHANGED <<store, manifest, head, published, spec, todo, prepared>>

(* conditional_replace of the head the transition was prepared on. *)
SwapHead(w) ==
    /\ head = Parent(prepared[w])
    /\ head' = prepared[w]

Swap(w) ==
    /\ pc[w] = "swapping"
    /\ SwapHead(w)
    /\ Goto(w, "open")
    /\ UNCHANGED <<store, manifest, published, spec, todo, prepared>>

(* PreconditionFailed: resolved all the same, or a conflict. *)
SwapRefused(w) ==
    /\ pc[w] = "swapping"
    /\ head # Parent(prepared[w])
    /\ Goto(w, "open")
    /\ UNCHANGED <<store, manifest, head, published, spec, todo, prepared>>

(* A timeout that does not resolve: the caller commits again or gives up.   *)
SwapUnanswered(w) ==
    /\ pc[w] = "swapping"
    /\ SwapHead(w) \/ UNCHANGED head
    /\ \E p \in {"preparing", "open"} : Goto(w, p)
    /\ UNCHANGED <<store, manifest, published, spec, todo, prepared>>

(* The process dies anywhere, or ends with an initialization error, and is  *)
(* started again; what it has put stays.                                    *)
Crash(w) ==
    /\ pc[w] # "off"
    /\ Goto(w, "off")
    /\ spec' = [spec EXCEPT ![w] = NoSpec]
    /\ todo' = [todo EXCEPT ![w] = <<>>]
    /\ prepared' = [prepared EXCEPT ![w] = NoTip]
    /\ UNCHANGED <<store, manifest, head, published>>

ProcessStep(w) ==
    \/ \E g \in RunSpec : Initialize(w, g)
    \/ PutObject(w) \/ PutManifest(w) \/ ProbeHead(w) \/ PutHead(w) \/ Open(w)
    \/ \E p \in Offered : Publish(w, p)
    \/ \E f \in Fragment, S \in SUBSET published : Prepare(w, f, S)
    \/ ResolveFirst(w) \/ Swap(w) \/ SwapRefused(w) \/ SwapUnanswered(w)
    \/ Crash(w)

Next == \E w \in Process : ProcessStep(w)

Spec == Init /\ [][Next]_vars

-----------------------------------------------------------------------------
(* Type invariant of the store, the fixed keys and the processes.           *)
TypeOK ==
    /\ \A o \in store : o.kind \in {"tensors", "commit", "frontier"} /\ o.tip \in Tip
    /\ manifest \in RunSpec \cup {NoSpec}
    /\ head \in Tip \cup {NoTip}
    /\ published \in SUBSET Offered
    /\ pc \in [Process -> {"off", "genesis", "probing", "heading", "open", "preparing",
                           "swapping", "failed"}]
    /\ spec \in [Process -> RunSpec \cup {NoSpec}]
    /\ prepared \in [Process -> Tip \cup {NoTip}]
    /\ \A w \in Process :
           /\ \A i \in 1..Len(todo[w]) : todo[w][i].tip \in Tip
           /\ pc[w] \in {"preparing", "swapping"} => prepared[w] \in Tip
           /\ pc[w] # "off" => spec[w] \in RunSpec

(* I-001: the head never names what is not there.  From the moment it       *)
(* exists, everything a reader follows from it was put before, whoever died *)
(* between two puts, and every commit of it passes replay under the         *)
(* manifest of the generation.                                              *)
HeadReplays == head # NoTip => Replays(head)

(* Processes configured differently never share a generation: whoever has   *)
(* it open, in the middle of initializing or not, has the specification     *)
(* of its manifest, and the head descends from that genesis.                *)
OneGenesis ==
    /\ \A w \in Process :
           pc[w] \in {"probing", "heading", "open", "preparing", "swapping"} =>
               spec[w] = manifest
    /\ head # NoTip => head.spec = manifest

(* An initialization cut short can be repeated: whoever starts it again     *)
(* with the configuration of the generation gets through it from any point, *)
(* unless the first commit comes between its look at the head and its put.  *)
FailsForCause ==
    \A w \in Process : pc[w] = "failed" =>
        spec[w] # manifest \/ (head # NoTip /\ Len(head.history) > 0)

-----------------------------------------------------------------------------
(* The committed prefix as a history of the reference model. *)
History == IF head = NoTip THEN <<>> ELSE head.history

Reference == INSTANCE ReferenceModel
    WITH MaxEvents <- MaxCommits,
         proposals <- published,
         commits <- [i \in 1..Len(History) |->
             [kind |-> "commit", fragment |-> History[i].fragment,
              previous |-> VersionAt(History, i - 1, History[i].fragment),
              new |-> VersionAt(History, i, History[i].fragment),
              selected |-> History[i].selected]],
         fragments <- [f \in Fragment |->
             [version |-> VersionAt(History, Len(History), f),
              producer |-> ProducerAt(History, Len(History), f)]],
         consumed <- Consumed(History, Len(History)),
         decisions <- {}

(* The log agrees with the oracle the tests compare it to: a head swap is   *)
(* one commit_prepared of the model, and initialization, puts, crashes and  *)
(* lost answers of any number of processes are invisible to it.             *)
ImplementsModel == Reference!Spec
=============================================================================
