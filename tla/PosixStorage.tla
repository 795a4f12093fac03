----------------------------- MODULE PosixStorage -----------------------------
(***************************************************************************)
(* One key of PosixStorageBackend, the backend under the log and under     *)
(* publication.  Calls put, replace conditionally and delete the object    *)
(* under a per-key flock: they look at it, publish with link, rename or    *)
(* unlink, and then fsync the parent directory.  Before that a call makes  *)
(* the parts of the parent's path that are missing, and fsyncs the         *)
(* directory above each part it made itself.  Calls of other keys make the *)
(* same parts under locks of their own.  The caller can die at any point,  *)
(* which frees its lock; a call can fail before or after its effect or     *)
(* lose its answer; and the operating system can crash, after which the    *)
(* directory holds any entry published since the last fsync, or the one    *)
(* before, or is gone with all below it when its own entry was not fsynced.*)
(*                                                                         *)
(* Every publication is an effect, and its position in `effects` is the    *)
(* opaque version token: random tokens are never equal, and positions are  *)
(* not either.  File contents are fsynced before they are published, so an *)
(* entry that is found is whole.                                           *)
(***************************************************************************)
EXTENDS Integers, Sequences

CONSTANTS
    Call,        \* calls of the backend, by whatever process makes them
    Data,        \* payloads
    Request,     \* request identities of conditional replacements
    NoRequest,   \* a call without one
    NoCall,      \* nobody holds the lock
    Absent,      \* the payload of an unlinked object
    Depth,       \* parts of the path from the root to the object's parent
    MaxEffects,  \* bound: publications and deletions
    MaxOsCrashes \* bound: crashes of the operating system

ASSUME PosixStorageAssumption ==
    /\ Depth \in Nat /\ MaxEffects \in Nat /\ MaxOsCrashes \in Nat
    /\ NoRequest \notin Request /\ NoCall \notin Call /\ Absent \notin Data

VARIABLES
    effects,     \* all that was ever published under the key, in order
    visible,     \* position of what the directory shows, 0 for nothing yet
    survivors,   \* positions the directory may show after an OS crash
    parts,       \* of each directory on the path, how far its entry is
    gone,        \* publications up to here went with a lost directory
    lock,        \* the call that holds the flock
    pc,          \* how far each call is
    args,        \* its arguments
    outcome,     \* "published", "observed", or "none" without success
    at,          \* the position its success is about
    osCrashes

vars == <<effects, visible, survivors, parts, gone, lock, pc, args, outcome, at, osCrashes>>

tree == <<parts, gone>>

Kind == {"put", "replace", "delete"}

(* expected is the version a replacement or deletion asks for; 0 of a       *)
(* deletion stands for any.                                                 *)
Args == [kind : Kind, data : Data \cup {Absent},
         expected : 0..MaxEffects, req : Request \cup {NoRequest}]

(* past holds the positions an object descends from.                        *)
Effect == [by : Args, past : SUBSET (0..MaxEffects)]

Exists(v) == v # 0 /\ effects[v].by.data # Absent

Past(v) == {v} \cup IF v = 0 THEN {} ELSE effects[v].past

NoArgs == [kind |-> "put", data |-> Absent, expected |-> 0, req |-> NoRequest]

Init ==
    /\ effects = <<>>
    /\ visible = 0
    /\ survivors = {0}
    /\ parts = [i \in 1..Depth |-> "missing"]
    /\ gone = 0
    /\ lock = NoCall
    /\ pc = [c \in Call |-> "new"]
    /\ args = [c \in Call |-> NoArgs]
    /\ outcome = [c \in Call |-> "none"]
    /\ at = [c \in Call |-> 0]
    /\ osCrashes = 0

-----------------------------------------------------------------------------
(* A caller of conditional_replace or delete_batch passes a version it read *)
(* at some time, which need not be the current one.                         *)
Requests ==
         [kind : {"put"}, data : Data, expected : {0}, req : {NoRequest}]
    \cup [kind : {"replace"}, data : Data, expected : DOMAIN effects,
          req : Request \cup {NoRequest}]
    \cup [kind : {"delete"}, data : {Absent}, expected : {0} \cup DOMAIN effects,
          req : {NoRequest}]

Begin(c, r) ==
    /\ pc[c] = "new"
    /\ args' = [args EXCEPT ![c] = r]
    /\ pc' = [pc EXCEPT ![c] = "lock"]
    /\ UNCHANGED <<effects, visible, survivors, tree, lock, outcome, at, osCrashes>>

Lock(c) ==
    /\ pc[c] = "lock" /\ lock = NoCall
    /\ lock' = c
    /\ pc' = [pc EXCEPT ![c] = "look"]
    /\ UNCHANGED <<effects, visible, survivors, tree, args, outcome, at, osCrashes>>

LockTimeout(c) ==
    /\ pc[c] = "lock" /\ lock # NoCall
    /\ pc' = [pc EXCEPT ![c] = "raised"]
    /\ UNCHANGED <<effects, visible, survivors, tree, lock, args, outcome, at, osCrashes>>

(* May the call publish over what it finds?                                 *)
Admits(r) ==
    CASE r.kind = "put" -> ~Exists(visible)
      [] r.kind = "replace" -> Exists(visible) /\ visible = r.expected
      [] r.kind = "delete" -> Exists(visible) /\ r.expected \in {0, visible}

(* Mutant: any request with the same bytes and expectation is answered.     *)
RepeatsAnyRequest(r) ==
    /\ Exists(visible) /\ effects[visible].by.data = r.data
    /\ \/ r.kind = "put"
       \/ /\ r.kind = "replace" /\ visible # r.expected
          /\ effects[visible].by.expected = r.expected

(* Is the call answered with what it finds?  An immutable put finds its own *)
(* bytes; a replacement finds the direct successor of the version it        *)
(* expected, made of its bytes by its request.                              *)
Repeats(r) ==
    /\ Exists(visible) /\ effects[visible].by.data = r.data
    /\ \/ r.kind = "put"
       \/ /\ r.kind = "replace" /\ visible # r.expected
          /\ r.req # NoRequest
          /\ effects[visible].by = r

(* The object is read under the lock.                                       *)
Admitted(c) ==
    /\ pc[c] = "look" /\ Admits(args[c])
    /\ pc' = [pc EXCEPT ![c] = "publish"]
    /\ UNCHANGED <<effects, visible, survivors, tree, lock, args, outcome, at, osCrashes>>

(* Mutant: the answer names a fresh version, not the one that was found.    *)
ObservedFresh(c) ==
    /\ pc[c] = "look" /\ Repeats(args[c])
    /\ pc' = [pc EXCEPT ![c] = "unlock"]
    /\ outcome' = [outcome EXCEPT ![c] = "observed"]
    /\ at' = [at EXCEPT ![c] = Len(effects) + 1]
    /\ UNCHANGED <<effects, visible, survivors, tree, lock, args, osCrashes>>

Observed(c) ==
    /\ pc[c] = "look" /\ Repeats(args[c])
    /\ pc' = [pc EXCEPT ![c] = "unlock"]
    /\ outcome' = [outcome EXCEPT ![c] = "observed"]
    /\ at' = [at EXCEPT ![c] = visible]
    /\ UNCHANGED <<effects, visible, survivors, tree, lock, args, osCrashes>>

(* NotFound, ImmutableConflict, PreconditionFailed, "missing" and           *)
(* "precondition_failed".                                                   *)
Refused(c) ==
    /\ pc[c] = "look" /\ ~Admits(args[c]) /\ ~Repeats(args[c])
    /\ pc' = [pc EXCEPT ![c] = "unlock"]
    /\ UNCHANGED <<effects, visible, survivors, tree, lock, args, outcome, at, osCrashes>>

(* The parent's path, walked from the root.  A part is "missing"; or "made" *)
(* by this key's call, which has yet to fsync the directory above; or       *)
(* "left" without that fsync by a call that failed or died, or by one of    *)
(* another key that may still come to it; or "durable".                     *)
Reached == \A i \in 1..Depth : parts[i] # "missing"

FirstMissing(i) == parts[i] = "missing" /\ \A j \in 1..(i - 1) : parts[j] # "missing"

(* Mutant: the missing parts are made as os.makedirs would make them.       *)
MakePartOnly(c) ==
    /\ pc[c] = "publish"
    /\ \E i \in 1..Depth :
        FirstMissing(i) /\ parts' = [parts EXCEPT ![i] = "made"]
    /\ UNCHANGED <<effects, visible, survivors, gone, lock, pc, args, outcome, at, osCrashes>>

(* Parts that exist are passed, and nothing is fsynced above them; the      *)
(* first that does not is made.                                             *)
MakePart(c) ==
    /\ pc[c] = "publish"
    /\ \E i \in 1..Depth :
        FirstMissing(i) /\ parts' = [parts EXCEPT ![i] = "made"]
    /\ pc' = [pc EXCEPT ![c] = "above"]
    /\ UNCHANGED <<effects, visible, survivors, gone, lock, args, outcome, at, osCrashes>>

SyncAbove(c) ==
    /\ pc[c] = "above"
    /\ parts' = [i \in 1..Depth |-> IF parts[i] = "made" THEN "durable" ELSE parts[i]]
    /\ pc' = [pc EXCEPT ![c] = "publish"]
    /\ UNCHANGED <<effects, visible, survivors, gone, lock, args, outcome, at, osCrashes>>

(* A call of another key makes a part, or fsyncs a directory on the path.   *)
OthersMake ==
    /\ \E i \in 1..Depth :
        FirstMissing(i) /\ parts' = [parts EXCEPT ![i] = "left"]
    /\ UNCHANGED <<effects, visible, survivors, gone, lock, pc, args, outcome, at, osCrashes>>

OthersSync ==
    /\ \E i \in 1..Depth :
        parts[i] \in {"made", "left"} /\ parts' = [parts EXCEPT ![i] = "durable"]
    /\ UNCHANGED <<effects, visible, survivors, gone, lock, pc, args, outcome, at, osCrashes>>

(* The temporary file, written and fsynced, takes the object's name, or the *)
(* name goes.  The new entry descends from the one it replaces.             *)
Publish(c) ==
    /\ pc[c] = "publish" /\ Reached /\ Len(effects) < MaxEffects
    /\ effects' = Append(effects, [by |-> args[c], past |-> Past(visible)])
    /\ visible' = Len(effects) + 1
    /\ survivors' = survivors \cup {visible'}
    /\ at' = [at EXCEPT ![c] = visible']
    /\ pc' = [pc EXCEPT ![c] = "sync"]
    /\ UNCHANGED <<tree, lock, args, outcome, osCrashes>>

(* The entry is made durable, and the call has succeeded.                   *)
SyncParent(c) ==
    /\ pc[c] = "sync"
    /\ survivors' = {visible}
    /\ outcome' = [outcome EXCEPT ![c] = "published"]
    /\ pc' = [pc EXCEPT ![c] = "unlock"]
    /\ UNCHANGED <<effects, visible, tree, lock, args, at, osCrashes>>

(* A part whose maker does not come to its fsync stays.                     *)
Left(c) ==
    [i \in 1..Depth |->
        IF pc[c] = "above" /\ parts[i] = "made" THEN "left" ELSE parts[i]]

(* An OSError of the read, before the effect or after it, is raised.        *)
Fail(c) ==
    /\ pc[c] \in {"look", "publish", "above", "sync"}
    /\ parts' = Left(c)
    /\ pc' = [pc EXCEPT ![c] = "unlock"]
    /\ UNCHANGED <<effects, visible, survivors, gone, lock, args, outcome, at, osCrashes>>

(* Mutant: whoever leaves removes the lock file, under its holder's feet.   *)
FreeRemoves(c) == NoCall

Free(c) == IF lock = c THEN NoCall ELSE lock

Answer(c) ==
    /\ pc[c] = "unlock" /\ outcome[c] # "none"
    /\ lock' = Free(c)
    /\ pc' = [pc EXCEPT ![c] = "answered"]
    /\ UNCHANGED <<effects, visible, survivors, tree, args, outcome, at, osCrashes>>

(* The call failed, or its answer is lost (a timeout after the effect).     *)
Raise(c) ==
    /\ pc[c] = "unlock"
    /\ lock' = Free(c)
    /\ pc' = [pc EXCEPT ![c] = "raised"]
    /\ UNCHANGED <<effects, visible, survivors, tree, args, outcome, at, osCrashes>>

Over == {"new", "answered", "raised"}

(* The calling process dies, and its flock goes with it.                    *)
Die(c) ==
    /\ pc[c] \notin Over
    /\ parts' = Left(c)
    /\ lock' = Free(c)
    /\ pc' = [pc EXCEPT ![c] = "raised"]
    /\ UNCHANGED <<effects, visible, survivors, gone, args, outcome, at, osCrashes>>

(* What the disk holds after an OS crash: all the directories with one of   *)
(* the entries the last may show, or none from a part on that was not       *)
(* fsynced.  Only a part that was left excuses the loss of a publication:   *)
(* nobody answers for it.                                                   *)
Shows ==
    /\ parts' = [i \in 1..Depth |->
                    IF parts[i] = "missing" THEN "missing" ELSE "durable"]
    /\ visible' \in survivors
    /\ UNCHANGED gone

Loses(i) ==
    /\ parts[i] \in {"made", "left"}
    /\ parts' = [j \in 1..Depth |-> IF j < i THEN "durable" ELSE "missing"]
    /\ visible' = 0
    /\ gone' = IF parts[i] = "left" THEN Len(effects) ELSE gone

OsCrash ==
    /\ osCrashes < MaxOsCrashes
    /\ osCrashes' = osCrashes + 1
    /\ Shows \/ \E i \in 1..Depth : Loses(i)
    /\ survivors' = {visible'}
    /\ lock' = NoCall
    /\ pc' = [c \in Call |-> IF pc[c] \in Over THEN pc[c] ELSE "raised"]
    /\ UNCHANGED <<effects, args, outcome, at>>

CallStep(c) ==
    \/ \E r \in Requests : Begin(c, r)
    \/ Lock(c)
    \/ LockTimeout(c)
    \/ Admitted(c)
    \/ Observed(c)
    \/ Refused(c)
    \/ MakePart(c)
    \/ SyncAbove(c)
    \/ Publish(c)
    \/ SyncParent(c)
    \/ Fail(c)
    \/ Answer(c)
    \/ Raise(c)
    \/ Die(c)

Next == (\E c \in Call : CallStep(c)) \/ OthersMake \/ OthersSync \/ OsCrash

Spec == Init /\ [][Next]_vars

-----------------------------------------------------------------------------
(* Variables hold what the code could have put there: positions that were   *)
(* published, and at every time something to find after a crash.            *)
TypeOK ==
    /\ effects \in Seq(Effect) /\ Len(effects) <= MaxEffects
    /\ visible \in 0..Len(effects)
    /\ survivors \in SUBSET (0..Len(effects)) /\ visible \in survivors
    /\ parts \in [1..Depth -> {"missing", "made", "left", "durable"}]
    /\ gone \in 0..Len(effects)
    /\ lock \in Call \cup {NoCall}
    /\ pc \in [Call -> {"lock", "look", "publish", "above", "sync", "unlock"} \cup Over]
    /\ args \in [Call -> Args]
    /\ outcome \in [Call -> {"none", "published", "observed"}]
    /\ at \in [Call -> 0..Len(effects)]
    /\ osCrashes \in 0..MaxOsCrashes

(* What a caller can see of the backend: the object with its version, the   *)
(* versions that were given, and of each call whether it is over, its       *)
(* arguments and the version its effect is about.                           *)
Object ==
    {[version |-> v, data |-> effects[v].by.data,
      previous |-> effects[v].by.expected, request |-> effects[v].by.req] :
        v \in {w \in {visible} : Exists(w)}}

Given == {v \in DOMAIN effects : effects[v].by.kind # "delete"}

Status == [c \in Call |-> IF pc[c] \in Over THEN pc[c] ELSE "called"]

Result ==
    [c \in Call |-> IF at[c] # 0 /\ args[c].kind = "delete" THEN -1 ELSE at[c]]

Memory == INSTANCE MemoryStorage WITH
    Version <- 1..MaxEffects,
    object <- Object, given <- Given, status <- Status, result <- Result

(* Short of an OS crash the backend under lock, link, rename, unlink and    *)
(* fsync, with callers that die, is the memory backend, where each call     *)
(* takes effect at once or raises: the object changes only to a replacement *)
(* of exactly the version it had, to a creation where nothing was, or to    *)
(* the removal of what was asked for, and an answer names the version the   *)
(* call made or repeated (docs/duraloco/failure_model.md:16,                *)
(* docs/duraloco/storage_contract.md).                                      *)
ImplementsMemory ==
    Memory!Init /\ [][osCrashes' = osCrashes + 1 \/ Memory!Next]_(Memory!memoryVars)

Answered == {c \in Call : pc[c] = "answered"}

(* Among the objects the current one descends from, independent callers     *)
(* that expected the same version were not both told of a success: their    *)
(* calls name one request, or each of them published itself, and then they  *)
(* are the same (docs/duraloco/storage_contract.md:28-32).                  *)
OneWinner ==
    \A c, d \in Answered :
        /\ args[c].kind = "replace" /\ args[d].kind = "replace"
        /\ args[c].expected = args[d].expected
        /\ {at[c], at[d]} \subseteq Past(visible)
        => args[c] = args[d] /\ (args[c].req = NoRequest => c = d)

(* A success that the publisher itself was told of outlives every crash but *)
(* one: all that the object's directory may ever show descends from it,     *)
(* unless a crash has since taken a directory of the path which nobody      *)
(* fsynced the one above for: made by another key's call, or by one that    *)
(* failed or died, and passed by the publisher (posix.py:172).  What a call *)
(* makes itself it fsyncs before it publishes, and both fsyncs are needed.  *)
PublishedSurvives ==
    \A c \in Answered :
        outcome[c] = "published" /\ gone < at[c] => \A s \in survivors : at[c] \in Past(s)

(* An acknowledged object remains until it is replaced or removed           *)
(* (docs/duraloco/failure_model.md:14-15), in a directory that is durable.  *)
AcknowledgedSurvives ==
    \A c \in Answered : \A s \in survivors : at[c] \in Past(s)
=============================================================================
