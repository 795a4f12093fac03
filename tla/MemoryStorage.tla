---------------------------- MODULE MemoryStorage ----------------------------
(***************************************************************************)
(* What a storage backend promises of one key: InMemoryStorageBackend,     *)
(* where a call takes effect in one step, wrapped by the fault injection   *)
(* that makes a call raise before its effect or after it.  A version token *)
(* is given once: the backend counts, and the POSIX one draws at random.   *)
(***************************************************************************)
EXTENDS Integers

CONSTANTS
    Call,       \* calls of the backend
    Data,       \* payloads
    Request,    \* request identities of conditional replacements
    NoRequest,  \* a call without one
    Absent,     \* the payload of a deletion
    Version     \* positive integers: the tokens the backend can give

VARIABLES
    object,     \* the set that holds the stored object, or nothing
    given,      \* the tokens that were given to some object
    status,     \* of each call: "new", "called", "answered", "raised"
    args,       \* its arguments
    result      \* the version its effect is about, Deleted, or Nothing yet

memoryVars == <<object, given, status, args, result>>

Nothing == 0
Deleted == -1

Requests ==
         [kind : {"put"}, data : Data, expected : {0}, req : {NoRequest}]
    \cup [kind : {"replace"}, data : Data, expected : Version,
          req : Request \cup {NoRequest}]
    \cup [kind : {"delete"}, data : {Absent}, expected : {0} \cup Version,
          req : {NoRequest}]

Stored(r, v) ==
    [version |-> v, data |-> r.data, previous |-> r.expected, request |-> r.req]

Init ==
    /\ object = {}
    /\ given = {}
    /\ status = [c \in Call |-> "new"]
    /\ args \in [Call -> Requests \cup
                   [kind : {"put"}, data : {Absent}, expected : {0}, req : {NoRequest}]]
    /\ result = [c \in Call |-> Nothing]

Begin(c) ==
    /\ status[c] = "new"
    /\ status' = [status EXCEPT ![c] = "called"]
    /\ \E r \in Requests : args' = [args EXCEPT ![c] = r]
    /\ UNCHANGED <<object, given, result>>

Pending(c) == status[c] = "called" /\ result[c] = Nothing

(* put_immutable of a new key.                                              *)
Create(c, v) ==
    /\ Pending(c) /\ args[c].kind = "put" /\ object = {}
    /\ object' = {Stored(args[c], v)}
    /\ given' = given \cup {v}
    /\ result' = [result EXCEPT ![c] = v]
    /\ UNCHANGED <<status, args>>

(* conditional_replace of exactly the version that is there.                *)
Replace(c, v) ==
    /\ Pending(c) /\ args[c].kind = "replace"
    /\ \E o \in object : o.version = args[c].expected
    /\ object' = {Stored(args[c], v)}
    /\ given' = given \cup {v}
    /\ result' = [result EXCEPT ![c] = v]
    /\ UNCHANGED <<status, args>>

(* delete_batch of a key, or of one version of it.                          *)
Delete(c) ==
    /\ Pending(c) /\ args[c].kind = "delete"
    /\ \E o \in object : args[c].expected \in {0, o.version}
    /\ object' = {}
    /\ result' = [result EXCEPT ![c] = Deleted]
    /\ UNCHANGED <<given, status, args>>

(* The bytes are there already: an immutable put of the same bytes, or a    *)
(* retry of the replacement that made the object.                           *)
Repeat(c) ==
    /\ Pending(c)
    /\ \E o \in object :
        /\ o.data = args[c].data
        /\ \/ args[c].kind = "put"
           \/ /\ args[c].kind = "replace" /\ args[c].req # NoRequest
              /\ o.version # args[c].expected
              /\ o.previous = args[c].expected /\ o.request = args[c].req
        /\ result' = [result EXCEPT ![c] = o.version]
    /\ UNCHANGED <<object, given, status, args>>

(* A success is answered with the version of its effect.                    *)
Answer(c) ==
    /\ status[c] = "called" /\ result[c] # Nothing
    /\ status' = [status EXCEPT ![c] = "answered"]
    /\ UNCHANGED <<object, given, args, result>>

(* NotFound, ImmutableConflict, PreconditionFailed, or a fault before the   *)
(* effect or after it: the caller cannot tell from a timeout which.         *)
Raise(c) ==
    /\ status[c] = "called"
    /\ status' = [status EXCEPT ![c] = "raised"]
    /\ UNCHANGED <<object, given, args, result>>

Next ==
    \E c \in Call :
        \/ Begin(c)
        \/ \E v \in Version \ given : Create(c, v) \/ Replace(c, v)
        \/ Delete(c)
        \/ Repeat(c)
        \/ Answer(c)
        \/ Raise(c)

MemorySpec == Init /\ [][Next]_memoryVars
=============================================================================
