----------------------------- MODULE LeaseBook -----------------------------
(***************************************************************************)
(* The pure lease of the coordination reference: LeaseBook, LeaseRequest   *)
(* and LeaseRecord of coordination/state_machine.py.  A request is judged  *)
(* and its record installed in one step, against the record of that        *)
(* moment; the version of the book is the sequence of its record.  A       *)
(* request that is repeated returns its first record and changes nothing.  *)
(*                                                                         *)
(* LeaseManager does the same by a load, a check and a conditional write.  *)
(***************************************************************************)
EXTENDS Integers

CONSTANTS
    Session,     \* owner sessions that send requests
    NoOwner,     \* the owner field of the empty book
    Ttl,         \* ttl_ns
    Time,        \* instants a request may carry as now_ns
    Epoch        \* epochs it may have observed

VARIABLE record  \* the LeaseRecord, or Empty

Empty == [owner |-> NoOwner, epoch |-> 0, seq |-> 0, expires |-> 0]

Init == record = Empty

Acquire(s, observed, now) ==
    /\ record # Empty => now >= record.expires
    /\ record' = [owner |-> s, epoch |-> observed + 1, seq |-> record.seq + 1,
                  expires |-> now + Ttl]

Next == \E s \in Session, observed \in Epoch, now \in Time : Acquire(s, observed, now)

Spec == Init /\ [][Next]_record
=============================================================================
