---------------------------- MODULE BlockDevice -----------------------------
(***************************************************************************)
(* What the callers of a block device rely on.  A call reads or writes     *)
(* some consecutive sectors, in their order and each of them at one        *)
(* moment.  A call that succeeds has been through all of them, a call that *)
(* fails through some first ones; between two calls, and after a call that *)
(* was given up, the disk does not change.  Of the buffer of a read the    *)
(* sectors that were not reached are worth nothing.                        *)
(***************************************************************************)
EXTENDS Integers

CONSTANTS Sectors, Values, Blank

VARIABLES
  disk,    \* the contents of the sectors
  call,    \* the last call
  buffer,  \* its buffer
  done,    \* the sectors that the call under way has been through
  status   \* "none", "pending", or how the last call ended

deviceVars == <<disk, call, buffer, done, status>>

Init ==
  /\ disk \in [Sectors -> Values]
  /\ call = [op |-> "none", sector |-> 0, count |-> 0]
  /\ buffer = [k \in {} |-> Blank]
  /\ done = 0
  /\ status = "none"

\* a call, with what it is to write
Begin ==
  /\ status # "pending" /\ status' = "pending"
  /\ call' \in [op : {"read", "write"}, sector : Nat, count : Nat \ {0}]
  /\ buffer' \in [0 .. call'.count - 1 -> IF call'.op = "read" THEN {Blank} ELSE Values]
  /\ done' = 0
  /\ disk' = disk

Pending(op) == status = "pending" /\ call.op = op

Return(answer) == status' = answer /\ done' = 0

\* the sector that is next
Here == call.sector + done

Fills(value) == buffer' = [buffer EXCEPT ![done] = value]

\* a read gives up what was in the buffer
Clear ==
  /\ Pending("read")
  /\ Fills(Blank)
  /\ UNCHANGED <<disk, call, done, status>>

\* a read takes the next sector, and returns behind the last
Read ==
  /\ Pending("read") /\ Here \in Sectors
  /\ Fills(disk[Here])
  /\ \/ done + 1 < call.count /\ done' = done + 1 /\ status' = status
     \/ done + 1 = call.count /\ Return("success")
  /\ UNCHANGED <<disk, call>>

\* a write changes the next sector
Write ==
  /\ Pending("write") /\ Here \in Sectors /\ done < call.count
  /\ disk' = [disk EXCEPT ![Here] = buffer[done]]
  /\ done' = done + 1
  /\ UNCHANGED <<call, buffer, status>>

\* a write returns, with all of them written
Written ==
  /\ Pending("write") /\ done = call.count
  /\ Return("success")
  /\ UNCHANGED <<disk, call, buffer>>

\* a call is given up, wherever it is
Fail ==
  /\ status = "pending" /\ Return("failure")
  /\ buffer' = buffer \/ (call.op = "read" /\ Fills(Blank))
  /\ UNCHANGED <<disk, call>>

Next == Begin \/ Clear \/ Read \/ Write \/ Written \/ Fail

Spec == Init /\ [][Next]_deviceVars
=============================================================================
