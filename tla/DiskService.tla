---------------------------- MODULE DiskService ----------------------------
(***************************************************************************)
(* What ata_read promises its callers: a request waits its turn and is     *)
(* answered, in one step, with exactly the sectors it asked for.           *)
(***************************************************************************)
EXTENDS Integers, Sequences

CONSTANTS
  MaxTasks,  \* the callers are the tasks 1 .. MaxTasks
  Requests   \* the requests they may make

VARIABLES
  pending,  \* the tasks whose request is not answered yet, oldest first
  ask,      \* ask[t]: the last request of task t
  data      \* data[t]: its answer; empty until it is given

vars == <<pending, ask, data>>

Clients == 1 .. MaxTasks

Waiting(t) == \E k \in 1 .. Len(pending) : pending[k] = t

Init ==
  /\ pending = <<>>
  /\ ask = [t \in Clients |-> [lba |-> 0, seccount |-> 0]]
  /\ data = [t \in Clients |-> <<>>]

Submit(t, r) ==
  /\ ~Waiting(t)
  /\ pending' = Append(pending, t)
  /\ ask' = [ask EXCEPT ![t] = r]
  /\ data' = [data EXCEPT ![t] = <<>>]

Answer ==
  /\ pending # <<>>
  /\ LET t == Head(pending)
     IN  data' = [data EXCEPT ![t] = [k \in 1 .. ask[t].seccount |-> ask[t].lba + k - 1]]
  /\ pending' = Tail(pending)
  /\ UNCHANGED ask

Next == Answer \/ \E t \in Clients, r \in Requests : Submit(t, r)

Spec == Init /\ [][Next]_vars
=============================================================================
