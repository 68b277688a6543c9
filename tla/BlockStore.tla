----------------------------- MODULE BlockStore -----------------------------
(***************************************************************************)
(* What a user of the cache layer may rely on: one array of blocks, one    *)
(* request at a time, a read returns what the last write of that block     *)
(* stored.  read_block() and write_block() of src/cache.c are the only     *)
(* entry points, and the process that calls them waits for the answer.     *)
(***************************************************************************)

CONSTANTS
  Blocks,      \* block numbers of the backing disk
  Values,      \* contents a block can hold
  InitValue,   \* what every block holds before the first request
  NoOp,        \* no request is being served
  NoReply      \* no value has been returned

VARIABLES
  store,       \* the contents of each block
  op,          \* the request being served
  reply        \* what the last request returned

vars == <<store, op, reply>>

Requests == [kind : {"read"}, block : Blocks, value : {InitValue}]
              \cup [kind : {"write"}, block : Blocks, value : Values]

TypeOK ==
  /\ store \in [Blocks -> Values]
  /\ op \in Requests \cup {NoOp}
  /\ reply \in Values \cup {NoReply}

Init ==
  /\ store = [b \in Blocks |-> InitValue]
  /\ op = NoOp
  /\ reply = NoReply

\* The caller issues a read or a write.
Request ==
  /\ op = NoOp
  /\ op' \in Requests
  /\ reply' = NoReply
  /\ UNCHANGED store

ReadReturns ==
  /\ op # NoOp
  /\ op.kind = "read"
  /\ reply' = store[op.block]
  /\ op' = NoOp
  /\ UNCHANGED store

WriteReturns ==
  /\ op # NoOp
  /\ op.kind = "write"
  /\ store' = [store EXCEPT ![op.block] = op.value]
  /\ op' = NoOp
  /\ UNCHANGED reply

Next == Request \/ ReadReturns \/ WriteReturns

Spec == Init /\ [][Next]_vars
=============================================================================
