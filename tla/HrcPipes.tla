------------------------------ MODULE HrcPipes ------------------------------
(***************************************************************************)
(* The processes of one run: the main process replays the trace on the     *)
(* real cache and forks H helpers, each of which replays the same requests *)
(* on a cache of another size, without devices, to draw the hit-ratio      *)
(* curve (HRC).  The main process writes every request it has served to    *)
(* the pipe of every helper; 64 bytes a record, below PIPE_BUF, so a       *)
(* record is written and read whole.  A last record of 4 bytes says "EOF": *)
(* the helper's read then returns less than 64 and it stops.               *)
(*                                                                         *)
(* What can go wrong is in the file descriptors.  A helper inherits the    *)
(* main process's write ends of the pipes made before its own; a pipe      *)
(* reports end-of-file only when nobody holds its write end, and a writer  *)
(* learns that the reader is gone only when nobody holds the read end.     *)
(***************************************************************************)
EXTENDS Integers, Sequences, SequencesExt

CONSTANTS H,           \* HRC_PROCS_N, the number of helpers
          PipeRecords, \* how many records a pipe holds
          Lines,       \* how many lines the trace has
          WriteOnly    \* the third argument: reads are passed over

ASSUME HrcAssumption ==
    /\ H \in Nat \ {0}
    /\ PipeRecords \in Nat \ {0}
    /\ Lines \in Nat
    /\ WriteOnly \in BOOLEAN

Main == 0
Helpers == 1..H
Procs == {Main} \cup Helpers
EOF == 0                       \* the record that is not a line number

VARIABLES
    mainPc,     \* where the main process is
    k,          \* the helper it forks, or writes to, next
    line,       \* lines of the trace read so far
    served,     \* the lines served on the real cache, in order
    helper,     \* what each helper does
    replayed,   \* the lines each helper has replayed, in order
    pipe,       \* the records in each pipe
    readEnds,   \* the processes that hold the read end of each pipe
    writeEnds   \* the processes that hold the write end of each pipe

trace == <<line, served>>
fds == <<readEnds, writeEnds>>
hrcVars == <<mainPc, k, line, served, helper, replayed, pipe, readEnds, writeEnds>>

MainStates == {"fork", "forked", "serve", "send", "eof", "wait", "done", "failed"}
HelperStates == {"none", "started", "reads", "done", "failed"}

MainGone == mainPc \in {"done", "failed"}
Running(i) == helper[i] \in {"started", "reads"}
Gone(i) == helper[i] \in {"done", "failed"}

HrcTypeOK ==
    /\ mainPc \in MainStates
    /\ k \in 1..H
    /\ line \in 0..Lines
    /\ served \in Seq(1..Lines)
    /\ helper \in [Helpers -> HelperStates]
    /\ replayed \in [Helpers -> Seq(1..Lines)]
    /\ pipe \in [Helpers -> Seq({EOF} \cup 1..Lines)]
    /\ \A i \in Helpers : Len(pipe[i]) <= PipeRecords
    /\ readEnds \in [Helpers -> SUBSET Procs]
    /\ writeEnds \in [Helpers -> SUBSET Procs]

HrcInit ==
    /\ mainPc = "fork" /\ k = 1
    /\ line = 0 /\ served = <<>>
    /\ helper = [i \in Helpers |-> "none"]
    /\ replayed = [i \in Helpers |-> <<>>]
    /\ pipe = [i \in Helpers |-> <<>>]
    /\ readEnds = [i \in Helpers |-> {}]
    /\ writeEnds = [i \in Helpers |-> {}]

-----------------------------------------------------------------------------
\* exit(): the kernel closes every descriptor of the process.
CloseAll(p) ==
    /\ readEnds' = [i \in Helpers |-> readEnds[i] \ {p}]
    /\ writeEnds' = [i \in Helpers |-> writeEnds[i] \ {p}]

\* What helper i holds after fork: a copy of whatever the main process holds.
Inherits(ends, i) ==
    [j \in Helpers |-> IF j = i THEN {Main, i}
                       ELSE IF Main \in ends[j] THEN ends[j] \cup {i} ELSE ends[j]]

\* fork_pipe_create: the pipe, then the child.
Fork ==
    /\ mainPc = "fork"
    /\ helper' = [helper EXCEPT ![k] = "started"]
    /\ readEnds' = Inherits(readEnds, k)
    /\ writeEnds' = Inherits(writeEnds, k)
    /\ mainPc' = "forked"
    /\ UNCHANGED <<k, trace, replayed, pipe>>

\* Faulty variant of ReaderOfMain: the parent keeps the read end.
KeepsReadEnd == readEnds

\* The parent's close(pipefd[0]).
ReaderOfMain == [readEnds EXCEPT ![k] = @ \ {Main}]

\* The parent's half of the loop body, after which it forks the next helper
\* or goes on to open the devices and the trace.
ParentCloses ==
    /\ mainPc = "forked"
    /\ readEnds' = ReaderOfMain
    /\ IF k < H THEN mainPc' = "fork" /\ k' = k + 1
                ELSE mainPc' = "serve" /\ k' = 1
    /\ UNCHANGED <<trace, helper, replayed, pipe, writeEnds>>

\* Faulty variant of WriterOfHelper: the child keeps the write end of its pipe.
KeepsWriteEnd(i) == writeEnds

\* The child's close(pipefd[1]).
WriterOfHelper(i) == [writeEnds EXCEPT ![i] = @ \ {i}]

ChildCloses(i) ==
    /\ helper[i] = "started"
    /\ writeEnds' = WriterOfHelper(i)
    /\ helper' = [helper EXCEPT ![i] = "reads"]
    /\ UNCHANGED <<mainPc, k, trace, replayed, pipe, readEnds>>

-----------------------------------------------------------------------------
\* One line of the trace: write_block or read_block, then the records.  In
\* write-only mode a read is neither served nor sent.
ServeLine ==
    /\ mainPc = "serve" /\ line < Lines
    /\ line' = line + 1
    /\ \/ served' = Append(served, line + 1) /\ mainPc' = "send"
       \/ WriteOnly /\ UNCHANGED <<served, mainPc>>
    /\ UNCHANGED <<k, helper, replayed, pipe, fds>>

EndOfTrace ==
    /\ mainPc = "serve" /\ line = Lines
    /\ mainPc' = "eof"
    /\ UNCHANGED <<k, trace, helper, replayed, pipe, fds>>

Record == IF mainPc = "send" THEN line ELSE EOF

\* Faulty variant of NextHelper: the loop stops one helper early.
OneHelperShort(next) ==
    IF k < H - 1 THEN k' = k + 1 /\ mainPc' = mainPc ELSE k' = 1 /\ mainPc' = next

\* The for loop over PipeEnds_of_MAIN.
NextHelper(next) ==
    IF k < H THEN k' = k + 1 /\ mainPc' = mainPc ELSE k' = 1 /\ mainPc' = next

\* pipe_write to helper k: it blocks while the pipe is full and somebody
\* could read it.
Write ==
    /\ mainPc \in {"send", "eof"}
    /\ readEnds[k] # {}
    /\ Len(pipe[k]) < PipeRecords
    /\ pipe' = [pipe EXCEPT ![k] = Append(@, Record)]
    /\ NextHelper(IF mainPc = "send" THEN "serve" ELSE "wait")
    /\ UNCHANGED <<trace, helper, replayed, fds>>

\* pipe_write to a helper that is gone: SIGPIPE is caught, write returns -1
\* and the process exits.
WriteFails ==
    /\ mainPc \in {"send", "eof"}
    /\ readEnds[k] = {}
    /\ mainPc' = "failed"
    /\ CloseAll(Main)
    /\ UNCHANGED <<k, trace, helper, replayed, pipe>>

\* fork or pipe fails, a device or the trace cannot be opened, a device call
\* fails, a line is not understood: each ends in exit.
MainFails ==
    /\ mainPc \in {"fork", "serve"}
    /\ mainPc' = "failed"
    /\ CloseAll(Main)
    /\ UNCHANGED <<k, trace, helper, replayed, pipe>>

\* wait(NULL) returns as soon as one helper is gone.
WaitForOne ==
    /\ mainPc = "wait"
    /\ \E i \in Helpers : Gone(i)
    /\ mainPc' = "done"
    /\ CloseAll(Main)
    /\ UNCHANGED <<k, trace, helper, replayed, pipe>>

-----------------------------------------------------------------------------
\* do_HRC: a whole record is replayed on the helper's cache.
Replay(i) ==
    /\ helper[i] = "reads"
    /\ pipe[i] # <<>> /\ Head(pipe[i]) # EOF
    /\ replayed' = [replayed EXCEPT ![i] = Append(@, Head(pipe[i]))]
    /\ pipe' = [pipe EXCEPT ![i] = Tail(@)]
    /\ UNCHANGED <<mainPc, k, trace, helper, fds>>

\* Faulty variant of ShortRead: a helper that finds its pipe empty stops.
StopsWhenEmpty(i) == pipe[i] = <<>> \/ Head(pipe[i]) = EOF

\* read returns less than 64: the EOF record, or nothing when the pipe is
\* empty and nobody could still write to it.
ShortRead(i) ==
    \/ pipe[i] # <<>> /\ Head(pipe[i]) = EOF
    \/ pipe[i] = <<>> /\ writeEnds[i] = {}

Stop(i) ==
    /\ helper[i] = "reads"
    /\ ShortRead(i)
    /\ helper' = [helper EXCEPT ![i] = "done"]
    /\ CloseAll(i)
    /\ UNCHANGED <<mainPc, k, trace, replayed, pipe>>

\* The cache cannot be set up, the report file cannot be opened.
HelperFails(i) ==
    /\ Running(i)
    /\ helper' = [helper EXCEPT ![i] = "failed"]
    /\ CloseAll(i)
    /\ UNCHANGED <<mainPc, k, trace, replayed, pipe>>

MainStep == Fork \/ ParentCloses \/ ServeLine \/ EndOfTrace \/ Write \/ WriteFails \/ WaitForOne
HelperStep(i) == ChildCloses(i) \/ Replay(i) \/ Stop(i)

Ended == MainGone /\ \A i \in Helpers : helper[i] = "none" \/ Gone(i)

HrcNext ==
    \/ MainStep \/ MainFails
    \/ \E i \in Helpers : HelperStep(i) \/ HelperFails(i)

\* The operating system runs every process that is not blocked; no process is
\* obliged to fail.
HrcSpec == HrcInit /\ [][HrcNext]_hrcVars /\ WF_hrcVars(MainStep) /\ \A i \in Helpers : WF_hrcVars(HelperStep(i))

-----------------------------------------------------------------------------
\* The records of a pipe without the EOF record, which comes last.
RequestsOf(s) == IF s # << >> /\ Last(s) = EOF THEN Front(s) ELSE s

\* What has been written to helper i's pipe so far.
Sent(i) == replayed[i] \o RequestsOf(pipe[i])

(***************************************************************************)
(* SamePrefix.  What a helper has replayed and what waits in its pipe is   *)
(* the real cache's request sequence, in order, without loss or            *)
(* repetition; it lacks at most the one request the main process is just   *)
(* sending (or was sending when it died).  The helpers' hit ratios are     *)
(* therefore taken over the same workload.                                 *)
(***************************************************************************)
SamePrefix ==
    /\ HrcTypeOK
    /\ \A i \in Helpers :
        /\ IsPrefix(Sent(i), served)
        /\ mainPc \in {"serve", "eof", "wait", "done"} => Sent(i) = served
        /\ Len(Sent(i)) >= Len(served) - 1

(***************************************************************************)
(* CleanStopIsComplete.  A helper that stops by itself, rather than by a   *)
(* failure, has replayed every request that was ever written to its pipe:  *)
(* all the real cache served, when the main process got to the end.  Here  *)
(* is why it matters who holds the ends: neither an empty pipe nor a       *)
(* descriptor left behind may be taken for the end.                        *)
(***************************************************************************)
CleanStopIsComplete ==
    \A i \in Helpers : helper[i] = "done" =>
        /\ RequestsOf(pipe[i]) = <<>>
        /\ MainGone \/ mainPc \in {"eof", "wait"}
        /\ mainPc \in {"wait", "done"} => replayed[i] = served

(***************************************************************************)
(* HelpersOutliveNobody.  When the main process is gone, by whatever exit, *)
(* every helper comes to its end as well: the last helper's pipe has no    *)
(* writer left, and each that stops frees the pipe before it.              *)
(***************************************************************************)
HelpersOutliveNobody == MainGone ~> Ended

(***************************************************************************)
(* MainIsNeverStuck.  The main process always comes to its end: a pipe     *)
(* that is full is read, and the pipe of a helper that failed does not     *)
(* keep it blocked, because nobody but that helper held the read end.      *)
(***************************************************************************)
MainIsNeverStuck == <>MainGone
=============================================================================
