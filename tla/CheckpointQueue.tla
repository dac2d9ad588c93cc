-------------------------- MODULE CheckpointQueue --------------------------
(***************************************************************************)
(* What the playback path promises about checkpoints (spec 4.7 and 8): a   *)
(* FIFO of named positions in the received audio, appended at a position  *)
(* no earlier than the one before it, reported (playedStream) only from    *)
(* the head and in order, and dropped all at once by media.clear or the    *)
(* end of the stream.  Playback implements it.                             *)
(***************************************************************************)
EXTENDS Integers, Sequences, SequencesExt

CONSTANTS
    Names,       \* checkpoint names
    Positions    \* byte positions in the received audio

VARIABLES
    queue,       \* pending checkpoints, oldest first: [name, pos]
    reported     \* names reported so far, in order

vars == <<queue, reported>>

Checkpoints == [name : Names, pos : Positions]

Init == queue = <<>> /\ reported = <<>>

\* A checkpoint joins at the tail; positions never go backwards.  Stated
\* of the new queue rather than chosen from Checkpoints, so that it can be
\* checked without enumerating the positions.
Add ==
    /\ queue' # <<>>
    /\ Front(queue') = queue
    /\ Last(queue') \in Checkpoints
    /\ queue = <<>> \/ Last(queue).pos <= Last(queue').pos
    /\ UNCHANGED reported

\* The oldest pending checkpoints, one or more, are reported in order and
\* leave the queue.
Report ==
    \E k \in 1..Len(queue) :
        /\ reported' = reported \o [i \in 1..k |-> queue[i].name]
        /\ queue' = SubSeq(queue, k + 1, Len(queue))

\* Every pending checkpoint is dropped unreported.
Drop ==
    /\ queue' = <<>>
    /\ UNCHANGED reported

Next == Add \/ Report \/ Drop

Spec == Init /\ [][Next]_vars

=============================================================================
