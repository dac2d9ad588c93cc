------------------------------ MODULE Playback ------------------------------
(***************************************************************************)
(* The playback half of a bidirectional stream (lws_glue.cpp).  The lws    *)
(* service thread hands every complete inbound text message to             *)
(* processIncomingMessage: media.play audio is decoded, resampled to the   *)
(* call rate and appended to tech_pvt->write_buffer (storePayload);        *)
(* media.checkpoint appends {name, position = stream_input_received} to    *)
(* the checkpoint list; media.clear empties both.  The media thread's      *)
(* SWITCH_ABC_TYPE_WRITE_REPLACE callback, once per outgoing 20 ms frame,  *)
(* reads one frame from the buffer, advances stream_input_played and       *)
(* reports the checkpoints it has reached.  Each of these holds            *)
(* write_buffer_mutex for all the state it changes, so each is one step.   *)
(* processClearEvent queues its media.cleared ack after it unlocks; by     *)
(* then the list is empty and the buffer zeroed, so no write-replace step  *)
(* in between can send anything, and the unlock is not a step of its own.  *)
(*                                                                         *)
(* Audio is counted in bytes, as the code counts it; the samples are not   *)
(* modelled.  The checkpoint list is modelled as the code builds it: a     *)
(* heap of nodes with next pointers and a tail pointer kept on the head.   *)
(* A checkpoint's name is its node id.  Sequence numbers of the acks are   *)
(* modelled in AudioStream and left out here.                              *)
(***************************************************************************)
EXTENDS Integers, Sequences, SequencesExt

CONSTANTS
    CallRate,      \* the read codec's actual_samples_per_second
    StreamRate,    \* desiredSampling, the rate the stream was started with
    Track,         \* the track argument of uuid_audio_stream start
    Inbound,       \* the inbound messages the far end may send
    MaxMessages    \* bound: inbound messages processed

\* The fields of a media.play message processPlayAudioEvent looks at; a
\* missing field is None (NoRate for the sample rate).  size is the length
\* of the base64-decoded payload.
None == "none"
NoRate == 0
Plays == [media : BOOLEAN, payload : BOOLEAN,
          contentType : {None, "audio/x-l16", "audio/x-mulaw", "raw", "wav", "other"},
          sampleRate : Nat, size : Nat]

\* cJSON_Parse failing is Unparsable; a message without "event" is NoEvent.
Events == {"Unparsable", "NoEvent", "media.play", "media.checkpoint",
           "media.clear", "transcription.send", "other"}
Messages == [event : Events, named : BOOLEAN, play : Plays]

ASSUME /\ {CallRate, StreamRate} \subseteq {8000, 16000}
       /\ Track \in {"inbound", "outbound", "both"}
       /\ Inbound \subseteq Messages
       /\ MaxMessages \in Nat

NULL == 0                          \* a null stream_checkpoints_t pointer
NodeIds == 1..MaxMessages          \* each media.checkpoint mallocs one node
NoResampler == [from |-> 0, to |-> 0]

\* rframe->datalen: 20 ms of 16-bit mono audio at the call rate.
FrameLen == 2 * (CallRate \div 50)

VARIABLES
    received,     \* stream_input_received
    played,       \* stream_input_played
    inuse,        \* switch_buffer_inuse(write_buffer)
    heap,         \* the malloc'd stream_checkpoints_t: id -> [position, next, tail]
    head,         \* tech_pvt->checkpoints
    resampler,    \* resampler_outbound, as the rates it was created with
    wire,         \* control messages queued for the far end, in order
    alive,        \* the write buffer and list exist (until destroy_tech_pvt)
    msgs,         \* inbound messages processed so far
    expected      \* ghost: the bytes received audio fills at the call rate

vars == <<received, played, inuse, heap, head, resampler, wire, alive, msgs, expected>>

\* A control message.  A playedStream carries the checkpoint's name and,
\* for the properties only, its position and stream_input_played when sent.
Ack(e) == [ev |-> e, name |-> NULL, pos |-> 0, at |-> 0]

-----------------------------------------------------------------------------
\* g711u_decode: one 16-bit sample per mu-law byte; the length it returns
\* is in bytes.
G711uDecodedLen(size) == size * 2

\* speex_resampler_process_interleaved_int on size / 2 input samples with
\* room for size output samples: the samples scaled by the resampler's
\* ratio, in bytes.
ResampledLen(r, size) == 2 * (((size \div 2) * r.to) \div r.from)

\* The resampler storePayload creates when there is none: from the rate
\* the message declared to the call's rate.
ResamplerLazyInitSwapped(rcvd, current) == [from |-> current, to |-> rcvd]
ResamplerLazyInit(rcvd, current) == [from |-> rcvd, to |-> current]

\* stream_data_init: with track "both" and a call rate that differs from
\* the stream's, resampler_outbound is created at start for the captured
\* write leg, from the call rate to the stream rate.
InitialResampler ==
    IF Track = "both" /\ CallRate # StreamRate
    THEN [from |-> CallRate, to |-> StreamRate]
    ELSE NoResampler

\* The resampler storePayload uses for a message at rate rcvd.
ResamplerFor(rcvd, current) ==
    IF resampler = NoResampler THEN ResamplerLazyInit(rcvd, current) ELSE resampler

\* The bytes storePayload appends to the write buffer and adds to
\* stream_input_received.  switch_buffer_write on the dynamic buffer
\* (max_len 0) does not fail short of memory, so all of them are written.
StoredLen(codec, size, rcvd, current) ==
    CASE codec = "ULAW"       -> G711uDecodedLen(size)
      [] rcvd # current       -> ResampledLen(ResamplerFor(rcvd, current), size)
      [] OTHER                -> size

\* The bytes a payload of that many bytes at rate rcvd should fill at the
\* call rate: its duration is kept.
DurationLen(codec, size, rcvd) ==
    IF codec = "ULAW" THEN 2 * ((size * CallRate) \div rcvd)
    ELSE 2 * (((size \div 2) * CallRate) \div rcvd)

-----------------------------------------------------------------------------
Init ==
    /\ received = 0 /\ played = 0 /\ inuse = 0
    /\ heap = [n \in {} |-> 0] /\ head = NULL
    /\ resampler = InitialResampler
    /\ wire = <<>>
    /\ alive = TRUE
    /\ msgs = 0
    /\ expected = 0

\* The lws thread delivers one inbound message to processIncomingMessage.
Deliver == alive /\ msgs < MaxMessages /\ msgs' = msgs + 1

\* sendIncorrectPayloadEvent queues an incorrectPayload ack.
IncorrectPayload == wire' = Append(wire, Ack("incorrect"))

\* processIncomingMessage: unparsable JSON, no event key or an unknown
\* event are answered with incorrectPayload; transcription.send only
\* raises a host event, which is not modelled.
OtherMessage ==
    \E m \in Inbound :
        /\ Deliver
        /\ m.event \in {"Unparsable", "NoEvent", "other", "transcription.send"}
        /\ IF m.event = "transcription.send" THEN UNCHANGED wire ELSE IncorrectPayload
        /\ UNCHANGED <<received, played, inuse, heap, head, resampler, alive, expected>>

\* processPlayAudioEvent and storePayload.  A missing field, an unknown
\* content type and mu-law at any rate but 8000 are answered with
\* incorrectPayload; a rate other than 8000 or 16000 is taken as 8000.
PlayAudio ==
    \E m \in Inbound :
        /\ Deliver
        /\ m.event = "media.play"
        /\ LET p == m.play
               rcvd == IF p.sampleRate \in {8000, 16000} THEN p.sampleRate ELSE 8000
               codec == IF p.contentType = "audio/x-mulaw" THEN "ULAW" ELSE "L16"
               valid == /\ p.media /\ p.payload
                        /\ p.contentType # None /\ p.sampleRate # NoRate
                        /\ p.contentType # "other"
                        /\ codec = "ULAW" => rcvd = 8000
               len == StoredLen(codec, p.size, rcvd, CallRate)
           IN  IF valid
               THEN /\ received' = received + len
                    /\ inuse' = inuse + len
                    /\ resampler' = IF codec = "L16" /\ rcvd # CallRate
                                    THEN ResamplerFor(rcvd, CallRate) ELSE resampler
                    /\ expected' = expected + DurationLen(codec, p.size, rcvd)
                    /\ UNCHANGED wire
               ELSE /\ IncorrectPayload
                    /\ UNCHANGED <<received, inuse, resampler, expected>>
        /\ UNCHANGED <<played, heap, head, alive>>

\* processCheckpointEvent: a checkpoint without a name, or before any
\* audio was received, is ignored; otherwise a node at the current
\* stream_input_received is linked after the tail the head points to.
NewNode(pos, n) == [position |-> pos, next |-> NULL, tail |-> n]

CheckpointAcceptedWithoutAudio(named) == named
CheckpointAccepted(named) == named /\ received # 0

Checkpoint ==
    \E m \in Inbound :
        /\ Deliver
        /\ m.event = "media.checkpoint"
        /\ IF CheckpointAccepted(m.named)
           THEN LET n == msgs + 1
                IN  IF head # NULL
                    THEN /\ heap' = (n :> NewNode(received, n)) @@
                                 [heap EXCEPT ![heap[head].tail].next = n, ![head].tail = n]
                         /\ UNCHANGED head
                    ELSE /\ heap' = (n :> NewNode(received, n)) @@ heap
                         /\ head' = n
           ELSE UNCHANGED <<heap, head>>
        /\ UNCHANGED <<received, played, inuse, resampler, wire, alive, expected>>

\* processClearEvent: the buffer is zeroed, every node freed, both counters
\* reset, and a media.cleared ack queued.
Clear ==
    \E m \in Inbound :
        /\ Deliver
        /\ m.event = "media.clear"
        /\ received' = 0 /\ played' = 0 /\ inuse' = 0
        /\ heap' = [n \in {} |-> 0] /\ head' = NULL
        /\ expected' = 0
        /\ wire' = Append(wire, Ack("cleared"))
        /\ UNCHANGED <<resampler, alive>>

\* The write-replace callback's loop, once stream_input_played is p after
\* a read of len bytes: the head checkpoint is reported and freed unless
\* p + len - 1 < its position.  Freeing the head hands its tail pointer
\* to the next node.
CheckpointReachedAtPosition(p, len, pos) == p >= pos
CheckpointReached(p, len, pos) == ~(p + len - 1 < pos)

PopHeadStaleTail(h, hp) == [k \in DOMAIN hp \ {h} |-> hp[k]]
PopHead(h, hp) ==
    IF hp[h].next # NULL
    THEN [k \in DOMAIN hp \ {h} |->
            IF k = hp[h].next THEN [hp[k] EXCEPT !.tail = hp[h].tail] ELSE hp[k]]
    ELSE [k \in DOMAIN hp \ {h} |-> hp[k]]

RECURSIVE ReportLoop(_, _, _, _, _)
ReportLoop(h, hp, p, len, sent) ==
    IF h = NULL \/ h \notin DOMAIN hp \/ ~CheckpointReached(p, len, hp[h].position)
    THEN [head |-> h, heap |-> hp, sent |-> sent]
    ELSE ReportLoop(hp[h].next, PopHead(h, hp), p, len,
                    Append(sent, [ev |-> "played", name |-> h,
                                  pos |-> hp[h].position, at |-> p]))

\* SWITCH_ABC_TYPE_WRITE_REPLACE: with a frame's worth in the buffer, read
\* it, mix it into the outgoing frame, advance stream_input_played and
\* report (stream_ws_send_played_event) every checkpoint reached.  With
\* less than a frame it does nothing.
\* start_capture adds SMBF_WRITE_REPLACE only to the bug of an inbound,
\* bidirectional stream; "outbound" and "both" bugs get no callback.
WriteReplaceAttached == Track = "inbound"

WriteReplace ==
    /\ alive /\ WriteReplaceAttached
    /\ inuse >= FrameLen
    /\ LET p == played + FrameLen
           r == ReportLoop(head, heap, p, FrameLen, <<>>)
       IN  /\ played' = p
           /\ inuse' = inuse - FrameLen
           /\ head' = r.head
           /\ heap' = r.heap
           /\ wire' = wire \o r.sent
    /\ UNCHANGED <<received, resampler, alive, msgs, expected>>

\* destroy_tech_pvt, at the end of stream_session_cleanup: the resampler
\* and the write buffer are destroyed and every node freed, without a
\* playedStream.  The media bug is gone, so no write-replace follows.
DestroyTechPvt ==
    /\ alive
    /\ alive' = FALSE
    /\ resampler' = NoResampler
    /\ inuse' = 0
    /\ heap' = [n \in {} |-> 0] /\ head' = NULL
    /\ UNCHANGED <<received, played, wire, msgs, expected>>

Next ==
    \/ OtherMessage \/ PlayAudio \/ Checkpoint \/ Clear
    \/ WriteReplace \/ DestroyTechPvt

\* The media thread calls the write-replace callback for every outgoing
\* frame while the bug is attached; the far end owes no message.
Spec == Init /\ [][Next]_vars /\ WF_vars(WriteReplace)

-----------------------------------------------------------------------------
TypeOK ==
    /\ received \in Nat /\ played \in Nat /\ inuse \in Nat /\ expected \in Nat
    /\ DOMAIN heap \subseteq NodeIds
    /\ \A n \in DOMAIN heap :
          heap[n] \in [position : Nat \ {0}, next : NodeIds \cup {NULL}, tail : NodeIds]
    /\ head \in DOMAIN heap \cup {NULL}
    /\ resampler \in {NoResampler} \cup [from : {8000, 16000}, to : {8000, 16000}]
    /\ wire \in Seq([ev : {"played", "cleared", "incorrect"}, name : NodeIds \cup {NULL},
                     pos : Nat, at : Nat])
    /\ alive \in BOOLEAN /\ msgs \in 0..MaxMessages

-----------------------------------------------------------------------------
\* The checkpoint list as the code walks it: from tech_pvt->checkpoints
\* along next pointers (at most one step per node that can exist).
RECURSIVE ListFrom(_, _)
ListFrom(n, fuel) ==
    IF n = NULL \/ n \notin DOMAIN heap \/ fuel = 0 THEN <<>>
    ELSE <<n>> \o ListFrom(heap[n].next, fuel - 1)

Pending == ListFrom(head, MaxMessages)

PlayedAcks == SelectSeq(wire, LAMBDA e : e.ev = "played")

\* The refinement mapping: the reachable nodes, in list order, are the
\* abstract queue; the names the playedStream messages carry are the
\* reported checkpoints.
Q == INSTANCE CheckpointQueue WITH
        Names <- NodeIds, Positions <- Nat,
        queue <- [i \in 1..Len(Pending) |-> [name |-> Pending[i],
                                             pos |-> heap[Pending[i]].position]],
        reported <- [i \in 1..Len(PlayedAcks) |-> PlayedAcks[i].name]

\* The checkpoint list behaves as a FIFO (spec 8, checkpoint ordering):
\* processCheckpointEvent links each node after the head's tail pointer,
\* the write-replace loop reports and frees only the head and hands the
\* tail pointer on, media.clear and destroy_tech_pvt drop them all.
\* A tail pointer left stale by a pop would link later nodes after a
\* freed or middle node and lose the ones behind it.
CheckpointFifo == Q!Spec

\* Audio keeps its duration (spec 4.7 step 2): the bytes storePayload adds
\* to the write buffer are what the payload fills at the call rate, for
\* mu-law, for L16 at the call rate and for L16 resampled by
\* resampler_outbound.
PlaybackKeepsDuration == received = expected

\* A checkpoint reached by a frame that the buffer already holds is
\* eventually reported, or dropped by media.clear or the end of the
\* stream: the write-replace loop compares the position with the bytes
\* played plus the frame it just read, so the audio left over after the
\* last whole frame does not hold a checkpoint back.
CheckpointReported ==
    \A n \in NodeIds :
        (n \in DOMAIN heap /\ inuse >= FrameLen) ~> (n \notin DOMAIN heap)

=============================================================================
