---------------------------- MODULE AudioStream ----------------------------
(***************************************************************************)
(* One audio stream of mod_audio_stream: the AudioPipe WebSocket client   *)
(* (audio_pipe.cpp), the libwebsockets service thread that runs all of    *)
(* its callbacks and the process-wide pending lists, the session engine   *)
(* of lws_glue.cpp (tech_pvt, eventCallback, stream_session_cleanup), the *)
(* capture path stream_frame on the media thread, the playedStream path   *)
(* on the write-replace thread, and the commands of the API thread.       *)
(*                                                                         *)
(* Data is abstracted: an audio chunk is a count, a JSON message is a     *)
(* record of its event name and sequence number, a socket is an integer.  *)
(***************************************************************************)
EXTENDS Integers, Sequences, FiniteSets

CONSTANTS
    Track,                    \* "inbound", "outbound" or "both" (m_track)
    MAX_CONNECTION_ATTEMPTS,  \* stream_utils.hpp: 3
    BufferChunks,             \* capacity of one Buffer, in chunks
    MaxFrames,                \* bound: frames the host delivers per buffer
    MaxSockets,               \* bound: sockets lws creates for the stream
    MaxConnErrors,            \* bound: handshakes the network fails
    MaxPeerCloses,            \* bound: open sockets the far end closes
    MaxCheckpoints,           \* bound: media.checkpoint messages received
    MaxClears,                \* bound: media.clear messages received
    MaxTexts,                 \* bound: send_text commands
    Bidirectional,            \* m_is_bidirectional
    ConnectMayReturnNull,     \* lws_client_connect_via_info may return NULL
    ApiCommands               \* the commands the API thread may issue

ASSUME /\ Track \in {"inbound", "outbound", "both"}
       /\ MAX_CONNECTION_ATTEMPTS \in Nat
       /\ BufferChunks \in Nat \ {0}
       /\ {MaxFrames, MaxSockets, MaxConnErrors, MaxPeerCloses,
           MaxCheckpoints, MaxClears, MaxTexts} \subseteq Nat
       /\ {Bidirectional, ConnectMayReturnNull} \subseteq BOOLEAN
       /\ ApiCommands \subseteq
              {"stop", "hangup", "graceful", "pause", "send_text"}

NoWsi   == 0                      \* nullptr for a struct lws *
Sockets == 1..MaxSockets
LwsStates == {"IDLE", "CONNECTING", "CONNECTED", "FAILED",
              "DISCONNECTING", "DISCONNECTED", "RECONNECTING"}
\* m_audio_buffer is "in"; m_ob_audio_buffer ("ob") exists for "both" only.
BufIds == IF Track = "both" THEN {"in", "ob"} ELSE {"in"}
\* The buffer a media bug of the given direction writes (stream_frame).
CaptureBuffers == BufIds

VARIABLES
    ap,          \* the AudioPipe object: its fields, and alive = not deleted
    tp,          \* tech_pvt and the channel private that points at its bug
    sock,        \* sock[s]: lifecycle of lws socket s
    bound,       \* sockets whose user data *ppAp points at the AudioPipe
    writable,    \* sockets with a pending lws_callback_on_writable
    pending,     \* membership of the AudioPipe in the four static lists
    suls,        \* reconnect timers (lws_sul_schedule) not yet fired
    mpc, mbuf, mok,   \* media thread inside stream_frame
    ppc, ptmp,   \* write-replace thread inside stream_ws_send_played_event
    wire,        \* every message lws_write put on a socket, in order
    env          \* counters of the bounded environment and host events

vars == <<ap, tp, sock, bound, writable, pending, suls, mpc, mbuf, mok,
          ppc, ptmp, wire, env>>

SockStates == {"unused", "handshake", "open", "closing", "closed"}
EventKinds == {"dummy", "text", "cleared", "incorrect", "played"}
NoSeq == -1
Event(k, n) == [kind |-> k, seq |-> n]
NoBuf == "none"
Msg(e, n, b, c) == [ev |-> e, seq |-> n, buf |-> b, chunk |-> c]

Usage(b) == ap.gen[b] - ap.tx[b]
\* AudioPipe::allBuffersAreEmpty (reads usage without the buffer lock)
allBuffersAreEmpty == \A b \in BufIds : Usage(b) = 0
\* eventCallback finds the bug in the channel and its tech_pvt
Delivered == tp.bug /\ tp.alive
\* stream_session_cleanup blocks on tech_pvt->mutex held by stream_frame
TechMutexFree == mpc = "idle"
\* the buffer stream_frame holds locked between lock() and unlock()
MediaHolds(b) == mpc # "idle" /\ mbuf = b
NextSocket == CHOOSE s \in Sockets : sock[s] = "unused"
CanOpenSocket == \E s \in Sockets : sock[s] = "unused"

\* The AudioPipe as its constructor leaves it.
InitPipe ==
    [alive |-> TRUE, m_state |-> "IDLE",
     m_connection_attempts |-> 0, m_stream_started |-> FALSE,
     m_firstMsgSent |-> FALSE, m_lastMsgSent |-> FALSE,
     m_gracefulShutdown |-> FALSE, graceExpired |-> FALSE,
     m_wsi |-> NoWsi, m_vhd |-> FALSE, m_switch |-> TRUE,
     m_events |-> <<>>, m_sequenceNumber |-> 0,
     gen |-> [b \in BufIds |-> 0], tx |-> [b \in BufIds |-> 0]]

\* tech_pvt as stream_data_init leaves it, the bug not yet on the channel.
InitTechPvt ==
    [bug |-> FALSE, alive |-> TRUE, audio_pipe_ptr |-> TRUE,
     hangup |-> FALSE, channel_closing |-> FALSE, is_started |-> FALSE,
     graceful_shutdown |-> FALSE, audio_paused |-> FALSE,
     invalid_stream_input_notified |-> FALSE,
     checkpoints |-> 0, timeoutTask |-> "none"]

Init ==
    \* stream_session_init has run: AudioPipe constructed and connect()
    \* has put it on pendingConnects; start_capture has not yet attached
    \* the bug to the channel.
    /\ ap = InitPipe
    /\ tp = InitTechPvt
    /\ sock = [s \in Sockets |-> "unused"]
    /\ bound = {}
    /\ writable = {}
    /\ pending = [connects |-> TRUE, reconnects |-> FALSE,
                  disconnects |-> FALSE, writes |-> FALSE]
    /\ suls = 0
    /\ mpc = "idle" /\ mbuf = "in" /\ mok = TRUE
    /\ ppc = "idle" /\ ptmp = 0
    /\ wire = <<>>
    /\ env = [frames |-> [b \in BufIds |-> 0], connErrors |-> 0,
              peerCloses |-> 0, texts |-> 0, checkpoints |-> 0, clears |-> 0,
              dropped |-> 0, connectSuccess |-> 0]

-----------------------------------------------------------------------------
(* Session side of the notifications: eventCallback and the cleanup it    *)
(* calls.  eventCallback ignores every event once the channel no longer   *)
(* holds the bug or the bug no longer holds tech_pvt.                     *)

\* stream_session_cleanup: tasks deleted, channel private cleared, bug
\* removed, tech_pvt destroyed (bug_args->private_data_ptr = NULL).
Cleaned(t) ==
    [t EXCEPT !.bug = FALSE, !.alive = FALSE,
              !.timeoutTask = IF @ = "scheduled" THEN "deleted" ELSE @]

\* CONNECT_FAIL, CONNECTION_DROPPED and CONNECTION_CLOSED_GRACEFULLY:
\* tech_pvt forgets the AudioPipe, then cleans up unless channel_closing.
PipeGoneCallback ==
    IF ~Delivered THEN tp' = tp
    ELSE IF tp.channel_closing
         THEN tp' = [tp EXCEPT !.audio_pipe_ptr = FALSE]
         ELSE /\ TechMutexFree
              /\ tp' = Cleaned([tp EXCEPT !.audio_pipe_ptr = FALSE])

\* CONNECT_FAIL deletes the AudioPipe through tech_pvt->audio_pipe_ptr.
AfterConnectFail(a) ==
    IF Delivered /\ tp.audio_pipe_ptr THEN [a EXCEPT !.alive = FALSE] ELSE a

\* AudioPipe::addEventBuffer: the event is queued only when CONNECTED
\* (and addPendingWrite then requests a write); otherwise it is dropped.
AddEvent(a, e) ==
    IF a.m_state = "CONNECTED" THEN [a EXCEPT !.m_events = Append(@, e)] ELSE a

-----------------------------------------------------------------------------
(* lws service thread: LWS_CALLBACK_EVENT_WAIT_CANCELLED.  Any session's *)
(* lws_cancel_service wakes it, so it runs whenever a list is non-empty. *)
(* processPendingConnects, then processPendingDisconnects, then          *)
(* processPendingWrites, all in the one callback.                        *)

\* connect_client's result: a new handshaking socket, or NULL
ConnectResults ==
    (IF CanOpenSocket THEN {NextSocket} ELSE {})
    \cup (IF ConnectMayReturnNull THEN {NoWsi} ELSE {})

\* processPendingConnects picks the pipe and calls connect_client
StartsConnect ==
    pending.connects /\ ap.alive /\ ap.m_state \in {"IDLE", "RECONNECTING"}

\* assert(m_vhd == nullptr) in connect_client fails: the pipe was bound to
\* the vhost by an earlier connect_client or ESTABLISHED.  The documented
\* build keeps asserts, so the next pass of the service loop aborts the
\* process: no ServiceWake step follows, and the behaviour ends there.
VhdAssertFails == StartsConnect /\ ap.m_vhd

ServiceWake ==
    /\ pending.connects \/ pending.disconnects \/ pending.writes
    /\ ~VhdAssertFails
    /\ LET start == StartsConnect
       IN \E r \in IF start THEN ConnectResults ELSE {-1} :
          LET a1 == IF r = -1 THEN ap
                    ELSE [ap EXCEPT !.m_state = IF r = NoWsi THEN "FAILED"
                                                ELSE "CONNECTING",
                                    !.m_vhd = TRUE, !.m_wsi = r,
                                    !.m_connection_attempts = @ + 1]
              failNow == r = NoWsi
                         /\ a1.m_connection_attempts > MAX_CONNECTION_ATTEMPTS
              retry   == r = NoWsi /\ ~failNow
              a2 == IF failNow THEN AfterConnectFail(a1) ELSE a1
              discs  == pending.disconnects /\ a2.alive
                        /\ a2.m_state = "DISCONNECTING" /\ a2.m_wsi # NoWsi
              writes == pending.writes /\ a2.alive
                        /\ a2.m_state = "CONNECTED" /\ a2.m_wsi # NoWsi
          IN /\ ap' = a2
             /\ sock' = IF r \in Sockets THEN [sock EXCEPT ![r] = "handshake"]
                        ELSE sock
             /\ suls' = IF retry THEN suls + 1 ELSE suls
             /\ writable' = writable \cup (IF discs \/ writes
                                           THEN {a2.m_wsi} ELSE {})
             /\ pending' = [pending EXCEPT !.disconnects = FALSE,
                                           !.writes = FALSE]
             /\ IF failNow THEN PipeGoneCallback ELSE tp' = tp
    /\ UNCHANGED <<bound, mpc, mbuf, mok, ppc, ptmp, wire, env>>

\* findAndRemovePendingConnect / findAndRemovePendingReconnect for socket
\* s: the pipe matches when it is in the list, in the awaited state and
\* m_wsi == s; an entry whose m_wsi is NULL is purged on the way.
FoundInConnects(s) ==
    pending.connects /\ ap.alive /\ ap.m_state = "CONNECTING" /\ ap.m_wsi = s
FoundInReconnects(s) ==
    ~FoundInConnects(s) /\ pending.reconnects /\ ap.alive
    /\ ap.m_state = "RECONNECTING" /\ ap.m_wsi = s
Found(s) == FoundInConnects(s) \/ FoundInReconnects(s)
PendingAfterFind(s) ==
    [pending EXCEPT
        !.connects = @ /\ ~FoundInConnects(s) /\ ap.m_wsi # NoWsi,
        !.reconnects = IF FoundInConnects(s) THEN @
                       ELSE @ /\ ~FoundInReconnects(s) /\ ap.m_wsi # NoWsi]

\* Mutants of EstablishedPipe: a reconnect that starts the stream afresh,
\* and one that forgets the stream has started.
EstablishedPipeRestarts(a) ==
    [a EXCEPT !.m_connection_attempts = 0, !.m_state = "CONNECTED",
              !.m_stream_started = TRUE, !.m_firstMsgSent = FALSE]
EstablishedPipeNotStarted(a) ==
    [a EXCEPT !.m_connection_attempts = 0, !.m_state = "CONNECTED"]

\* Mutant: a reconnect that numbers the new connection's messages from 0.
EstablishedPipeResetsSeq(a) ==
    [a EXCEPT !.m_connection_attempts = 0, !.m_state = "CONNECTED",
              !.m_stream_started = TRUE, !.m_sequenceNumber = 0]

\* ESTABLISHED resets the attempt count; the stream counts as started.
EstablishedPipe(a) ==
    [a EXCEPT !.m_connection_attempts = 0, !.m_state = "CONNECTED",
              !.m_stream_started = TRUE]

\* LWS_CALLBACK_CLIENT_ESTABLISHED; the first one fires CONNECT_SUCCESS,
\* whose handler sets is_started, schedules the heartbeat and timeout
\* tasks and queues a dummy "" event.
Established(s) ==
    /\ sock[s] = "handshake"
    /\ sock' = [sock EXCEPT ![s] = "open"]
    /\ IF Found(s)
       THEN LET a1 == EstablishedPipe(ap)
                notify == ~ap.m_stream_started /\ Delivered
            IN /\ bound' = bound \cup {s}
               /\ ap' = IF notify THEN AddEvent(a1, Event("dummy", NoSeq))
                        ELSE a1
               /\ pending' = [PendingAfterFind(s) EXCEPT
                                 !.writes = @ \/ notify]
               /\ tp' = IF notify
                        THEN [tp EXCEPT !.is_started = TRUE,
                                        !.timeoutTask = "scheduled"]
                        ELSE tp
               /\ env' = IF ~ap.m_stream_started
                         THEN [env EXCEPT !.connectSuccess = @ + 1]
                         ELSE env
       ELSE /\ pending' = PendingAfterFind(s)
            /\ UNCHANGED <<ap, tp, bound, env>>
    /\ UNCHANGED <<writable, suls, mpc, mbuf, mok, ppc, ptmp, wire>>

\* LWS_CALLBACK_CLIENT_CONNECTION_ERROR
ConnectionError(s) ==
    /\ sock[s] = "handshake"
    /\ env.connErrors < MaxConnErrors
    /\ sock' = [sock EXCEPT ![s] = "closed"]
    /\ pending' = PendingAfterFind(s)
    /\ IF Found(s)
       THEN LET a1 == [ap EXCEPT !.m_state = "FAILED"]
            IN IF ap.m_connection_attempts <= MAX_CONNECTION_ATTEMPTS
               THEN /\ ap' = a1 /\ suls' = suls + 1 /\ tp' = tp
               ELSE /\ ap' = AfterConnectFail(a1) /\ suls' = suls
                    /\ PipeGoneCallback
       ELSE UNCHANGED <<ap, tp, suls>>
    /\ env' = [env EXCEPT !.connErrors = @ + 1]
    /\ UNCHANGED <<bound, writable, mpc, mbuf, mok, ppc, ptmp, wire>>

\* AudioPipe::reconnect, run by the lws timer wheel on the service thread.
\* The result of lws_client_connect_via_info is stored and not checked.
ReconnectTimer ==
    /\ suls > 0
    /\ suls' = suls - 1
    /\ IF ap.alive
       THEN \E r \in ConnectResults :
               /\ ap' = [ap EXCEPT !.m_wsi = r, !.m_state = "RECONNECTING",
                                   !.m_connection_attempts = @ + 1]
               /\ pending' = [pending EXCEPT !.reconnects = TRUE]
               /\ sock' = IF r \in Sockets
                          THEN [sock EXCEPT ![r] = "handshake"] ELSE sock
       ELSE UNCHANGED <<ap, pending, sock>>
    /\ UNCHANGED <<tp, bound, writable, mpc, mbuf, mok, ppc, ptmp, wire, env>>

-----------------------------------------------------------------------------
(* Socket events of an open connection.                                   *)

\* The far end closes an open socket, or the network drops it.
PeerClose(s) ==
    /\ sock[s] = "open"
    /\ env.peerCloses < MaxPeerCloses
    /\ sock' = [sock EXCEPT ![s] = "closing"]
    /\ writable' = writable \ {s}
    /\ env' = [env EXCEPT !.peerCloses = @ + 1]
    /\ UNCHANGED <<ap, tp, bound, pending, suls, mpc, mbuf, mok, ppc, ptmp,
                   wire>>

\* LWS_CALLBACK_CLIENT_CLOSED.  Closed by us (graceful or DISCONNECTING):
\* CONNECTION_CLOSED_GRACEFULLY.  Closed by the far end while CONNECTED:
\* reconnect after RECONNECTION_DELAY_SECONDS while attempts allow, else
\* CONNECTION_DROPPED.  In every case but the reconnect the AudioPipe is
\* deleted.
ClientClosed(s) ==
    /\ sock[s] = "closing"
    /\ sock' = [sock EXCEPT ![s] = "closed"]
    /\ bound' = bound \ {s}
    /\ writable' = writable \ {s}
    /\ IF s \notin bound \/ ~ap.alive
       THEN UNCHANGED <<ap, tp, suls>>
       ELSE LET byUs == ap.m_gracefulShutdown
                        \/ ap.m_state = "DISCONNECTING"
                farEnd == ~byUs /\ ap.m_state = "CONNECTED"
                retry == farEnd /\ ap.m_connection_attempts
                                   <= MAX_CONNECTION_ATTEMPTS
            IN /\ ap' = [ap EXCEPT !.m_state = "DISCONNECTED",
                                   !.alive = retry]
               /\ suls' = IF retry THEN suls + 1 ELSE suls
               /\ IF byUs \/ (farEnd /\ ~retry) THEN PipeGoneCallback
                  ELSE tp' = tp
    /\ UNCHANGED <<pending, mpc, mbuf, mok, ppc, ptmp, wire, env>>

-----------------------------------------------------------------------------
(* LWS_CALLBACK_CLIENT_WRITEABLE for a socket bound to the AudioPipe.    *)
(* One action per branch, in the order the handler tests them.  Each    *)
(* consumes the pending writable request; the branches that call         *)
(* lws_callback_on_writable again put it back.                            *)

WritableOn(s) ==
    /\ s \in writable /\ sock[s] = "open" /\ s \in bound /\ ap.alive

\* graceful-shutdown deadline (m_gracefulShutdown_at + 60) passed
WritableDeadline(s) ==
    /\ WritableOn(s)
    /\ ap.m_gracefulShutdown /\ ap.graceExpired
    /\ ap' = [ap EXCEPT !.m_state = "DISCONNECTING"]
    /\ sock' = [sock EXCEPT ![s] = "closing"]
    /\ writable' = writable \ {s}
    /\ UNCHANGED <<tp, bound, pending, suls, mpc, mbuf, mok, ppc, ptmp,
                   wire, env>>

\* graceful, both buffers empty, stop not yet sent: send stop
WritableStop(s) ==
    /\ WritableOn(s)
    /\ ap.m_gracefulShutdown /\ ~ap.graceExpired
    /\ allBuffersAreEmpty /\ ~ap.m_lastMsgSent
    /\ wire' = Append(wire, Msg("stop", ap.m_sequenceNumber, NoBuf, 0))
    /\ ap' = [ap EXCEPT !.m_sequenceNumber = @ + 1, !.m_lastMsgSent = TRUE,
                        !.m_state = "DISCONNECTING"]
    /\ UNCHANGED <<tp, sock, bound, writable, pending, suls, mpc, mbuf, mok,
                   ppc, ptmp, env>>

\* the handler passes the graceful-shutdown block
PastGraceful ==
    ~(ap.m_gracefulShutdown
      /\ (ap.graceExpired \/ (allBuffersAreEmpty /\ ~ap.m_lastMsgSent)))

\* start not yet sent: send start
WritableStart(s) ==
    /\ WritableOn(s) /\ PastGraceful
    /\ ~ap.m_firstMsgSent
    /\ wire' = Append(wire, Msg("start", ap.m_sequenceNumber, NoBuf, 0))
    /\ ap' = [ap EXCEPT !.m_sequenceNumber = @ + 1, !.m_firstMsgSent = TRUE]
    /\ UNCHANGED <<tp, sock, bound, writable, pending, suls, mpc, mbuf, mok,
                   ppc, ptmp, env>>

\* getEventData returned a non-empty string: send it
HasEventToSend ==
    ap.m_events # <<>> /\ Head(ap.m_events).kind # "dummy"

WritableEvent(s) ==
    /\ WritableOn(s) /\ PastGraceful /\ ap.m_firstMsgSent
    /\ HasEventToSend
    /\ LET e == Head(ap.m_events)
       IN wire' = Append(wire, Msg(e.kind, e.seq, NoBuf, 0))
    /\ ap' = [ap EXCEPT !.m_events = Tail(@)]
    /\ UNCHANGED <<tp, sock, bound, writable, pending, suls, mpc, mbuf, mok,
                   ppc, ptmp, env>>

\* getEventData popped the dummy "" event, or found none
EventsAfterGet ==
    IF ap.m_events = <<>> THEN <<>> ELSE Tail(ap.m_events)
PastEvents(s) ==
    WritableOn(s) /\ PastGraceful /\ ap.m_firstMsgSent /\ ~HasEventToSend

\* DISCONNECTING: close the connection
WritableClose(s) ==
    /\ PastEvents(s)
    /\ ap.m_state = "DISCONNECTING"
    /\ ap' = [ap EXCEPT !.m_events = EventsAfterGet]
    /\ sock' = [sock EXCEPT ![s] = "closing"]
    /\ writable' = writable \ {s}
    /\ UNCHANGED <<tp, bound, pending, suls, mpc, mbuf, mok, ppc, ptmp,
                   wire, env>>

\* the buffer the media branch reads: alternates with m_switch for "both"
WritableBuffer ==
    IF Track = "both" /\ ap.m_switch THEN "ob" ELSE "in"
Toggled == IF Track = "both" THEN ~ap.m_switch ELSE ap.m_switch

\* Mutant: the media branch taken in every state.
MediaBranchAnyState(s) == PastEvents(s)

\* the handler reaches the media branch: not DISCONNECTING
MediaBranch(s) == PastEvents(s) /\ ap.m_state # "DISCONNECTING"

\* media branch, try_lock fails (stream_frame holds the buffer): return
WritableBusy(s) ==
    /\ MediaBranch(s)
    /\ MediaHolds(WritableBuffer)
    /\ ap' = [ap EXCEPT !.m_events = EventsAfterGet]
    /\ writable' = writable \ {s}
    /\ UNCHANGED <<tp, sock, bound, pending, suls, mpc, mbuf, mok, ppc, ptmp,
                   wire, env>>

\* media branch, buffer empty: flip the switch, ask again only if graceful
WritableIdle(s) ==
    /\ MediaBranch(s)
    /\ ~MediaHolds(WritableBuffer)
    /\ Usage(WritableBuffer) = 0
    /\ ap' = [ap EXCEPT !.m_events = EventsAfterGet, !.m_switch = Toggled]
    /\ writable' = IF ap.m_gracefulShutdown THEN writable
                   ELSE writable \ {s}
    /\ UNCHANGED <<tp, sock, bound, pending, suls, mpc, mbuf, mok, ppc, ptmp,
                   wire, env>>

\* media branch: send one chunk, flip the switch, ask again
WritableMedia(s) ==
    /\ MediaBranch(s)
    /\ ~MediaHolds(WritableBuffer)
    /\ Usage(WritableBuffer) > 0
    /\ LET b == WritableBuffer
       IN /\ wire' = Append(wire, Msg("media", ap.m_sequenceNumber, b,
                                      ap.tx[b] + 1))
          /\ ap' = [ap EXCEPT !.m_events = EventsAfterGet, !.m_switch = Toggled,
                              !.tx[b] = @ + 1, !.m_sequenceNumber = @ + 1]
    /\ UNCHANGED <<tp, sock, bound, writable, pending, suls, mpc, mbuf, mok,
                   ppc, ptmp, env>>

\* LWS_CALLBACK_CLIENT_RECEIVE of a complete text message, handed to
\* eventCallback MESSAGE and processIncomingMessage.  Only the messages
\* that reach the AudioPipe are told apart: media.clear
\* (processClearEvent), media.checkpoint (processCheckpointEvent) and one
\* the parser rejects (sendIncorrectPayloadEvent, sent at most once).
\* The clear and checkpoint handlers take write_buffer_mutex, which the
\* write-replace thread holds while it reports a checkpoint.
Messages == {"clear", "checkpoint", "invalid"}

\* Mutant: media.clear that leaves the checkpoint list in place.
ClearCheckpointsKept(t) == t

\* processClearEvent frees every pending checkpoint under write_buffer_mutex.
ClearCheckpoints(t) == [t EXCEPT !.checkpoints = 0]

\* sendIncorrectPayloadEvent: the ack takes the current sequence number,
\* which is then incremented, and is queued like any event.
IncorrectPayload(a) ==
    [AddEvent(a, Event("incorrect", a.m_sequenceNumber))
        EXCEPT !.m_sequenceNumber = @ + 1]

Receive(s, m) ==
    /\ sock[s] = "open" /\ s \in bound /\ ap.alive
    /\ Bidirectional /\ Delivered
    /\ CASE m = "clear" ->
              /\ ppc = "idle"
              /\ env.clears < MaxClears
              /\ tp' = ClearCheckpoints(tp)
              /\ ap' = [AddEvent(ap, Event("cleared", ap.m_sequenceNumber))
                          EXCEPT !.m_sequenceNumber = @ + 1]
              /\ env' = [env EXCEPT !.clears = @ + 1,
                                    !.dropped = @ + tp.checkpoints]
         [] m = "checkpoint" ->
              /\ ppc = "idle"
              /\ env.checkpoints < MaxCheckpoints
              /\ tp' = [tp EXCEPT !.checkpoints = @ + 1]
              /\ ap' = ap
              /\ env' = [env EXCEPT !.checkpoints = @ + 1]
         [] m = "invalid" ->
              /\ ~tp.invalid_stream_input_notified
              /\ tp' = [tp EXCEPT !.invalid_stream_input_notified = TRUE]
              /\ ap' = IncorrectPayload(ap)
              /\ env' = env
    /\ pending' = [pending EXCEPT !.writes = @ \/ (m # "checkpoint"
                                       /\ ap.m_state = "CONNECTED")]
    /\ UNCHANGED <<sock, bound, writable, suls, mpc, mbuf, mok, ppc, ptmp,
                   wire>>

-----------------------------------------------------------------------------
(* Write-replace thread: SWITCH_ABC_TYPE_WRITE_REPLACE reaches the head  *)
(* checkpoint and calls stream_ws_send_played_event, which reads the     *)
(* sequence number, queues the event, then increments the number, all    *)
(* without a lock shared with the lws thread.  m_sequenceNumber =        *)
(* m_sequenceNumber + 1 is itself a read and a write.                     *)

PlayerRuns == Track = "inbound" /\ Bidirectional   \* SMBF_WRITE_REPLACE

PlayedRead ==
    /\ ppc = "idle" /\ PlayerRuns
    /\ tp.alive /\ tp.checkpoints > 0 /\ tp.audio_pipe_ptr /\ ap.alive
    /\ ptmp' = ap.m_sequenceNumber
    /\ ppc' = "read"
    /\ UNCHANGED <<ap, tp, sock, bound, writable, pending, suls, mpc, mbuf,
                   mok, wire, env>>

\* tech_pvt->audio_pipe_ptr is NULL: stream_ws_send_played_event sends
\* nothing and the loop pops the head checkpoint all the same.
PlayedNoPipe ==
    /\ ppc = "idle" /\ PlayerRuns
    /\ tp.alive /\ tp.checkpoints > 0 /\ ~tp.audio_pipe_ptr
    /\ tp' = [tp EXCEPT !.checkpoints = @ - 1]
    /\ UNCHANGED <<ap, sock, bound, writable, pending, suls, mpc, mbuf, mok,
                   ppc, ptmp, wire, env>>

PlayedEnqueue ==
    /\ ppc = "read"
    /\ ap' = AddEvent(ap, Event("played", ptmp))
    /\ pending' = [pending EXCEPT !.writes = @ \/ ap.m_state = "CONNECTED"]
    /\ ppc' = "enqueued"
    /\ UNCHANGED <<tp, sock, bound, writable, suls, mpc, mbuf, mok, ptmp,
                   wire, env>>

PlayedIncRead ==
    /\ ppc = "enqueued"
    /\ ptmp' = ap.m_sequenceNumber
    /\ ppc' = "incread"
    /\ UNCHANGED <<ap, tp, sock, bound, writable, pending, suls, mpc, mbuf,
                   mok, wire, env>>

\* the increment is written back and the checkpoint popped
PlayedIncWrite ==
    /\ ppc = "incread"
    /\ ap' = [ap EXCEPT !.m_sequenceNumber = ptmp + 1]
    /\ tp' = [tp EXCEPT !.checkpoints = IF @ > 0 THEN @ - 1 ELSE 0]
    /\ ppc' = "idle"
    /\ UNCHANGED <<sock, bound, writable, pending, suls, mpc, mbuf, mok, ptmp,
                   wire, env>>

-----------------------------------------------------------------------------
(* API thread: the commands of stream_function, and the scheduler task.  *)

\* start_capture, after stream_session_init: add_media_bug and
\* switch_channel_set_private(channel, stream_id, bug).
AttachBug ==
    /\ tp.alive /\ ~tp.bug
    /\ tp' = [tp EXCEPT !.bug = TRUE]
    /\ UNCHANGED <<ap, sock, bound, writable, pending, suls, mpc, mbuf, mok,
                   ppc, ptmp, wire, env>>

\* stream_ws_close_connection: channel_closing, attempts past the cap so
\* that no reconnect follows, and close(), which acts only when CONNECTED.
CloseConnection(a) ==
    IF tp.audio_pipe_ptr /\ a.alive
    THEN [a EXCEPT !.m_connection_attempts = MAX_CONNECTION_ATTEMPTS + 1,
                   !.m_state = IF @ = "CONNECTED" THEN "DISCONNECTING" ELSE @]
    ELSE a
\* Mutant: close() that marks DISCONNECTING but queues no disconnect.
ClosePendingLost(a) == [pending EXCEPT !.disconnects = @]

ClosePending(a) ==
    [pending EXCEPT !.disconnects = @ \/ (tp.audio_pipe_ptr /\ a.alive
                                          /\ a.m_state = "CONNECTED")]
ClosingFlag(a) == tp.channel_closing \/ (tp.audio_pipe_ptr /\ a.alive)

\* do_stop: stream_session_cleanup with channelIsClosing = 0.  It waits for
\* tech_pvt->mutex, clears the channel private and removes the bug, whose
\* CLOSE callback runs stream_ws_close_connection; tech_pvt is destroyed.
Stop ==
    /\ "stop" \in ApiCommands
    /\ tp.bug /\ tp.alive
    /\ TechMutexFree
    /\ ap' = CloseConnection(ap)
    /\ pending' = ClosePending(ap)
    /\ tp' = Cleaned([tp EXCEPT !.channel_closing = ClosingFlag(ap)])
    /\ UNCHANGED <<sock, bound, writable, suls, mpc, mbuf, mok, ppc, ptmp,
                   wire, env>>

\* The call hangs up: SWITCH_ABC_TYPE_CLOSE of the media bug first runs
\* stream_ws_close_connection, without any lock ...
HangupClose ==
    /\ "hangup" \in ApiCommands
    /\ tp.bug /\ tp.alive /\ ~tp.hangup
    /\ ap' = CloseConnection(ap)
    /\ pending' = ClosePending(ap)
    /\ tp' = [tp EXCEPT !.hangup = TRUE, !.channel_closing = ClosingFlag(ap)]
    /\ UNCHANGED <<sock, bound, writable, suls, mpc, mbuf, mok, ppc, ptmp,
                   wire, env>>

\* ... then stream_session_cleanup with channelIsClosing = 1, which waits
\* for tech_pvt->mutex.
HangupCleanup ==
    /\ tp.hangup /\ tp.bug /\ tp.alive
    /\ TechMutexFree
    /\ tp' = Cleaned(tp)
    /\ UNCHANGED <<ap, sock, bound, writable, pending, suls, mpc, mbuf, mok,
                   ppc, ptmp, wire, env>>

\* stream_session_graceful_shutdown: tech_pvt->graceful_shutdown, then
\* AudioPipe::graceful_shutdown, whose addPendingWrite dereferences
\* m_vhd->context (NULL until connect_client has run).
GracefulPipe(a) ==
    IF tp.audio_pipe_ptr /\ a.alive
    THEN [a EXCEPT !.m_gracefulShutdown = TRUE, !.graceExpired = FALSE]
    ELSE a
GracefulWakes(a) == tp.audio_pipe_ptr /\ a.alive /\ a.m_vhd
GracefulCrashes(a) == tp.audio_pipe_ptr /\ a.alive /\ ~a.m_vhd

\* The command in a state where it would dereference NULL aborts the
\* process; the model takes only the outcome that continues (the abort is
\* reachable: see the hazard at part_000:1059 in the README).
GracefulShutdown ==
    /\ "graceful" \in ApiCommands
    /\ tp.bug /\ tp.alive
    /\ ~GracefulCrashes(ap)
    /\ tp' = [tp EXCEPT !.graceful_shutdown = TRUE]
    /\ ap' = GracefulPipe(ap)
    /\ pending' = [pending EXCEPT !.writes = @ \/ GracefulWakes(ap)]
    /\ UNCHANGED <<sock, bound, writable, suls, mpc, mbuf, mok, ppc, ptmp,
                   wire, env>>

\* stream_timeout_callback: the scheduler runs do_graceful_shutdown.
StreamTimeout ==
    /\ tp.timeoutTask = "scheduled"
    /\ tp' = [tp EXCEPT !.timeoutTask = "fired", !.graceful_shutdown = TRUE]
    /\ ap' = GracefulPipe(ap)
    /\ pending' = [pending EXCEPT !.writes = @ \/ GracefulWakes(ap)]
    /\ UNCHANGED <<sock, bound, writable, suls, mpc, mbuf, mok, ppc, ptmp,
                   wire, env>>

\* stream_session_pauseresume
Pause(p) ==
    /\ "pause" \in ApiCommands
    /\ tp.bug /\ tp.alive /\ tp.audio_paused # p
    /\ tp' = [tp EXCEPT !.audio_paused = p]
    /\ UNCHANGED <<ap, sock, bound, writable, pending, suls, mpc, mbuf, mok,
                   ppc, ptmp, wire, env>>

\* stream_session_send_text
SendText ==
    /\ "send_text" \in ApiCommands
    /\ tp.bug /\ tp.alive /\ tp.audio_pipe_ptr /\ ap.alive
    /\ env.texts < MaxTexts
    /\ ap' = AddEvent(ap, Event("text", NoSeq))
    /\ pending' = [pending EXCEPT !.writes = @ \/ ap.m_state = "CONNECTED"]
    /\ env' = [env EXCEPT !.texts = @ + 1]
    /\ UNCHANGED <<tp, sock, bound, writable, suls, mpc, mbuf, mok, ppc, ptmp,
                   wire>>

\* m_gracefulShutdown_at + 60 seconds pass
DeadlineExpires ==
    /\ ap.alive /\ ap.m_gracefulShutdown /\ ~ap.graceExpired
    /\ ap' = [ap EXCEPT !.graceExpired = TRUE]
    /\ UNCHANGED <<tp, sock, bound, writable, pending, suls, mpc, mbuf, mok,
                   ppc, ptmp, wire, env>>

-----------------------------------------------------------------------------
(* Media thread: stream_frame, called for each captured frame.  It       *)
(* returns at once when tech_pvt is gone, paused or shutting down, when  *)
(* the pipe pointer is NULL or the pipe is not CONNECTED; otherwise it   *)
(* holds tech_pvt->mutex and the buffer lock while it writes the frames  *)
(* the bug has, and calls addPendingWrite before it unlocks.             *)

CaptureBegin(b) ==
    /\ mpc = "idle" /\ b \in CaptureBuffers
    /\ env.frames[b] < MaxFrames
    /\ tp.bug /\ tp.alive /\ ~tp.audio_paused /\ ~tp.graceful_shutdown
    /\ tp.audio_pipe_ptr /\ ap.alive /\ ap.m_state = "CONNECTED"
    /\ mpc' = "locked" /\ mbuf' = b /\ mok' = TRUE
    /\ UNCHANGED <<ap, tp, sock, bound, writable, pending, suls, ppc, ptmp,
                   wire, env>>

\* Mutant: a write that never checks the free space.
BufferHasRoomUnchecked(b) == b \in BufIds

\* Buffer::write fails when the ring buffer is full.
BufferHasRoom(b) == Usage(b) < BufferChunks

\* Buffer::write of one frame; when the buffer is full the write fails
\* and CONNECTION_TIMEOUT starts a graceful shutdown.  write_success
\* keeps the result of the last write.
CaptureWrite ==
    /\ mpc = "locked" /\ env.frames[mbuf] < MaxFrames
    /\ env' = [env EXCEPT !.frames[mbuf] = @ + 1]
    /\ IF BufferHasRoom(mbuf)
       THEN /\ ap' = [ap EXCEPT !.gen[mbuf] = @ + 1]
            /\ mok' = TRUE
            /\ UNCHANGED <<tp, pending>>
       ELSE /\ mok' = FALSE
            /\ IF Delivered
               THEN /\ tp' = [tp EXCEPT !.graceful_shutdown = TRUE]
                    /\ ap' = GracefulPipe(ap)
                    /\ pending' = [pending EXCEPT
                                     !.writes = @ \/ GracefulWakes(ap)]
               ELSE UNCHANGED <<ap, tp, pending>>
    /\ UNCHANGED <<sock, bound, writable, suls, mpc, mbuf, ppc, ptmp, wire>>

\* no more frames: addPendingWrite if the last write succeeded
CaptureEnd ==
    /\ mpc = "locked"
    /\ mpc' = IF mok THEN "requested" ELSE "idle"
    /\ pending' = [pending EXCEPT !.writes = @ \/ mok]
    /\ UNCHANGED <<ap, tp, sock, bound, writable, suls, mbuf, mok, ppc, ptmp,
                   wire, env>>

\* audioBuffer->unlock() and tech_pvt->mutex unlock
CaptureUnlock ==
    /\ mpc = "requested"
    /\ mpc' = "idle"
    /\ UNCHANGED <<ap, tp, sock, bound, writable, pending, suls, mbuf, mok,
                   ppc, ptmp, wire, env>>

-----------------------------------------------------------------------------

LwsThread ==
    \/ ServiceWake
    \/ ReconnectTimer
    \/ \E s \in Sockets :
          \/ Established(s) \/ ConnectionError(s) \/ ClientClosed(s)
          \/ WritableDeadline(s) \/ WritableStop(s) \/ WritableStart(s)
          \/ WritableEvent(s) \/ WritableClose(s) \/ WritableBusy(s)
          \/ WritableIdle(s) \/ WritableMedia(s)
          \/ \E m \in Messages : Receive(s, m)

Environment ==
    \/ \E s \in Sockets : PeerClose(s)
    \/ DeadlineExpires

ApiThread ==
    \/ AttachBug \/ Stop \/ HangupClose \/ HangupCleanup \/ GracefulShutdown
    \/ StreamTimeout \/ SendText \/ \E p \in BOOLEAN : Pause(p)

MediaThread ==
    \/ \E b \in CaptureBuffers : CaptureBegin(b)
    \/ CaptureWrite \/ CaptureEnd \/ CaptureUnlock

PlayerThread ==
    \/ PlayedRead \/ PlayedNoPipe \/ PlayedEnqueue \/ PlayedIncRead
    \/ PlayedIncWrite

Next ==
    LwsThread \/ Environment \/ ApiThread \/ MediaThread \/ PlayerThread

\* The lws service loop runs every callback it owes and every timer; the
\* network ends every handshake; 60 seconds pass; the scheduler runs a
\* due task; a thread inside stream_frame or stream_ws_send_played_event
\* finishes it.  Nothing obliges the host to deliver frames, the far end
\* to send or close, or anyone to issue a command.
Fairness ==
    /\ WF_vars(ServiceWake)
    /\ WF_vars(ReconnectTimer)
    /\ \A s \in Sockets :
          /\ WF_vars(Established(s) \/ ConnectionError(s))
          /\ WF_vars(ClientClosed(s))
          /\ WF_vars(WritableDeadline(s) \/ WritableStop(s)
                     \/ WritableStart(s) \/ WritableEvent(s)
                     \/ WritableClose(s) \/ WritableBusy(s)
                     \/ WritableIdle(s) \/ WritableMedia(s))
    /\ WF_vars(DeadlineExpires)
    /\ WF_vars(StreamTimeout) /\ WF_vars(HangupCleanup)
    /\ WF_vars(CaptureEnd) /\ WF_vars(CaptureUnlock)
    /\ WF_vars(PlayedEnqueue) /\ WF_vars(PlayedIncRead)
    /\ WF_vars(PlayedIncWrite)

Spec == Init /\ [][Next]_vars /\ Fairness

-----------------------------------------------------------------------------
(* Properties                                                              *)

MsgKinds == {"start", "media", "stop"} \cup (EventKinds \ {"dummy"})

TypeOK ==
    /\ ap.alive \in BOOLEAN /\ ap.m_state \in LwsStates
    /\ ap.m_connection_attempts \in 0..(MAX_CONNECTION_ATTEMPTS + 2)
    /\ ap.m_wsi \in {NoWsi} \cup Sockets
    /\ ap.m_events \in Seq([kind : EventKinds, seq : {NoSeq} \cup Nat])
    /\ ap.m_sequenceNumber \in Nat
    /\ \A b \in BufIds : Usage(b) \in 0..BufferChunks
    /\ tp.checkpoints \in 0..MaxCheckpoints
    /\ tp.timeoutTask \in {"none", "scheduled", "fired", "deleted"}
    /\ sock \in [Sockets -> SockStates]
    /\ bound \subseteq Sockets /\ writable \subseteq Sockets
    /\ suls \in Nat
    /\ mpc \in {"idle", "locked", "requested"} /\ mbuf \in BufIds
    /\ ppc \in {"idle", "read", "enqueued", "incread"}
    /\ wire \in Seq([ev : MsgKinds, seq : {NoSeq} \cup Nat,
                     buf : BufIds \cup {NoBuf}, chunk : Nat])

WireIdx(e) == {i \in 1..Len(wire) : wire[i].ev = e}

\* Spec 4.6 and 8: one start and at most one stop per session.  The
\* writable handler guards them with m_firstMsgSent and m_lastMsgSent,
\* which no reconnect resets.
StartStopAtMostOnce ==
    Cardinality(WireIdx("start")) <= 1 /\ Cardinality(WireIdx("stop")) <= 1

\* Audio goes out only inside the stream: every media message follows the
\* start and precedes any stop, across reconnects and shutdown races.
MediaInsideStream ==
    \A i \in WireIdx("media") :
        /\ \E j \in WireIdx("start") : j < i
        /\ \A j \in WireIdx("stop") : i < j

\* Spec 8, sequence monotonicity: the start, media, stop and playedStream
\* messages a session puts on the wire carry strictly increasing sequence
\* numbers, across reconnects and shutdown.  The lws thread numbers start,
\* media and stop as it sends them; stream_ws_send_played_event numbers a
\* playedStream on the write-replace thread when it queues it, and
\* increments the shared m_sequenceNumber afterwards, without a lock.
\* (Whether the sequence starts at 0 is not part of this: incorrectPayload
\* and media.cleared acks take numbers from the same counter.)
SeqKinds == {"start", "media", "stop", "played"}
SequenceMonotonic ==
    LET s == SelectSeq(wire, LAMBDA m : m.ev \in SeqKinds)
    IN  \A i \in 1..(Len(s) - 1) : s[i].seq < s[i + 1].seq

\* Spec 4.5: CONNECT_SUCCESS reaches the session once, however often the
\* pipe reconnects (ESTABLISHED tests m_stream_started).
ConnectSuccessOnce == env.connectSuccess <= 1

\* Spec 8, checkpoint ordering, and scenario 5: a playedStream event is
\* sent only for a checkpoint that was received and not dropped by a
\* later media.clear; the write-replace thread pops each checkpoint it
\* reports, and processClearEvent frees the ones still pending.
PlayedOnlyLiveCheckpoints ==
    Cardinality(WireIdx("played")) <= env.checkpoints - env.dropped


\* The assert(m_vhd == nullptr) of AudioPipe::connect_client states that
\* processPendingConnects never hands it a pipe already bound to the
\* vhost: no reachable state has the next service pass abort on it,
\* whatever the network does.  A
\* failed connect_client leaves the pipe on pendingConnects while its
\* reconnect timer is armed, and the reconnect makes it RECONNECTING,
\* which processPendingConnects picks.  (Without the assert, in an NDEBUG
\* build, connect_client opens a second socket beside the reconnect's.)
VhdAssertHolds == ~VhdAssertFails

\* A deleted AudioPipe is held by no pending list, timer, socket,
\* tech_pvt or write-replace thread: each of them would dereference it.
DeletedPipeUnreferenced ==
    ~ap.alive =>
        /\ ~pending.connects /\ ~pending.reconnects
        /\ ~pending.writes /\ ~pending.disconnects
        /\ suls = 0 /\ bound = {} /\ ppc = "idle"
        /\ ~(tp.alive /\ tp.audio_pipe_ptr)


\* Spec 4.5: once the pipe is DISCONNECTING (close() from stop or hangup,
\* the stop message of a graceful shutdown, or its deadline), the lws
\* thread closes the socket and CLOSED deletes the AudioPipe.
DisconnectCompletes == ap.alive /\ ap.m_state = "DISCONNECTING" ~> ~ap.alive

\* Spec scenario 6: a graceful shutdown ends with the connection closed
\* and the pipe deleted, at the latest 60 seconds after it was asked for.
GracefulShutdownCompletes == ap.m_gracefulShutdown ~> ~ap.alive

=============================================================================
