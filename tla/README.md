# TLA+ models of mod_audio_stream

This directory holds the model-checking development for mod_audio_stream. The module is a
FreeSWITCH module that streams a call's audio to a WebSocket server. It also takes
control messages (clear, checkpoint, play) back from the server.

## The system and how its parts interact

The source tree is partly concatenated, so the table gives line ranges.

| Part | Source | Runs on |
|---|---|---|
| `Buffer`, the chunk ring buffer of one direction | `src/unnamed/part_000` 1-212 | media thread (write) and lws thread (read) |
| `AudioPipe`, the WebSocket client | `src/unnamed/part_000` 314-1330 (audio_pipe.cpp), `src/src/audio_pipe.hpp` | lws service thread |
| Session engine: `tech_pvt`, `eventCallback`, `stream_session_*`, `stream_frame` | `src/src/lws_glue.cpp` 1-1523 | lws thread (callbacks), media thread, API thread |
| Module commands and media-bug callbacks | `src/src/lws_glue.cpp` 1524-2651 (mod_audio_stream.c) | API thread, session thread, write-replace thread |
| Adaptive buffer and its C wrapper, jitter buffer, packet-loss recovery | `src/src/adaptive_buffer.*`, `part_000` 1331-1698 | client threads and a monitoring thread; created at module load, not on the streaming path |
| Connection manager | `src/unnamed/part_001` | stub |
| OpenAI realtime adapter | `part_000` 1699-2033 | message formatting only |

The parts interact as follows:

1. **Start.** `start_capture` runs on the API thread. It calls `stream_session_init`,
   which builds `tech_pvt` and an `AudioPipe`. `connect()` puts the pipe on the
   static `pendingConnects` list. Then the media bug is added and stored as a
   channel private.
2. **Connecting.** `AudioPipe::initialize` starts one lws service thread per
   context: `nServiceThreads`, 2 unless `MOD_AUDIO_STREAM_SERVICE_THREADS` says
   otherwise. Each thread runs the callbacks of its own sockets. When any of them
   is woken (`EVENT_WAIT_CANCELLED`), it runs `processPendingConnects`,
   `processPendingDisconnects` and `processPendingWrites` on the process-wide
   lists. The models run all of this on one lws thread (see "Not modelled").
   - `connect_client` opens a socket. It asserts that the pipe has no `m_vhd`
     yet, and the documented build (`cmake ..`, no `NDEBUG`) keeps the assert.
   - `ESTABLISHED` and `CONNECTION_ERROR` find the pipe again through the pending
     lists.
   - A failed handshake or a far-end close arms a reconnect timer (`reconnect`)
     while the attempts stay within `MAX_CONNECTION_ATTEMPTS`.
3. **Notifications.** The lws thread reports `CONNECT_SUCCESS`, `CONNECT_FAIL`,
   `CONNECTION_DROPPED`, `CONNECTION_CLOSED_GRACEFULLY` and `MESSAGE` to
   `eventCallback`. There it acts on `tech_pvt`: it schedules the stream timeout,
   deletes the pipe and runs `stream_session_cleanup`.
4. **Capture.** The media thread runs `stream_frame` for each frame. It holds
   `tech_pvt->mutex` and the buffer lock, writes frames, and calls
   `addPendingWrite`. A full buffer raises `CONNECTION_TIMEOUT`, which starts a
   graceful shutdown.
5. **Sending.** The lws `WRITEABLE` callback runs these branches in order:
   - the graceful-shutdown deadline, then the stop message;
   - the start message;
   - one queued event;
   - close when `DISCONNECTING`;
   - one media chunk, taken with `try_lock`.
6. **Playback.** With bidirectional audio, the lws thread hands each inbound
   message to `processIncomingMessage`. `media.play` audio is decoded, resampled
   to the call rate and appended to `write_buffer` (`storePayload`);
   `media.checkpoint` appends a node at `stream_input_received` to the checkpoint
   list; `media.clear` empties both. The write-replace callback, once per outgoing
   frame, reads a frame, advances `stream_input_played` and reports the
   checkpoints it has reached (`stream_ws_send_played_event`). That reads and
   increments the pipe's sequence number, with no lock shared with the lws thread.
7. **Commands.** The API commands (`stop`, `graceful-shutdown`, `pause`,
   `send_text`) and a hang-up (the bug's `CLOSE` callback) end the session or
   change it.

## Modules

| Module | Models | Runs |
|---|---|---|
| `AudioStream.tla` (+ `MC_AudioStream.tla`) | one stream of one call: the AudioPipe, the lws thread with its pending lists and timers, the session engine, the media thread, the write-replace thread and the API thread | transport, events and four violation runs |
| `Playback.tla` (+ `MC_Playback.tla`) | the playback path in bytes: inbound messages, `storePayload` and its resampler, the checkpoint linked list, `media.clear`, the write-replace callback and `destroy_tech_pvt` | playback, resampler_both |
| `CheckpointQueue.tla` | what the playback path promises about checkpoints: a FIFO of non-decreasing positions, reported from the head and dropped all at once; `Playback` is checked to implement it | (a property of playback) |
| `AdaptiveBuffer.tla` (+ `MC_AdaptiveBuffer.tla`) | `AdaptiveBufferManager`: client threads calling its public methods, the monitoring thread, and the module load and unload of its C wrapper | adaptive_buffer, ab_untimed_wait |
| `PriorityBuffer.tla` | what the manager promises its callers, with no threads, locks or statistics; `AdaptiveBuffer` is checked to implement it | (a property of adaptive_buffer) |
| `JitterBuffer.tla` (+ `MC_JitterBuffer.tla`) | `JitterBuffer`: packets added, played once due, and the delay adapted, as time passes | jitter_order |
| `PacketLossRecovery.tla` (+ `MC_PacketLossRecovery.tla`) | `PacketLossRecovery`: its strategy and counters, and `detect_missing_packets` as a recursive operator on `Width`-bit sequence numbers | plr_wrap |

### AudioStream: correspondence with the code

State:

| Model variable | Code |
|---|---|
| `ap` | the `AudioPipe` fields (`alive` is FALSE once it is deleted) |
| `tp` | `tech_pvt`, plus whether the channel still holds the bug |
| `pending` | the pipe's membership in the four static lists |
| `suls` | the armed reconnect timers |
| `sock` | the lifecycle of each lws socket |
| `bound` | the sockets whose user data (`*ppAp`) points at the pipe |
| `writable` | the pending `lws_callback_on_writable` requests |
| `mpc`, `mbuf`, `mok` | the position of the media thread inside `stream_frame` |
| `ppc`, `ptmp` | the position of the write-replace thread inside `stream_ws_send_played_event` |
| `wire` | every message `lws_write` sent, in order (event name, sequence number, buffer, chunk) |
| `env` | the counters that bound the environment |

Actions:

- **One action per handler or branch.** For example, `ServiceWake` is the whole
  `EVENT_WAIT_CANCELLED` callback: connects, then disconnects, then writes.
  `Established`, `ConnectionError`, `ClientClosed` and `ReconnectTimer` are the
  lws callbacks and the timer. `Writable*` is one action per branch of
  `WRITEABLE`.
- **Handler effects are included.** Each action includes what `eventCallback` and
  `stream_session_cleanup` do when the handler calls them: `PipeGoneCallback`,
  `AfterConnectFail` and `Cleaned`.
- **Multi-step handlers are split at their locks.** `stream_frame` is
  `CaptureBegin`, `CaptureWrite`, `CaptureEnd` and `CaptureUnlock`, because the
  lws thread can act between these steps. The played-event path is `PlayedRead`,
  `PlayedEnqueue`, `PlayedIncRead` and `PlayedIncWrite`; the increment is a read
  and a write of `m_sequenceNumber`. The hang-up is `HangupClose` then
  `HangupCleanup`, because the `CLOSE` callback closes the connection before it
  waits for `tech_pvt->mutex`. `do_stop` waits first.
- **The assert in `connect_client`.** `ServiceWake` runs only while
  `assert(m_vhd == nullptr)` would hold (`VhdAssertFails`). In a state where it
  would fail, the next service pass aborts the process, so the model has no
  `ServiceWake` step there.
- **A played event with no pipe.** When `tech_pvt->audio_pipe_ptr` is NULL,
  `stream_ws_send_played_event` sends nothing, and the loop still pops the head
  checkpoint. That is `PlayedNoPipe`.
- **Environment actions.** The far end closing a socket is `PeerClose`. The
  60-second graceful deadline passing is `DeadlineExpires`.

Data is abstracted:

- an audio chunk is a count (`gen`/`tx` per buffer);
- a JSON message is its event name and sequence number;
- a socket is an integer;
- a received text message is `clear`, `checkpoint` or `invalid`.

Every definition's source lines are listed in `PROJECT.json` under `map`.

`MC_AudioStream.tla` gives the constants their values: `MAX_CONNECTION_ATTEMPTS` =
3 as in the code, a one-chunk buffer, and enough sockets for every handshake the
bounded network can make. The transport cfg sets `MAX_CONNECTION_ATTEMPTS` to 1
with two connection errors. The code paths are the same (a retry, then
`CONNECT_FAIL`), and the smaller state space leaves room for pause and resume.

### AdaptiveBuffer: correspondence with the code

`AdaptiveBufferManager` (`src/src/adaptive_buffer.cpp`) keeps a `BufferContext` per
stream id, each with a priority queue of messages. `adaptive_buffer_init` in the C
wrapper (`part_000` 1349-1401) creates one manager at module load and starts its
monitoring thread. `adaptive_buffer_cleanup` (1406-1426) stops it at unload and
deletes the manager.

State:

| Model variable | Code |
|---|---|
| `bufs` | `buffers_`: each `BufferContext` as a record. The queue is a set of messages `[prio, ts, expired]`. |
| `mutex` | `buffers_mutex_`, when a thread holds it across steps (only `dequeue_message` waiting) |
| `op`, `req` | the method each client thread is in, and its arguments |
| `active`, `mon` | `monitoring_active_`, and where the monitoring thread is in its loop |
| `unload` | the progress of `adaptive_buffer_cleanup` |
| `clock` | `system_clock::now()`, as a counter of stamps |
| `rejected` | history: every message `enqueue_message` refused |

Every public method locks `buffers_mutex_` for its whole body, so each body is one
action, taken when the mutex is free. Each action includes the helpers the body
calls:
- `EnqueueMessage` includes `should_drop_message`, `update_buffer_statistics` and
  `check_buffer_conditions`;
- `UpdateNetworkCondition` and `AdaptBuffer` include `adapt_buffer_size`;
- `MonitorTick` is one pass of `monitoring_worker` over every buffer.

`context_mutex` is always taken after `buffers_mutex_`, so it is never contended and
is left out. The one body that spans steps is `dequeue_message` on an empty queue.
It waits on `data_available` and releases only `context_mutex`, so it keeps
`buffers_mutex_` (`DequeueMessage` then `DequeueTimeout`). The adaptation interval
is a nondeterministic "elapsed" flag.

`PriorityBuffer.tla` is the abstract specification. It has one store of messages
per stream and these operations:
- a refusal of an expired or non-urgent message;
- a take of the most urgent message;
- a flush that keeps the messages at least as urgent as its bound.

`AbstractBuffer` maps each live context to its queue and `rejected` to the
refused messages.

### Playback: correspondence with the code

Every handler holds `write_buffer_mutex` for all the state it changes, so each is
one action. `processClearEvent` queues its ack after it unlocks, but by then the
list is empty and the buffer zeroed, so no write-replace step in between can send
anything. Audio is counted in bytes, as the code counts it; samples are not
modelled. Sequence numbers are left to AudioStream.

| Model variable | Code |
|---|---|
| `received`, `played`, `inuse` | `stream_input_received`, `stream_input_played`, `switch_buffer_inuse(write_buffer)` |
| `heap`, `head` | the malloc'd `stream_checkpoints_t` nodes (position, `next`, `tail`) and `tech_pvt->checkpoints`; a node's id is its name |
| `resampler` | `resampler_outbound`, as the rates it was created with |
| `wire` | the incorrectPayload, media.cleared and playedStream messages queued, in order |
| `alive` | until `destroy_tech_pvt` |
| `msgs` | inbound messages processed (the bound) |
| `expected` | ghost: the bytes the received audio should fill at the call rate |

Actions:
- `OtherMessage`: unparsable JSON, no event, an unknown event, `transcription.send`;
- `PlayAudio`: `processPlayAudioEvent` (each validation failure queues incorrectPayload) and `storePayload`;
- `Checkpoint`: `processCheckpointEvent`, linking the node after the head's tail pointer;
- `Clear`: `processClearEvent`;
- `WriteReplace`: the `SWITCH_ABC_TYPE_WRITE_REPLACE` branch, with its report loop as the recursive `ReportLoop`. It runs for track `inbound` only, the one bug `start_capture` gives `SMBF_WRITE_REPLACE` (`WriteReplaceAttached`);
- `DestroyTechPvt`: `destroy_tech_pvt`.

The refinement mapping to `CheckpointQueue` walks the list from `head` along the
`next` pointers, as the code does. `CheckpointQueue!Report` may report several
checkpoints in one step, because the write-replace loop does so under one lock.

### JitterBuffer and PacketLossRecovery

Only `test_adaptive_buffer.cpp` uses these two classes; the module's streaming path
does not. Each of their methods holds its mutex for its whole body, so each is one
action.

`JitterBuffer` (cpp 648-729):
- a packet carries its sender timestamp and its arrival time;
- `GetNextPacket` plays a top packet when `should_play_packet` says it is due;
- `AdaptToJitter` is `adapt_to_jitter`;
- `Tick` is time passing.

`PacketLossRecovery` (cpp 572-645):
- its per-stream counters are actions;
- the loop of `detect_missing_packets` is the recursive operator `MissingFrom` over
  numbers modulo `2^Width`;
- it is compared with `SerialGap`, the gap in serial-number order (RFC 1982).

## Runs

Passing runs (TLC explores every reachable state):

| Run | cfg | What it shows |
|---|---|---|
| transport | `MC_AudioStream.cfg` | See below. |
| events | `MC_AudioStream_events.cfg` | A playedStream event is sent only for a checkpoint that was received and not dropped by a `media.clear`. The write-replace thread races the lws thread handling a clear, a checkpoint, an invalid payload, a `send_text` and a hang-up; once the hang-up has closed the pipe, the write-replace thread pops checkpoints without sending (`PlayedNoPipe`). |
| playback | `MC_Playback.cfg` | See below. |
| adaptive_buffer | `MC_AdaptiveBuffer.cfg` | See below. |
| jitter_order | `MC_JitterBuffer.cfg` | Same-priority packets are not reordered by the jitter buffer, with `adapt_to_jitter` interleaved (see below). |

The transport run covers:
- handshake failures up to `CONNECT_FAIL` (2 errors against a cap of 1), one far-end close followed by a reconnect;
- capture of 2 frames into a 1-chunk buffer, which reaches the write failure;
- pause and resume, which gate `stream_frame`;
- stop, hang-up and graceful-shutdown.

Across all of that, it checks that start and stop go out at most once, that media
goes out only between them, that start, media and stop carry strictly increasing
sequence numbers across the reconnect (`SequenceMonotonic`), and that
`CONNECT_SUCCESS` reaches the session once.
It also checks `DisconnectCompletes`: a pipe that becomes `DISCONNECTING` (stop,
hang-up, stop message or deadline) is always closed and deleted.

The playback run is an 8 kHz call streaming one leg at 16 kHz, where a frame is
320 bytes. Up to six inbound messages race the write-replace frames:
- L16 at the call rate (a frame and a half);
- L16 at 16 kHz, resampled to one frame;
- mu-law decoding to half a frame;
- two refused plays;
- named and unnamed checkpoints, a clear and an unknown event.

It checks that:
- the checkpoint list implements `CheckpointQueue` (`CheckpointFifo`);
- every stored payload fills its duration at the call rate (`PlaybackKeepsDuration`);
- a checkpoint whose frame the buffer already holds is eventually reported, or
  dropped by a clear or the end of the stream (`CheckpointReported`).

The adaptive_buffer run has two client threads calling all 8 state-changing
methods on one stream, the monitor running, and then the module unload. It checks
that:
- the manager implements `PriorityBuffer`;
- every call returns (`CallsReturn`), with the positive timeout the run passes
  (a timed wait always ends, so this run cannot show the untimed wait of
  ab_untimed_wait);
- the unload completes (`UnloadCompletes`): the monitor sees the cleared running
  flag and exits its loop. A join held up by a waiter that keeps `buffers_mutex_`
  is ab_untimed_wait's case.

The jitter_order run checks `PlayoutInOrder`: a packet that arrives within the
initial delay of its timestamp is never played after a later-stamped packet of its
priority.

Violation runs. Each checks one property, and TLC finds a counterexample that
follows the code:

| Run | Property | Counterexample |
|---|---|---|
| vhd_assert | `VhdAssertHolds` | a NULL connect result leaves the pipe, with `m_vhd` set, on `pendingConnects`; after the reconnect timer it is `RECONNECTING`, `processPendingConnects` calls `connect_client` on it again, and `assert(m_vhd == nullptr)` aborts the process. With `NDEBUG` the same path opens a second socket beside the reconnect's |
| deleted_pipe | `DeletedPipeUnreferenced` | `CONNECT_FAIL` deletes the pipe while it is on `pendingWrites` |
| graceful_hangs | `GracefulShutdownCompletes` | a writable callback that loses `try_lock` to `stream_frame` requests no further writable, so the shutdown never completes |
| ab_untimed_wait | `WaitBlocksOnlyWaiter` | a `dequeue_message` with timeout 0 on an empty buffer waits on `data_available` holding `buffers_mutex_`. The other client's `enqueue_message`, which would wake it, and the monitor's tick never get the mutex (so the unload's join would hang too). A waiter that released `buffers_mutex_` satisfies the property: TLC checked that variant of `DequeueMessage` under the same cfg |
| seq_race | `SequenceMonotonic` | a checkpoint arrives after the handshake; the write-replace thread reads `m_sequenceNumber` (0) for its playedStream, the first writable callback sends start with 0 and increments, and the playedStream then goes out with 0 too. Spec 5 says the counter is incremented under the session mutex |
| resampler_both | `PlaybackKeepsDuration` | with track `both` on an 8 kHz call streamed at 16 kHz, `resampler_outbound` already holds the capture leg's 8-to-16 kHz resampler, so a 16 kHz `media.play` is upsampled and fills four times its duration |
| plr_wrap | `DetectsEveryGap` | `detect_missing_packets(0, 5)` on 3-bit numbers, where 5 is 3 behind 0, reports 1..4 lost; with 32 bits a late packet from before the wrap reports almost 2^32 losses, and a gap across the wrap reports none |

More disagreements between the code and the spec are recorded as hazards in
`PROJECT.json`, without a run of their own. All but the third and sixth were
reproduced with TLC against a temporary property while the model was built
(stop before start: graceful-shutdown between `ESTABLISHED` and the first
writable; frame behind stop: `CaptureBegin`, graceful-shutdown, stop, then
`CaptureWrite`); the third and sixth are read from the code:
- a stop before `CONNECTED` is ignored by `close()`, and the pipe still connects
  for a cleaned-up session;
- graceful-shutdown before `connect_client` dereferences a NULL `m_vhd`;
- a checkpoint that arrives after the last whole frame has been played is never
  reported until more audio arrives (spec scenario 5 expects it);
- stop can be sent before start when a graceful-shutdown comes before the first writable;
- a frame can stay unsent behind stop, because `allBuffersAreEmpty` reads without the lock;
- invalid payloads and clears take sequence numbers;
- the write-replace loop reports a checkpoint up to a frame early: a 480-byte
  play and a checkpoint at 480 are reported when the first 320-byte frame is
  read, because the loop tests `played + len - 1` after adding `len` to
  `played` (spec 4.7 step 4 says only once `bytes_played >= position`).
  TLC showed this against a property `PlayedOnlyAfterPosition`
  (`played >= position` for every playedStream).

Two more in the adaptive-buffer code are recorded the same way:
- `flush_buffer` leaves `current_size_bytes` stale, so `should_drop_message` drops
  messages while the buffer has room;
- `should_play_packet` compares a signed age with an unsigned delay, so a packet
  stamped ahead of the receiver clock plays at once.

Every property of a passing run has a mutant. A mutant is a plausible bug in the
definition it replaces, and TLC finds the property violated under the run's cfg.
The mutants are:
- **AudioStream:**
  - a buffer write without the capacity check;
  - a reconnect that restarts the stream;
  - a reconnect that forgets the stream started;
  - a reconnect that numbers messages from 0 again;
  - the media branch taken while `DISCONNECTING`;
  - a clear that keeps its checkpoints;
  - a `close()` that queues no disconnect.
- **Playback:**
  - a checkpoint accepted before any audio;
  - the lazily created resampler's rates swapped;
  - a pop that does not hand the tail pointer on;
  - the report test written as `played >= position`, as the spec states it.
- **AdaptiveBuffer:**
  - UNDERRUN/OVERRUN counted on every check instead of on entry;
  - the comparator's timestamp order reversed;
  - a wait that never times out;
  - a monitor loop that ignores `monitoring_active_`.
- **JitterBuffer:**
  - `adapt_to_jitter` without the `min` with `max_delay_ms_`;
  - `adapt_to_jitter` without its `> target * 0.8` guard.

### Bounds

| Constant | Value | Why |
|---|---|---|
| `MaxConnErrors` | 4 (transport: 2) | the fourth failed handshake exceeds `MAX_CONNECTION_ATTEMPTS` = 3 and reaches `CONNECT_FAIL`; in transport, the second exceeds its cap of 1 |
| `MaxPeerCloses` | 1 | enough for one reconnect, which exercises every flag a reconnect could reset |
| `MaxFrames`, `BufferChunks` | 2, 1 | reaches the failed write (buffer full) |
| `MaxCheckpoints`, `MaxClears` | 1 each | enough for a clear to race a checkpoint report |
| AdaptiveBuffer `Config` | `BufferConfigurations::Balanced` / 64 | two 1024-byte messages fill `max_size_bytes`, so drops, OVERRUN and clamping all happen |
| AdaptiveBuffer `MaxCalls`, `Priorities` | 4, {0, 2} | two enqueues of one priority and a dequeue (the order check), or a full buffer and a refused NORMAL message; CRITICAL against NORMAL for flushes |
| JitterBuffer delays, `MaxTime`, `MaxPackets` | 3 and 10 ticks of 20 ms (the defaults 60, 200 ms), 6, 3 | a packet is held, played, and overtaken by a late one; a jitter of 160 ms drives the delay to the 200 ms cap |
| Playback `MaxMessages`, payload sizes | 6; 480, 640, 80 bytes | a frame and a half puts a checkpoint between frames; three checkpoints behind one popped head expose a stale tail pointer; all on an 8 kHz call so rates differ both ways |
| PacketLossRecovery `Width` | 3 | every pair of numbers on both sides of the wrap; only the width differs from the code |

`ApiCommands` restricts which commands a run issues, to keep each run under a
few minutes. Where a combination was not needed for the question, it was left
out.

`CHECK_DEADLOCK FALSE` is used where the system really stops:
- a stream stops once the pipe is deleted and the session cleaned up, or once the
  bounded environment is exhausted;
- the adaptive buffer stops after the unload;
- packet-loss callers stop after `MaxCalls`;
- playback stops after `destroy_tech_pvt`.

### Fairness

AudioStream assumes weak fairness for:
- the lws service loop (`ServiceWake`, the reconnect timer, socket handshakes ending, `CLOSED`, and a pending writable callback); lws runs these as long as they are owed;
- the scheduler task (`StreamTimeout`);
- time passing (`DeadlineExpires`);
- a thread finishing the critical section it is in (`CaptureEnd`, `CaptureUnlock`, the played-event steps, `HangupCleanup`).

No fairness is assumed for the host delivering frames, the far end sending or
closing, or any command being issued.

AdaptiveBuffer assumes weak fairness for:
- each client thread's method body, once `buffers_mutex_` is free. The mutex is held
  across steps only by a waiting dequeue, and a timed wait ends.
- each step of the monitoring thread (`sleep_for` returns);
- the join and the delete of the unload.

Calls and the start of the unload are not forced.

Playback assumes weak fairness for `WriteReplace` only: the media thread calls
the write-replace callback for every outgoing frame while the bug is attached. The
far end owes no message, and nothing forces a clear or the end of the stream.

## Plan

Items 1 to 3, 7 and 8 are done.

1. **Done:** the connection lifecycle of `AudioPipe` and its pending lists,
   against the session engine. Covers the `connect_client` assert, no transport
   after cleanup, and no use of a deleted pipe.
2. **Done:** the send path: start, media and stop order, sequence numbers, the
   graceful shutdown and its deadline, and the races with `stream_frame`.
3. **Done:** checkpoints and `media.clear` against the write-replace thread.
4. **Next:** liveness of a reconnect whose `lws_client_connect_via_info` returns
   NULL. The pipe stays `RECONNECTING` with no socket.
5. **Next:** a property counting the handshakes of one `CONNECT_FAIL` episode
   against scenario 4, which expects three.
6. **Next:** short writes of queued events, and the failure branch of
   `add_media_bug`.
7. **Done:** the adaptive buffer, its jitter buffer and its packet-loss recovery.
8. **Done:** checkpoint positions against the bytes played, from the
   `media.play` path (Playback).

## Not modelled

- **Connection manager.** It is a stub.
- **A second lws service thread.** The code starts two by default, and either
  one may drain the process-wide pending lists. `processPendingWrites` on one
  thread can then call `lws_callback_on_writable` for a socket that the other
  thread is closing. The model runs the pending lists and every socket callback
  on one thread, each `processPending` pass as one step. The hazard is listed
  in `PROJECT.json`.
- **Adaptive-buffer parts.** Not modelled:
  - `initialize`, which stores a default config that nothing reads;
  - the read-only getters;
  - the token-bucket, rate-limit and flow-control helpers, which nothing calls.
- **OpenAI adapter, JSON formatting, base64, and the samples that resampling,
  μ-law coding and mixing produce.** These are data transformations with no
  state; Playback keeps the byte counts they produce.
- **Reassembly of fragmented `RECEIVE` frames, and short writes.**
- **The heartbeat task.**
- **The failure branch of `add_media_bug` in `start_capture`.**

These are listed as hazards in `PROJECT.json` with the reason no property covers
them yet.
