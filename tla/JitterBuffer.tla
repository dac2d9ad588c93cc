---------------------------- MODULE JitterBuffer ----------------------------
(***************************************************************************)
(* JitterBuffer (adaptive_buffer.cpp): packets are held in a priority      *)
(* queue ordered by MessageComparator and handed out by get_next_packet    *)
(* once the packet at the top has aged target_delay_ms_; adapt_to_jitter   *)
(* raises the delay when the measured jitter nears it.  Every method locks *)
(* jitter_mutex_ for its whole body, so each is one atomic step, and the   *)
(* threads that call them (a receiver adding, a player taking, a monitor   *)
(* adapting) interleave only between calls.                                *)
(*                                                                         *)
(* Time is counted in ticks (20 ms in the runs).  A packet is            *)
(* [id, prio, ts, at]: an identity (the queue may hold equal packets), its *)
(* priority, the timestamp its sender put on it, and the time it was       *)
(* added.  update_jitter_statistics is empty in the code and changes       *)
(* nothing; get_next_packet returning false changes nothing either.        *)
(***************************************************************************)
EXTENDS Integers, Sequences, FiniteSets

CONSTANTS
    Priorities,    \* message_priority_t values of the packets (0 = CRITICAL)
    InitialDelay,  \* initial_size_ms, in ticks
    MaxDelay,      \* max_size_ms, in ticks
    Jitters,       \* current_jitter_ms values passed to adapt_to_jitter, in ticks
    Offsets,       \* a packet's timestamp minus the time it is added, in ticks
    MaxTime,       \* bound: the last tick
    MaxPackets     \* bound: packets added in all

ASSUME /\ InitialDelay \in Nat /\ MaxDelay \in Nat /\ InitialDelay <= MaxDelay
       /\ Jitters \subseteq Nat /\ Offsets \subseteq Int

VARIABLES
    now,      \* system_clock::now(), in ticks
    queue,    \* jitter_queue_, as the set of packets it holds
    target,   \* target_delay_ms_
    stats,    \* stats_: [cur, max, delay] (jitter and delay fields)
    added,    \* packets added so far
    played    \* history: [p, at, delay] for every packet get_next_packet returned

vars == <<now, queue, target, stats, added, played>>

Packets == [id : 0..MaxPackets, prio : Priorities, ts : Int, at : 0..MaxTime]

-----------------------------------------------------------------------------
\* AdaptiveBufferManager::MessageComparator, the queue's order: a is below b.
MessageComparator(a, b) ==
    IF a.prio # b.prio THEN a.prio > b.prio ELSE a.ts > b.ts

\* jitter_queue_.top(): a packet no other packet is above.  Packets with
\* equal priority and timestamp may come out in either order.
Tops(q) == {m \in q : \A o \in q : ~MessageComparator(m, o)}

\* should_play_packet: packet_age is a signed count, target_delay_ms_ a
\* size_t, so the comparison is unsigned: a negative age (a timestamp ahead
\* of now) converts to at least 2^63 and passes.
ShouldPlayPacket(m) ==
    LET packet_age == now - m.ts
    IN  packet_age < 0 \/ packet_age >= target

\* The delay adapt_to_jitter sets for jitter j: min(max, (size_t)(j * 1.5))
\* when j > target * 0.8, the current one otherwise.
NearsDelay(j) == 5 * j > 4 * target

AdaptedDelayUnguarded(j) ==
    IF MaxDelay < (3 * j) \div 2 THEN MaxDelay ELSE (3 * j) \div 2
AdaptedDelayUnclamped(j) ==
    IF NearsDelay(j) THEN (3 * j) \div 2 ELSE target
AdaptedDelay(j) ==
    IF NearsDelay(j)
    THEN IF MaxDelay < (3 * j) \div 2 THEN MaxDelay ELSE (3 * j) \div 2
    ELSE target

-----------------------------------------------------------------------------
Init ==
    /\ now = 0
    /\ queue = {}
    /\ target = InitialDelay
    /\ stats = [cur |-> 0, max |-> 0, delay |-> InitialDelay]
    /\ added = 0
    /\ played = <<>>

AddPacket ==
    /\ added < MaxPackets
    /\ \E p \in Priorities, d \in Offsets :
         queue' = queue \cup {[id |-> added, prio |-> p, ts |-> now + d, at |-> now]}
    /\ added' = added + 1
    /\ UNCHANGED <<now, target, stats, played>>

GetNextPacket ==
    /\ queue # {}
    /\ \E m \in Tops(queue) :
         /\ ShouldPlayPacket(m)
         /\ queue' = queue \ {m}
         /\ played' = Append(played, [p |-> m, at |-> now, delay |-> target])
    /\ UNCHANGED <<now, target, stats, added>>

AdaptToJitter ==
    /\ \E j \in Jitters :
         /\ target' = AdaptedDelay(j)
         /\ stats' = [cur |-> j,
                      max |-> IF j > stats.max THEN j ELSE stats.max,
                      delay |-> IF NearsDelay(j) THEN AdaptedDelay(j)
                                ELSE stats.delay]
    /\ UNCHANGED <<now, queue, added, played>>

Tick ==
    /\ now < MaxTime
    /\ now' = now + 1
    /\ UNCHANGED <<queue, target, stats, added, played>>

Next == AddPacket \/ GetNextPacket \/ AdaptToJitter \/ Tick

Spec == Init /\ [][Next]_vars

-----------------------------------------------------------------------------
TypeOK ==
    /\ now \in 0..MaxTime
    /\ queue \subseteq Packets
    /\ target \in 0..MaxDelay
    /\ stats \in [cur : Jitters \cup {0}, max : Jitters \cup {0},
                  delay : 0..MaxDelay]
    /\ added \in 0..MaxPackets
    /\ played \in Seq([p : Packets, at : 0..MaxTime, delay : 0..MaxDelay])

\* What holding packets for a delay buys: a packet that reaches the buffer
\* less than the initial delay after its timestamp is never played after a
\* later-stamped packet of its own priority.  It rests on get_next_packet
\* playing only the top packet once it is due, and on adapt_to_jitter never
\* lowering target_delay_ms_ below where it started.
PlayoutInOrder ==
    \A i, k \in 1..Len(played) :
        LET a == played[i].p
            b == played[k].p
        IN  ~(i < k /\ a.prio = b.prio /\ b.ts < a.ts /\ b.at - b.ts < InitialDelay)

=============================================================================
