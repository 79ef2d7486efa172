------------------------------ MODULE Realtime ------------------------------
(***************************************************************************)
(* Realtime connections and their drain: the Registry's connection count,  *)
(* ShutdownConfig's flag and notification, a Broadcast channel, and the    *)
(* WebSocket and SSE loops of src/realtime that share them.                *)
(*                                                                         *)
(* Atomics are loads and compare-and-swaps of their own.  A connection slot *)
(* is used once.                                                           *)
(***************************************************************************)
EXTENDS Integers, FiniteSets

CONSTANTS WsConns, SseConns,
          Drainers,         \* concurrent calls of realtime::drain
          MaxConnections,   \* ShutdownConfig's cap
          Capacity,         \* the channel's ring, as tokio rounds it up
          MaxSent,          \* bound: payloads published
          Misses,           \* pings without a pong before the timeout is past
          Faults            \* which of AllFaults a run admits

AllFaults == {"mute", "stall", "leave", "close"}

Conns == WsConns \cup SseConns

ASSUME RealtimeConstants ==
    /\ WsConns \cap SseConns = {}
    /\ IsFiniteSet(Conns)
    /\ MaxConnections \in Nat /\ MaxSent \in Nat /\ Misses \in Nat
    /\ Capacity \in Nat \ {0}
    /\ Faults \subseteq AllFaults

VARIABLES live,      \* Registry's counter
          draining,  \* ShutdownConfig's flag
          at,        \* where each connection is
          cur,       \* what it loaded from the counter
          woken,     \* whether notify_waiters reached its current Notified
          pos,       \* payloads its Subscription has consumed or lost
          pings,     \* pings since the last pong
          peer,      \* how its client behaves
          sent,      \* payloads published
          held,      \* whether the application still holds the Broadcast
          drain,     \* where each call of drain is
          before,    \* history: the connections held when a drain began
          late       \* history: payloads handed to a client once draining

vars == <<live, draining, at, cur, woken, pos, pings, peer, sent, held, drain, before, late>>

\* Locations at which a connection owns a ConnectionGuard.
Guarded == {"guard", "loop", "armed", "wait", "sending", "closing", "poll", "recv",
            "emit", "drop", "dropping"}
Holders == {c \in Conns : at[c] \in Guarded}

Init ==
    /\ live = 0 /\ draining = FALSE /\ sent = 0 /\ held = TRUE
    /\ at = [c \in Conns |-> "new"]
    /\ cur = [c \in Conns |-> 0]
    /\ woken = [c \in Conns |-> FALSE]
    /\ pos = [c \in Conns |-> 0]
    /\ pings = [c \in Conns |-> 0]
    /\ peer = [c \in Conns |-> "well"]
    /\ drain = [d \in Drainers |-> "idle"]
    /\ before = [d \in Drainers |-> {}]
    /\ late = [c \in Conns |-> 0]

Goto(c, l) == at' = [at EXCEPT ![c] = l]
-----------------------------------------------------------------------------
\* handle past the origin and the authorizer, and acquire's load and check.
AcquireLoad(c) ==
    /\ at[c] \in {"new", "admit"}
    /\ held
    /\ IF live >= MaxConnections THEN Goto(c, "refused") /\ UNCHANGED cur
       ELSE Goto(c, "cas") /\ cur' = [cur EXCEPT ![c] = live]
    /\ UNCHANGED <<live, draining, woken, pos, pings, peer, sent, held, drain, before, late>>

\* Mutant: a store in place of the compare-and-swap.
AcquireStore(c) ==
    /\ at[c] = "cas"
    /\ live' = cur[c] + 1
    /\ Goto(c, "guard")
    /\ UNCHANGED <<draining, cur, woken, pos, pings, peer, sent, held, drain, before, late>>

\* Its compare_exchange_weak, which may also fail for no reason.
AcquireCas(c) ==
    /\ at[c] = "cas"
    /\ \/ live = cur[c] /\ live' = live + 1 /\ Goto(c, "guard")
       \/ UNCHANGED live /\ Goto(c, "admit")
    /\ UNCHANGED <<draining, cur, woken, pos, pings, peer, sent, held, drain, before, late>>

\* The subscription, then the WebSocket's loop or the SSE stream's preamble.
Subscribe(c) ==
    /\ at[c] = "guard"
    /\ pos' = [pos EXCEPT ![c] = sent]
    /\ Goto(c, IF c \in WsConns THEN "loop" ELSE "emit")
    /\ UNCHANGED <<live, draining, cur, woken, pings, peer, sent, held, drain, before, late>>

\* The upgrade does not complete: the closure is dropped with its guard.
NeverStarts(c) ==
    /\ "leave" \in Faults
    /\ at[c] = "guard"
    /\ Goto(c, "drop")
    /\ UNCHANGED <<live, draining, cur, woken, pos, pings, peer, sent, held, drain, before, late>>

\* ConnectionGuard::drop, a load
DropLoad(c) ==
    /\ at[c] = "drop"
    /\ IF live = 0 THEN Goto(c, "gone") /\ UNCHANGED cur
       ELSE Goto(c, "dropping") /\ cur' = [cur EXCEPT ![c] = live]
    /\ UNCHANGED <<live, draining, woken, pos, pings, peer, sent, held, drain, before, late>>

\* and a compare-and-swap.
DropCas(c) ==
    /\ at[c] = "dropping"
    /\ \/ live = cur[c] /\ live' = live - 1 /\ Goto(c, "gone")
       \/ UNCHANGED live /\ Goto(c, "drop")
    /\ UNCHANGED <<draining, cur, woken, pos, pings, peer, sent, held, drain, before, late>>
-----------------------------------------------------------------------------
\* A pass of run_connection's select starts: drain_notified creates its
\* Notified, which from here on receives a notify_waiters.
Arm(c) ==
    /\ at[c] = "loop"
    /\ Goto(c, "armed")
    /\ woken' = [woken EXCEPT ![c] = FALSE]
    /\ UNCHANGED <<live, draining, cur, pos, pings, peer, sent, held, drain, before, late>>

\* Mutant: the flag was read before the Notified existed, not after.
CheckFlagFirst(c) ==
    /\ at[c] = "armed"
    /\ Goto(c, "wait")
    /\ woken' = [woken EXCEPT ![c] = FALSE]
    /\ UNCHANGED <<live, draining, cur, pos, pings, peer, sent, held, drain, before, late>>

\* The drain arm is polled before the flag is up, and waits.
CheckFlag(c) ==
    /\ at[c] = "armed" /\ ~draining
    /\ Goto(c, "wait")
    /\ UNCHANGED <<live, draining, cur, woken, pos, pings, peer, sent, held, drain, before, late>>

\* The drain arm is ready: a Close frame, and the loop breaks.  The arms are
\* polled in random order, so another ready one may win the pass.
DrainArm(c) ==
    /\ \/ at[c] = "armed" /\ draining
       \/ at[c] = "wait" /\ woken[c]
    /\ Goto(c, "closing")
    /\ UNCHANGED <<live, draining, cur, woken, pos, pings, peer, sent, held, drain, before, late>>

\* The channel: Lagged once the ring has overwritten the next payload, whose
\* position becomes the oldest retained.
Lagged(c) == sent - pos[c] > Capacity

\* sub.recv(): a payload is sent on; after a lag the loop just continues.
PayloadArm(c) ==
    /\ at[c] \in {"armed", "wait"}
    /\ pos[c] < sent
    /\ IF Lagged(c)
       THEN /\ pos' = [pos EXCEPT ![c] = sent - Capacity]
            /\ Goto(c, "loop")
            /\ UNCHANGED late
       ELSE /\ pos' = [pos EXCEPT ![c] = @ + 1]
            /\ Goto(c, "sending")
            /\ late' = IF draining THEN [late EXCEPT ![c] = @ + 1] ELSE late
    /\ UNCHANGED <<live, draining, cur, woken, pings, peer, sent, held, drain, before>>

\* Mutant: the heartbeat pings and never gives up.
HeartbeatPingsOnly(c) ==
    /\ at[c] \in {"armed", "wait"}
    /\ pings' = [pings EXCEPT ![c] = IF @ < Misses THEN @ + 1 ELSE @]
    /\ Goto(c, "sending")
    /\ UNCHANGED <<live, draining, cur, woken, pos, peer, sent, held, drain, before, late>>

\* The heartbeat ticks: a ping, or a Close frame once the last pong is too old.
HeartbeatArm(c) ==
    /\ at[c] \in {"armed", "wait"}
    /\ IF pings[c] >= Misses
       THEN Goto(c, "closing") /\ UNCHANGED pings
       ELSE Goto(c, "sending") /\ pings' = [pings EXCEPT ![c] = @ + 1]
    /\ UNCHANGED <<live, draining, cur, woken, pos, peer, sent, held, drain, before, late>>

\* socket.recv(): a pong refreshes the clock, anything else is discarded.
PongArm(c) ==
    /\ at[c] \in {"armed", "wait"}
    /\ peer[c] = "well" /\ pings[c] > 0
    /\ pings' = [pings EXCEPT ![c] = 0]
    /\ Goto(c, "loop")
    /\ UNCHANGED <<live, draining, cur, woken, pos, peer, sent, held, drain, before, late>>

\* socket.recv(): a Close frame, an error or the end of the stream.
LeaveArm(c) ==
    /\ "leave" \in Faults
    /\ at[c] \in {"armed", "wait"} /\ peer[c] # "stalled"
    /\ Goto(c, "drop")
    /\ UNCHANGED <<live, draining, cur, woken, pos, pings, peer, sent, held, drain, before, late>>

\* socket.send(..).await is over, with or without an error.
SendDone(c) ==
    /\ at[c] \in {"sending", "closing"}
    /\ Goto(c, IF at[c] = "sending" THEN "loop" ELSE "drop")
    /\ UNCHANGED <<live, draining, cur, woken, pos, pings, peer, sent, held, drain, before, late>>
-----------------------------------------------------------------------------
\* The SSE stream is asked for an event: the flag is read first.
SsePoll(c) ==
    /\ at[c] = "poll"
    /\ Goto(c, IF draining THEN "drop" ELSE "recv")
    /\ UNCHANGED <<live, draining, cur, woken, pos, pings, peer, sent, held, drain, before, late>>

\* The application's Broadcast is dropped, and no handler and no WebSocket loop
\* keeps another.
Closed == /\ ~held
          /\ \A c \in WsConns : at[c] \in {"new", "refused", "gone"}
          /\ \A c \in SseConns : at[c] \notin {"admit", "cas", "guard"}

\* sub.recv() in the stream: a payload or a `lagged` comment is an event, a
\* closed channel the end.
SseRecv(c) ==
    /\ at[c] = "recv"
    /\ \/ /\ pos[c] < sent
          /\ pos' = [pos EXCEPT ![c] = IF Lagged(c) THEN sent - Capacity ELSE @ + 1]
          /\ late' = IF draining /\ ~Lagged(c) THEN [late EXCEPT ![c] = @ + 1] ELSE late
          /\ Goto(c, "emit")
       \/ /\ pos[c] = sent /\ Closed
          /\ Goto(c, "drop")
          /\ UNCHANGED <<pos, late>>
    /\ UNCHANGED <<live, draining, cur, woken, pings, peer, sent, held, drain, before>>

\* The event is written and the stream polled again.
SseEmit(c) ==
    /\ at[c] = "emit"
    /\ Goto(c, "poll")
    /\ UNCHANGED <<live, draining, cur, woken, pos, pings, peer, sent, held, drain, before, late>>

\* The client disconnects: the stream is dropped with its guard.
SseLeave(c) ==
    /\ "leave" \in Faults
    /\ at[c] \in {"recv", "emit"} /\ peer[c] # "stalled"
    /\ Goto(c, "drop")
    /\ UNCHANGED <<live, draining, cur, woken, pos, pings, peer, sent, held, drain, before, late>>
-----------------------------------------------------------------------------
Publish ==
    /\ held /\ sent < MaxSent
    /\ sent' = sent + 1
    /\ UNCHANGED <<live, draining, at, cur, woken, pos, pings, peer, held, drain, before, late>>

\* The application drops its endpoints and its Broadcast.
AppDrops ==
    /\ "close" \in Faults
    /\ held
    /\ held' = FALSE
    /\ UNCHANGED <<live, draining, at, cur, woken, pos, pings, peer, sent, drain, before, late>>

\* A client stops answering pings, or stops reading as well.
Misbehave(c, how) ==
    /\ how \in {"mute", "stall"} \cap Faults
    /\ at[c] \in Guarded /\ peer[c] = "well"
    /\ peer' = [peer EXCEPT ![c] = IF how = "mute" THEN "mute" ELSE "stalled"]
    /\ UNCHANGED <<live, draining, at, cur, woken, pos, pings, sent, held, drain, before, late>>

\* begin_drain's swap of the flag; only the first caller notifies.
DrainSwap(d) ==
    /\ drain[d] = "idle"
    /\ draining' = TRUE
    /\ drain' = [drain EXCEPT ![d] = IF draining THEN "look" ELSE "notify"]
    /\ before' = [before EXCEPT ![d] = Holders]
    /\ UNCHANGED <<live, at, cur, woken, pos, pings, peer, sent, held, late>>

\* notify_waiters: every Notified created so far.
DrainNotify(d) ==
    /\ drain[d] = "notify"
    /\ woken' = [c \in Conns |-> at[c] \in {"armed", "wait"} \/ woken[c]]
    /\ drain' = [drain EXCEPT ![d] = "look"]
    /\ UNCHANGED <<live, draining, at, cur, pos, pings, peer, sent, held, before, late>>

\* Registry::drain: Ok at once if nobody is left,
DrainLook(d) ==
    /\ drain[d] = "look"
    /\ drain' = [drain EXCEPT ![d] = IF live = 0 THEN "ok" ELSE "waiting"]
    /\ UNCHANGED <<live, draining, at, cur, woken, pos, pings, peer, sent, held, before, late>>

\* else wait_for_zero, which looks again at least every 100 ms, or the bound,
DrainWait(d) ==
    /\ drain[d] = "waiting"
    /\ drain' = [drain EXCEPT ![d] = "count"]
    /\ UNCHANGED <<live, draining, at, cur, woken, pos, pings, peer, sent, held, before, late>>

\* Mutant: the bound passing is reported as success.
DrainCountBlind(d) ==
    /\ drain[d] = "count"
    /\ drain' = [drain EXCEPT ![d] = "ok"]
    /\ UNCHANGED <<live, draining, at, cur, woken, pos, pings, peer, sent, held, before, late>>

\* and the count once more decides between Ok and Err(Shutdown).
DrainCount(d) ==
    /\ drain[d] = "count"
    /\ drain' = [drain EXCEPT ![d] = IF live = 0 THEN "ok" ELSE "err"]
    /\ UNCHANGED <<live, draining, at, cur, woken, pos, pings, peer, sent, held, before, late>>

\* What the runtime does for a connection without its client's help.
ConnStep(c) ==
    \/ AcquireLoad(c) \/ AcquireCas(c) \/ Subscribe(c) \/ DropLoad(c) \/ DropCas(c)
    \/ (c \in WsConns /\ (Arm(c) \/ CheckFlag(c)))
    \/ (c \in SseConns /\ (SsePoll(c) \/ SseRecv(c)))

WsArms(c) == DrainArm(c) \/ PayloadArm(c) \/ HeartbeatArm(c) \/ PongArm(c) \/ LeaveArm(c)

DrainStep(d) == DrainSwap(d) \/ DrainNotify(d) \/ DrainLook(d) \/ DrainWait(d) \/ DrainCount(d)

Next ==
    \/ \E c \in Conns : ConnStep(c)
    \/ \E c \in WsConns : NeverStarts(c) \/ WsArms(c) \/ SendDone(c)
    \/ \E c \in SseConns : SseEmit(c) \/ SseLeave(c)
    \/ \E c \in Conns, how \in {"mute", "stall"} : Misbehave(c, how)
    \/ Publish \/ AppDrops
    \/ \E d \in Drainers : DrainStep(d)

Spec == Init /\ [][Next]_vars

\* Tasks are polled and their compare-and-swaps do not fail forever; a client
\* that has not stalled takes what it is sent; begin_drain runs through; select
\* polls its arms in random order, so one that is ready in pass after pass is
\* taken.
Fairness ==
    /\ \A c \in Conns : /\ WF_vars(ConnStep(c) /\ at[c] # "new")
                        /\ SF_vars(DropCas(c) /\ at'[c] = "gone")
    /\ \A c \in WsConns : /\ WF_vars(SendDone(c) /\ peer[c] # "stalled")
                          /\ SF_vars(DrainArm(c))
    /\ \A d \in Drainers : WF_vars(DrainNotify(d))

\* The heartbeat ticks, which matters until a drain begins: from then on a
\* connection has to close without its help.
Heartbeats == \A c \in WsConns : SF_vars(HeartbeatArm(c) /\ ~draining)

FairSpec == Spec /\ Fairness /\ Heartbeats
-----------------------------------------------------------------------------
Locations == Guarded \cup {"new", "admit", "cas", "refused", "gone"}

\* Type correctness; the counter stays a usize.
TypeOK ==
    /\ live \in Nat
    /\ draining \in BOOLEAN /\ held \in BOOLEAN
    /\ at \in [Conns -> Locations]
    /\ cur \in [Conns -> Nat]
    /\ woken \in [Conns -> BOOLEAN]
    /\ pos \in [Conns -> 0..sent]
    /\ pings \in [Conns -> 0..Misses]
    /\ peer \in [Conns -> {"well", "mute", "stalled"}]
    /\ sent \in 0..MaxSent
    /\ drain \in [Drainers -> {"idle", "notify", "look", "waiting", "count", "ok", "err"}]
    /\ before \in [Drainers -> SUBSET Conns]
    /\ late \in [Conns -> Nat]

\* The counter is the number of guards, however the loads and swaps of
\* admissions and departures interleave.
LiveExact == live = Cardinality(Holders)

\* No interleaving of admissions lets in one more than the cap.
CapHolds == Cardinality(Holders) <= MaxConnections

\* drain returns Ok only once every connection that was open when it began is
\* closed, though new ones are still admitted meanwhile.
DrainOkMeansClosed ==
    \A d \in Drainers : drain[d] = "ok" => \A c \in before[d] : at[c] = "gone"

\* An SSE stream hands over at most one more payload once the drain has begun.
SseEndsAfterOneMore == \A c \in SseConns : late[c] <= 1

\* A WebSocket that is open when the drain begins, or is admitted later, closes,
\* without waiting for its heartbeat: the wakeup cannot be lost.
WsDrains == \A c \in WsConns : draining /\ at[c] \in Guarded ~> at[c] = "gone"

\* A client that stops answering pings and still reads is closed.
MutePeerCloses == \A c \in WsConns : peer[c] = "mute" ~> at[c] = "gone"

\* run_connection's promise for a peer presumed dead, one that neither answers
\* nor reads: it is closed by the heartbeat timeout or by the drain.
StalledPeerCloses == \A c \in WsConns : peer[c] = "stalled" ~> at[c] = "gone"

\* The promise that a WebSocket loop exits at its first pass of a drain.
WsExitsAtFirstPass == \A c \in WsConns : late[c] <= 1
=============================================================================
