------------------------------- MODULE InGame -------------------------------
(***************************************************************************)
(* One admitted player in game, with the timing of all three programs: the  *)
(* companion's heartbeat schedule (worker.rs), the backend's session row    *)
(* and liveness decision (attest.ts, sessions.ts, through SessionTable) and *)
(* the resource's liveness loop (main.lua, liveness.lua).                   *)
(*                                                                          *)
(* Handlers are single steps here; their interleavings are the business of  *)
(* ConnectGate, Resource and Companion.  What this module adds is the       *)
(* passage of time across the three: a step that is due happens at most a   *)
(* named delay late.  The companion's network may drop and its process may  *)
(* die and come back; the line between the resource and the backend may     *)
(* fail as well.                                                            *)
(***************************************************************************)
EXTENDS SessionTable

CONSTANTS LivenessInterval,  \* pause of the resource's loop
          BeatDelay,         \* how late the worker gets to a due heartbeat
          LoopDelay,         \* how late the loop gets to this player
          MaxDrop,           \* longest drop of the companion's network
          MaxDown,           \* longest absence of a companion that died
          MaxDrops,          \* bound on the drops
          MaxDeaths,         \* bound on the deaths
          MaxClock           \* bound on the clock

ASSUME InGameAssumption ==
    /\ LivenessInterval \in Nat \ {0}
    /\ BeatDelay \in Nat /\ LoopDelay \in Nat
    /\ MaxDrop \in Nat /\ MaxDown \in Nat
    /\ MaxDrops \in Nat /\ MaxDeaths \in Nat /\ MaxClock \in Nat

(* The worker gets to a heartbeat within the grace period (90 s): its longest *)
(* job is a scan or a few requests with timeouts.  NoKickWhileBeating.        *)
ASSUME WorkerIsPrompt == BeatDelay < HeartbeatGrace

(* The loop (every 30 s unless configured otherwise) gets round to the player *)
(* within the grace period and within an interval (120 s).  WarnedBeforeKick. *)
ASSUME LoopIsPrompt ==
    /\ LivenessInterval + LoopDelay < HeartbeatGrace
    /\ LivenessInterval + LoopDelay <= HeartbeatInterval

VARIABLES clock,
          row,        \* the player's session in the backend
          process,    \* the companion process: up or down
          nextBeat,   \* its next heartbeat, Never without an active session
          link,       \* its network: up or down
          since,      \* when process and link went down, if they are
          drops,      \* network drops so far
          deaths,     \* deaths of the process so far
          nextPoll,   \* when the resource asks about this player
          warned,     \* the resource's mark
          warning,    \* a warning was shown since the last heartbeat
          deaf,       \* a liveness request has failed since then
          endedAt,    \* when the companion's own report ended the session
          player      \* in game, or removed

vars == <<clock, row, process, nextBeat, link, since, drops, deaths, nextPoll,
          warned, warning, deaf, endedAt, player>>

-----------------------------------------------------------------------------
(* The verdict was allow: recorded, acknowledged, tracked.                 *)
Init ==
    /\ clock = 0
    /\ row = RecordVerdict(ConsumeNonce(CreateSession(0)), "allow", FALSE, 0)
    /\ process = "up"
    /\ nextBeat = HeartbeatInterval
    /\ link = "up"
    /\ since = [process |-> 0, link |-> 0]
    /\ drops = 0 /\ deaths = 0
    /\ nextPoll \in 0..LivenessInterval
    /\ warned = FALSE /\ warning = FALSE /\ deaf = FALSE
    /\ endedAt = Never
    /\ player = "in"

BeatDue == process = "up" /\ nextBeat # Never /\ clock >= nextBeat

(* beat, answered.  Without the game the session ends; a session that is no  *)
(* longer active is not extended, and the worker gives it up.                *)
BeatAnswered(gamePresent) ==
    /\ BeatDue
    /\ link = "up"
    /\ row' = IF gamePresent THEN RecordHeartbeat(row, clock)
                             ELSE TerminateSession(row, "game_process_missing")
    /\ nextBeat' = IF row'.state = "active" THEN clock + HeartbeatInterval
                                            ELSE Never
    /\ warning' = (warning /\ row'.state # "active")
    /\ deaf' = (deaf /\ row'.state # "active")
    /\ endedAt' = IF endedAt = Never /\ row'.state = "terminated" THEN clock
                                                                  ELSE endedAt
    /\ UNCHANGED <<clock, process, link, since, drops, deaths, nextPoll,
                   warned, player>>

(* beat, failed: logged, and tried again a whole interval later.           *)
BeatFails ==
    /\ BeatDue
    /\ link = "down"
    /\ nextBeat' = clock + HeartbeatInterval
    /\ UNCHANGED <<clock, row, process, link, since, drops, deaths, nextPoll,
                   warned, warning, deaf, endedAt, player>>

(* The player quits the companion: announce_close, if the network lets it.  *)
Quit ==
    /\ process = "up"
    /\ deaths < MaxDeaths
    /\ deaths' = deaths + 1
    /\ process' = "down"
    /\ row' = IF nextBeat # Never /\ link = "up"
              THEN TerminateSession(row, "heartbeat_lost") ELSE row
    /\ nextBeat' = Never
    /\ since' = [since EXCEPT !.process = clock]
    /\ endedAt' = IF endedAt = Never /\ row'.state = "terminated" THEN clock
                                                                  ELSE endedAt
    /\ UNCHANGED <<clock, link, drops, nextPoll, warned, warning, deaf, player>>

(* It is killed, or crashes.                                               *)
Die ==
    /\ process = "up"
    /\ deaths < MaxDeaths
    /\ deaths' = deaths + 1
    /\ process' = "down"
    /\ nextBeat' = Never
    /\ since' = [since EXCEPT !.process = clock]
    /\ UNCHANGED <<clock, row, link, drops, nextPoll, warned, warning, deaf,
                   endedAt, player>>

(* A new process starts without a session to keep alive.                   *)
Start ==
    /\ process = "down"
    /\ process' = "up"
    /\ since' = [since EXCEPT !.process = 0]
    /\ UNCHANGED <<clock, row, nextBeat, link, drops, deaths, nextPoll, warned,
                   warning, deaf, endedAt, player>>

LinkDown ==
    /\ link = "up"
    /\ drops < MaxDrops
    /\ drops' = drops + 1
    /\ link' = "down"
    /\ since' = [since EXCEPT !.link = clock]
    /\ UNCHANGED <<clock, row, process, nextBeat, deaths, nextPoll, warned,
                   warning, deaf, endedAt, player>>

LinkUp ==
    /\ link = "down"
    /\ link' = "up"
    /\ since' = [since EXCEPT !.link = 0]
    /\ UNCHANGED <<clock, row, process, nextBeat, drops, deaths, nextPoll,
                   warned, warning, deaf, endedAt, player>>

-----------------------------------------------------------------------------
(* buildLiveness sets graceExpiresAt only while the heartbeat is overdue.   *)
OverdueAfterGrace(r, now) ==
    r.state = "active" /\ now - r.lastBeat >= HeartbeatInterval + HeartbeatGrace
Overdue(r, now) == r.state = "active" /\ now - r.lastBeat > HeartbeatInterval

NextPollByHeartbeat(now) == now + HeartbeatInterval
NextPoll(now) == now + LivenessInterval

PollDue == player = "in" /\ clock >= nextPoll

(* Liveness.poll for this player, answered: kick, warn, or clear the mark.  *)
(* The route has terminated the session before it answers with a kick.      *)
PollAnswered ==
    /\ PollDue
    /\ nextPoll' = NextPoll(clock)
    /\ \/ /\ ShouldKick(row, clock)
          /\ row' = TerminateSession(row, "heartbeat_lost")
          /\ player' = "removed"
          /\ warned' = FALSE
          /\ UNCHANGED warning
       \/ /\ ~ShouldKick(row, clock)
          /\ warned' = (Overdue(row, clock) /\ ~warned)
          /\ warning' = (warning \/ (Overdue(row, clock) /\ ~warned))
          /\ UNCHANGED <<row, player>>
    /\ UNCHANGED <<clock, process, nextBeat, link, since, drops, deaths, deaf,
                   endedAt>>

(* The request fails: an unreachable backend does not remove anybody.      *)
PollFails ==
    /\ PollDue
    /\ nextPoll' = NextPoll(clock)
    /\ deaf' = TRUE
    /\ UNCHANGED <<clock, row, process, nextBeat, link, since, drops, deaths,
                   warned, warning, endedAt, player>>

(* Time passes, but not past what is overdue by its named delay.           *)
Tick ==
    /\ clock < MaxClock
    /\ player = "in"
    /\ BeatDue => clock < nextBeat + BeatDelay
    /\ clock < nextPoll + LoopDelay
    /\ link = "down" => clock < since.link + MaxDrop
    /\ process = "down" => clock < since.process + MaxDown
    /\ clock' = clock + 1
    /\ UNCHANGED <<row, process, nextBeat, link, since, drops, deaths,
                   nextPoll, warned, warning, deaf, endedAt, player>>

Next ==
    \/ \E gamePresent \in BOOLEAN : BeatAnswered(gamePresent)
    \/ BeatFails \/ Quit \/ Die \/ Start \/ LinkDown \/ LinkUp
    \/ PollAnswered \/ PollFails \/ Tick

Spec == Init /\ [][Next]_vars

-----------------------------------------------------------------------------
(* A companion that stays up on a working network keeps its player in, if    *)
(* the worker is never busy for longer than the grace period: a heartbeat a  *)
(* little late, answered just before the loop asks, is in time.              *)
NoKickWhileBeating ==
    (player = "removed" /\ drops = 0 /\ deaths = 0) =>
        row.reason = "game_process_missing"

(* Nobody is removed for silence without having been warned in this silence, *)
(* if the resource could ask all along: the loop comes by at least once      *)
(* between the end of the interval and the end of the grace period.          *)
WarnedBeforeKick ==
    (player = "removed" /\ endedAt = Never /\ ~deaf) => warning

(* A silent companion costs the player their place in bounded time, counted  *)
(* from the last heartbeat, if the resource can ask; an announced end and a  *)
(* missing game within one turn of the loop.                                 *)
RemovedInTime ==
    (player = "in" /\ ~deaf) =>
        /\ clock <= row.lastBeat + HeartbeatInterval + HeartbeatGrace
                        + LivenessInterval + LoopDelay
        /\ endedAt # Never => clock <= endedAt + LivenessInterval + LoopDelay

-----------------------------------------------------------------------------
(* What the repository says of itself and the code does not keep.          *)

(* Design document 5.5: companion restarts and short network drops survive   *)
(* the session.  A player is removed only while their companion is not       *)
(* running, or because of what it reported, when every drop and every        *)
(* absence is shorter than the grace period.                                 *)
InterruptionSurvives ==
    (player = "removed" /\ endedAt = Never) => process = "down"
=============================================================================
