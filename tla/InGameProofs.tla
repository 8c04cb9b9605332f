---------------------------- MODULE InGameProofs ----------------------------
(***************************************************************************)
(* Proofs about InGame for every interval, grace period, delay, number of   *)
(* network drops and number of deaths of the companion.                     *)
(*                                                                          *)
(* The argument is one of deadlines.  Never more than LoopDelay passes       *)
(* after nextPoll and never more than BeatDelay after nextBeat, so what the  *)
(* loop and the worker have not done yet bounds the clock; the inductive     *)
(* invariant says where nextPoll and nextBeat lie relative to the last       *)
(* heartbeat.                                                                *)
(***************************************************************************)
EXTENDS InGame, TLAPS

USE DEF Never

-----------------------------------------------------------------------------
(* Every variable holds a value of its type; an admitted player's row is     *)
(* active or terminated and has a heartbeat, not in the future.              *)
Typed ==
    /\ clock \in Nat
    /\ row \in SessionRow
    /\ row.state \in {"active", "terminated"}
    /\ row.lastBeat \in 0..clock
    /\ process \in {"up", "down"}
    /\ nextBeat \in Nat \cup {Never}
    /\ link \in {"up", "down"}
    /\ drops \in Nat
    /\ deaths \in Nat
    /\ nextPoll \in Nat
    /\ warned \in BOOLEAN
    /\ warning \in BOOLEAN
    /\ deaf \in BOOLEAN
    /\ endedAt \in Nat \cup {Never}
    /\ player \in {"in", "removed"}

(* The loop is never further behind than its delay, nor ahead of its pause;  *)
(* a session that ended was ended by the companion's report or a kick.       *)
LoopOnTime ==
    /\ nextPoll <= clock + LivenessInterval
    /\ player = "in" => clock <= nextPoll + LoopDelay
    /\ player = "in" => (endedAt # Never <=> row.state = "terminated")
    /\ player = "removed" => row.state = "terminated"

(* Without drop or death the next heartbeat is one interval after the last,  *)
(* and the worker gets to it in time; what ends the session is the game.     *)
BeatsOnTime ==
    /\ drops = 0 => link = "up"
    /\ deaths = 0 => process = "up"
    /\ (drops = 0 /\ deaths = 0) =>
          /\ row.state = "active" =>
                /\ nextBeat = row.lastBeat + HeartbeatInterval
                /\ clock <= nextBeat + BeatDelay
          /\ row.state = "terminated" => row.reason = "game_process_missing"

(* Of the polls since the last heartbeat, one that found it overdue warned;  *)
(* a mark left from an earlier silence is cleared by the first of them.      *)
WarnsOnTime ==
    /\ (player = "in" /\ endedAt = Never /\ ~deaf) =>
          /\ nextPoll > row.lastBeat + HeartbeatInterval + LivenessInterval
                => warning
          /\ warned => \/ warning
                       \/ nextPoll <= row.lastBeat + LivenessInterval
    /\ WarnedBeforeKick

(* A poll past the grace period, or after the end, would have removed them.  *)
RemovesOnTime ==
    (player = "in" /\ ~deaf) =>
        /\ nextPoll <= row.lastBeat + HeartbeatInterval + HeartbeatGrace
                           + LivenessInterval
        /\ endedAt # Never => nextPoll <= endedAt + LivenessInterval

InGameInv == Typed /\ LoopOnTime /\ BeatsOnTime /\ WarnsOnTime /\ RemovesOnTime

(* What the two row statements of this phase do to a row in game.            *)
LEMMA InGameRows ==
    ASSUME NEW r \in SessionRow, r.state \in {"active", "terminated"},
           NEW now \in Nat, NEW why \in TerminationReason
    PROVE  /\ RecordHeartbeat(r, now) \in SessionRow
           /\ RecordHeartbeat(r, now).state = r.state
           /\ RecordHeartbeat(r, now).reason = r.reason
           /\ RecordHeartbeat(r, now).lastBeat =
                 IF r.state = "active" THEN now ELSE r.lastBeat
           /\ TerminateSession(r, why) \in SessionRow
           /\ TerminateSession(r, why).state = "terminated"
           /\ TerminateSession(r, why).lastBeat = r.lastBeat
           /\ TerminateSession(r, why).reason =
                 IF r.state = "active" THEN why ELSE r.reason
<1> USE DEF SessionRow, SessionState, TerminationReason
<1>1. /\ RecordHeartbeat(r, now) \in SessionRow
      /\ RecordHeartbeat(r, now).state = r.state
      /\ RecordHeartbeat(r, now).reason = r.reason
      /\ RecordHeartbeat(r, now).lastBeat =
            IF r.state = "active" THEN now ELSE r.lastBeat
  BY DEF RecordHeartbeat
<1>2. /\ TerminateSession(r, why) \in SessionRow
      /\ TerminateSession(r, why).state = "terminated"
      /\ TerminateSession(r, why).lastBeat = r.lastBeat
      /\ TerminateSession(r, why).reason =
            IF r.state = "active" THEN why ELSE r.reason
  BY DEF TerminateSession
<1>3. QED
  BY <1>1, <1>2

(* The player starts with a fresh heartbeat.                                 *)
LEMMA InGameInit == Init => InGameInv
<1> SUFFICES ASSUME Init PROVE InGameInv
  OBVIOUS
<1>0. /\ LivenessInterval \in Nat /\ LoopDelay \in Nat /\ BeatDelay \in Nat
      /\ HeartbeatInterval \in Nat \ {0} /\ HeartbeatGrace \in Nat
      /\ NonceTTL \in Nat
  BY TimingAssumption, InGameAssumption
<1>1. row \in SessionRow /\ row.state = "active" /\ row.lastBeat = 0
  <2> USE DEF SessionRow, SessionState, Decision, TerminationReason
  <2> DEFINE fresh == CreateSession(0)
             used  == ConsumeNonce(fresh)
  <2>1. fresh \in SessionRow
    <3>1. NoRow \in SessionRow
      BY DEF NoRow
    <3>2. 0 + NonceTTL \in Nat
      BY <1>0
    <3>3. QED
      BY <3>1, <3>2 DEF CreateSession
  <2> HIDE DEF fresh
  <2>2. used \in SessionRow
    BY <2>1 DEF ConsumeNonce
  <2> HIDE DEF used
  <2>3. row = RecordVerdict(used, "allow", FALSE, 0)
    BY DEF Init, used, fresh
  <2>4. QED
    BY <2>2, <2>3 DEF RecordVerdict
<1>2. /\ clock = 0 /\ process = "up" /\ nextBeat = HeartbeatInterval
      /\ link = "up" /\ drops = 0 /\ deaths = 0 /\ nextPoll \in 0..LivenessInterval
      /\ endedAt = Never /\ player = "in"
  BY DEF Init
<1>3. warned = FALSE /\ warning = FALSE /\ deaf = FALSE
  BY DEF Init
<1>4. Typed
  <2>1. warned \in BOOLEAN /\ warning \in BOOLEAN /\ deaf \in BOOLEAN
    BY <1>3
  <2>2. QED
    BY <1>0, <1>1, <1>2, <2>1 DEF Typed
<1>5. LoopOnTime /\ BeatsOnTime
  BY <1>0, <1>1, <1>2 DEF LoopOnTime, BeatsOnTime
<1>6. WarnsOnTime /\ RemovesOnTime
  BY <1>0, <1>1, <1>2, <1>3 DEF WarnsOnTime, RemovesOnTime, WarnedBeforeKick
<1>7. QED
  BY <1>4, <1>5, <1>6 DEF InGameInv

(* A heartbeat that is answered.                                             *)
LEMMA BeatAnsweredStep ==
    ASSUME InGameInv, NEW gamePresent \in BOOLEAN, BeatAnswered(gamePresent)
    PROVE  InGameInv'
<1>0. /\ LivenessInterval \in Nat /\ LoopDelay \in Nat /\ BeatDelay \in Nat
      /\ HeartbeatInterval \in Nat \ {0} /\ HeartbeatGrace \in Nat
  BY TimingAssumption, InGameAssumption
<1> USE DEF InGameInv
<1>1. /\ row' \in SessionRow
      /\ row'.state = IF gamePresent THEN row.state ELSE "terminated"
      /\ row'.lastBeat = IF gamePresent /\ row.state = "active"
                         THEN clock ELSE row.lastBeat
      /\ row'.reason = IF ~gamePresent /\ row.state = "active"
                       THEN "game_process_missing" ELSE row.reason
  <2>1. "game_process_missing" \in TerminationReason
    BY DEF TerminationReason
  <2>2. CASE gamePresent
    BY <2>1, <2>2, InGameRows DEF BeatAnswered, Typed
  <2>3. CASE ~gamePresent
    BY <2>1, <2>3, InGameRows DEF BeatAnswered, Typed
  <2>4. QED
    BY <2>2, <2>3
<1>2. warned' \in BOOLEAN /\ warning' \in BOOLEAN /\ deaf' \in BOOLEAN
  BY DEF BeatAnswered, Typed
<1>3. Typed'
  BY <1>0, <1>1, <1>2 DEF BeatAnswered, Typed
<1>4. LoopOnTime'
  BY <1>0, <1>1 DEF BeatAnswered, Typed, LoopOnTime
<1>5. BeatsOnTime'
  BY <1>0, <1>1 DEF BeatAnswered, BeatDue, Typed, BeatsOnTime
<1>6. WarnsOnTime'
  <2>1. CASE row'.state = "active"
    BY <1>0, <1>1, <2>1 DEF BeatAnswered, Typed, LoopOnTime, WarnsOnTime,
       WarnedBeforeKick
  <2>2. CASE row'.state # "active"
    <3>1. endedAt' # Never
      BY <1>1, <2>2 DEF BeatAnswered, Typed
    <3>2. QED
      BY <3>1 DEF WarnsOnTime, WarnedBeforeKick
  <2>3. QED
    BY <2>1, <2>2
<1>7. RemovesOnTime'
  <2>1. CASE row'.state = "active"
    BY <1>0, <1>1, <2>1 DEF BeatAnswered, Typed, LoopOnTime, RemovesOnTime
  <2>2. CASE row'.state # "active"
    <3>1. (deaf' <=> deaf) /\ row'.lastBeat = row.lastBeat
      BY <1>1, <2>2 DEF BeatAnswered, Typed
    <3>2. QED
      BY <1>0, <1>1, <2>2, <3>1 DEF BeatAnswered, Typed, LoopOnTime, RemovesOnTime
  <2>3. QED
    BY <2>1, <2>2
<1>8. QED
  BY <1>3, <1>4, <1>5, <1>6, <1>7

(* The process ends, with or without the announcement.                       *)
LEMMA EndStep ==
    ASSUME InGameInv, Quit \/ Die
    PROVE  InGameInv'
<1>0. /\ LivenessInterval \in Nat /\ LoopDelay \in Nat /\ BeatDelay \in Nat
      /\ HeartbeatInterval \in Nat \ {0} /\ HeartbeatGrace \in Nat
  BY TimingAssumption, InGameAssumption
<1> USE DEF InGameInv
<1>1. /\ row' \in SessionRow /\ row'.lastBeat = row.lastBeat
      /\ row'.state \in {"active", "terminated"}
      /\ row.state = "terminated" => row'.state = "terminated"
  <2>1. "heartbeat_lost" \in TerminationReason
    BY DEF TerminationReason
  <2>2. QED
    BY <2>1, InGameRows DEF Quit, Die, Typed
<1>2. /\ deaths' = deaths + 1
      /\ UNCHANGED <<clock, link, drops, nextPoll, warned, warning, deaf, player>>
      /\ endedAt' = IF endedAt = Never /\ row'.state = "terminated" /\ Quit
                    THEN clock ELSE endedAt
      /\ Die => row' = row
  BY DEF Quit, Die
<1>3. Typed'
  <2>1. warned' \in BOOLEAN /\ warning' \in BOOLEAN /\ deaf' \in BOOLEAN
    BY <1>2 DEF Typed
  <2>2. process' = "down" /\ nextBeat' = Never
    BY DEF Quit, Die
  <2>3. QED
    BY <1>1, <1>2, <2>1, <2>2 DEF Typed
<1>4. LoopOnTime'
  <2>1. CASE Quit
    BY <1>0, <1>1, <1>2, <2>1 DEF Typed, LoopOnTime
  <2>2. CASE Die
    <3>1. row' = row /\ endedAt' = endedAt
      BY <2>2 DEF Die
    <3>2. QED
      BY <1>2, <3>1 DEF LoopOnTime
  <2>3. QED
    BY <2>1, <2>2
<1>5. BeatsOnTime'
  BY <1>2 DEF Typed, BeatsOnTime
<1>6. WarnsOnTime'
  BY <1>0, <1>1, <1>2 DEF Typed, LoopOnTime, WarnsOnTime, WarnedBeforeKick
<1>7. RemovesOnTime'
  BY <1>0, <1>1, <1>2 DEF Typed, LoopOnTime, RemovesOnTime
<1>8. QED
  BY <1>3, <1>4, <1>5, <1>6, <1>7

(* The liveness answer: the one step that removes the player.                *)
LEMMA PollAnsweredStep ==
    ASSUME InGameInv, PollAnswered
    PROVE  InGameInv'
<1>0. /\ LivenessInterval \in Nat /\ LoopDelay \in Nat /\ BeatDelay \in Nat
      /\ HeartbeatInterval \in Nat \ {0} /\ HeartbeatGrace \in Nat \ {0}
  BY TimingAssumption, InGameAssumption
<1> USE DEF InGameInv
<1>a. /\ player = "in" /\ clock >= nextPoll
      /\ nextPoll' = clock + LivenessInterval
      /\ UNCHANGED <<clock, process, nextBeat, link, drops, deaths, deaf, endedAt>>
  BY DEF PollAnswered, PollDue, NextPoll
<1>1. CASE ShouldKick(row, clock)
  <2>1. /\ row' = TerminateSession(row, "heartbeat_lost")
        /\ player' = "removed" /\ warned' = FALSE /\ warning' = warning
    BY <1>1 DEF PollAnswered
  <2>2. /\ row' \in SessionRow /\ row'.state = "terminated"
        /\ row'.lastBeat = row.lastBeat
        /\ row.state = "terminated" => row'.reason = row.reason
    <3>1. "heartbeat_lost" \in TerminationReason
      BY DEF TerminationReason
    <3>2. QED
      BY <2>1, <3>1, InGameRows DEF Typed
  <2>3. row.state = "active" =>
           clock >= row.lastBeat + HeartbeatInterval + HeartbeatGrace
    BY <1>1 DEF ShouldKick
  <2>4. Typed'
    <3>1. warned' \in BOOLEAN /\ warning' \in BOOLEAN /\ deaf' \in BOOLEAN
      BY <1>a, <2>1 DEF Typed
    <3>2. QED
      BY <1>0, <1>a, <2>1, <2>2, <3>1 DEF Typed
  <2>5. LoopOnTime'
    BY <1>0, <1>a, <2>1, <2>2 DEF Typed, LoopOnTime
  <2>6. BeatsOnTime'
    BY <1>0, <1>a, <2>2, <2>3, WorkerIsPrompt DEF Typed, BeatsOnTime
  <2>7. WarnsOnTime'
    BY <1>0, <1>a, <2>1, <2>3, LoopIsPrompt
       DEF Typed, LoopOnTime, WarnsOnTime, WarnedBeforeKick
  <2>8. RemovesOnTime'
    BY <2>1 DEF RemovesOnTime
  <2>9. QED
    BY <2>4, <2>5, <2>6, <2>7, <2>8
<1>2. CASE ~ShouldKick(row, clock)
  <2>1. /\ warned' = (Overdue(row, clock) /\ ~warned)
        /\ warning' = (warning \/ (Overdue(row, clock) /\ ~warned))
        /\ UNCHANGED <<row, player>>
    BY <1>2 DEF PollAnswered
  <2>2. /\ row.state = "active" /\ endedAt = Never
        /\ clock < row.lastBeat + HeartbeatInterval + HeartbeatGrace
    BY <1>0, <1>a, <1>2 DEF ShouldKick, Typed, LoopOnTime
  <2>3. Typed'
    <3>1. warned' \in BOOLEAN /\ warning' \in BOOLEAN /\ deaf' \in BOOLEAN
      BY <1>a, <2>1 DEF Typed
    <3>2. QED
      BY <1>0, <1>a, <2>1, <3>1 DEF Typed
  <2>4. LoopOnTime'
    BY <1>0, <1>a, <2>1 DEF Typed, LoopOnTime
  <2>5. BeatsOnTime'
    BY <1>a, <2>1 DEF BeatsOnTime
  <2>6. WarnsOnTime'
    <3> SUFFICES ASSUME ~deaf
                 PROVE  /\ clock > row.lastBeat + HeartbeatInterval => warning'
                        /\ warned' => warning'
      BY <1>0, <1>a, <2>1 DEF Typed, WarnsOnTime, WarnedBeforeKick
    <3>1. warned' => warning'
      BY <2>1
    <3>2. ASSUME clock > row.lastBeat + HeartbeatInterval PROVE warning'
      <4>1. Overdue(row, clock)
        BY <1>0, <2>2, <3>2 DEF Overdue, Typed
      <4>2. warned => warning
        <5>1. clock <= nextPoll + LoopDelay
          BY <1>a DEF LoopOnTime
        <5>2. ~(nextPoll <= row.lastBeat + LivenessInterval)
          BY <1>0, <3>2, <5>1, LoopIsPrompt DEF Typed
        <5>3. QED
          BY <1>a, <2>2, <5>2 DEF WarnsOnTime
      <4>3. QED
        BY <2>1, <4>1, <4>2
    <3>3. QED
      BY <3>1, <3>2
  <2>7. RemovesOnTime'
    BY <1>0, <1>a, <2>1, <2>2 DEF Typed, RemovesOnTime
  <2>8. QED
    BY <2>3, <2>4, <2>5, <2>6, <2>7
<1>3. QED
  BY <1>1, <1>2

(* The steps that leave row, answer and schedule of the loop alone.          *)
LEMMA OtherSteps ==
    ASSUME InGameInv,
           BeatFails \/ Start \/ LinkDown \/ LinkUp \/ PollFails \/ Tick
             \/ UNCHANGED vars
    PROVE  InGameInv'
<1>0. /\ LivenessInterval \in Nat /\ LoopDelay \in Nat /\ BeatDelay \in Nat
      /\ HeartbeatInterval \in Nat \ {0} /\ HeartbeatGrace \in Nat
  BY TimingAssumption, InGameAssumption
<1> USE DEF InGameInv
<1>1. CASE BeatFails
  <2>1. Typed'
    BY <1>0, <1>1 DEF BeatFails, Typed
  <2>2. BeatsOnTime'
    BY <1>1 DEF BeatFails, BeatsOnTime
  <2>3. LoopOnTime' /\ WarnsOnTime' /\ RemovesOnTime'
    BY <1>1 DEF BeatFails, LoopOnTime, WarnsOnTime, WarnedBeforeKick, RemovesOnTime
  <2>4. QED
    BY <2>1, <2>2, <2>3
<1>2. CASE Start \/ LinkDown \/ LinkUp
  <2>1. Typed'
    BY <1>2 DEF Start, LinkDown, LinkUp, Typed
  <2>2. BeatsOnTime'
    BY <1>2 DEF Start, LinkDown, LinkUp, BeatsOnTime, Typed
  <2>3. LoopOnTime' /\ WarnsOnTime' /\ RemovesOnTime'
    BY <1>2 DEF Start, LinkDown, LinkUp, LoopOnTime, WarnsOnTime,
       WarnedBeforeKick, RemovesOnTime
  <2>4. QED
    BY <2>1, <2>2, <2>3
<1>3. CASE PollFails
  <2>1. deaf' = TRUE /\ nextPoll' = clock + LivenessInterval
    BY <1>3 DEF PollFails, NextPoll
  <2>2. Typed'
    BY <1>0, <1>3, <2>1 DEF PollFails, Typed
  <2>3. LoopOnTime' /\ BeatsOnTime'
    BY <1>0, <1>3, <2>1 DEF PollFails, Typed, LoopOnTime, BeatsOnTime
  <2>4. WarnsOnTime' /\ RemovesOnTime'
    BY <2>1 DEF WarnsOnTime, WarnedBeforeKick, RemovesOnTime
  <2>5. QED
    BY <2>2, <2>3, <2>4
<1>4. CASE Tick
  <2>1. Typed'
    BY <1>4 DEF Tick, Typed
  <2>2. LoopOnTime'
    BY <1>0, <1>4 DEF Tick, Typed, LoopOnTime
  <2>3. BeatsOnTime'
    BY <1>0, <1>4 DEF Tick, BeatDue, Typed, BeatsOnTime
  <2>4. WarnsOnTime' /\ RemovesOnTime'
    BY <1>4 DEF Tick, WarnsOnTime, WarnedBeforeKick, RemovesOnTime
  <2>5. QED
    BY <2>1, <2>2, <2>3, <2>4
<1>5. CASE UNCHANGED vars
  BY <1>5 DEF vars, Typed, LoopOnTime, BeatsOnTime, WarnsOnTime,
     WarnedBeforeKick, RemovesOnTime
<1>6. QED
  BY <1>1, <1>2, <1>3, <1>4, <1>5

(* The schedules hold in every reachable state: neither worker nor loop is    *)
(* ever further behind than its delay.                                        *)
THEOREM InGameInvariant == Spec => []InGameInv
<1>1. InGameInv /\ [Next]_vars => InGameInv'
  BY BeatAnsweredStep, EndStep, PollAnsweredStep, OtherSteps DEF Next
<1>2. QED
  BY <1>1, InGameInit, PTL DEF Spec

(* A companion that stays up on a working network keeps its player in: the    *)
(* liveness route never finds it silent for interval and grace, for any       *)
(* timing in which the worker is late by less than the grace period.          *)
THEOREM BeatingKeepsThePlayer == Spec => []NoKickWhileBeating
<1>1. InGameInv => NoKickWhileBeating
  BY DEF InGameInv, LoopOnTime, BeatsOnTime, NoKickWhileBeating
<1>2. QED
  BY <1>1, InGameInvariant, PTL

(* Nobody is removed for silence unwarned, although liveness.lua's mark       *)
(* alternates: a mark left over is gone before the heartbeat is overdue, and  *)
(* a poll falls between the end of the interval and the end of the grace.     *)
THEOREM WarningPrecedesKick == Spec => []WarnedBeforeKick
<1>1. InGameInv => WarnedBeforeKick
  BY DEF InGameInv, WarnsOnTime
<1>2. QED
  BY <1>1, InGameInvariant, PTL

(* A silent companion costs the player their place in bounded time, whatever  *)
(* the companion did before, as long as the resource's requests are answered. *)
THEOREM SilenceRemovesInTime == Spec => []RemovedInTime
<1>1. InGameInv => RemovedInTime
  <2> SUFFICES ASSUME InGameInv, player = "in", ~deaf
               PROVE  /\ clock <= row.lastBeat + HeartbeatInterval + HeartbeatGrace
                                      + LivenessInterval + LoopDelay
                      /\ endedAt # Never =>
                            clock <= endedAt + LivenessInterval + LoopDelay
    BY DEF RemovedInTime
  <2>1. clock <= nextPoll + LoopDelay
    BY DEF InGameInv, LoopOnTime
  <2>2. QED
    BY <2>1, TimingAssumption, InGameAssumption
       DEF InGameInv, Typed, RemovesOnTime
<1>2. QED
  BY <1>1, InGameInvariant, PTL
=============================================================================
