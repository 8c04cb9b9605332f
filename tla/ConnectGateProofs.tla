-------------------------- MODULE ConnectGateProofs --------------------------
(***************************************************************************)
(* Proofs about ConnectGate for every number of sessions, requests and      *)
(* builds, every fail mode and all timing constants.                        *)
(***************************************************************************)
EXTENDS ConnectGate, TLAPS

USE DEF Never

-----------------------------------------------------------------------------
(* Every statement of the repository leaves a well-formed row.             *)
LEMMA RowTypes ==
    ASSUME NEW row \in SessionRow, NEW now \in Nat
    PROVE  /\ CreateSession(now) \in SessionRow
           /\ NoRow \in SessionRow
           /\ ConsumeNonce(row) \in SessionRow
           /\ \A d \in {"allow", "deny"}, f \in BOOLEAN :
                 RecordVerdict(row, d, f, now) \in SessionRow
           /\ RecordHeartbeat(row, now) \in SessionRow
           /\ \A why \in TerminationReason :
                 TerminateSession(row, why) \in SessionRow
           /\ ExpireStale(row, now) \in SessionRow
<1> USE DEF SessionRow, SessionState, Decision, TerminationReason
<1>1. NoRow \in SessionRow
  BY DEF NoRow
<1>2. now + NonceTTL \in Nat
  BY TimingAssumption
<1>3. CreateSession(now) \in SessionRow
  BY <1>1, <1>2 DEF CreateSession
<1>4. ConsumeNonce(row) \in SessionRow
  BY DEF ConsumeNonce
<1>5. ASSUME NEW d \in {"allow", "deny"}, NEW f \in BOOLEAN
      PROVE  RecordVerdict(row, d, f, now) \in SessionRow
  BY DEF RecordVerdict
<1>6. RecordHeartbeat(row, now) \in SessionRow
  BY DEF RecordHeartbeat
<1>7. ASSUME NEW why \in TerminationReason
      PROVE  TerminateSession(row, why) \in SessionRow
  BY DEF TerminateSession
<1>8. ExpireStale(row, now) \in SessionRow
  BY DEF ExpireStale
<1>9. QED
  BY <1>1, <1>3, <1>4, <1>5, <1>6, <1>7, <1>8

(* The heartbeat handler, whichever of its checks decides.                 *)
LEMMA HeartbeatRowType ==
    ASSUME NEW row \in SessionRow, clock \in Nat, NEW stored, NEW beat \in Beat
    PROVE  HeartbeatRow(row, stored, beat) \in SessionRow
<1>1. {"companion_outdated", "heartbeat_lost", "game_process_missing"}
          \subseteq TerminationReason
  BY DEF TerminationReason
<1>2. QED
  BY RowTypes, <1>1 DEF HeartbeatRow

LEMMA TimeoutVerdictType ==
    ASSUME NEW mode
    PROVE  /\ TimeoutVerdict(mode).decision \in {"allow", "deny"}
           /\ TimeoutVerdict(mode).failOpen \in BOOLEAN
  BY DEF TimeoutVerdict

(* A handler that moves on, with or without a decision, stays a handler.     *)
LEMMA HandlerTypes ==
    ASSUME NEW h \in AttestHandler, NEW p \in AttestPhase, NEW d \in Decision
    PROVE  /\ [h EXCEPT !.phase = p] \in AttestHandler
           /\ [h EXCEPT !.phase = p, !.decision = d] \in AttestHandler
  BY DEF AttestHandler

(* No step of a handler leaves the types.                                  *)
LEMMA TypeStep == TypeOK /\ [Next]_vars => TypeOK'
<1> SUFFICES ASSUME TypeOK, [Next]_vars PROVE TypeOK'
  OBVIOUS
<1> USE DEF TypeOK
<1>1. ASSUME NEW s \in Sessions, IssueNonce(s) PROVE TypeOK'
  BY <1>1, RowTypes DEF IssueNonce
<1>2. ASSUME NEW s \in Sessions, ReadOutcome(s) PROVE TypeOK'
  BY <1>2 DEF ReadOutcome, SessionRow, Decision
<1>3. ASSUME NEW s \in Sessions, PollStart(s) PROVE TypeOK'
  BY <1>3, TimingAssumption DEF PollStart, PollPhase
<1>4. ASSUME NEW s \in Sessions, PollAnswer(s) PROVE TypeOK'
  <2>1. ReplyOf(rows[s].verdict, rows[s].failOpen) \in Reply
    BY <1>4 DEF PollAnswer, ReplyOf, Reply, SessionRow, Decision
  <2>2. QED
    BY <1>4, <2>1 DEF PollAnswer, PollPhase
<1>5. ASSUME NEW s \in Sessions, PollExpire(s) PROVE TypeOK'
  BY <1>5 DEF PollExpire, PollPhase
<1>6. ASSUME NEW s \in Sessions, PollTimeOut(s) PROVE TypeOK'
  <2> DEFINE verdict == TimeoutVerdict(pollMode[s])
  <2> HIDE DEF verdict
  <2>1. verdict.decision \in {"allow", "deny"} /\ verdict.failOpen \in BOOLEAN
    BY TimeoutVerdictType DEF verdict
  <2>2. RecordVerdict(rows[s], verdict.decision, verdict.failOpen, clock)
            \in SessionRow
    BY <2>1, RowTypes
  <2>3. ReplyOf(verdict.decision, verdict.failOpen) \in Reply
    BY <2>1 DEF ReplyOf, Reply
  <2>4. QED
    BY <1>6, <2>2, <2>3 DEF PollTimeOut, PollPhase, verdict
<1>7. ASSUME NEW s \in Sessions, PollFail(s) PROVE TypeOK'
  BY <1>7 DEF PollFail, PollPhase
<1>8. ASSUME NEW s \in Sessions, LivenessRead(s) PROVE TypeOK'
  BY <1>8 DEF LivenessRead
<1>9. ASSUME NEW s \in Sessions, LivenessTerminate(s) PROVE TypeOK'
  BY <1>9, RowTypes DEF LivenessTerminate, TerminationReason
<1>10. ASSUME NEW s \in Sessions, NEW beat \in Beat, Heartbeat(s, beat)
       PROVE  TypeOK'
  BY <1>10, HeartbeatRowType DEF Heartbeat
<1>11. ASSUME NEW a \in Addresses, CollectNonce(a) PROVE TypeOK'
  BY <1>11 DEF CollectNonce
<1>12. ASSUME NEW r \in Requests, AttestStore(r) PROVE TypeOK'
  <2>1. /\ att[r].build \in Builds \cup {NoBuild}
        /\ [att[r] EXCEPT !.phase = "stored"] \in AttestHandler
    <3>1. "stored" \in AttestPhase /\ att[r] \in AttestHandler
      BY DEF AttestPhase
    <3>2. QED
      BY <3>1, HandlerTypes DEF AttestHandler
  <2>2. QED
    BY <1>12, <2>1 DEF AttestStore
<1>13. ASSUME NEW r \in Requests, AttestFail(r) PROVE TypeOK'
  BY <1>13 DEF AttestFail, AttestHandler, AttestPhase
<1>14. ASSUME NEW r \in Requests, NEW s \in Sessions, NEW b \in Builds,
              AttestClaim(r, s, b)
       PROVE  TypeOK'
  BY <1>14, RowTypes DEF AttestClaim, AttestHandler, AttestPhase, Decision
<1>15. ASSUME NEW r \in Requests, NEW d \in {"allow", "deny"},
              AttestRecord(r, d)
       PROVE  TypeOK'
  <2>1. rows' \in [Sessions -> SessionRow]
    BY <1>15, RowTypes DEF AttestRecord
  <2> DEFINE done == [att[r] EXCEPT !.phase = "acked", !.decision = d]
  <2>0. done \in AttestHandler
    <3>1. "acked" \in AttestPhase /\ d \in Decision /\ att[r] \in AttestHandler
      BY DEF AttestPhase, Decision
    <3>2. QED
      BY <3>1, HandlerTypes
  <2>2. att' \in [Requests -> AttestHandler]
    <3>1. att' = [att EXCEPT ![r] = done]
      BY <1>15 DEF AttestRecord
    <3>2. QED
      BY <2>0, <3>1
  <2>3. QED
    BY <1>15, <2>1, <2>2 DEF AttestRecord
<1>16. ASSUME Sweep PROVE TypeOK'
  BY <1>16, RowTypes DEF Sweep
<1>17. ASSUME NEW mode \in FailMode, SetFailMode(mode) PROVE TypeOK'
  BY <1>17 DEF SetFailMode
<1>18. ASSUME Tick PROVE TypeOK'
  BY <1>18 DEF Tick
<1>19. ASSUME UNCHANGED vars PROVE TypeOK'
  BY <1>19 DEF vars
<1>20. QED
  BY <1>1, <1>2, <1>3, <1>4, <1>5, <1>6, <1>7, <1>8, <1>9, <1>10, <1>11,
     <1>12, <1>13, <1>14, <1>15, <1>16, <1>17, <1>18, <1>19 DEF Next

(* The columns and handler variables keep their types: no handler writes a  *)
(* value the enums of the schema do not have.                               *)
THEOREM TypeCorrect == Spec => []TypeOK
<1>1. Init => TypeOK
  BY RowTypes DEF Init, TypeOK, FailMode, AttestHandler, AttestPhase,
     IdleHandler, Decision, PollPhase, Reply, NoRow, SessionRow, SessionState,
     TerminationReason
<1>2. QED
  BY <1>1, TypeStep, PTL DEF Spec

-----------------------------------------------------------------------------
(* What each statement leaves alone.                                       *)
SameClaim(row, new) ==
    /\ new.consumed = row.consumed
    /\ new.expiresAt = row.expiresAt
    /\ (new.state = "unissued") <=> (row.state = "unissued")

SameVerdict(row, new) ==
    new.verdict = row.verdict /\ new.failOpen = row.failOpen

LEMMA QuietStatements ==
    ASSUME NEW row \in SessionRow, NEW now \in Nat
    PROVE  /\ SameClaim(row, RecordHeartbeat(row, now))
           /\ SameVerdict(row, RecordHeartbeat(row, now))
           /\ SameClaim(row, ExpireStale(row, now))
           /\ SameVerdict(row, ExpireStale(row, now))
           /\ \A why \in TerminationReason :
                 /\ SameClaim(row, TerminateSession(row, why))
                 /\ SameVerdict(row, TerminateSession(row, why))
  BY DEF SameClaim, SameVerdict, SessionRow, RecordHeartbeat, ExpireStale,
         TerminateSession

LEMMA QuietHeartbeat ==
    ASSUME NEW row \in SessionRow, clock \in Nat, NEW stored, NEW beat \in Beat
    PROVE  /\ SameClaim(row, HeartbeatRow(row, stored, beat))
           /\ SameVerdict(row, HeartbeatRow(row, stored, beat))
<1>1. {"companion_outdated", "heartbeat_lost", "game_process_missing"}
          \subseteq TerminationReason
  BY DEF TerminationReason
<1>2. QED
  BY QuietStatements, <1>1 DEF HeartbeatRow

LEMMA LoudStatements ==
    ASSUME NEW row \in SessionRow, row.state # "unissued", NEW now \in Nat
    PROVE  /\ ConsumeNonce(row).consumed
           /\ ConsumeNonce(row).state = "attested"
           /\ ConsumeNonce(row).expiresAt = row.expiresAt
           /\ SameVerdict(row, ConsumeNonce(row))
           /\ \A d \in {"allow", "deny"}, f \in BOOLEAN :
                 /\ SameClaim(row, RecordVerdict(row, d, f, now))
                 /\ RecordVerdict(row, d, f, now).verdict = d
                 /\ RecordVerdict(row, d, f, now).failOpen = f
  BY DEF SameClaim, SameVerdict, SessionRow, ConsumeNonce, RecordVerdict

(* The inductive invariant holds initially.                                *)
LEMMA GateInvInit == Init => GateInv
<1> SUFFICES ASSUME Init PROVE GateInv
  OBVIOUS
<1>1. TypeOK
  BY RowTypes DEF Init, TypeOK, FailMode, AttestHandler, AttestPhase,
     IdleHandler, Decision, PollPhase, Reply, NoRow, SessionRow, SessionState,
     TerminationReason
<1>2. \A s \in Sessions : Claimants(s) = {}
  BY DEF Init, Claimants, IdleHandler
<1>3. QED
  BY <1>1, <1>2 DEF Init, GateInv, ClaimsConsume, SingleClaim, HandlersClaim,
     AnswerPending, AnswerJustified, IdleHandler, NoRow

(* Claims and answers read nothing but the handlers, the claim and verdict  *)
(* columns of the rows, and the polls.  A step that leaves those alone and   *)
(* does not turn back the clock preserves the invariant.                    *)
LEMMA QuietStep ==
    ASSUME GateInv, TypeOK',
           clock' >= clock,
           UNCHANGED <<att, poll, deadline, pollMode, reply>>,
           \A s \in Sessions : /\ SameClaim(rows[s], rows'[s])
                               /\ SameVerdict(rows[s], rows'[s])
    PROVE  GateInv'
<1>1. \A s \in Sessions : Claimants(s)' = Claimants(s)
  BY DEF Claimants
<1>2. \A s \in Sessions, d \in Decision : Evaluated(s, d)' <=> Evaluated(s, d)
  BY DEF Evaluated
<1>3. ClaimsConsume' /\ SingleClaim'
  BY <1>1 DEF GateInv, ClaimsConsume, SingleClaim, SameClaim, Issued
<1>4. AnswerPending'
  BY <1>2 DEF GateInv, AnswerPending, TypeOK, SessionRow, SameClaim,
     SameVerdict, Issued
<1>5. AnswerJustified'
  BY <1>2 DEF GateInv, AnswerJustified, TimedOut, TypeOK, Decision
<1>6. HandlersClaim'
  BY DEF GateInv, HandlersClaim
<1>7. QED
  BY <1>3, <1>4, <1>5, <1>6 DEF GateInv

(* A nonce is issued: a fresh row without claims or verdict.               *)
LEMMA IssueStep ==
    ASSUME GateInv, TypeOK', NEW s \in Sessions, IssueNonce(s)
    PROVE  GateInv'
<1> USE DEF GateInv
<1>1. \A x \in Sessions : Claimants(x)' = Claimants(x)
  BY DEF IssueNonce, Claimants
<1>2. \A x \in Sessions, d \in Decision : Evaluated(x, d)' <=> Evaluated(x, d)
  BY DEF IssueNonce, Evaluated
<1>3. /\ rows'[s] = CreateSession(clock)
      /\ rows'[s].verdict = "pending"
      /\ rows'[s].state = "pending"
      /\ \A x \in Sessions \ {s} : rows'[x] = rows[x]
  BY DEF IssueNonce, TypeOK, CreateSession, NoRow
<1>4. Claimants(s) = {}
  BY DEF IssueNonce, ClaimsConsume
<1>5. ClaimsConsume' /\ SingleClaim'
  BY <1>1, <1>3, <1>4 DEF ClaimsConsume, SingleClaim, Issued
<1>6. AnswerPending'
  BY <1>2, <1>3 DEF AnswerPending, IssueNonce, Issued, TypeOK, SessionRow
<1>7. AnswerJustified'
  BY <1>2 DEF AnswerJustified, TimedOut, IssueNonce, Decision
<1>8. HandlersClaim'
  BY DEF HandlersClaim, IssueNonce
<1>9. QED
  BY <1>5, <1>6, <1>7, <1>8

(* A claim: refused, or the first and only one.                            *)
LEMMA ClaimStep ==
    ASSUME GateInv, TypeOK', NEW r \in Requests, NEW s \in Sessions,
           NEW b \in Builds, AttestClaim(r, s, b)
    PROVE  GateInv'
<1> USE DEF GateInv
<1>1. \A x \in Sessions, d \in Decision : Evaluated(x, d)' <=> Evaluated(x, d)
  BY DEF AttestClaim, Evaluated, TypeOK
<1>0. HandlersClaim'
  BY GateAssumption DEF HandlersClaim, AttestClaim, TypeOK
<1>2. CASE Claimable(rows[s], clock)
  <2>1. /\ \A x \in Sessions \ {s} : rows'[x] = rows[x]
        /\ rows'[s].state = "attested" /\ rows'[s].consumed
        /\ SameVerdict(rows[s], rows'[s])
    BY <1>2, LoudStatements DEF AttestClaim, Claimable, TypeOK
  <2>2. Claimants(s) = {}
    BY <1>2 DEF ClaimsConsume, Claimable
  <2>3. \A x \in Sessions :
           Claimants(x)' = IF x = s THEN {r} ELSE Claimants(x)
    BY <1>2, <2>2 DEF AttestClaim, Claimants, TypeOK
  <2>4. ClaimsConsume' /\ SingleClaim'
    BY <2>1, <2>3 DEF ClaimsConsume, SingleClaim, Issued
  <2>5. AnswerPending'
    BY <1>1, <2>1, SMTT(20) DEF AnswerPending, AttestClaim, Issued, SameVerdict, TypeOK,
       SessionRow
  <2>6. AnswerJustified'
    BY <1>1 DEF AnswerJustified, TimedOut, AttestClaim, Decision
  <2>7. QED
    BY <1>0, <2>4, <2>5, <2>6
<1>3. CASE ~Claimable(rows[s], clock)
  <2>1. \A x \in Sessions : Claimants(x)' = Claimants(x)
    BY <1>3 DEF AttestClaim, Claimants, TypeOK
  <2>2. ClaimsConsume' /\ SingleClaim'
    BY <1>3, <2>1 DEF ClaimsConsume, SingleClaim, Issued, AttestClaim
  <2>3. AnswerPending'
    BY <1>1, <1>3 DEF AnswerPending, AttestClaim, Issued, TypeOK, SessionRow
  <2>4. AnswerJustified'
    BY <1>1 DEF AnswerJustified, TimedOut, AttestClaim, Decision
  <2>5. QED
    BY <1>0, <2>2, <2>3, <2>4
<1>4. QED
  BY <1>2, <1>3

(* A handler moves on without touching its row.                            *)
LEMMA HandlerStep ==
    ASSUME GateInv, TypeOK', NEW r \in Requests, AttestStore(r) \/ AttestFail(r)
    PROVE  GateInv'
<1> USE DEF GateInv
<1>0. /\ \A x \in Requests : /\ att'[x].session = att[x].session
                            /\ att'[x].decision = att[x].decision
      /\ \A x \in Requests \ {r} : att'[x].phase = att[x].phase
      /\ att[r].phase \in {"claimed", "stored"}
      /\ att'[r].phase \in {"stored", "failed"}
  <2>1. CASE AttestStore(r)
    BY <2>1 DEF AttestStore, TypeOK, AttestHandler
  <2>2. CASE AttestFail(r)
    BY <2>2 DEF AttestFail, TypeOK, AttestHandler
  <2>3. QED
    BY <2>1, <2>2
<1>1. \A x \in Sessions, d \in Decision : Evaluated(x, d)' <=> Evaluated(x, d)
  BY <1>0 DEF Evaluated
<1>2. \A x \in Sessions : Claimants(x)' = Claimants(x)
  BY <1>0 DEF Claimants
<1>3. ClaimsConsume' /\ SingleClaim'
  BY <1>2 DEF AttestStore, AttestFail, ClaimsConsume, SingleClaim, Issued
<1>4. AnswerPending'
  BY <1>1 DEF AttestStore, AttestFail, AnswerPending, Issued, TypeOK, SessionRow
<1>5. AnswerJustified'
  BY <1>1 DEF AttestStore, AttestFail, AnswerJustified, TimedOut, Decision
<1>6. HandlersClaim'
  BY <1>0 DEF HandlersClaim
<1>7. QED
  BY <1>3, <1>4, <1>5, <1>6

(* The handler that claimed the nonce records its evaluation.              *)
LEMMA RecordStep ==
    ASSUME GateInv, TypeOK', NEW r \in Requests, NEW d \in {"allow", "deny"},
           AttestRecord(r, d)
    PROVE  GateInv'
<1> USE DEF GateInv
<1>0. PICK s \in Sessions : /\ s = att[r].session
                           /\ r \in Claimants(s)
                           /\ Issued(s)
  <2>1. att[r].session \in Sessions /\ att[r].phase = "stored"
    BY DEF AttestRecord, HandlersClaim
  <2>2. r \in Claimants(att[r].session)
    BY <2>1 DEF Claimants
  <2>3. QED
    BY <2>1, <2>2 DEF ClaimsConsume
<1>1. /\ att'[r].phase = "acked" /\ att'[r].session = s /\ att'[r].decision = d
      /\ \A x \in Requests \ {r} : att'[x] = att[x]
  BY <1>0 DEF AttestRecord, TypeOK, AttestHandler
<1>2. /\ rows'[s].verdict = d /\ ~rows'[s].failOpen
      /\ SameClaim(rows[s], rows'[s])
      /\ \A x \in Sessions \ {s} : rows'[x] = rows[x]
  <2>1. rows' = [rows EXCEPT ![s] = RecordVerdict(rows[s], d, FALSE, clock)]
    BY <1>0 DEF AttestRecord
  <2>2. rows[s] \in SessionRow /\ rows[s].state # "unissued" /\ clock \in Nat
    BY <1>0 DEF TypeOK, Issued
  <2> DEFINE new == RecordVerdict(rows[s], d, FALSE, clock)
  <2>3. SameClaim(rows[s], new) /\ new.verdict = d /\ new.failOpen = FALSE
    <3>1. \A e \in {"allow", "deny"}, f \in BOOLEAN :
              /\ SameClaim(rows[s], RecordVerdict(rows[s], e, f, clock))
              /\ RecordVerdict(rows[s], e, f, clock).verdict = e
              /\ RecordVerdict(rows[s], e, f, clock).failOpen = f
      BY <2>2, LoudStatements
    <3>2. QED
      BY <3>1, Zenon
  <2>4. rows'[s] = new /\ \A x \in Sessions \ {s} : rows'[x] = rows[x]
    BY <2>1 DEF TypeOK
  <2> HIDE DEF new
  <2>5. QED
    BY <2>3, <2>4
<1>3. \A x \in Sessions : Claimants(x)' = Claimants(x)
  <2>1. \A x \in Requests :
           /\ att'[x].session = att[x].session
           /\ x # r => att'[x].phase = att[x].phase
    BY <1>0, <1>1
  <2>2. att[r].phase = "stored"
    BY DEF AttestRecord
  <2>3. QED
    BY <1>1, <2>1, <2>2 DEF Claimants
<1>4. /\ Evaluated(s, d)'
      /\ \A x \in Sessions, e \in Decision : Evaluated(x, e) => Evaluated(x, e)'
  <2>1. att[r].phase = "stored"
    BY DEF AttestRecord
  <2>2. QED
    BY <1>1, <2>1 DEF Evaluated
<1>5. ClaimsConsume' /\ SingleClaim'
  BY <1>2, <1>3 DEF ClaimsConsume, SingleClaim, SameClaim, Issued
<1>6. AnswerPending'
  <2>1. \A x \in Sessions : Issued(x)' <=> Issued(x)
    BY <1>2 DEF Issued, SameClaim
  <2>2. \A x \in Sessions : (reply[x] = "none" /\ rows'[x].verdict # "pending")
                               => ~rows'[x].failOpen /\ Evaluated(x, rows[x].verdict)'
    <3> SUFFICES ASSUME NEW x \in Sessions, reply[x] = "none",
                        rows'[x].verdict # "pending"
                 PROVE  ~rows'[x].failOpen /\ Evaluated(x, rows[x].verdict)'
      OBVIOUS
    <3>1. CASE x = s
      BY <1>2, <1>4, <3>1
    <3>2. CASE x # s
      BY <1>2, <1>4, <3>2 DEF AnswerPending, TypeOK, SessionRow
    <3>3. QED
      BY <3>1, <3>2
  <2>3. QED
    BY <2>1, <2>2 DEF AnswerPending, AttestRecord
<1>7. AnswerJustified'
  BY <1>4 DEF AnswerJustified, TimedOut, AttestRecord, Decision
<1>8. HandlersClaim'
  BY <1>0, <1>1 DEF HandlersClaim
<1>9. QED
  BY <1>5, <1>6, <1>7, <1>8

(* The poll starts, gives up, or dies: the rows stay.                      *)
LEMMA PollQuietStep ==
    ASSUME GateInv, TypeOK', NEW s \in Sessions,
           PollStart(s) \/ PollExpire(s) \/ PollFail(s)
    PROVE  GateInv'
<1> USE DEF GateInv, PollStart, PollExpire, PollFail
<1>1. \A x \in Sessions, d \in Decision : Evaluated(x, d)' <=> Evaluated(x, d)
  BY DEF Evaluated
<1>2. \A x \in Sessions : Claimants(x)' = Claimants(x)
  BY DEF Claimants
<1>3. ClaimsConsume' /\ SingleClaim' /\ HandlersClaim'
  BY <1>2 DEF ClaimsConsume, SingleClaim, Issued, HandlersClaim
<1>4. AnswerPending'
  BY <1>1 DEF AnswerPending, Issued, TypeOK, SessionRow
<1>5. AnswerJustified'
  BY <1>1 DEF AnswerJustified, AnswerPending, TimedOut, Decision, TypeOK
<1>6. QED
  BY <1>3, <1>4, <1>5

(* The poll reports the verdict it found, which is an evaluation.          *)
LEMMA PollAnswerStep ==
    ASSUME GateInv, TypeOK', NEW s \in Sessions, PollAnswer(s)
    PROVE  GateInv'
<1> USE DEF GateInv
<1>1. \A x \in Sessions, d \in Decision : Evaluated(x, d)' <=> Evaluated(x, d)
  BY DEF PollAnswer, Evaluated
<1>2. \A x \in Sessions : Claimants(x)' = Claimants(x)
  BY DEF PollAnswer, Claimants
<1>3. ClaimsConsume' /\ SingleClaim' /\ HandlersClaim'
  BY <1>2 DEF PollAnswer, ClaimsConsume, SingleClaim, Issued, HandlersClaim
<1>4. reply[s] = "none"
  BY DEF PollAnswer, AnswerPending
<1>5. /\ rows[s].verdict \in {"allow", "deny"}
      /\ ~rows[s].failOpen
      /\ Evaluated(s, rows[s].verdict)
  BY <1>4 DEF PollAnswer, AnswerPending, TypeOK, SessionRow, Decision
<1>6. /\ reply'[s] = rows[s].verdict
      /\ \A x \in Sessions \ {s} : reply'[x] = reply[x]
  BY <1>5 DEF PollAnswer, ReplyOf, TypeOK
<1>7. AnswerPending'
  BY <1>1, <1>5, <1>6 DEF PollAnswer, AnswerPending, Issued, TypeOK, SessionRow
<1>8. AnswerJustified'
  BY <1>1, <1>5, <1>6 DEF PollAnswer, AnswerJustified, TimedOut, Decision, TypeOK
<1>9. QED
  BY <1>3, <1>7, <1>8

(* The poll records and reports the timeout verdict of its fail mode.      *)
LEMMA PollTimeOutStep ==
    ASSUME GateInv, TypeOK', NEW s \in Sessions, PollTimeOut(s)
    PROVE  GateInv'
<1> USE DEF GateInv
<1> DEFINE verdict == TimeoutVerdict(pollMode[s])
<1> HIDE DEF verdict
<1>1. \A x \in Sessions, d \in Decision : Evaluated(x, d)' <=> Evaluated(x, d)
  BY DEF PollTimeOut, Evaluated
<1>2. \A x \in Sessions : Claimants(x)' = Claimants(x)
  BY DEF PollTimeOut, Claimants
<1>3. poll[s] = "deciding" /\ Issued(s) /\ clock >= deadline[s]
  BY DEF PollTimeOut, AnswerPending
<1>4. /\ SameClaim(rows[s], rows'[s])
      /\ \A x \in Sessions \ {s} : rows'[x] = rows[x]
  <2>1. verdict.decision \in {"allow", "deny"} /\ verdict.failOpen \in BOOLEAN
    BY TimeoutVerdictType DEF verdict
  <2>2. QED
    BY <1>3, <2>1, LoudStatements DEF PollTimeOut, TypeOK, Issued, verdict
<1>5. /\ reply'[s] = IF pollMode[s] = "fail_open" THEN "allow_fail_open" ELSE "deny"
      /\ \A x \in Sessions \ {s} : reply'[x] = reply[x]
  BY DEF PollTimeOut, ReplyOf, TimeoutVerdict, TypeOK
<1>6. ClaimsConsume' /\ SingleClaim' /\ HandlersClaim'
  BY <1>2, <1>4 DEF PollTimeOut, ClaimsConsume, SingleClaim, SameClaim, Issued,
     HandlersClaim
<1>7. AnswerPending'
  BY <1>1, <1>3, <1>4, <1>5 DEF PollTimeOut, AnswerPending, SameClaim, Issued,
     TypeOK, SessionRow
<1>8. AnswerJustified'
  BY <1>1, <1>3, <1>5 DEF PollTimeOut, AnswerJustified, TimedOut, Decision,
     TypeOK, FailMode
<1>9. QED
  BY <1>6, <1>7, <1>8

(* Every step preserves the invariant.                                     *)
LEMMA GateInvStep == GateInv /\ [Next]_vars => GateInv'
<1> SUFFICES ASSUME GateInv, [Next]_vars PROVE GateInv'
  OBVIOUS
<1>0. TypeOK /\ TypeOK'
  BY TypeStep DEF GateInv
<1>a. \A s \in Sessions : /\ rows[s] \in SessionRow
                          /\ SameClaim(rows[s], rows[s])
                          /\ SameVerdict(rows[s], rows[s])
  BY <1>0 DEF TypeOK, SameClaim, SameVerdict
<1>b. clock \in Nat
  BY <1>0 DEF TypeOK
<1>1. ASSUME NEW s \in Sessions, IssueNonce(s) PROVE GateInv'
  BY <1>0, <1>1, IssueStep
<1>2. ASSUME NEW s \in Sessions, ReadOutcome(s) PROVE GateInv'
  BY <1>0, <1>a, <1>b, <1>2, QuietStep DEF ReadOutcome
<1>3. ASSUME NEW s \in Sessions, PollStart(s) \/ PollExpire(s) \/ PollFail(s)
      PROVE  GateInv'
  BY <1>0, <1>3, PollQuietStep
<1>4. ASSUME NEW s \in Sessions, PollAnswer(s) PROVE GateInv'
  BY <1>0, <1>4, PollAnswerStep
<1>5. ASSUME NEW s \in Sessions, PollTimeOut(s) PROVE GateInv'
  BY <1>0, <1>5, PollTimeOutStep
<1>6. ASSUME NEW s \in Sessions, LivenessRead(s) PROVE GateInv'
  BY <1>0, <1>a, <1>b, <1>6, QuietStep DEF LivenessRead
<1>7. ASSUME NEW s \in Sessions, LivenessTerminate(s) PROVE GateInv'
  <2>1. \A x \in Sessions : /\ SameClaim(rows[x], rows'[x])
                            /\ SameVerdict(rows[x], rows'[x])
    BY <1>0, <1>a, <1>b, <1>7, QuietStatements
       DEF LivenessTerminate, TerminationReason, TypeOK
  <2>2. QED
    BY <1>0, <1>b, <1>7, <2>1, QuietStep DEF LivenessTerminate
<1>8. ASSUME NEW s \in Sessions, NEW beat \in Beat, Heartbeat(s, beat)
      PROVE  GateInv'
  <2>1. \A x \in Sessions : /\ SameClaim(rows[x], rows'[x])
                            /\ SameVerdict(rows[x], rows'[x])
    BY <1>0, <1>a, <1>b, <1>8, QuietHeartbeat DEF Heartbeat, TypeOK
  <2>2. QED
    BY <1>0, <1>b, <1>8, <2>1, QuietStep DEF Heartbeat
<1>9. ASSUME NEW a \in Addresses, CollectNonce(a) PROVE GateInv'
  BY <1>0, <1>a, <1>b, <1>9, QuietStep DEF CollectNonce
<1>10. ASSUME NEW r \in Requests, AttestStore(r) \/ AttestFail(r) PROVE GateInv'
  BY <1>0, <1>10, HandlerStep
<1>11. ASSUME NEW r \in Requests, NEW s \in Sessions, NEW b \in Builds,
              AttestClaim(r, s, b)
       PROVE  GateInv'
  BY <1>0, <1>11, ClaimStep
<1>12. ASSUME NEW r \in Requests, NEW d \in {"allow", "deny"}, AttestRecord(r, d)
       PROVE  GateInv'
  BY <1>0, <1>12, RecordStep
<1>13. ASSUME Sweep PROVE GateInv'
  <2>1. \A x \in Sessions : /\ SameClaim(rows[x], rows'[x])
                            /\ SameVerdict(rows[x], rows'[x])
    BY <1>a, <1>b, <1>13, QuietStatements DEF Sweep
  <2>2. QED
    BY <1>0, <1>b, <1>13, <2>1, QuietStep DEF Sweep
<1>14. ASSUME NEW mode \in FailMode, SetFailMode(mode) PROVE GateInv'
  BY <1>0, <1>a, <1>b, <1>14, QuietStep DEF SetFailMode
<1>15. ASSUME Tick PROVE GateInv'
  BY <1>0, <1>a, <1>b, <1>15, QuietStep DEF Tick
<1>16. ASSUME UNCHANGED vars PROVE GateInv'
  BY <1>0, <1>a, <1>b, <1>16, QuietStep DEF vars
<1>17. QED
  BY <1>1, <1>2, <1>3, <1>4, <1>5, <1>6, <1>7, <1>8, <1>9, <1>10, <1>11,
     <1>12, <1>13, <1>14, <1>15, <1>16 DEF Next

(* The inductive invariant behind the theorems about claims and answers of  *)
(* consumeNonce and the verdict route.                                      *)
THEOREM GateInvariant == Spec => []GateInv
  BY GateInvInit, GateInvStep, PTL DEF Spec

(* consumeNonce lets exactly one attestation through per nonce, for any     *)
(* number of concurrent requests.                                           *)
THEOREM NonceClaimedOnce == Spec => []SingleClaim
<1>1. GateInv => SingleClaim
  BY DEF GateInv
<1>2. QED
  BY <1>1, GateInvariant, PTL

(* The verdict route answers with an evaluation of this session's own       *)
(* attestation or with the configured timeout verdict, never early.         *)
THEOREM AnswersAreJustified == Spec => []AnswerJustified
<1>1. GateInv => AnswerJustified
  BY DEF GateInv
<1>2. QED
  BY <1>1, GateInvariant, PTL

-----------------------------------------------------------------------------
(* What a row says about itself, whichever handler wrote it last.  That a   *)
(* pending row is unconsumed is what the sweep relies on.                   *)
RowGood(row, now) ==
    /\ row.state = "pending" => ~row.consumed
    /\ row.state = "active" => row.verdict = "allow" /\ row.lastBeat \in 0..now
    /\ row.state = "expired" => ~row.consumed /\ row.expiresAt < now

RowsGood == \A s \in Sessions : RowGood(rows[s], clock)

LEMMA GoodStatements ==
    ASSUME NEW row \in SessionRow, NEW now \in Nat, RowGood(row, now)
    PROVE  /\ RowGood(NoRow, now)
           /\ RowGood(CreateSession(now), now)
           /\ RowGood(ConsumeNonce(row), now)
           /\ \A d \in {"allow", "deny"}, f \in BOOLEAN :
                 RowGood(RecordVerdict(row, d, f, now), now)
           /\ RowGood(RecordHeartbeat(row, now), now)
           /\ \A why \in TerminationReason :
                 RowGood(TerminateSession(row, why), now)
           /\ RowGood(ExpireStale(row, now), now)
           /\ RowGood(row, now + 1)
<1> USE DEF SessionRow, RowGood
<1>1. RowGood(NoRow, now) /\ RowGood(CreateSession(now), now)
  BY DEF NoRow, CreateSession
<1>2. RowGood(ConsumeNonce(row), now)
  BY DEF ConsumeNonce
<1>3. ASSUME NEW d \in {"allow", "deny"}, NEW f \in BOOLEAN
      PROVE  RowGood(RecordVerdict(row, d, f, now), now)
  BY DEF RecordVerdict
<1>4. RowGood(RecordHeartbeat(row, now), now)
  BY DEF RecordHeartbeat
<1>5. ASSUME NEW why \in TerminationReason
      PROVE  RowGood(TerminateSession(row, why), now)
  BY DEF TerminateSession
<1>6. RowGood(ExpireStale(row, now), now)
  BY DEF ExpireStale
<1>7. RowGood(row, now + 1)
  OBVIOUS
<1>8. QED
  BY <1>1, <1>2, <1>3, <1>4, <1>5, <1>6, <1>7

LEMMA GoodHeartbeat ==
    ASSUME NEW row \in SessionRow, clock \in Nat, RowGood(row, clock),
           NEW stored, NEW beat \in Beat
    PROVE  RowGood(HeartbeatRow(row, stored, beat), clock)
<1>1. {"companion_outdated", "heartbeat_lost", "game_process_missing"}
          \subseteq TerminationReason
  BY DEF TerminationReason
<1>2. QED
  BY GoodStatements, <1>1 DEF HeartbeatRow

(* Every step leaves every row good.                                       *)
LEMMA RowsGoodStep ==
    ASSUME TypeOK, HandlersClaim, RowsGood, [Next]_vars
    PROVE  RowsGood'
<1>a. clock \in Nat /\ \A x \in Sessions : rows[x] \in SessionRow
  BY DEF TypeOK
<1>b. rows = [x \in Sessions |-> rows[x]]
  BY DEF TypeOK
<1> USE DEF RowsGood
<1>1. ASSUME NEW s \in Sessions, IssueNonce(s) PROVE RowsGood'
  BY <1>a, <1>b, <1>1, GoodStatements DEF IssueNonce
<1>2. ASSUME NEW s \in Sessions, PollTimeOut(s) PROVE RowsGood'
  <2> DEFINE verdict == TimeoutVerdict(pollMode[s])
  <2> HIDE DEF verdict
  <2>1. verdict.decision \in {"allow", "deny"} /\ verdict.failOpen \in BOOLEAN
    BY TimeoutVerdictType DEF verdict
  <2>2. RowGood(RecordVerdict(rows[s], verdict.decision, verdict.failOpen, clock),
                clock)
    BY <1>a, <2>1, GoodStatements
  <2>3. QED
    BY <1>a, <1>b, <1>2, <2>2 DEF PollTimeOut, verdict
<1>3. ASSUME NEW s \in Sessions, LivenessTerminate(s) PROVE RowsGood'
  BY <1>a, <1>b, <1>3, GoodStatements DEF LivenessTerminate, TerminationReason
<1>4. ASSUME NEW s \in Sessions, NEW beat \in Beat, Heartbeat(s, beat)
      PROVE  RowsGood'
  BY <1>a, <1>b, <1>4, GoodHeartbeat DEF Heartbeat
<1>5. ASSUME NEW r \in Requests, NEW s \in Sessions, NEW b \in Builds,
             AttestClaim(r, s, b)
      PROVE  RowsGood'
  BY <1>a, <1>b, <1>5, GoodStatements DEF AttestClaim
<1>6. ASSUME NEW r \in Requests, NEW d \in {"allow", "deny"}, AttestRecord(r, d)
      PROVE  RowsGood'
  <2>1. att[r].session \in Sessions
    BY <1>6 DEF AttestRecord, HandlersClaim
  <2>2. QED
    BY <1>a, <1>b, <1>6, <2>1, GoodStatements DEF AttestRecord
<1>7. ASSUME Sweep PROVE RowsGood'
  BY <1>a, <1>7, GoodStatements DEF Sweep
<1>8. ASSUME Tick PROVE RowsGood'
  BY <1>a, <1>8, GoodStatements DEF Tick
<1>9. ASSUME UNCHANGED <<clock, rows>> PROVE RowsGood'
  BY <1>9
<1>10. QED
  BY <1>1, <1>2, <1>3, <1>4, <1>5, <1>6, <1>7, <1>8, <1>9
     DEF Next, vars, ReadOutcome, PollStart, PollAnswer, PollExpire, PollFail,
         LivenessRead, CollectNonce, AttestStore, AttestFail, SetFailMode

(* The row invariant in every reachable state.                             *)
LEMMA RowsAlwaysGood == Spec => []RowsGood
<1>1. Init => RowsGood
  BY DEF Init, RowsGood, RowGood, NoRow
<1>2. GateInv /\ RowsGood /\ [Next]_vars => RowsGood'
  BY RowsGoodStep DEF GateInv
<1>3. QED
  BY <1>1, <1>2, GateInvariant, PTL DEF Spec

(* buildLiveness always has an allowed verdict and a heartbeat, not in the  *)
(* future, to measure an active session by, whichever of recordVerdict and  *)
(* recordHeartbeat wrote the row last and in whatever order.                *)
THEOREM ActiveSessionsAreMeasured == Spec => []ActiveIsMeasured
<1>1. RowsGood => ActiveIsMeasured
  BY DEF RowsGood, RowGood, ActiveIsMeasured
<1>2. QED
  BY <1>1, RowsAlwaysGood, PTL

(* expireStaleSessions never takes a session from an attestation: what it    *)
(* marked was never claimed, and consumeNonce will not claim it later.       *)
THEOREM SweepSparesAttested == Spec => []ExpiredNeverAttested
<1>1. TypeOK /\ RowsGood => ExpiredNeverAttested
  <2> SUFFICES ASSUME TypeOK, RowsGood, NEW s \in Sessions,
                      rows[s].state = "expired"
               PROVE  ~rows[s].consumed /\ ~Claimable(rows[s], clock)
    BY DEF ExpiredNeverAttested
  <2>1. clock \in Nat /\ rows[s].expiresAt \in Nat
    BY DEF TypeOK, SessionRow
  <2>2. QED
    BY <2>1 DEF RowsGood, RowGood, Claimable
<1>2. QED
  BY <1>1, RowsAlwaysGood, TypeCorrect, PTL

-----------------------------------------------------------------------------
(* Evaluations are never taken back: no step touches an acknowledged handler. *)
LEMMA EvaluationsStay ==
    ASSUME TypeOK, [Next]_vars, NEW x \in Sessions, NEW e \in Decision,
           Evaluated(x, e)
    PROVE  Evaluated(x, e)'
<1>1. PICK q \in Requests : /\ att[q].phase = "acked"
                            /\ att[q].session = x
                            /\ att[q].decision = e
  BY DEF Evaluated
<1>2. att'[q] = att[q]
  <2>1. ASSUME NEW r \in Requests, AttestStore(r) PROVE att'[q] = att[q]
    BY <1>1, <2>1 DEF AttestStore, TypeOK
  <2>2. ASSUME NEW r \in Requests, AttestFail(r) PROVE att'[q] = att[q]
    BY <1>1, <2>2 DEF AttestFail, TypeOK
  <2>3. ASSUME NEW r \in Requests, NEW s \in Sessions, NEW b \in Builds,
               AttestClaim(r, s, b)
        PROVE  att'[q] = att[q]
    BY <1>1, <2>3 DEF AttestClaim, TypeOK
  <2>4. ASSUME NEW r \in Requests, NEW d \in {"allow", "deny"}, AttestRecord(r, d)
        PROVE  att'[q] = att[q]
    BY <1>1, <2>4 DEF AttestRecord, TypeOK
  <2>5. ASSUME UNCHANGED att PROVE att'[q] = att[q]
    BY <2>5
  <2>6. QED
    BY <2>1, <2>2, <2>3, <2>4, <2>5
       DEF Next, vars, IssueNonce, ReadOutcome, PollStart, PollAnswer,
           PollExpire, PollTimeOut, PollFail, LivenessRead, LivenessTerminate,
           Heartbeat, CollectNonce, Sweep, SetFailMode, Tick
<1>3. QED
  BY <1>1, <1>2 DEF Evaluated

OutcomeInv == VerdictsJustified /\ FailOpenStaysMarked

(* A step that writes neither a verdict nor an answer nor an outcome.         *)
LEMMA QuietOutcome ==
    ASSUME TypeOK, OutcomeInv, [Next]_vars, UNCHANGED <<reply, outcome>>,
           \A x \in Sessions : SameVerdict(rows[x], rows'[x])
    PROVE  OutcomeInv'
<1>1. \A x \in Sessions, e \in Decision : Evaluated(x, e) => Evaluated(x, e)'
  BY EvaluationsStay
<1>2. \A x \in Sessions : /\ rows'[x].verdict = rows[x].verdict
                          /\ rows'[x].failOpen = rows[x].failOpen
                          /\ rows[x].verdict \in Decision
                          /\ outcome[x] # "none" => outcome[x] \in Decision
  BY DEF SameVerdict, TypeOK, SessionRow, Decision
<1>3. \A x \in Sessions : Admitted(x)' <=> Admitted(x)
  BY DEF Admitted
<1>4. VerdictsJustified'
  BY <1>1, <1>2, <1>3 DEF OutcomeInv, VerdictsJustified
<1>5. FailOpenStaysMarked'
  BY <1>1, <1>2 DEF OutcomeInv, FailOpenStaysMarked
<1>6. QED
  BY <1>4, <1>5 DEF OutcomeInv

(* The outcome route reports what the row holds.                             *)
LEMMA ReadOutcomeStep ==
    ASSUME TypeOK, OutcomeInv, [Next]_vars, NEW s \in Sessions, ReadOutcome(s)
    PROVE  OutcomeInv'
<1>1. \A x \in Sessions, e \in Decision : Evaluated(x, e) => Evaluated(x, e)'
  BY EvaluationsStay
<1>2. /\ outcome'[s] = rows[s].verdict /\ rows[s].verdict # "pending"
      /\ \A x \in Sessions \ {s} : outcome'[x] = outcome[x]
      /\ UNCHANGED <<rows, reply>>
  BY DEF ReadOutcome, TypeOK
<1>3. \A x \in Sessions : /\ rows[x].verdict \in Decision
                          /\ outcome[x] # "none" => outcome[x] \in Decision
                          /\ Admitted(x)' <=> Admitted(x)
  BY <1>2 DEF TypeOK, SessionRow, Decision, Admitted
<1>4. VerdictsJustified'
  BY <1>1, <1>2, <1>3 DEF OutcomeInv, VerdictsJustified
<1>5. FailOpenStaysMarked'
  BY <1>1, <1>2, <1>3 DEF OutcomeInv, FailOpenStaysMarked
<1>6. QED
  BY <1>4, <1>5 DEF OutcomeInv

(* An attestation is judged: its row now holds an evaluation.                *)
LEMMA RecordOutcome ==
    ASSUME TypeOK, HandlersClaim, OutcomeInv, [Next]_vars, NEW r \in Requests,
           NEW d \in {"allow", "deny"}, AttestRecord(r, d)
    PROVE  OutcomeInv'
<1>0. PICK s \in Sessions : s = att[r].session
  BY DEF AttestRecord, HandlersClaim
<1>1. \A x \in Sessions, e \in Decision : Evaluated(x, e) => Evaluated(x, e)'
  BY EvaluationsStay
<1>2. Evaluated(s, d)'
  <2>1. att'[r].phase = "acked" /\ att'[r].session = s /\ att'[r].decision = d
    BY <1>0 DEF AttestRecord, TypeOK, AttestHandler
  <2>2. QED
    BY <2>1 DEF Evaluated
<1>3. /\ rows'[s].verdict = d
      /\ \A x \in Sessions \ {s} : rows'[x] = rows[x]
      /\ UNCHANGED <<reply, outcome>>
  BY <1>0 DEF AttestRecord, RecordVerdict, TypeOK, SessionRow
<1>4. \A x \in Sessions : /\ rows[x].verdict \in Decision
                          /\ outcome[x] # "none" => outcome[x] \in Decision
                          /\ Admitted(x)' <=> Admitted(x)
  BY <1>3 DEF TypeOK, SessionRow, Decision, Admitted
<1>5. VerdictsJustified'
  BY <1>1, <1>2, <1>3, <1>4 DEF OutcomeInv, VerdictsJustified
<1>6. FailOpenStaysMarked'
  BY <1>1, <1>2, <1>3, <1>4 DEF OutcomeInv, FailOpenStaysMarked
<1>7. QED
  BY <1>5, <1>6 DEF OutcomeInv

(* The poll answers with the verdict it found, which is an evaluation.       *)
LEMMA AnswerOutcome ==
    ASSUME TypeOK, AnswerPending, OutcomeInv, [Next]_vars, NEW s \in Sessions,
           PollAnswer(s)
    PROVE  OutcomeInv'
<1>1. \A x \in Sessions, e \in Decision : Evaluated(x, e) => Evaluated(x, e)'
  BY EvaluationsStay
<1>2. /\ reply[s] = "none" /\ ~rows[s].failOpen
      /\ Evaluated(s, rows[s].verdict) /\ rows[s].verdict \in {"allow", "deny"}
  BY DEF PollAnswer, AnswerPending, TypeOK, SessionRow, Decision
<1>3. /\ reply'[s] = rows[s].verdict
      /\ \A x \in Sessions \ {s} : reply'[x] = reply[x]
      /\ UNCHANGED <<rows, outcome>>
  BY <1>2 DEF PollAnswer, ReplyOf, TypeOK
<1>4. \A x \in Sessions : /\ rows[x].verdict \in Decision
                          /\ outcome[x] # "none" => outcome[x] \in Decision
  BY DEF TypeOK, SessionRow, Decision
<1>5. VerdictsJustified'
  BY <1>1, <1>2, <1>3, <1>4 DEF OutcomeInv, VerdictsJustified, Admitted
<1>6. FailOpenStaysMarked'
  BY <1>1, <1>2, <1>3, <1>4 DEF OutcomeInv, FailOpenStaysMarked
<1>7. QED
  BY <1>5, <1>6 DEF OutcomeInv

(* The poll gives up: row and answer say the same, and the row is marked.    *)
LEMMA TimeOutOutcome ==
    ASSUME TypeOK, AnswerPending, OutcomeInv, [Next]_vars, NEW s \in Sessions,
           PollTimeOut(s)
    PROVE  OutcomeInv'
<1>1. \A x \in Sessions, e \in Decision : Evaluated(x, e) => Evaluated(x, e)'
  BY EvaluationsStay
<1>2. reply[s] = "none"
  BY DEF PollTimeOut, AnswerPending
<1>3. /\ rows'[s].verdict = IF pollMode[s] = "fail_open" THEN "allow" ELSE "deny"
      /\ rows'[s].failOpen = (pollMode[s] = "fail_open")
      /\ reply'[s] = IF pollMode[s] = "fail_open" THEN "allow_fail_open" ELSE "deny"
      /\ \A x \in Sessions \ {s} : rows'[x] = rows[x] /\ reply'[x] = reply[x]
      /\ UNCHANGED outcome
  <2> DEFINE verdict == TimeoutVerdict(pollMode[s])
             new == RecordVerdict(rows[s], verdict.decision, verdict.failOpen, clock)
  <2>1. /\ verdict.decision = IF pollMode[s] = "fail_open" THEN "allow" ELSE "deny"
        /\ verdict.failOpen = (pollMode[s] = "fail_open")
    BY DEF TimeoutVerdict
  <2>2. /\ rows'[s] = new /\ reply'[s] = ReplyOf(verdict.decision, verdict.failOpen)
        /\ \A x \in Sessions \ {s} : rows'[x] = rows[x] /\ reply'[x] = reply[x]
        /\ UNCHANGED outcome
    BY DEF PollTimeOut, TypeOK
  <2> HIDE DEF verdict
  <2>3. new.verdict = verdict.decision /\ new.failOpen = verdict.failOpen
    BY DEF RecordVerdict, TypeOK, SessionRow
  <2> HIDE DEF new
  <2>4. QED
    BY <2>1, <2>2, <2>3 DEF ReplyOf
<1>4. \A x \in Sessions : /\ rows[x].verdict \in Decision
                          /\ outcome[x] # "none" => outcome[x] \in Decision
  BY DEF TypeOK, SessionRow, Decision
<1>5. VerdictsJustified'
  BY <1>1, <1>2, <1>3, <1>4 DEF OutcomeInv, VerdictsJustified, Admitted
<1>6. FailOpenStaysMarked'
  BY <1>1, <1>2, <1>3, <1>4 DEF OutcomeInv, FailOpenStaysMarked
<1>7. QED
  BY <1>5, <1>6 DEF OutcomeInv

(* Every step preserves what verdicts, answers and outcomes rest on.         *)
LEMMA OutcomeInvStep ==
    ASSUME GateInv, OutcomeInv, [Next]_vars
    PROVE  OutcomeInv'
<1>a. /\ TypeOK /\ AnswerPending /\ HandlersClaim
      /\ clock \in Nat /\ \A x \in Sessions : rows[x] \in SessionRow
  BY DEF GateInv, TypeOK
<1>b. rows = [x \in Sessions |-> rows[x]]
  BY <1>a DEF TypeOK
<1>1. ASSUME NEW s \in Sessions, ReadOutcome(s) PROVE OutcomeInv'
  BY <1>a, <1>1, ReadOutcomeStep
<1>2. ASSUME NEW r \in Requests, NEW d \in {"allow", "deny"}, AttestRecord(r, d)
      PROVE  OutcomeInv'
  BY <1>a, <1>2, RecordOutcome
<1>3. ASSUME NEW s \in Sessions, PollAnswer(s) PROVE OutcomeInv'
  BY <1>a, <1>3, AnswerOutcome
<1>4. ASSUME NEW s \in Sessions, PollTimeOut(s) PROVE OutcomeInv'
  BY <1>a, <1>4, TimeOutOutcome
<1>5. ASSUME UNCHANGED <<reply, outcome>>,
             \A x \in Sessions : SameVerdict(rows[x], rows'[x])
      PROVE  OutcomeInv'
  BY <1>a, <1>5, QuietOutcome
<1>6. ASSUME NEW s \in Sessions, IssueNonce(s) PROVE OutcomeInv'
  <2>1. /\ rows'[s].verdict = "pending" /\ reply[s] = "none"
        /\ \A x \in Sessions \ {s} : rows'[x] = rows[x]
        /\ UNCHANGED <<reply, outcome>>
    BY <1>a, <1>6 DEF IssueNonce, CreateSession, NoRow, AnswerPending, TypeOK,
       SessionRow, Issued
  <2>2. \A x \in Sessions, e \in Decision : Evaluated(x, e) => Evaluated(x, e)'
    BY <1>a, EvaluationsStay
  <2>3. \A x \in Sessions : /\ rows[x].verdict \in Decision
                            /\ outcome[x] # "none" => outcome[x] \in Decision
                            /\ Admitted(x)' <=> Admitted(x)
    BY <1>a, <2>1 DEF TypeOK, SessionRow, Decision, Admitted
  <2>4. VerdictsJustified'
    BY <2>1, <2>2, <2>3 DEF OutcomeInv, VerdictsJustified
  <2>5. FailOpenStaysMarked'
    BY <2>1, <2>2, <2>3 DEF OutcomeInv, FailOpenStaysMarked
  <2>6. QED
    BY <2>4, <2>5 DEF OutcomeInv
<1>7. ASSUME NEW r \in Requests, NEW s \in Sessions, NEW b \in Builds,
             AttestClaim(r, s, b)
      PROVE  OutcomeInv'
  <2>1. \A x \in Sessions : SameVerdict(rows[x], rows'[x])
    <3>1. SameVerdict(rows[s], ConsumeNonce(rows[s]))
      BY <1>a DEF ConsumeNonce, SameVerdict, SessionRow
    <3>2. CASE Claimable(rows[s], clock)
      BY <1>b, <1>7, <3>1, <3>2 DEF AttestClaim, SameVerdict
    <3>3. CASE ~Claimable(rows[s], clock)
      BY <1>7, <3>3 DEF AttestClaim, SameVerdict
    <3>4. QED
      BY <3>2, <3>3
  <2>2. QED
    BY <1>5, <1>7, <2>1 DEF AttestClaim
<1>8. ASSUME NEW s \in Sessions, LivenessTerminate(s) PROVE OutcomeInv'
  <2>1. \A x \in Sessions : SameVerdict(rows[x], rows'[x])
    BY <1>a, <1>b, <1>8 DEF LivenessTerminate, TerminateSession, SameVerdict,
       SessionRow
  <2>2. QED
    BY <1>5, <1>8, <2>1 DEF LivenessTerminate
<1>9. ASSUME NEW s \in Sessions, NEW beat \in Beat, Heartbeat(s, beat)
      PROVE  OutcomeInv'
  <2>1. SameVerdict(rows[s], HeartbeatRow(rows[s], snapshot[s], beat))
    BY <1>a, QuietHeartbeat
  <2>2. \A x \in Sessions : SameVerdict(rows[x], rows'[x])
    <3>1. /\ rows'[s] = HeartbeatRow(rows[s], snapshot[s], beat)
          /\ \A x \in Sessions \ {s} : rows'[x] = rows[x]
      BY <1>b, <1>9 DEF Heartbeat
    <3>2. QED
      BY <2>1, <3>1 DEF SameVerdict
  <2>3. QED
    BY <1>5, <1>9, <2>2 DEF Heartbeat
<1>10. ASSUME Sweep PROVE OutcomeInv'
  <2>1. \A x \in Sessions : SameVerdict(rows[x], rows'[x])
    BY <1>a, <1>10, QuietStatements DEF Sweep
  <2>2. QED
    BY <1>5, <1>10, <2>1 DEF Sweep
<1>11. ASSUME UNCHANGED <<rows, reply, outcome>> PROVE OutcomeInv'
  BY <1>5, <1>11 DEF SameVerdict
<1>12. QED
  BY <1>1, <1>2, <1>3, <1>4, <1>6, <1>7, <1>8, <1>9, <1>10, <1>11
     DEF Next, vars, PollStart, PollExpire, PollFail, LivenessRead,
         CollectNonce, AttestStore, AttestFail, SetFailMode, Tick

LEMMA OutcomesAlwaysJustified == Spec => []OutcomeInv
<1>1. Init => OutcomeInv
  BY DEF Init, OutcomeInv, VerdictsJustified, FailOpenStaysMarked, NoRow
<1>2. GateInv /\ OutcomeInv /\ [Next]_vars => OutcomeInv'
  BY OutcomeInvStep
<1>3. QED
  BY <1>1, <1>2, GateInvariant, PTL DEF Spec

(* recordVerdict takes the fail-open mark from an admitted player's row only *)
(* by writing the judgement of that player's own attestation.                *)
THEOREM MarkYieldsOnlyToJudgement == Spec => []FailOpenStaysMarked
<1>1. OutcomeInv => FailOpenStaysMarked
  BY DEF OutcomeInv
<1>2. QED
  BY <1>1, OutcomesAlwaysJustified, PTL

(* The outcome route and the verdict route contradict each other only when   *)
(* the poll timed out: a session has one evaluation, and both report it.     *)
THEOREM RoutesDisagreeOnlyAfterTimeout == Spec => []OutcomeMatchesAnswer
<1>1. GateInv /\ OutcomeInv => OutcomeMatchesAnswer
  <2> SUFFICES ASSUME GateInv, OutcomeInv, NEW s \in Sessions,
                      outcome[s] # "none", reply[s] # "none",
                      ~(outcome[s] = "allow" <=> Admitted(s))
               PROVE  /\ Evaluated(s, outcome[s])
                      /\ IF Admitted(s) THEN TimedOut(s, "fail_open")
                                        ELSE TimedOut(s, "fail_closed")
    BY DEF OutcomeMatchesAnswer
  <2>1. Evaluated(s, outcome[s])
    BY DEF OutcomeInv, VerdictsJustified
  <2>2. \A d : Evaluated(s, d) => d = outcome[s]
    BY <2>1 DEF GateInv, SingleClaim, Claimants, Evaluated
  <2>3. outcome[s] \in {"allow", "deny"} /\ reply[s] \in Reply
    BY DEF GateInv, TypeOK
  <2>4. QED
    BY <2>1, <2>2, <2>3 DEF GateInv, AnswerJustified, Admitted, Reply
<1>2. QED
  BY <1>1, OutcomesAlwaysJustified, GateInvariant, PTL
-----------------------------------------------------------------------------
(* What the clock says about a session: how its deadlines and its last       *)
(* heartbeat lie to one another.  The nonce is created before the poll       *)
(* starts, and nothing is measured before the nonce is created.              *)
Timely(s) ==
    /\ Issued(s) => rows[s].expiresAt <= clock + NonceTTL
    /\ poll[s] # "none" =>
          rows[s].expiresAt + PollTimeout <= deadline[s] + NonceTTL
    /\ rows[s].state = "active" =>
          rows[s].expiresAt <= rows[s].lastBeat + NonceTTL
    /\ (rows[s].state = "active" /\ reply[s] = "allow_fail_open") =>
          deadline[s] <= rows[s].lastBeat
    /\ live[s] # "idle" => Admitted(s)
    /\ live[s] = "kicking" =>
          /\ clock + NonceTTL >=
                rows[s].expiresAt + HeartbeatInterval + HeartbeatGrace
          /\ reply[s] = "allow_fail_open" =>
                clock >= deadline[s] + HeartbeatInterval + HeartbeatGrace

(* A nonce nobody claimed has run out by the time its player is removed.      *)
Unclaimable(s) ==
    (/\ ~rows[s].consumed
     /\ Admitted(s)
     /\ live[s] # "idle" \/ rows[s].state = "terminated")
        => rows[s].expiresAt <= clock

TimelyInv == \A s \in Sessions : Timely(s) /\ Unclaimable(s)

(* Time alone, and steps about other sessions, keep a session timely.         *)
LEMMA TimelyFrame ==
    ASSUME TypeOK, TypeOK', NEW s \in Sessions, Timely(s), Unclaimable(s),
           rows'[s] = rows[s], poll'[s] = poll[s], deadline'[s] = deadline[s],
           reply'[s] = reply[s], live'[s] = live[s], clock' >= clock
    PROVE  Timely(s)' /\ Unclaimable(s)'
<1>1. /\ rows[s].expiresAt \in Nat /\ deadline[s] \in Nat
      /\ clock \in Nat /\ clock' \in Nat
      /\ NonceTTL \in Nat /\ PollTimeout \in Nat
      /\ HeartbeatInterval \in Nat /\ HeartbeatGrace \in Nat
  BY TimingAssumption DEF TypeOK, SessionRow
<1>2. Timely(s)'
  BY <1>1 DEF Timely, Issued, Admitted
<1>3. Unclaimable(s)'
  BY <1>1 DEF Unclaimable, Admitted
<1>4. QED
  BY <1>2, <1>3

(* The sessions an action is not about.                                      *)
Untouched(s) ==
    \A x \in Sessions \ {s} :
        /\ rows'[x] = rows[x] /\ poll'[x] = poll[x]
        /\ deadline'[x] = deadline[x] /\ reply'[x] = reply[x]
        /\ live'[x] = live[x]

LEMMA TimelyOthers ==
    ASSUME TypeOK, TypeOK', TimelyInv, NEW s \in Sessions, Untouched(s),
           clock' = clock, Timely(s)', Unclaimable(s)'
    PROVE  TimelyInv'
<1>1. ASSUME NEW x \in Sessions \ {s} PROVE Timely(x)' /\ Unclaimable(x)'
  BY TimelyFrame DEF Untouched, TimelyInv, TypeOK
<1>2. QED
  BY <1>1 DEF TimelyInv

(* A row that is rewritten keeps its nonce's deadline; if it is active after, *)
(* its heartbeat is the old one or one of now.                                *)
Rewritten(old, new, now) ==
    /\ new.expiresAt = old.expiresAt
    /\ (new.state = "unissued") <=> (old.state = "unissued")
    /\ old.consumed => new.consumed
    /\ new.state = "active" =>
          \/ new.lastBeat = now
          \/ old.state = "active" /\ new.lastBeat = old.lastBeat

LEMMA Rewrites ==
    ASSUME NEW row \in SessionRow, row.state # "unissued", NEW now \in Nat
    PROVE  /\ Rewritten(row, ConsumeNonce(row), now)
           /\ \A d \in {"allow", "deny"}, f \in BOOLEAN :
                 Rewritten(row, RecordVerdict(row, d, f, now), now)
           /\ Rewritten(row, RecordHeartbeat(row, now), now)
           /\ \A why \in TerminationReason :
                 Rewritten(row, TerminateSession(row, why), now)
           /\ Rewritten(row, ExpireStale(row, now), now)
<1> USE DEF SessionRow, Rewritten
<1>1. Rewritten(row, ConsumeNonce(row), now)
  BY DEF ConsumeNonce
<1>2. ASSUME NEW d \in {"allow", "deny"}, NEW f \in BOOLEAN
      PROVE  Rewritten(row, RecordVerdict(row, d, f, now), now)
  BY DEF RecordVerdict
<1>3. Rewritten(row, RecordHeartbeat(row, now), now)
  BY DEF RecordHeartbeat
<1>4. ASSUME NEW why \in TerminationReason
      PROVE  Rewritten(row, TerminateSession(row, why), now)
  BY DEF TerminateSession
<1>5. Rewritten(row, ExpireStale(row, now), now)
  BY DEF ExpireStale
<1>6. QED
  BY <1>1, <1>2, <1>3, <1>4, <1>5

(* Rewriting a row while its poll, answer and liveness stay.  Whoever is let  *)
(* in by the timeout is past the poll's deadline.                             *)
LEMMA TimelyRewrite ==
    ASSUME GateInv, TypeOK', NEW s \in Sessions, Timely(s),
           Rewritten(rows[s], rows'[s], clock), Issued(s),
           UNCHANGED <<clock, poll, deadline, reply, live>>
    PROVE  Timely(s)'
<1>1. /\ rows[s].expiresAt \in Nat /\ deadline[s] \in Nat /\ clock \in Nat
      /\ rows'[s].expiresAt = rows[s].expiresAt
      /\ NonceTTL \in Nat /\ PollTimeout \in Nat
      /\ HeartbeatInterval \in Nat /\ HeartbeatGrace \in Nat
  BY TimingAssumption DEF GateInv, TypeOK, SessionRow, Rewritten
<1>2. reply[s] = "allow_fail_open" => clock >= deadline[s]
  BY DEF GateInv, AnswerJustified, TimedOut
<1>3. rows'[s].state = "active" =>
         \/ rows'[s].lastBeat = clock
         \/ rows[s].state = "active" /\ rows'[s].lastBeat = rows[s].lastBeat
  BY DEF Rewritten
<1>4. Issued(s)' /\ (Admitted(s)' <=> Admitted(s))
  BY DEF Rewritten, Issued, Admitted
<1>5. QED
  BY <1>1, <1>2, <1>3, <1>4 DEF Timely, Issued

(* An attestation that claimed the nonce, or was judged, has consumed it.     *)
LEMMA ClaimedIsConsumed ==
    ASSUME GateInv, NEW s \in Sessions
    PROVE  /\ Acked(s) => Issued(s) /\ rows[s].consumed
           /\ \A d : Evaluated(s, d) => Issued(s) /\ rows[s].consumed
           /\ reply[s] = "allow" => rows[s].consumed
<1>1. ASSUME NEW r \in Requests, att[r].phase = "acked", att[r].session = s
      PROVE  Issued(s) /\ rows[s].consumed
  <2>1. r \in Claimants(s)
    BY <1>1 DEF Claimants
  <2>2. QED
    BY <2>1 DEF GateInv, ClaimsConsume
<1>2. /\ Acked(s) => Issued(s) /\ rows[s].consumed
      /\ \A d : Evaluated(s, d) => Issued(s) /\ rows[s].consumed
  BY <1>1 DEF Acked, Evaluated
<1>3. QED
  BY <1>2 DEF GateInv, AnswerJustified

(* Who has no answer is not being removed either.                             *)
LEMMA UnansweredIsIdle ==
    ASSUME GateInv, NEW s \in Sessions, Timely(s), poll[s] # "answered"
    PROVE  reply[s] = "none" /\ live[s] = "idle" /\ ~Admitted(s)
  BY DEF GateInv, AnswerPending, Timely, Admitted

(* The nonce and the poll that waits for its verdict.                         *)
LEMMA TimelyPoll ==
    ASSUME GateInv, TypeOK', TimelyInv, NEW s \in Sessions,
           \/ IssueNonce(s) \/ PollStart(s) \/ PollAnswer(s) \/ PollExpire(s)
           \/ PollTimeOut(s) \/ PollFail(s)
    PROVE  TimelyInv'
<1>a. /\ TypeOK /\ Timely(s) /\ Unclaimable(s)
      /\ rows[s].expiresAt \in Nat /\ deadline[s] \in Nat /\ clock \in Nat
      /\ NonceTTL \in Nat /\ PollTimeout \in Nat
      /\ HeartbeatInterval \in Nat /\ HeartbeatGrace \in Nat
  BY TimingAssumption DEF GateInv, TimelyInv, TypeOK, SessionRow
<1>b. clock' = clock /\ Untouched(s)
  BY <1>a DEF IssueNonce, PollStart, PollAnswer, PollExpire, PollTimeOut,
     PollFail, Untouched, TypeOK
<1>c. poll[s] # "answered"
  BY DEF GateInv, AnswerPending, IssueNonce, PollStart, PollAnswer, PollExpire,
     PollTimeOut, PollFail
<1>d. reply[s] = "none" /\ live[s] = "idle" /\ ~Admitted(s) /\ live'[s] = "idle"
  BY <1>a, <1>c, UnansweredIsIdle DEF IssueNonce, PollStart, PollAnswer,
     PollExpire, PollTimeOut, PollFail
<1>1. CASE IssueNonce(s)
  <2>1. /\ poll[s] = "none" /\ poll'[s] = "none" /\ reply'[s] = "none"
        /\ rows'[s].state = "pending"
        /\ rows'[s].expiresAt = clock + NonceTTL
    BY <1>a, <1>1, <1>d DEF IssueNonce, CreateSession, NoRow, GateInv,
       AnswerPending, TypeOK, SessionRow
  <2>2. QED
    BY <1>a, <1>b, <1>d, <2>1, TimelyOthers
       DEF Timely, Unclaimable, Admitted
<1>2. CASE PollStart(s)
  <2>1. /\ rows'[s] = rows[s] /\ reply'[s] = "none"
        /\ deadline'[s] = clock + PollTimeout /\ Issued(s)
    BY <1>a, <1>2, <1>d DEF PollStart, TypeOK
  <2>2. QED
    BY <1>a, <1>b, <1>d, <2>1, TimelyOthers
       DEF Timely, Unclaimable, Admitted, Issued
<1>3. CASE PollAnswer(s)
  <2>1. /\ rows'[s] = rows[s] /\ deadline'[s] = deadline[s]
        /\ poll[s] # "none"
        /\ ~rows[s].failOpen /\ Evaluated(s, rows[s].verdict)
        /\ rows[s].verdict \in {"allow", "deny"}
    BY <1>a, <1>3, <1>d DEF PollAnswer, GateInv, AnswerPending, TypeOK,
       SessionRow, Decision
  <2>2. reply'[s] = rows[s].verdict
    BY <1>a, <1>3, <2>1 DEF PollAnswer, ReplyOf, TypeOK
  <2>3. rows[s].consumed
    BY <2>1, ClaimedIsConsumed
  <2>4. QED
    BY <1>a, <1>b, <1>d, <2>1, <2>2, <2>3, TimelyOthers
       DEF Timely, Unclaimable, Admitted, Issued
<1>4. CASE PollExpire(s) \/ PollFail(s)
  <2>1. /\ rows'[s] = rows[s] /\ deadline'[s] = deadline[s]
        /\ poll[s] # "none" /\ reply'[s] = "none"
    BY <1>4, <1>d DEF PollExpire, PollFail
  <2>2. QED
    BY <1>a, <1>b, <1>d, <2>1, TimelyOthers
       DEF Timely, Unclaimable, Admitted, Issued
<1>5. CASE PollTimeOut(s)
  <2> DEFINE verdict == TimeoutVerdict(pollMode[s])
             new == RecordVerdict(rows[s], verdict.decision, verdict.failOpen, clock)
  <2>1. /\ rows'[s] = new /\ deadline'[s] = deadline[s]
        /\ reply'[s] = ReplyOf(verdict.decision, verdict.failOpen)
        /\ poll[s] # "none" /\ clock >= deadline[s] /\ Issued(s)
    BY <1>a, <1>5 DEF PollTimeOut, GateInv, AnswerPending, TypeOK
  <2>2. \/ verdict.decision = "allow" /\ verdict.failOpen = TRUE
        \/ verdict.decision = "deny" /\ verdict.failOpen = FALSE
    BY DEF TimeoutVerdict
  <2> HIDE DEF verdict
  <2>3. /\ new.expiresAt = rows[s].expiresAt
        /\ new.state # "unissued"
        /\ new.state = "active" => new.lastBeat = clock
        /\ new.state = "terminated" => verdict.decision = "deny"
    BY <1>a, <2>2 DEF RecordVerdict, TypeOK, SessionRow
  <2> HIDE DEF new
  <2>4. new.state = "terminated" => reply'[s] = "deny"
    BY <2>1, <2>2, <2>3 DEF ReplyOf
  <2>5. Timely(s)'
    BY <1>a, <1>b, <1>d, <2>1, <2>3 DEF Timely, Issued
  <2>6. Unclaimable(s)'
    BY <1>d, <2>1, <2>4 DEF Unclaimable, Admitted
  <2>7. QED
    BY <1>a, <1>b, <2>5, <2>6, TimelyOthers
<1>6. QED
  BY <1>1, <1>2, <1>3, <1>4, <1>5

(* An attestation rewrites a row it has consumed or is consuming.             *)
LEMMA TimelyAttest ==
    ASSUME GateInv, TypeOK', TimelyInv, NEW r \in Requests,
           \/ \E s \in Sessions, b \in Builds : AttestClaim(r, s, b)
           \/ \E d \in {"allow", "deny"} : AttestRecord(r, d)
    PROVE  TimelyInv'
<1>a. TypeOK /\ clock \in Nat
  BY DEF GateInv, TypeOK
<1>1. ASSUME NEW s \in Sessions, NEW b \in Builds, AttestClaim(r, s, b)
      PROVE  TimelyInv'
  <2>a. /\ UNCHANGED <<clock, poll, deadline, reply, live>> /\ Untouched(s)
        /\ Timely(s) /\ Unclaimable(s) /\ rows[s] \in SessionRow
    BY <1>a, <1>1 DEF AttestClaim, Untouched, TypeOK, TimelyInv
  <2>1. CASE Claimable(rows[s], clock)
    <3>1. rows'[s] = ConsumeNonce(rows[s]) /\ Issued(s)
      BY <1>a, <1>1, <2>1 DEF AttestClaim, TypeOK, Claimable, Issued
    <3>2. Rewritten(rows[s], rows'[s], clock) /\ rows'[s].consumed
      BY <1>a, <2>a, <3>1, Rewrites, LoudStatements DEF Issued
    <3>3. Timely(s)'
      BY <2>a, <3>1, <3>2, TimelyRewrite
    <3>4. Unclaimable(s)'
      BY <3>2 DEF Unclaimable
    <3>5. QED
      BY <1>a, <2>a, <3>3, <3>4, TimelyOthers
  <2>2. CASE ~Claimable(rows[s], clock)
    <3>1. rows' = rows
      BY <1>1, <2>2 DEF AttestClaim
    <3>2. QED
      BY <1>a, <2>a, <3>1, TimelyFrame DEF TimelyInv
  <2>3. QED
    BY <2>1, <2>2
<1>2. ASSUME NEW d \in {"allow", "deny"}, AttestRecord(r, d)
      PROVE  TimelyInv'
  <2>1. PICK s \in Sessions : s = att[r].session /\ r \in Claimants(s)
    BY <1>2 DEF AttestRecord, GateInv, HandlersClaim, Claimants
  <2>2. Issued(s) /\ rows[s].consumed
    BY <2>1 DEF GateInv, ClaimsConsume
  <2>3. /\ rows'[s] = RecordVerdict(rows[s], d, FALSE, clock) /\ Untouched(s)
        /\ UNCHANGED <<clock, poll, deadline, reply, live>>
    BY <1>a, <1>2, <2>1 DEF AttestRecord, Untouched, TypeOK
  <2>4. rows[s] \in SessionRow /\ Timely(s)
    BY <1>a DEF TypeOK, TimelyInv
  <2>5. Rewritten(rows[s], rows'[s], clock)
    <3>1. \A e \in {"allow", "deny"}, f \in BOOLEAN :
             Rewritten(rows[s], RecordVerdict(rows[s], e, f, clock), clock)
      BY <1>a, <2>2, <2>4, Rewrites DEF Issued
    <3>2. QED
      BY <2>3, <3>1, Zenon
  <2>6. Timely(s)'
    BY <2>2, <2>3, <2>4, <2>5, TimelyRewrite
  <2>7. Unclaimable(s)'
    BY <2>2, <2>5 DEF Unclaimable, Rewritten
  <2>8. QED
    BY <1>a, <2>3, <2>6, <2>7, TimelyOthers
<1>3. QED
  BY <1>1, <1>2

(* A heartbeat comes from a companion whose attestation consumed the nonce.   *)
LEMMA TimelyHeartbeat ==
    ASSUME GateInv, TypeOK', TimelyInv, NEW s \in Sessions, NEW beat \in Beat,
           Heartbeat(s, beat)
    PROVE  TimelyInv'
<1>1. TypeOK /\ clock \in Nat /\ rows[s] \in SessionRow /\ Timely(s)
  BY DEF GateInv, TypeOK, TimelyInv
<1>2. Issued(s) /\ rows[s].consumed
  BY ClaimedIsConsumed DEF Heartbeat
<1>3. /\ rows'[s] = HeartbeatRow(rows[s], snapshot[s], beat) /\ Untouched(s)
      /\ UNCHANGED <<clock, poll, deadline, reply, live>>
  BY <1>1 DEF Heartbeat, Untouched, TypeOK
<1>4. Rewritten(rows[s], rows'[s], clock)
  <2>1. {"companion_outdated", "heartbeat_lost", "game_process_missing"}
            \subseteq TerminationReason
    BY DEF TerminationReason
  <2>2. QED
    BY <1>1, <1>2, <1>3, <2>1, Rewrites DEF HeartbeatRow, Issued
<1>5. Timely(s)'
  BY <1>1, <1>2, <1>3, <1>4, TimelyRewrite
<1>6. Unclaimable(s)'
  BY <1>2, <1>4 DEF Unclaimable, Rewritten
<1>7. QED
  BY <1>1, <1>3, <1>5, <1>6, TimelyOthers

(* The liveness route decides to remove a player for silence: their last      *)
(* heartbeat is after the poll's deadline, so interval and grace have passed   *)
(* since, and a nonce nobody claimed has run out.                              *)
LEMMA TimelyLiveness ==
    ASSUME GateInv, TypeOK', RowsGood, TimelyInv, NEW s \in Sessions,
           LivenessRead(s) \/ LivenessTerminate(s)
    PROVE  TimelyInv'
<1>a. /\ TypeOK /\ Timely(s) /\ Unclaimable(s)
      /\ rows[s].expiresAt \in Nat /\ deadline[s] \in Nat /\ clock \in Nat
      /\ NonceTTL \in Nat /\ PollTimeout \in Nat
      /\ HeartbeatInterval \in Nat /\ HeartbeatGrace \in Nat
  BY TimingAssumption DEF GateInv, TimelyInv, TypeOK, SessionRow
<1>1. CASE LivenessRead(s)
  <2>1. /\ Admitted(s) /\ ShouldKick(rows[s], clock) /\ rows' = rows
        /\ live'[s] = IF rows[s].state = "terminated" THEN "kicked" ELSE "kicking"
        /\ UNCHANGED <<clock, poll, deadline, reply>> /\ Untouched(s)
    BY <1>a, <1>1 DEF LivenessRead, Untouched, TypeOK
  <2>2. poll[s] # "none" /\ Issued(s)
    BY <2>1 DEF Admitted, GateInv, AnswerPending
  <2>3. CASE rows[s].state = "terminated"
    <3>1. Timely(s)'
      BY <1>a, <2>1, <2>2, <2>3 DEF Timely, Issued, Admitted
    <3>2. Unclaimable(s)'
      BY <1>a, <2>1, <2>3 DEF Unclaimable, Admitted
    <3>3. QED
      BY <1>a, <2>1, <3>1, <3>2, TimelyOthers
  <2>4. CASE rows[s].state # "terminated"
    <3>1. /\ rows[s].state = "active" /\ rows[s].lastBeat \in Nat
          /\ clock >= rows[s].lastBeat + HeartbeatInterval + HeartbeatGrace
      BY <1>a, <2>1, <2>4 DEF ShouldKick, RowsGood, RowGood
    <3>2. Timely(s)'
      BY <1>a, <2>1, <2>2, <3>1 DEF Timely, Issued, Admitted
    <3>3. ~rows[s].consumed => rows[s].expiresAt <= clock
      <4> SUFFICES ASSUME ~rows[s].consumed PROVE rows[s].expiresAt <= clock
        OBVIOUS
      <4>1. reply[s] = "allow_fail_open"
        BY <2>1, ClaimedIsConsumed DEF Admitted
      <4>2. clock >= deadline[s] + HeartbeatInterval + HeartbeatGrace
        BY <1>a, <3>1, <4>1 DEF Timely
      <4>3. rows[s].expiresAt + PollTimeout <= deadline[s] + NonceTTL
        BY <1>a, <2>2 DEF Timely
      <4>4. QED
        BY <1>a, <4>2, <4>3, KickOutlivesNonce
    <3>4. Unclaimable(s)'
      BY <2>1, <3>3 DEF Unclaimable
    <3>5. QED
      BY <1>a, <2>1, <3>2, <3>4, TimelyOthers
  <2>5. QED
    BY <2>3, <2>4
<1>2. CASE LivenessTerminate(s)
  <2>1. /\ live[s] = "kicking" /\ live'[s] = "kicked" /\ Untouched(s)
        /\ rows'[s] = TerminateSession(rows[s], "heartbeat_lost")
        /\ UNCHANGED <<clock, poll, deadline, reply>>
    BY <1>a, <1>2 DEF LivenessTerminate, Untouched, TypeOK
  <2>2. Admitted(s) /\ Issued(s) /\ poll[s] # "none"
    BY <1>a, <2>1 DEF Timely, Admitted, GateInv, AnswerPending
  <2>3. /\ rows'[s].state = "terminated" /\ rows'[s].consumed = rows[s].consumed
        /\ rows'[s].expiresAt = rows[s].expiresAt
    BY <1>a, <2>1, <2>2 DEF TerminateSession, Issued, TypeOK, SessionRow
  <2>4. Timely(s)'
    BY <1>a, <2>1, <2>2, <2>3 DEF Timely, Admitted, Issued
  <2>5. Unclaimable(s)'
    BY <1>a, <2>1, <2>2, <2>3 DEF Unclaimable
  <2>6. QED
    BY <1>a, <2>1, <2>4, <2>5, TimelyOthers
<1>3. QED
  BY <1>1, <1>2

(* The sweep rewrites many rows at once, none of an admitted session.          *)
LEMMA TimelySweep ==
    ASSUME GateInv, TypeOK', TimelyInv, Sweep
    PROVE  TimelyInv'
<1> SUFFICES ASSUME NEW s \in Sessions PROVE Timely(s)' /\ Unclaimable(s)'
  BY DEF TimelyInv
<1>1. /\ TypeOK /\ clock \in Nat /\ rows[s] \in SessionRow
      /\ Timely(s) /\ Unclaimable(s)
      /\ UNCHANGED <<clock, poll, deadline, reply, live>>
      /\ rows'[s] = ExpireStale(rows[s], clock)
  BY DEF GateInv, TypeOK, TimelyInv, Sweep
<1>2. CASE rows'[s] = rows[s]
  BY <1>1, <1>2, TimelyFrame
<1>3. CASE rows'[s] # rows[s]
  <2>1. Issued(s) /\ Rewritten(rows[s], rows'[s], clock)
    BY <1>1, <1>3, Rewrites DEF ExpireStale, Issued
  <2>2. Timely(s)'
    BY <1>1, <2>1, TimelyRewrite
  <2>3. /\ rows'[s].state = "expired" /\ rows'[s].consumed = rows[s].consumed
        /\ rows'[s].expiresAt = rows[s].expiresAt
    BY <1>1, <1>3 DEF ExpireStale, SessionRow
  <2>4. Unclaimable(s)'
    BY <1>1, <2>3 DEF Unclaimable, Admitted
  <2>5. QED
    BY <2>2, <2>4
<1>4. QED
  BY <1>2, <1>3

(* Every step keeps every session timely.                                     *)
LEMMA TimelyStep ==
    ASSUME GateInv, RowsGood, TimelyInv, [Next]_vars
    PROVE  TimelyInv'
<1>a. TypeOK /\ TypeOK'
  BY TypeStep DEF GateInv
<1>1. ASSUME NEW s \in Sessions,
             \/ IssueNonce(s) \/ PollStart(s) \/ PollAnswer(s) \/ PollExpire(s)
             \/ PollTimeOut(s) \/ PollFail(s)
      PROVE  TimelyInv'
  BY <1>a, <1>1, TimelyPoll
<1>2. ASSUME NEW s \in Sessions, LivenessRead(s) \/ LivenessTerminate(s)
      PROVE  TimelyInv'
  BY <1>a, <1>2, TimelyLiveness
<1>3. ASSUME NEW s \in Sessions, NEW beat \in Beat, Heartbeat(s, beat)
      PROVE  TimelyInv'
  BY <1>a, <1>3, TimelyHeartbeat
<1>4. ASSUME NEW r \in Requests,
             \/ \E s \in Sessions, b \in Builds : AttestClaim(r, s, b)
             \/ \E d \in {"allow", "deny"} : AttestRecord(r, d)
      PROVE  TimelyInv'
  BY <1>a, <1>4, TimelyAttest
<1>5. ASSUME Sweep PROVE TimelyInv'
  BY <1>a, <1>5, TimelySweep
<1>6. ASSUME clock' >= clock, UNCHANGED <<rows, poll, deadline, reply, live>>
      PROVE  TimelyInv'
  BY <1>a, <1>6, TimelyFrame DEF TimelyInv
<1>7. clock \in Nat
  BY <1>a DEF TypeOK
<1>8. ASSUME Tick PROVE TimelyInv'
  BY <1>6, <1>7, <1>8 DEF Tick
<1>9. ASSUME UNCHANGED <<clock, rows, poll, deadline, reply, live>>
      PROVE  TimelyInv'
  BY <1>6, <1>7, <1>9
<1>10. QED
  BY <1>1, <1>2, <1>3, <1>4, <1>5, <1>8, <1>9
     DEF Next, vars, ReadOutcome, CollectNonce, AttestStore, AttestFail,
         SetFailMode

LEMMA AlwaysTimely == Spec => []TimelyInv
<1>1. Init => TimelyInv
  BY DEF Init, TimelyInv, Timely, Unclaimable, Issued, Admitted, NoRow
<1>2. GateInv /\ RowsGood /\ TimelyInv /\ [Next]_vars => TimelyInv'
  BY TimelyStep
<1>3. QED
  BY <1>1, <1>2, GateInvariant, RowsAlwaysGood, PTL DEF Spec

(* The liveness route removes nobody for silence before interval and grace    *)
(* have passed since the nonce was issued and, after fail-open, since the     *)
(* poll's deadline.  Heartbeats that come later are not in it.                *)
THEOREM SilenceIsMeasuredFromIssue == Spec => []SilenceOutlastsGrace
<1>1. TimelyInv => SilenceOutlastsGrace
  BY DEF TimelyInv, Timely, SilenceOutlastsGrace
<1>2. QED
  BY <1>1, AlwaysTimely, PTL

(* consumeNonce, recordHeartbeat, recordVerdict of the poll, the sweep and    *)
(* terminateSession all leave the row of a removed player terminated.         *)
LEMMA KickStands ==
    ASSUME GateInv, RowsGood, TimelyInv, [Next]_vars, NEW x \in Sessions,
           live[x] = "kicked", rows[x].state = "terminated",
           rows'[x].state # "terminated"
    PROVE  \E r \in Requests : /\ att[r].phase = "stored"
                               /\ att[r].session = x
                               /\ att'[r].phase = "acked"
<1>a. /\ TypeOK /\ HandlersClaim /\ clock \in Nat /\ rows[x] \in SessionRow
      /\ rows = [s \in Sessions |-> rows[s]]
  BY DEF GateInv, TypeOK
<1>b. Admitted(x) /\ poll[x] = "answered" /\ Issued(x)
  BY DEF TimelyInv, Timely, Admitted, GateInv, AnswerPending
<1>c. ~Claimable(rows[x], clock)
  <2>1. rows[x].expiresAt \in Nat
    BY <1>a DEF SessionRow
  <2>2. QED
    BY <1>a, <1>b, <2>1 DEF TimelyInv, Unclaimable, Claimable
<1>1. ASSUME NEW s \in Sessions, IssueNonce(s) PROVE FALSE
  BY <1>a, <1>b, <1>1 DEF IssueNonce
<1>2. ASSUME NEW s \in Sessions, PollTimeOut(s) PROVE FALSE
  BY <1>a, <1>b, <1>2 DEF PollTimeOut
<1>3. ASSUME NEW s \in Sessions, LivenessTerminate(s) PROVE FALSE
  BY <1>a, <1>3 DEF LivenessTerminate, TerminateSession
<1>4. ASSUME NEW s \in Sessions, NEW beat \in Beat, Heartbeat(s, beat) PROVE FALSE
  <2>1. HeartbeatRow(rows[x], snapshot[x], beat) = rows[x]
    BY DEF HeartbeatRow, TerminateSession, RecordHeartbeat
  <2>2. rows'[x] = rows[x]
    BY <1>a, <1>4, <2>1 DEF Heartbeat
  <2>3. QED
    BY <2>2
<1>5. ASSUME NEW r \in Requests, NEW s \in Sessions, NEW b \in Builds,
             AttestClaim(r, s, b)
      PROVE  FALSE
  BY <1>a, <1>c, <1>5 DEF AttestClaim
<1>6. ASSUME Sweep PROVE FALSE
  BY <1>a, <1>6 DEF Sweep, ExpireStale
<1>7. ASSUME UNCHANGED rows PROVE FALSE
  BY <1>7
<1>8. ASSUME NEW r \in Requests, NEW d \in {"allow", "deny"}, AttestRecord(r, d)
      PROVE  /\ att[r].phase = "stored"
             /\ att[r].session = x
             /\ att'[r].phase = "acked"
  <2>1. att'[r].phase = "acked" /\ att[r].phase = "stored"
    BY <1>a, <1>8 DEF AttestRecord, TypeOK, AttestHandler
  <2>2. att[r].session = x
    BY <1>a, <1>8 DEF AttestRecord
  <2>3. QED
    BY <2>1, <2>2
<1>9. QED
  BY <1>1, <1>2, <1>3, <1>4, <1>5, <1>6, <1>7, <1>8
     DEF Next, vars, ReadOutcome, PollStart, PollAnswer, PollExpire, PollFail,
         LivenessRead, CollectNonce, AttestStore, AttestFail, SetFailMode, Tick

(* Once the resource was told to remove the player, only an attestation       *)
(* handler stuck since before its recordVerdict can bring the session back.   *)
THEOREM RemovalIsFinal == Spec => KickIsFinal
<1> DEFINE Stands == \A s \in Sessions :
              (live[s] = "kicked" /\ rows[s].state = "terminated") =>
                  \/ rows'[s].state = "terminated"
                  \/ \E r \in Requests : /\ att[r].phase = "stored"
                                         /\ att[r].session = s
                                         /\ att'[r].phase = "acked"
<1>1. GateInv /\ RowsGood /\ TimelyInv /\ [Next]_vars => [Stands]_vars
  BY KickStands
<1>2. QED
  BY <1>1, GateInvariant, RowsAlwaysGood, AlwaysTimely, PTL DEF Spec, KickIsFinal

-----------------------------------------------------------------------------
(* The refinement of Admission.  Permits and evaluations as the mapping sees  *)
(* them, and what leaves them alone.                                          *)
Permits == [s \in Sessions |-> PermitOf(rows[s])]
Evaluations == [s \in Sessions |-> EvaluationsOf(s)]

LEMMA PermitsStay ==
    ASSUME clock' = clock, \A s \in Sessions : SameClaim(rows[s], rows'[s])
    PROVE  Permits' = Permits
<1>1. \A s \in Sessions : PermitOf(rows[s])' = PermitOf(rows[s])
  BY DEF PermitOf, SameClaim
<1>2. QED
  BY <1>1 DEF Permits

LEMMA EvaluationsKept ==
    ASSUME \A s \in Sessions, d \in Decision : Evaluated(s, d)' <=> Evaluated(s, d)
    PROVE  Evaluations' = Evaluations
<1>1. \A s \in Sessions : EvaluationsOf(s)' = EvaluationsOf(s)
  BY DEF EvaluationsOf, Decision
<1>2. QED
  BY <1>1 DEF Evaluations

LEMMA GateStutters ==
    ASSUME clock' = clock, UNCHANGED <<att, reply>>,
           \A s \in Sessions : SameClaim(rows[s], rows'[s])
    PROVE  UNCHANGED Gate!avars
<1>1. Permits' = Permits
  BY PermitsStay
<1>2. Evaluations' = Evaluations
  BY EvaluationsKept DEF Evaluated
<1>3. QED
  BY <1>1, <1>2 DEF Gate!avars, Permits, Evaluations

(* Issuing a nonce opens a permit.                                            *)
LEMMA IssueRefines ==
    ASSUME GateInv, NEW s \in Sessions, IssueNonce(s)
    PROVE  Gate!Issue(s)
<1>1. /\ rows[s].state = "unissued" /\ rows'[s] = CreateSession(clock)
      /\ \A x \in Sessions \ {s} : rows'[x] = rows[x]
      /\ UNCHANGED <<clock, att, reply>>
  BY DEF IssueNonce, Issued, GateInv, TypeOK
<1>2. PermitOf(rows[s]) = "none" /\ PermitOf(rows[s])' = "open"
  <2>1. clock \in Nat /\ NonceTTL \in Nat \ {0}
    BY TimingAssumption DEF GateInv, TypeOK
  <2>2. QED
    BY <1>1, <2>1 DEF PermitOf, CreateSession, NoRow
<1>3. \A x \in Sessions \ {s} : PermitOf(rows[x])' = PermitOf(rows[x])
  BY <1>1 DEF PermitOf
<1>4. Permits' = [Permits EXCEPT ![s] = "open"]
  BY <1>2, <1>3 DEF Permits
<1>5. Evaluations' = Evaluations
  BY <1>1, EvaluationsKept DEF Evaluated
<1>6. QED
  BY <1>1, <1>2, <1>4, <1>5 DEF Gate!Issue, Permits, Evaluations

(* A claim uses the permit; a refused request is invisible.                   *)
LEMMA ClaimRefines ==
    ASSUME GateInv, NEW r \in Requests, NEW s \in Sessions, NEW b \in Builds,
           AttestClaim(r, s, b)
    PROVE  Gate!Claim(s) \/ UNCHANGED Gate!avars
<1>a. TypeOK /\ clock' = clock /\ reply' = reply
  BY DEF GateInv, AttestClaim
<1>b. Evaluations' = Evaluations
  <2>1. \A x \in Sessions, d \in Decision : Evaluated(x, d)' <=> Evaluated(x, d)
    BY <1>a DEF AttestClaim, Evaluated, TypeOK
  <2>2. QED
    BY <2>1, EvaluationsKept
<1>1. CASE Claimable(rows[s], clock)
  <2>1. /\ rows'[s] = ConsumeNonce(rows[s])
        /\ \A x \in Sessions \ {s} : rows'[x] = rows[x]
    BY <1>a, <1>1 DEF AttestClaim, TypeOK
  <2>2. PermitOf(rows[s]) = "open"
    BY <1>1 DEF PermitOf, Claimable
  <2>3. PermitOf(rows[s])' = "claimed"
    BY <1>a, <2>1 DEF PermitOf, ConsumeNonce, TypeOK, SessionRow
  <2>4. \A x \in Sessions \ {s} : PermitOf(rows[x])' = PermitOf(rows[x])
    BY <1>a, <2>1 DEF PermitOf
  <2>5. Permits' = [Permits EXCEPT ![s] = "claimed"]
    BY <2>3, <2>4 DEF Permits
  <2>6. QED
    BY <1>a, <1>b, <2>2, <2>5 DEF Gate!Claim, Permits, Evaluations
<1>2. CASE ~Claimable(rows[s], clock)
  <2>1. Permits' = Permits
    BY <1>a, <1>2, PermitsStay DEF AttestClaim, SameClaim
  <2>2. QED
    BY <1>a, <1>b, <2>1 DEF Gate!avars, Permits, Evaluations
<1>3. QED
  BY <1>1, <1>2

(* recordVerdict of an attestation is the one evaluation of its permit.       *)
LEMMA RecordRefines ==
    ASSUME GateInv, NEW r \in Requests, NEW d \in {"allow", "deny"},
           AttestRecord(r, d)
    PROVE  \E s \in Sessions : Gate!Evaluate(s, d)
<1>a. TypeOK /\ UNCHANGED <<clock, reply>>
  BY DEF GateInv, AttestRecord
<1>1. PICK s \in Sessions : s = att[r].session /\ r \in Claimants(s)
  BY DEF AttestRecord, GateInv, HandlersClaim, Claimants
<1>2. Issued(s) /\ rows[s].consumed
  BY <1>1 DEF GateInv, ClaimsConsume
<1>3. PermitOf(rows[s]) = "claimed"
  BY <1>2 DEF PermitOf, Issued
<1>4. /\ att[r].phase = "stored"
      /\ att'[r].phase = "acked" /\ att'[r].session = s /\ att'[r].decision = d
      /\ \A x \in Requests \ {r} : att'[x] = att[x]
  BY <1>a, <1>1 DEF AttestRecord, TypeOK, AttestHandler
<1>5. \A q \in Requests : att[q].phase = "acked" => att[q].session # s
  BY <1>1, <1>4 DEF GateInv, SingleClaim, Claimants
<1>6. EvaluationsOf(s) = {}
  BY <1>5 DEF EvaluationsOf, Evaluated
<1>7. EvaluationsOf(s)' = {d}
  <2>1. \A e : Evaluated(s, e)' <=> e = d
    BY <1>4, <1>5 DEF Evaluated
  <2>2. QED
    BY <2>1 DEF EvaluationsOf
<1>8. \A x \in Sessions \ {s} : EvaluationsOf(x)' = EvaluationsOf(x)
  <2>1. \A x \in Sessions \ {s}, e \in {"allow", "deny"} :
           Evaluated(x, e)' <=> Evaluated(x, e)
    BY <1>1, <1>4 DEF Evaluated
  <2>2. QED
    BY <2>1 DEF EvaluationsOf
<1>9. Evaluations' = [Evaluations EXCEPT ![s] = {d}]
  BY <1>7, <1>8 DEF Evaluations
<1>10. Permits' = Permits
  <2>1. \A x \in Sessions : SameClaim(rows[x], rows'[x])
    BY <1>a, <1>1, <1>2 DEF AttestRecord, SameClaim, RecordVerdict, TypeOK,
       SessionRow, Issued
  <2>2. QED
    BY <1>a, <2>1, PermitsStay
<1>11. QED
  BY <1>a, <1>3, <1>6, <1>9, <1>10 DEF Gate!Evaluate, Permits, Evaluations

(* The poll answers once: with the evaluation it found, or by timeout.        *)
LEMMA AnswerRefines ==
    ASSUME GateInv, NEW s \in Sessions
    PROVE  /\ PollAnswer(s) => Gate!AnswerEvaluated(s)
           /\ PollTimeOut(s) => Gate!AnswerByTimeout(s)
<1>a. TypeOK /\ clock \in Nat
  BY DEF GateInv, TypeOK
<1>1. ASSUME PollAnswer(s) PROVE Gate!AnswerEvaluated(s)
  <2>1. reply[s] = "none" /\ rows[s].verdict \in {"allow", "deny"}
    BY <1>a, <1>1 DEF PollAnswer, GateInv, AnswerPending, TypeOK, SessionRow,
       Decision
  <2>2. ~rows[s].failOpen /\ rows[s].verdict \in EvaluationsOf(s)
    BY <1>1, <2>1 DEF GateInv, AnswerPending, EvaluationsOf
  <2>3. reply' = [reply EXCEPT ![s] = rows[s].verdict]
    BY <1>1, <2>2 DEF PollAnswer, ReplyOf
  <2>4. Permits' = Permits /\ Evaluations' = Evaluations
    BY <1>1, PermitsStay, EvaluationsKept DEF PollAnswer, SameClaim, Evaluated
  <2>5. QED
    BY <2>1, <2>2, <2>3, <2>4 DEF Gate!AnswerEvaluated, Permits, Evaluations
<1>2. ASSUME PollTimeOut(s) PROVE Gate!AnswerByTimeout(s)
  <2>1. reply[s] = "none" /\ Issued(s)
    BY <1>2 DEF PollTimeOut, GateInv, AnswerPending
  <2>2. PermitOf(rows[s]) # "none"
    BY <2>1 DEF PermitOf, Issued
  <2>3. \E a \in {"deny", "allow_fail_open"} : reply' = [reply EXCEPT ![s] = a]
    BY <1>2 DEF PollTimeOut, TimeoutVerdict, ReplyOf
  <2>4. \A x \in Sessions : SameClaim(rows[x], rows'[x])
    BY <1>a, <1>2, <2>1 DEF PollTimeOut, SameClaim, RecordVerdict, TypeOK,
       SessionRow, Issued
  <2>5. Permits' = Permits /\ Evaluations' = Evaluations
    BY <1>2, <2>4, PermitsStay, EvaluationsKept DEF PollTimeOut, Evaluated
  <2>6. QED
    BY <2>1, <2>2, <2>3, <2>5 DEF Gate!AnswerByTimeout, Permits, Evaluations
<1>3. QED
  BY <1>1, <1>2

(* When time passes, the permits whose moment it is lapse.                    *)
LEMMA TickRefines ==
    ASSUME GateInv, Tick
    PROVE  \E S \in SUBSET Sessions : Gate!Lapse(S)
<1> DEFINE S == {s \in Sessions : /\ PermitOf(rows[s]) = "open"
                                  /\ PermitOf(rows[s])' = "lapsed"}
<1>1. TypeOK /\ clock' = clock + 1 /\ UNCHANGED <<rows, att, reply>>
  BY DEF GateInv, Tick
<1>2. \A s \in Sessions : s \notin S => PermitOf(rows[s])' = PermitOf(rows[s])
  <2> SUFFICES ASSUME NEW s \in Sessions, s \notin S
               PROVE  PermitOf(rows[s])' = PermitOf(rows[s])
    OBVIOUS
  <2>1. clock \in Nat /\ rows[s].expiresAt \in Nat /\ rows'[s] = rows[s]
    BY <1>1 DEF TypeOK, SessionRow
  <2>2. QED
    BY <1>1, <2>1 DEF PermitOf
<1>3. Permits' = [s \in Sessions |-> IF s \in S THEN "lapsed" ELSE Permits[s]]
  BY <1>2 DEF Permits
<1>4. Evaluations' = Evaluations
  BY <1>1, EvaluationsKept DEF Evaluated
<1>5. \A s \in S : Permits[s] = "open"
  BY DEF Permits
<1> HIDE DEF S
<1>6. Gate!Lapse(S)
  BY <1>1, <1>3, <1>4, <1>5 DEF Gate!Lapse, Permits, Evaluations
<1>7. S \in SUBSET Sessions
  BY DEF S
<1>8. QED
  BY <1>6, <1>7

(* Every step of the handlers is a step of the admission, or invisible.       *)
LEMMA GateStepRefines ==
    ASSUME GateInv, [Next]_vars
    PROVE  [Gate!ANext]_(Gate!avars)
<1> DEFINE Goal == [Gate!ANext]_(Gate!avars)
<1>a. TypeOK /\ clock \in Nat /\ \A x \in Sessions : rows[x] \in SessionRow
  BY DEF GateInv, TypeOK
<1>b. rows = [x \in Sessions |-> rows[x]]
  BY <1>a DEF TypeOK
<1>1. ASSUME NEW s \in Sessions, IssueNonce(s) PROVE Goal
  BY <1>1, IssueRefines DEF Gate!ANext
<1>2. ASSUME NEW r \in Requests, NEW s \in Sessions, NEW b \in Builds,
             AttestClaim(r, s, b)
      PROVE  Goal
  BY <1>2, ClaimRefines DEF Gate!ANext
<1>3. ASSUME NEW r \in Requests, NEW d \in {"allow", "deny"}, AttestRecord(r, d)
      PROVE  Goal
  BY <1>3, RecordRefines DEF Gate!ANext, Gate!Judgement
<1>4. ASSUME NEW s \in Sessions, PollAnswer(s) \/ PollTimeOut(s) PROVE Goal
  BY <1>4, AnswerRefines DEF Gate!ANext
<1>5. ASSUME Tick PROVE Goal
  BY <1>5, TickRefines DEF Gate!ANext
<1>6. ASSUME NEW s \in Sessions, LivenessTerminate(s) PROVE Goal
  <2>1. \A x \in Sessions : SameClaim(rows[x], rows'[x])
    BY <1>a, <1>b, <1>6 DEF LivenessTerminate, TerminateSession, SameClaim,
       SessionRow
  <2>2. QED
    BY <1>6, <2>1, GateStutters DEF LivenessTerminate
<1>7. ASSUME NEW s \in Sessions, NEW beat \in Beat, Heartbeat(s, beat) PROVE Goal
  <2>1. SameClaim(rows[s], HeartbeatRow(rows[s], snapshot[s], beat))
    BY <1>a, QuietHeartbeat
  <2>2. \A x \in Sessions : SameClaim(rows[x], rows'[x])
    <3>1. /\ rows'[s] = HeartbeatRow(rows[s], snapshot[s], beat)
          /\ \A x \in Sessions \ {s} : rows'[x] = rows[x]
      BY <1>b, <1>7 DEF Heartbeat
    <3>2. QED
      BY <2>1, <3>1 DEF SameClaim
  <2>3. QED
    BY <1>7, <2>2, GateStutters DEF Heartbeat
<1>8. ASSUME Sweep PROVE Goal
  <2>1. \A x \in Sessions : SameClaim(rows[x], rows'[x])
    BY <1>a, <1>8, QuietStatements DEF Sweep
  <2>2. QED
    BY <1>8, <2>1, GateStutters DEF Sweep
<1>9. ASSUME UNCHANGED <<clock, rows, reply, att>> PROVE Goal
  BY <1>9, GateStutters DEF SameClaim
<1>10. ASSUME NEW r \in Requests, AttestStore(r) \/ AttestFail(r) PROVE Goal
  <2>1. \A x \in Requests :
           /\ att'[x].session = att[x].session
           /\ att'[x].decision = att[x].decision
           /\ (att'[x].phase = "acked") <=> (att[x].phase = "acked")
    <3>1. CASE AttestStore(r)
      BY <1>a, <3>1 DEF AttestStore, TypeOK, AttestHandler
    <3>2. CASE AttestFail(r)
      BY <1>a, <3>2 DEF AttestFail, TypeOK, AttestHandler
    <3>3. QED
      BY <1>10, <3>1, <3>2
  <2>2. Evaluations' = Evaluations
    BY <2>1, EvaluationsKept DEF Evaluated
  <2>3. Permits' = Permits
    BY <1>10, PermitsStay DEF AttestStore, AttestFail, SameClaim
  <2>4. QED
    BY <1>10, <2>2, <2>3 DEF AttestStore, AttestFail, Gate!avars, Permits,
       Evaluations
<1> HIDE DEF Goal
<1>11. Goal
  BY <1>1, <1>2, <1>3, <1>4, <1>5, <1>6, <1>7, <1>8, <1>9, <1>10
     DEF Next, vars, ReadOutcome, PollStart, PollExpire, PollFail, LivenessRead,
         CollectNonce, SetFailMode
<1>12. QED
  BY <1>11 DEF Goal

(* The handlers of the connect gate, interleaved as they may, are an          *)
(* implementation of Admission: one claim, one evaluation, one answer.        *)
THEOREM GateImplementsAdmission == Spec => ImplementsAdmission
<1>1. Init => Gate!AInit
  BY DEF Init, Gate!AInit, PermitOf, EvaluationsOf, Evaluated, IdleHandler, NoRow
<1>2. GateInv /\ [Next]_vars => [Gate!ANext]_(Gate!avars)
  BY GateStepRefines
<1>3. QED
  BY <1>1, <1>2, GateInvariant, PTL DEF Spec, ImplementsAdmission, Gate!ASpec
=============================================================================
