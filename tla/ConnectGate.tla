----------------------------- MODULE ConnectGate -----------------------------
(***************************************************************************)
(* The backend's request handlers around the session table: the connect     *)
(* gate (nonce, companion poll, attestation, verdict long poll) and the     *)
(* in-game phase (heartbeat, liveness), with the sweep and the operator's   *)
(* policy command.                                                          *)
(*                                                                          *)
(* The handlers are asynchronous functions over one connection pool and no  *)
(* transaction: between two awaited statements of one handler any other     *)
(* handler may run.  A handler that reads a row and acts on it later is     *)
(* therefore split in two actions.  The environment (resource and companion)*)
(* may send its requests at any time after it can know what they contain.   *)
(* All clocks are the one variable clock, advanced by Tick.                 *)
(***************************************************************************)
EXTENDS SessionTable, FiniteSets

CONSTANTS Sessions,   \* connect attempts, one row each
          Requests,   \* attestation requests that may reach the backend
          Builds,     \* companion build hashes
          Addresses,  \* network origins
          GameIp,     \* the origin each session was issued for
          NoSession,  \* the session of a request that has not arrived
          NoBuild,    \* no snapshot stored
          MaxClock    \* bound on the clock

ASSUME GateAssumption ==
    /\ NoSession \notin Sessions
    /\ NoBuild \notin Builds
    /\ GameIp \in [Sessions -> Addresses]
    /\ MaxClock \in Nat

(* A nonce (30 s) has run out before silence can remove the player its poll  *)
(* let in (20 + 120 + 90 s).  Only KickIsFinal rests on it.                  *)
ASSUME KickOutlivesNonce ==
    NonceTTL <= PollTimeout + HeartbeatInterval + HeartbeatGrace

VARIABLES clock,
          failMode,   \* the tenant's fail mode
          rows,       \* attestation_sessions
          snapshot,   \* build hash of the stored snapshot, per session
          held,       \* nonces the companion has been handed
          att,        \* attestation handlers
          poll,       \* phase of the verdict long poll
          deadline,   \* when that poll gives up
          pollMode,   \* the fail mode that poll read when it authenticated
          reply,      \* what that poll answered
          live,       \* liveness handler: idle, kicking (decided), kicked
          outcome     \* what the companion was told about its attestation

vars == <<clock, failMode, rows, snapshot, held, att, poll, deadline,
          pollMode, reply, live, outcome>>

-----------------------------------------------------------------------------
(* Handlers of one attestation, in the order of processAttestation.        *)
AttestPhase == {"idle", "claimed", "stored", "acked", "refused", "failed"}
AttestHandler == [phase    : AttestPhase,
                  session  : Sessions \cup {NoSession},
                  build    : Builds \cup {NoBuild},
                  decision : Decision]
IdleHandler == [phase |-> "idle", session |-> NoSession,
                build |-> NoBuild, decision |-> "pending"]

PollPhase == {"none", "waiting", "deciding", "answered", "failed"}
Reply == {"none", "allow", "deny", "allow_fail_open"}

(* What toVerdict and timeoutVerdict put on the wire.                      *)
ReplyOf(decision, failOpen) ==
    IF decision = "allow" /\ failOpen THEN "allow_fail_open" ELSE decision

Issued(s) == rows[s].state # "unissued"
Admitted(s) == reply[s] \in {"allow", "allow_fail_open"}

(* The companion learns a session id from the acknowledgement only.        *)
Acked(s) == \E r \in Requests : att[r].phase = "acked" /\ att[r].session = s

(* Requests that claimed the nonce of s, whatever became of them.          *)
Claimants(s) ==
    {r \in Requests : /\ att[r].session = s
                      /\ att[r].phase \in {"claimed", "stored", "acked", "failed"}}

-----------------------------------------------------------------------------
Init ==
    /\ clock = 0
    /\ failMode \in FailMode
    /\ rows = [s \in Sessions |-> NoRow]
    /\ snapshot = [s \in Sessions |-> NoBuild]
    /\ held = {}
    /\ att = [r \in Requests |-> IdleHandler]
    /\ poll = [s \in Sessions |-> "none"]
    /\ deadline = [s \in Sessions |-> 0]
    /\ pollMode = [s \in Sessions |-> "fail_open"]
    /\ reply = [s \in Sessions |-> "none"]
    /\ live = [s \in Sessions |-> "idle"]
    /\ outcome = [s \in Sessions |-> "none"]

(* POST /v1/sessions/nonce.  Issued early enough that its poll fits the    *)
(* bounded clock.                                                          *)
IssueNonce(s) ==
    /\ ~Issued(s)
    /\ clock + PollTimeout <= MaxClock
    /\ rows' = [rows EXCEPT ![s] = CreateSession(clock)]
    /\ UNCHANGED <<clock, failMode, snapshot, held, att, poll, deadline,
                   pollMode, reply, live, outcome>>

(* POST /v1/companion/pending: hands out the nonce when exactly one session *)
(* of the address is open.  No column of the row changes.  It is the only   *)
(* way a nonce reaches the companion during a connect: the client event the *)
(* resource also sends finds no client script running yet.                  *)
OpenFor(a) == {s \in Sessions : GameIp[s] = a /\ Claimable(rows[s], clock)}

CollectNonce(a) ==
    \E s \in Sessions :
        /\ OpenFor(a) = {s}
        /\ held' = held \cup {s}
        /\ UNCHANGED <<clock, failMode, rows, snapshot, att, poll, deadline,
                       pollMode, reply, live, outcome>>

-----------------------------------------------------------------------------
(* POST /v1/attest, first statement: consumeNonce.  The claim succeeds, or  *)
(* the request is refused as expired or reused.                             *)
AttestClaim(r, s, b) ==
    /\ att[r].phase = "idle"
    /\ s \in held
    /\ IF Claimable(rows[s], clock)
       THEN /\ rows' = [rows EXCEPT ![s] = ConsumeNonce(@)]
            /\ att' = [att EXCEPT ![r] = [phase |-> "claimed", session |-> s,
                                          build |-> b, decision |-> "pending"]]
       ELSE /\ att' = [att EXCEPT ![r] = [phase |-> "refused", session |-> s,
                                          build |-> b, decision |-> "pending"]]
            /\ UNCHANGED rows
    /\ UNCHANGED <<clock, failMode, snapshot, held, poll, deadline, pollMode,
                   reply, live, outcome>>

(* Second statement: storeSnapshot, before anything is judged.             *)
AttestStore(r) ==
    /\ att[r].phase = "claimed"
    /\ snapshot' = [snapshot EXCEPT ![att[r].session] = att[r].build]
    /\ att' = [att EXCEPT ![r].phase = "stored"]
    /\ UNCHANGED <<clock, failMode, rows, held, poll, deadline, pollMode,
                   reply, live, outcome>>

(* The rest: the accepted-build lookup and evaluatePolicy yield a decision  *)
(* from the snapshot alone, recordVerdict writes it, and the handler        *)
(* acknowledges without naming it.                                          *)
AttestRecord(r, d) ==
    /\ att[r].phase = "stored"
    /\ rows' = [rows EXCEPT ![att[r].session] =
                    RecordVerdict(@, d, FALSE, clock)]
    /\ att' = [att EXCEPT ![r] = [@ EXCEPT !.phase = "acked", !.decision = d]]
    /\ UNCHANGED <<clock, failMode, snapshot, held, poll, deadline, pollMode,
                   reply, live, outcome>>

(* A statement after the claim throws, or the process dies.                *)
AttestFail(r) ==
    /\ att[r].phase \in {"claimed", "stored"}
    /\ att' = [att EXCEPT ![r].phase = "failed"]
    /\ UNCHANGED <<clock, failMode, rows, snapshot, held, poll, deadline,
                   pollMode, reply, live, outcome>>

(* POST /v1/companion/outcome, when it has a verdict to report.            *)
ReadOutcome(s) ==
    /\ Acked(s)
    /\ rows[s].verdict # "pending"
    /\ outcome' = [outcome EXCEPT ![s] = rows[s].verdict]
    /\ UNCHANGED <<clock, failMode, rows, snapshot, held, att, poll, deadline,
                   pollMode, reply, live>>

-----------------------------------------------------------------------------
(* POST /v1/sessions/verdict: authenticate (which reads the tenant's fail   *)
(* mode) and fix the deadline.                                              *)
PollStart(s) ==
    /\ Issued(s)
    /\ poll[s] = "none"
    /\ clock + PollTimeout <= MaxClock
    /\ poll' = [poll EXCEPT ![s] = "waiting"]
    /\ deadline' = [deadline EXCEPT ![s] = clock + PollTimeout]
    /\ pollMode' = [pollMode EXCEPT ![s] = failMode]
    /\ UNCHANGED <<clock, failMode, rows, snapshot, held, att, reply, live,
                   outcome>>

(* One turn of the loop that finds a verdict.                              *)
PollAnswerUnchecked(s) ==
    /\ poll[s] = "waiting"
    /\ poll' = [poll EXCEPT ![s] = "answered"]
    /\ reply' = [reply EXCEPT ![s] =
                     ReplyOf(rows[s].verdict, rows[s].failOpen)]
    /\ UNCHANGED <<clock, failMode, rows, snapshot, held, att, deadline,
                   pollMode, live, outcome>>
PollAnswer(s) ==
    /\ poll[s] = "waiting"
    /\ rows[s].verdict # "pending"
    /\ poll' = [poll EXCEPT ![s] = "answered"]
    /\ reply' = [reply EXCEPT ![s] =
                     ReplyOf(rows[s].verdict, rows[s].failOpen)]
    /\ UNCHANGED <<clock, failMode, rows, snapshot, held, att, deadline,
                   pollMode, live, outcome>>

(* One turn that finds none and is past the deadline.                      *)
PollExpireUnclaimed(s) ==
    /\ poll[s] = "waiting"
    /\ rows[s].verdict = "pending" /\ ~rows[s].consumed
    /\ clock >= deadline[s]
    /\ poll' = [poll EXCEPT ![s] = "deciding"]
    /\ UNCHANGED <<clock, failMode, rows, snapshot, held, att, deadline,
                   pollMode, reply, live, outcome>>
PollExpire(s) ==
    /\ poll[s] = "waiting"
    /\ rows[s].verdict = "pending"
    /\ clock >= deadline[s]
    /\ poll' = [poll EXCEPT ![s] = "deciding"]
    /\ UNCHANGED <<clock, failMode, rows, snapshot, held, att, deadline,
                   pollMode, reply, live, outcome>>

(* Its write, on a row that may have changed since that read.              *)
PollTimeOut(s) ==
    LET verdict == TimeoutVerdict(pollMode[s])
    IN  /\ poll[s] = "deciding"
        /\ rows' = [rows EXCEPT ![s] =
                        RecordVerdict(@, verdict.decision, verdict.failOpen, clock)]
        /\ poll' = [poll EXCEPT ![s] = "answered"]
        /\ reply' = [reply EXCEPT ![s] =
                         ReplyOf(verdict.decision, verdict.failOpen)]
        /\ UNCHANGED <<clock, failMode, snapshot, held, att, deadline,
                       pollMode, live, outcome>>

(* The poll dies between two statements; the resource sees an error.       *)
PollFail(s) ==
    /\ poll[s] \in {"waiting", "deciding"}
    /\ poll' = [poll EXCEPT ![s] = "failed"]
    /\ UNCHANGED <<clock, failMode, rows, snapshot, held, att, deadline,
                   pollMode, reply, live, outcome>>

-----------------------------------------------------------------------------
(* POST /v1/sessions/heartbeat, its checks in order.  What it reads before  *)
(* its one write, the stored build, is written once and before the session  *)
(* id is known to the sender, so the handler is one step.                   *)
Beat == [build : Builds, closing : BOOLEAN, gamePresent : BOOLEAN]

HeartbeatRow(row, stored, beat) ==
    IF stored # NoBuild /\ stored # beat.build
    THEN TerminateSession(row, "companion_outdated")
    ELSE IF beat.closing THEN TerminateSession(row, "heartbeat_lost")
    ELSE IF ~beat.gamePresent THEN TerminateSession(row, "game_process_missing")
    ELSE RecordHeartbeat(row, clock)

Heartbeat(s, beat) ==
    /\ Acked(s)
    /\ rows' = [rows EXCEPT ![s] = HeartbeatRow(@, snapshot[s], beat)]
    /\ UNCHANGED <<clock, failMode, snapshot, held, att, poll, deadline,
                   pollMode, reply, live, outcome>>

(* GET /v1/sessions/:id/liveness for a player the gate let in: the read and *)
(* the decision.  A row already terminated needs no write.                  *)
LivenessRead(s) ==
    /\ Admitted(s)
    /\ live[s] = "idle"
    /\ ShouldKick(rows[s], clock)
    /\ live' = [live EXCEPT ![s] = IF rows[s].state = "terminated"
                                   THEN "kicked" ELSE "kicking"]
    /\ UNCHANGED <<clock, failMode, rows, snapshot, held, att, poll, deadline,
                   pollMode, reply, outcome>>

(* The write and the answer of a liveness read that decided to kick.       *)
LivenessTerminate(s) ==
    /\ live[s] = "kicking"
    /\ rows' = [rows EXCEPT ![s] = TerminateSession(@, "heartbeat_lost")]
    /\ live' = [live EXCEPT ![s] = "kicked"]
    /\ UNCHANGED <<clock, failMode, snapshot, held, att, poll, deadline,
                   pollMode, reply, outcome>>

(* expireStaleSessions: one UPDATE over the whole table.                   *)
Sweep ==
    /\ rows' = [s \in Sessions |-> ExpireStale(rows[s], clock)]
    /\ rows' # rows
    /\ UNCHANGED <<clock, failMode, snapshot, held, att, poll, deadline,
                   pollMode, reply, live, outcome>>

(* The operator's policy command.                                          *)
SetFailMode(mode) ==
    /\ mode # failMode
    /\ failMode' = mode
    /\ UNCHANGED <<clock, rows, snapshot, held, att, poll, deadline,
                   pollMode, reply, live, outcome>>

Tick ==
    /\ clock < MaxClock
    /\ clock' = clock + 1
    /\ UNCHANGED <<failMode, rows, snapshot, held, att, poll, deadline,
                   pollMode, reply, live, outcome>>

Next ==
    \/ \E s \in Sessions :
          \/ IssueNonce(s) \/ ReadOutcome(s)
          \/ PollStart(s) \/ PollAnswer(s) \/ PollExpire(s)
          \/ PollTimeOut(s) \/ PollFail(s)
          \/ LivenessRead(s) \/ LivenessTerminate(s)
          \/ \E beat \in Beat : Heartbeat(s, beat)
    \/ \E a \in Addresses : CollectNonce(a)
    \/ \E r \in Requests :
          \/ AttestStore(r) \/ AttestFail(r)
          \/ \E s \in Sessions, b \in Builds : AttestClaim(r, s, b)
          \/ \E d \in {"allow", "deny"} : AttestRecord(r, d)
    \/ Sweep
    \/ \E mode \in FailMode : SetFailMode(mode)
    \/ Tick

Spec == Init /\ [][Next]_vars

(* The event loop keeps turning an open long poll, and time passes.        *)
FairSpec ==
    /\ Spec
    /\ WF_vars(Tick)
    /\ \A s \in Sessions :
          WF_vars(PollAnswer(s) \/ PollExpire(s) \/ PollTimeOut(s))

-----------------------------------------------------------------------------
(* Every column and every handler variable holds a value of its type.      *)
TypeOK ==
    /\ clock \in Nat
    /\ failMode \in FailMode
    /\ rows \in [Sessions -> SessionRow]
    /\ snapshot \in [Sessions -> Builds \cup {NoBuild}]
    /\ held \subseteq Sessions
    /\ att \in [Requests -> AttestHandler]
    /\ poll \in [Sessions -> PollPhase]
    /\ deadline \in [Sessions -> Nat]
    /\ pollMode \in [Sessions -> FailMode]
    /\ reply \in [Sessions -> Reply]
    /\ live \in [Sessions -> {"idle", "kicking", "kicked"}]
    /\ outcome \in [Sessions -> {"none", "allow", "deny"}]

(* consumeNonce claims a nonce for exactly one attestation, however many    *)
(* requests carry it and however their statements interleave.              *)
SingleClaim ==
    \A s \in Sessions : \A r1, r2 \in Claimants(s) : r1 = r2

(* Why: a request that claimed a nonce left its mark in the row, where the   *)
(* next claim will find it.                                                  *)
ClaimsConsume ==
    \A s \in Sessions : Claimants(s) # {} => Issued(s) /\ rows[s].consumed

(* A handler past its first statement knows the session it is about.        *)
HandlersClaim ==
    \A r \in Requests :
        att[r].phase # "idle" => att[r].session \in Sessions

(* Some attestation of this session was judged d.                          *)
Evaluated(s, d) ==
    \E r \in Requests : /\ att[r].phase = "acked"
                        /\ att[r].session = s
                        /\ att[r].decision = d

(* The poll of s found no verdict by its deadline, under this fail mode.    *)
TimedOut(s, mode) == pollMode[s] = mode /\ clock >= deadline[s]

(* What the verdict poll tells the resource is the policy's judgement of    *)
(* the one attestation that claimed this nonce, or the timeout verdict of   *)
(* the fail mode the poll read, given no earlier than its deadline.         *)
AnswerJustified ==
    \A s \in Sessions :
        /\ reply[s] = "allow" => Evaluated(s, "allow")
        /\ reply[s] = "allow_fail_open" => TimedOut(s, "fail_open")
        /\ reply[s] = "deny" =>
              Evaluated(s, "deny") \/ TimedOut(s, "fail_closed")

(* Why: until the poll answers, the only verdict its row can hold is an     *)
(* evaluation; and a poll about to time out is past its deadline.           *)
AnswerPending ==
    \A s \in Sessions :
        /\ reply[s] # "none" => poll[s] = "answered"
        /\ poll[s] # "none" => Issued(s)
        /\ poll[s] = "deciding" => clock >= deadline[s]
        /\ (reply[s] = "none" /\ rows[s].verdict # "pending") =>
              ~rows[s].failOpen /\ Evaluated(s, rows[s].verdict)

(* The inductive invariant of the gate's proofs.                            *)
GateInv ==
    /\ TypeOK
    /\ ClaimsConsume /\ SingleClaim /\ HandlersClaim
    /\ AnswerPending /\ AnswerJustified

(* A session the backend keeps alive was allowed, and has a heartbeat not   *)
(* in the future from which buildLiveness can measure its silence.          *)
ActiveIsMeasured ==
    \A s \in Sessions : rows[s].state = "active" =>
        rows[s].verdict = "allow" /\ rows[s].lastBeat \in 0..clock

(* The sweep never touches a session that was attested, and a session it    *)
(* marked expired can no longer be attested.                                *)
ExpiredNeverAttested ==
    \A s \in Sessions : rows[s].state = "expired" =>
        ~rows[s].consumed /\ ~Claimable(rows[s], clock)

(* The liveness route decides to remove a player for silence no sooner than *)
(* interval plus grace after the nonce was issued and, for a player let in  *)
(* by the timeout, after the deadline of that poll.  It is not said of a    *)
(* later heartbeat: one that lands after the route has read the row does    *)
(* not stop the removal.                                                    *)
SilenceOutlastsGrace ==
    \A s \in Sessions : live[s] = "kicking" =>
        /\ clock + NonceTTL >=
              rows[s].expiresAt + HeartbeatInterval + HeartbeatGrace
        /\ reply[s] = "allow_fail_open" =>
              clock >= deadline[s] + HeartbeatInterval + HeartbeatGrace

(* Once the resource was told to remove the player, the session stays       *)
(* terminated: no late claim, heartbeat, sweep or liveness answer brings it  *)
(* back.  Only an attestation handler that claimed the nonce before and has  *)
(* been stuck between its statements ever since can still write its verdict. *)
KickIsFinal ==
    [][\A s \in Sessions :
          (live[s] = "kicked" /\ rows[s].state = "terminated") =>
              \/ rows'[s].state = "terminated"
              \/ \E r \in Requests : /\ att[r].phase = "stored"
                                     /\ att[r].session = s
                                     /\ att'[r].phase = "acked"]_vars

(* ADR 0005 wants a player let in by the timeout to stay marked in the row.  *)
(* The one thing that takes the mark away is the player's own attestation,   *)
(* judged after the timeout: the row then holds that judgement.              *)
FailOpenStaysMarked ==
    \A s \in Sessions : reply[s] = "allow_fail_open" =>
        rows[s].failOpen \/ Evaluated(s, rows[s].verdict)

(* ADR 0011: the companion's window and the connect dialogue say the same.   *)
(* They disagree only when the poll had given up at its deadline and the     *)
(* attestation was judged otherwise around or after that moment.             *)
OutcomeMatchesAnswer ==
    \A s \in Sessions : (outcome[s] # "none" /\ reply[s] # "none") =>
        \/ outcome[s] = "allow" <=> Admitted(s)
        \/ /\ Evaluated(s, outcome[s])
           /\ IF Admitted(s) THEN TimedOut(s, "fail_open")
                             ELSE TimedOut(s, "fail_closed")

(* Why: every verdict in a row, and so every outcome read from it, is an     *)
(* evaluation or what the poll answered at its timeout.                      *)
VerdictsJustified ==
    \A s \in Sessions :
        /\ rows[s].verdict # "pending" =>
              \/ Evaluated(s, rows[s].verdict)
              \/ reply[s] # "none" /\ (rows[s].verdict = "allow" <=> Admitted(s))
        /\ outcome[s] # "none" =>
              \/ Evaluated(s, outcome[s])
              \/ reply[s] # "none" /\ (outcome[s] = "allow" <=> Admitted(s))

(* The gate implements the abstract admission: a row is a permit, the       *)
(* acknowledged attestations are its evaluations, the poll's reply the       *)
(* answer.                                                                   *)
PermitOf(row) ==
    IF row.state = "unissued" THEN "none"
    ELSE IF row.consumed THEN "claimed"
    ELSE IF row.expiresAt > clock THEN "open" ELSE "lapsed"

EvaluationsOf(s) == {d \in {"allow", "deny"} : Evaluated(s, d)}

Gate == INSTANCE Admission
            WITH Attempts  <- Sessions,
                 permit    <- [s \in Sessions |-> PermitOf(rows[s])],
                 evaluated <- [s \in Sessions |-> EvaluationsOf(s)],
                 answer    <- reply

(* Every step of the handlers is a step of the admission or invisible to it: *)
(* one claim, one evaluation, one answer per connect attempt.                *)
ImplementsAdmission == Gate!ASpec

(* Every long poll ends: the deferred player gets an answer or an error.    *)
DeferralEnds ==
    \A s \in Sessions :
        poll[s] = "waiting" ~> poll[s] \in {"answered", "failed"}

=============================================================================
