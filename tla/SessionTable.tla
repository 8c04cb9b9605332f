---------------------------- MODULE SessionTable ----------------------------
(***************************************************************************)
(* The table attestation_sessions as the backend's repository layer sees   *)
(* it: the columns a decision depends on, and one operator per SQL          *)
(* statement of services/backend/src/repositories/sessions.ts.  A statement *)
(* is a function from the row it finds to the row it leaves, because        *)
(* PostgreSQL runs each one atomically.                                     *)
(*                                                                          *)
(* Columns left out: tenant, server and player ids, the addresses, the      *)
(* nonce hash and its sealed copy (cleared together with the claim), reason *)
(* texts, and grace_expires_at, which is written and never read.            *)
(***************************************************************************)
EXTENDS Integers

CONSTANTS NonceTTL,           \* lifetime of a connect nonce
          PollTimeout,        \* how long the resource's long poll waits
          HeartbeatInterval,  \* how often the companion has to report
          HeartbeatGrace      \* silence tolerated after a missed report

ASSUME TimingAssumption ==
    /\ NonceTTL \in Nat \ {0}
    /\ PollTimeout \in Nat \ {0}
    /\ HeartbeatInterval \in Nat \ {0}
    /\ HeartbeatGrace \in Nat \ {0}

(* last_heartbeat_at IS NULL.                                              *)
Never == -1

(* The enum session_state; "unissued" stands for a row that is not there.  *)
SessionState ==
    {"unissued", "pending", "attested", "active", "expired", "terminated"}

Decision == {"pending", "allow", "deny"}

TerminationReason ==
    {"none", "heartbeat_lost", "game_process_missing", "companion_outdated"}

SessionRow == [state     : SessionState,
               verdict   : Decision,
               failOpen  : BOOLEAN,
               consumed  : BOOLEAN,
               expiresAt : Nat,
               lastBeat  : Nat \cup {Never},
               reason    : TerminationReason]

NoRow == [state |-> "unissued", verdict |-> "pending", failOpen |-> FALSE,
          consumed |-> FALSE, expiresAt |-> 0, lastBeat |-> Never,
          reason |-> "none"]

-----------------------------------------------------------------------------
(* INSERT: a fresh row takes the column defaults and a deadline.           *)
CreateSession(now) ==
    [NoRow EXCEPT !.state = "pending", !.expiresAt = now + NonceTTL]

(* The WHERE clause that arbitrates the claim: unconsumed and not expired. *)
ClaimableAnyTime(row, now) == row.state # "unissued" /\ ~row.consumed
ClaimableAgain(row, now) == row.state # "unissued" /\ row.expiresAt > now
Claimable(row, now) ==
    row.state # "unissued" /\ ~row.consumed /\ row.expiresAt > now

(* The claim does not look at the state or the verdict it replaces.        *)
ConsumeNonce(row) == [row EXCEPT !.consumed = TRUE, !.state = "attested"]

(* One UPDATE, with no condition on what the row says already.             *)
RecordVerdictWithoutBeat(row, decision, failOpen, now) ==
    [row EXCEPT !.verdict  = decision,
                !.failOpen = failOpen,
                !.state    = IF decision = "allow" THEN "active"
                                                   ELSE "terminated"]
RecordVerdictUnmarked(row, decision, failOpen, now) ==
    [row EXCEPT !.verdict  = decision,
                !.state    = IF decision = "allow" THEN "active"
                                                   ELSE "terminated",
                !.lastBeat = IF decision = "allow" THEN now ELSE @]
RecordVerdict(row, decision, failOpen, now) ==
    [row EXCEPT !.verdict  = decision,
                !.failOpen = failOpen,
                !.state    = IF decision = "allow" THEN "active"
                                                   ELSE "terminated",
                !.lastBeat = IF decision = "allow" THEN now ELSE @]

(* Only an active session is kept alive.                                   *)
RecordHeartbeat(row, now) ==
    IF row.state = "active" THEN [row EXCEPT !.lastBeat = now] ELSE row

(* The first termination wins and keeps its reason.                        *)
TerminateSession(row, reason) ==
    IF row.state = "terminated" \/ row.state = "unissued"
    THEN row
    ELSE [row EXCEPT !.state = "terminated", !.reason = reason]

(* The sweep: a pending row whose nonce ran out.  Strictly later than the   *)
(* deadline, so at the deadline itself a row is neither claimable nor swept.*)
ExpireStaleAnyState(row, now) ==
    IF row.state # "unissued" /\ row.expiresAt < now
    THEN [row EXCEPT !.state = "expired"]
    ELSE row
ExpireStale(row, now) ==
    IF row.state = "pending" /\ row.expiresAt < now
    THEN [row EXCEPT !.state = "expired"]
    ELSE row

-----------------------------------------------------------------------------
(* timeoutVerdict: what an unanswered connect gets, by the tenant's mode.  *)
FailMode == {"fail_open", "fail_closed"}

TimeoutVerdictAlwaysOpen(mode) == [decision |-> "allow", failOpen |-> TRUE]
TimeoutVerdict(mode) ==
    IF mode = "fail_open" THEN [decision |-> "allow", failOpen |-> TRUE]
                          ELSE [decision |-> "deny", failOpen |-> FALSE]

(* buildLiveness: whether the player behind this row has to leave.         *)
ShouldKickWithoutGrace(row, now) ==
    \/ row.state = "terminated"
    \/ /\ row.state = "active"
       /\ row.lastBeat # Never
       /\ now >= row.lastBeat + HeartbeatInterval
ShouldKick(row, now) ==
    \/ row.state = "terminated"
    \/ /\ row.state = "active"
       /\ row.lastBeat # Never
       /\ now - row.lastBeat > HeartbeatInterval
       /\ now >= row.lastBeat + HeartbeatInterval + HeartbeatGrace
=============================================================================
