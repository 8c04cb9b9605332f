------------------------------ MODULE Companion ------------------------------
(***************************************************************************)
(* The companion program: its worker thread (worker.rs, Worker::run), the    *)
(* thread that collects nonces (collect_nonces), the bridge from the        *)
(* localhost endpoint and the tray menu (main.rs), all feeding one          *)
(* unbounded channel of jobs, and the four-state window (core/state.rs).    *)
(*                                                                          *)
(* The worker takes one job at a time and each call to the backend is a     *)
(* step of its own, during which the other threads go on filling the        *)
(* channel.  A call may be lost on the way out, lost on the way back (the   *)
(* backend has acted, the companion sees an error), or answered.  The       *)
(* backend is what the worker can tell of it: one session per nonce.        *)
(***************************************************************************)
EXTENDS Naturals, Sequences

CONSTANTS Nonces,    \* nonces issued for this machine
          Foreign,   \* those issued by a trusted backend that is not the primary
          NoNonce,
          MaxJobs,   \* bound on the jobs ever sent
          MaxStarts  \* bound on the starts of the program

ASSUME CompanionAssumption ==
    /\ NoNonce \notin Nonces
    /\ Foreign \subseteq Nonces
    /\ MaxJobs \in Nat /\ MaxStarts \in Nat

VARIABLES session,   \* the backend's session of each nonce
          jobs,      \* the channel
          sent,      \* jobs sent so far, over all starts
          starts,    \* how often the program was started
          running,   \* whether the process exists, or is waiting to exit
          pc,        \* what the worker is doing
          current,   \* the nonce it is working on, or worked on last
          active,    \* the session it keeps alive
          lastNonce, \* the last nonce acknowledged to it
          acked,     \* every nonce acknowledged to this process (history)
          due,       \* the next heartbeat is due
          window     \* the state the window shows

vars == <<session, jobs, sent, starts, running, pc, current, active,
          lastNonce, acked, due, window>>

-----------------------------------------------------------------------------
WindowState == {"idle", "checking", "ready", "blocked"}
Event == {"attest_requested", "attestation_accepted", "refused", "failed",
          "session_ended"}

(* next_state of core/state.rs.                                            *)
NextState(state, event) ==
    CASE event = "attest_requested"      -> "checking"
      [] event = "attestation_accepted"  ->
             IF state = "checking" THEN "ready" ELSE state
      [] event \in {"refused", "failed"} -> "blocked"
      [] event = "session_ended"         -> "idle"

(* Job of worker.rs: an attestation carries its nonce, the others nothing.  *)
Job == [kind : {"collected", "local"}, nonce : Nonces]
          \cup [kind : {"recheck", "shutdown"}, nonce : {NoNonce}]

SessionState == {"none", "open", "allowed", "denied", "ended", "lapsed"}

Idle == pc = "waiting" /\ running # "no"

-----------------------------------------------------------------------------
Init ==
    /\ session = [n \in Nonces |-> "none"]
    /\ jobs = <<>>
    /\ sent = 0
    /\ starts = 1
    /\ running = "yes"
    /\ pc = "waiting"
    /\ current = NoNonce
    /\ active = NoNonce
    /\ lastNonce = NoNonce
    /\ acked = {}
    /\ due = FALSE
    /\ window = "idle"

(* A server asks: some backend issues a nonce.                             *)
Issue(n) ==
    /\ session[n] = "none"
    /\ session' = [session EXCEPT ![n] = "open"]
    /\ UNCHANGED <<jobs, sent, starts, running, pc, current, active,
                   lastNonce, acked, due, window>>

(* The backend ends a session by itself, or the nonce runs out.            *)
EndSession(n) ==
    /\ session[n] \in {"open", "allowed"}
    /\ session' = [session EXCEPT ![n] = IF @ = "open" THEN "lapsed"
                                                       ELSE "ended"]
    /\ UNCHANGED <<jobs, sent, starts, running, pc, current, active,
                   lastNonce, acked, due, window>>

-----------------------------------------------------------------------------
Push(kind, n) ==
    /\ running = "yes"
    /\ sent < MaxJobs
    /\ sent' = sent + 1
    /\ jobs' = Append(jobs, [kind |-> kind, nonce |-> n])
    /\ UNCHANGED <<session, starts, pc, current, active, lastNonce, acked,
                   due, window>>

(* collect_nonces: an answered poll becomes a job.  The backend hands out a *)
(* nonce until it is claimed, so a busy worker finds it several times over. *)
(* A poll that fails or finds nothing only waits.                           *)
Collect(n) ==
    /\ session[n] = "open" /\ n \notin Foreign
    /\ Push("collected", n)
    /\ UNCHANGED running

(* The localhost endpoint and its bridge: any trusted backend's nonce, as   *)
(* often as the game client sends it, in time or late.                      *)
Deliver(n) ==
    /\ session[n] # "none"
    /\ Push("local", n)
    /\ UNCHANGED running

PressRecheck ==
    /\ Push("recheck", NoNonce)
    /\ UNCHANGED running

(* Quit in the tray menu: a job like any other, behind those that wait.    *)
Quit ==
    /\ running = "yes"
    /\ running' = "quitting"
    /\ jobs' = Append(jobs, [kind |-> "shutdown", nonce |-> NoNonce])
    /\ UNCHANGED <<session, sent, starts, pc, current, active, lastNonce,
                   acked, due, window>>

(* The event loop's wait for the worker is bounded, and processes die.     *)
Exit ==
    /\ running # "no"
    /\ running' = "no"
    /\ jobs' = <<>>
    /\ UNCHANGED <<session, sent, starts, pc, current, active, lastNonce,
                   acked, due, window>>

(* A new process knows nothing of the sessions of the old one, and nothing  *)
(* has been acknowledged to it.                                             *)
Restart ==
    /\ running = "no"
    /\ starts < MaxStarts
    /\ starts' = starts + 1
    /\ running' = "yes"
    /\ pc' = "waiting"
    /\ current' = NoNonce /\ active' = NoNonce /\ lastNonce' = NoNonce
    /\ acked' = {}
    /\ due' = FALSE
    /\ window' = "idle"
    /\ UNCHANGED <<session, jobs, sent>>

-----------------------------------------------------------------------------
(* The worker's recv_timeout returned a job with a nonce: ignored if it is  *)
(* the one answered last, otherwise the window starts checking.             *)
TakeNonceAgain(job) ==
    /\ job.kind \in {"collected", "local"}
    /\ current' = job.nonce
    /\ pc' = "scanning"
    /\ window' = NextState(window, "attest_requested")
    /\ UNCHANGED <<session, running, active>>
TakeNonce(job) ==
    /\ job.kind \in {"collected", "local"}
    /\ IF job.nonce = lastNonce
       THEN UNCHANGED <<pc, current, window>>
       ELSE /\ current' = job.nonce
            /\ pc' = "scanning"
            /\ window' = NextState(window, "attest_requested")
    /\ UNCHANGED <<session, running, active>>

(* "Erneut prüfen": back to idle, unless a session is being kept alive.    *)
TakeRecheckAlways(job) ==
    /\ job.kind = "recheck"
    /\ window' = NextState(window, "session_ended")
    /\ UNCHANGED <<session, running, pc, current, active>>
TakeRecheck(job) ==
    /\ job.kind = "recheck"
    /\ window' = IF active = NoNonce THEN NextState(window, "session_ended")
                                     ELSE window
    /\ UNCHANGED <<session, running, pc, current, active>>

(* Shutdown: announce_close ends the session, if the call arrives, then the *)
(* worker returns and the program exits.                                    *)
TakeShutdown(job) ==
    /\ job.kind = "shutdown"
    /\ session' \in {session,
                     IF active # NoNonce /\ session[active] = "allowed"
                     THEN [session EXCEPT ![active] = "ended"]
                     ELSE session}
    /\ running' = "no"
    /\ UNCHANGED <<pc, current, active, window>>

TakeJob ==
    /\ Idle
    /\ jobs # <<>>
    /\ jobs' = Tail(jobs)
    /\ \/ TakeNonce(Head(jobs))
       \/ TakeRecheck(Head(jobs))
       \/ TakeShutdown(Head(jobs))
    /\ UNCHANGED <<sent, starts, lastNonce, acked, due>>

Scan(ok) ==
    /\ pc = "scanning" /\ running # "no"
    /\ pc' = IF ok THEN "attesting" ELSE "waiting"
    /\ window' = IF ok THEN window ELSE NextState(window, "failed")
    /\ UNCHANGED <<session, jobs, sent, starts, running, current, active,
                   lastNonce, acked, due>>

(* What POST /v1/attest does to the primary backend's session.             *)
Attested(n, decision) ==
    IF session[n] = "open" /\ n \notin Foreign
    THEN [session EXCEPT ![n] = decision]
    ELSE session

(* The call fails: unreachable, refused, or answered and the answer lost.   *)
AttestFailsButKept(decision) ==
    /\ pc = "attesting" /\ running # "no"
    /\ session' \in {session, Attested(current, decision)}
    /\ pc' = "waiting"
    /\ active' = current
    /\ window' = NextState(window, "refused")
    /\ UNCHANGED <<jobs, sent, starts, running, current, lastNonce, acked,
                   due>>
AttestFails(decision) ==
    /\ pc = "attesting" /\ running # "no"
    /\ session' \in {session, Attested(current, decision)}
    /\ pc' = "waiting"
    /\ window' = NextState(window, "refused")
    /\ UNCHANGED <<jobs, sent, starts, running, current, active, lastNonce,
                   acked, due>>

(* The call is acknowledged; the outcome is asked for next.                *)
AttestAcked(decision) ==
    /\ pc = "attesting" /\ running # "no"
    /\ session[current] = "open" /\ current \notin Foreign
    /\ session' = Attested(current, decision)
    /\ pc' = "outcome"
    /\ lastNonce' = current
    /\ acked' = acked \cup {current}
    /\ window' = NextState(window, "attestation_accepted")
    /\ UNCHANGED <<jobs, sent, starts, running, current, active, due>>

(* The outcome says the server refused.                                    *)
OutcomeDenied ==
    /\ pc = "outcome" /\ running # "no"
    /\ session[current] = "denied"
    /\ pc' = "waiting"
    /\ window' = NextState(window, "refused")
    /\ UNCHANGED <<session, jobs, sent, starts, running, current, active,
                   lastNonce, acked, due>>

(* It says allowed, or nothing was to be learned: keep the session alive.   *)
OutcomeKept ==
    /\ pc = "outcome" /\ running # "no"
    /\ pc' = "waiting"
    /\ active' = current
    /\ due' = FALSE
    /\ UNCHANGED <<session, jobs, sent, starts, running, current, lastNonce,
                   acked, window>>

-----------------------------------------------------------------------------
TimerDue ==
    /\ active # NoNonce /\ ~due /\ running # "no"
    /\ due' = TRUE
    /\ UNCHANGED <<session, jobs, sent, starts, running, pc, current, active,
                   lastNonce, acked, window>>

(* A heartbeat goes out only when no job waits: recv_timeout prefers a job. *)
(* A scan that fails or finds no game ends the session at the backend.      *)
BeatReadyOnGreen ==
    Idle /\ jobs = <<>> /\ active # NoNonce /\ due /\ window = "ready"
BeatReady == Idle /\ jobs = <<>> /\ active # NoNonce /\ due

Beaten(gamePresent) ==
    IF session[active] = "allowed" /\ ~gamePresent
    THEN [session EXCEPT ![active] = "ended"]
    ELSE session

(* The call fails, before or after the backend acted on it.                *)
BeatFails(gamePresent) ==
    /\ BeatReady
    /\ session' \in {session, Beaten(gamePresent)}
    /\ due' = FALSE
    /\ UNCHANGED <<jobs, sent, starts, running, pc, current, active,
                   lastNonce, acked, window>>

(* The backend answers terminate unless the session is allowed and stays so. *)
BeatAnswered(gamePresent) ==
    /\ BeatReady
    /\ session' = Beaten(gamePresent)
    /\ due' = FALSE
    /\ IF session'[active] = "allowed"
       THEN UNCHANGED <<active, window>>
       ELSE /\ active' = NoNonce
            /\ window' = NextState(window, "session_ended")
    /\ UNCHANGED <<jobs, sent, starts, running, pc, current, lastNonce,
                   acked>>

WorkerStep ==
    \/ TakeJob
    \/ \E ok \in BOOLEAN : Scan(ok) \/ BeatFails(ok) \/ BeatAnswered(ok)
    \/ \E decision \in {"allowed", "denied"} :
          AttestFails(decision) \/ AttestAcked(decision)
    \/ OutcomeDenied \/ OutcomeKept

Next ==
    \/ \E n \in Nonces : Issue(n) \/ EndSession(n) \/ Collect(n) \/ Deliver(n)
    \/ PressRecheck \/ Quit \/ Exit \/ Restart
    \/ WorkerStep
    \/ TimerDue

Spec == Init /\ [][Next]_vars

(* The worker keeps running, because every call it makes is bounded by a     *)
(* timeout.                                                                  *)
FairSpec == Spec /\ WF_vars(WorkerStep)

-----------------------------------------------------------------------------
(* Every variable holds a value of its type.                               *)
TypeOK ==
    /\ session \in [Nonces -> SessionState]
    /\ jobs \in Seq(Job)
    /\ sent \in 0..MaxJobs
    /\ starts \in Nat
    /\ running \in {"yes", "quitting", "no"}
    /\ pc \in {"waiting", "scanning", "attesting", "outcome"}
    /\ current \in Nonces \cup {NoNonce}
    /\ active \in Nonces \cup {NoNonce}
    /\ lastNonce \in Nonces \cup {NoNonce}
    /\ acked \subseteq Nonces
    /\ due \in BOOLEAN
    /\ window \in WindowState

(* Between two jobs the window matches what the worker keeps alive: green    *)
(* only with a session the backend acknowledged, idle only without one, and  *)
(* never stuck on "checking".                                                *)
WindowFollowsSession ==
    Idle => /\ window # "checking"
            /\ window = "ready" => active # NoNonce
            /\ window = "idle" => active = NoNonce

(* What is kept alive was acknowledged to this very process, by the backend  *)
(* it beats to: a session whose acknowledgement was lost on the way back is   *)
(* not kept, nor one that an earlier process was told of.                    *)
ActiveWasAcked ==
    active # NoNonce => active \in acked /\ active \notin Foreign

(* A duplicate of the nonce answered last, collected or delivered again      *)
(* while the worker was busy, does not put a refusal over the session it     *)
(* stands for.                                                               *)
BlockedIsNotActive ==
    (Idle /\ window = "blocked" /\ active # NoNonce /\ lastNonce = active) =>
        current # active

(* What the worker knows in the middle of a job, and what makes the three    *)
(* properties above inductive: until the acknowledgement it works on a nonce *)
(* that is not the one answered last, with the window on "checking"; after   *)
(* it, on a nonce acknowledged to it whose session is not yet the one kept   *)
(* alive.                                                                    *)
WorkerInv ==
    /\ pc \in {"scanning", "attesting"} =>
          current \in Nonces /\ current # lastNonce /\ window = "checking"
    /\ pc = "outcome" =>
          /\ current \in Nonces \ Foreign
          /\ current = lastNonce /\ current # active
          /\ current \in acked
          /\ window = "ready"

(* An acknowledged nonce is the primary backend's and has been judged, so it *)
(* cannot be acknowledged a second time.                                    *)
AckedAreJudged ==
    \A n \in acked :
        /\ n \notin Foreign
        /\ session[n] \in {"allowed", "denied", "ended"}

CompanionInv ==
    /\ TypeOK
    /\ WorkerInv
    /\ AckedAreJudged
    /\ WindowFollowsSession
    /\ ActiveWasAcked
    /\ BlockedIsNotActive

(* A due heartbeat is sent although jobs take precedence over it, whatever   *)
(* they do to the window in between, provided the jobs come to an end.       *)
DueBeatIsSent == (due /\ active # NoNonce) ~> (~due \/ running = "no")

=============================================================================
