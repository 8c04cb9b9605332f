--------------------------- MODULE CompanionProofs ---------------------------
(***************************************************************************)
(* Proofs about Companion for every set of nonces and every number of jobs  *)
(* and starts.                                                              *)
(***************************************************************************)
EXTENDS Companion, SequenceTheorems, TLAPS

(* The channel only ever holds jobs, whatever is sent.                     *)
LEMMA PushedJob ==
    ASSUME TypeOK, NEW job \in Job
    PROVE  Append(jobs, job) \in Seq(Job)
BY DEF TypeOK

(* The state of a fresh start: nothing known, nothing shown.               *)
LEMMA CompanionInit == Init => CompanionInv
<1> SUFFICES ASSUME Init PROVE CompanionInv
  OBVIOUS
<1>1. jobs \in Seq(Job)
  BY EmptySeq DEF Init
<1>2. TypeOK
  <2>1. sent \in 0..MaxJobs /\ starts \in Nat
    BY CompanionAssumption DEF Init
  <2>2. session \in [Nonces -> SessionState] /\ window \in WindowState
    BY DEF Init, SessionState, WindowState
  <2>3. /\ current \in Nonces \cup {NoNonce} /\ active \in Nonces \cup {NoNonce}
        /\ lastNonce \in Nonces \cup {NoNonce} /\ due \in BOOLEAN
    BY DEF Init
  <2>4. QED
    BY <1>1, <2>1, <2>2, <2>3 DEF Init, TypeOK
<1>3. WorkerInv /\ AckedAreJudged /\ WindowFollowsSession /\ ActiveWasAcked
      /\ BlockedIsNotActive
  BY DEF Init, WorkerInv, AckedAreJudged, WindowFollowsSession, ActiveWasAcked,
         BlockedIsNotActive, Idle
<1>4. QED
  BY <1>2, <1>3 DEF CompanionInv

(* A new session is nobody's yet.                                          *)
LEMMA IssueStep ==
    ASSUME CompanionInv, NEW n \in Nonces, Issue(n)
    PROVE  CompanionInv'
BY CompanionAssumption
   DEF Issue,
       CompanionInv, TypeOK, WorkerInv, AckedAreJudged, WindowFollowsSession,
       ActiveWasAcked, BlockedIsNotActive, SessionState, WindowState, Idle

(* A session kept alive ends as "ended", which the worker may still hold.  *)
LEMMA EndSessionStep ==
    ASSUME CompanionInv, NEW n \in Nonces, EndSession(n)
    PROVE  CompanionInv'
BY CompanionAssumption
   DEF EndSession,
       CompanionInv, TypeOK, WorkerInv, AckedAreJudged, WindowFollowsSession,
       ActiveWasAcked, BlockedIsNotActive, SessionState, WindowState, Idle

(* The collector adds a job.                                               *)
LEMMA CollectStep ==
    ASSUME CompanionInv, NEW n \in Nonces, Collect(n)
    PROVE  CompanionInv'
<1>1. [kind |-> "collected", nonce |-> n] \in Job
  BY DEF Job
<1>2. jobs' \in Seq(Job)
  BY <1>1, PushedJob DEF Collect, Push, CompanionInv
<1>3. QED
  BY <1>2, CompanionAssumption
     DEF Collect, Push,
         CompanionInv, TypeOK, WorkerInv, AckedAreJudged, WindowFollowsSession,
         ActiveWasAcked, BlockedIsNotActive, SessionState, WindowState, Idle

(* The localhost endpoint adds a job.                                      *)
LEMMA DeliverStep ==
    ASSUME CompanionInv, NEW n \in Nonces, Deliver(n)
    PROVE  CompanionInv'
<1>1. [kind |-> "local", nonce |-> n] \in Job
  BY DEF Job
<1>2. jobs' \in Seq(Job)
  BY <1>1, PushedJob DEF Deliver, Push, CompanionInv
<1>3. QED
  BY <1>2, CompanionAssumption
     DEF Deliver, Push,
         CompanionInv, TypeOK, WorkerInv, AckedAreJudged, WindowFollowsSession,
         ActiveWasAcked, BlockedIsNotActive, SessionState, WindowState, Idle

(* The tray menu adds a job.                                               *)
LEMMA RecheckStep ==
    ASSUME CompanionInv, PressRecheck
    PROVE  CompanionInv'
<1>1. [kind |-> "recheck", nonce |-> NoNonce] \in Job
  BY DEF Job
<1>2. jobs' \in Seq(Job)
  BY <1>1, PushedJob DEF PressRecheck, Push, CompanionInv
<1>3. QED
  BY <1>2, CompanionAssumption
     DEF PressRecheck, Push,
         CompanionInv, TypeOK, WorkerInv, AckedAreJudged, WindowFollowsSession,
         ActiveWasAcked, BlockedIsNotActive, SessionState, WindowState, Idle

(* Quit adds the last job.                                                 *)
LEMMA QuitStep ==
    ASSUME CompanionInv, Quit
    PROVE  CompanionInv'
<1>1. [kind |-> "shutdown", nonce |-> NoNonce] \in Job
  BY DEF Job
<1>2. jobs' \in Seq(Job)
  BY <1>1, PushedJob DEF Quit, CompanionInv
<1>3. QED
  BY <1>2, CompanionAssumption
     DEF Quit,
         CompanionInv, TypeOK, WorkerInv, AckedAreJudged, WindowFollowsSession,
         ActiveWasAcked, BlockedIsNotActive, SessionState, WindowState, Idle

(* A dead process shows nothing, and its channel is gone.                  *)
LEMMA ExitStep ==
    ASSUME CompanionInv, Exit
    PROVE  CompanionInv'
BY CompanionAssumption, EmptySeq
   DEF Exit,
       CompanionInv, TypeOK, WorkerInv, AckedAreJudged, WindowFollowsSession,
       ActiveWasAcked, BlockedIsNotActive, SessionState, WindowState, Idle

(* A new process has forgotten everything.                                 *)
LEMMA RestartStep ==
    ASSUME CompanionInv, Restart
    PROVE  CompanionInv'
<1>1. TypeOK'
  <2>1. (/\ current \in Nonces \cup {NoNonce} /\ active \in Nonces \cup {NoNonce}
         /\ lastNonce \in Nonces \cup {NoNonce} /\ due \in BOOLEAN)'
    BY DEF Restart
  <2>2. (window \in WindowState /\ starts \in Nat)'
    BY DEF Restart, CompanionInv, TypeOK, WindowState
  <2>3. QED
    BY <2>1, <2>2 DEF Restart, CompanionInv, TypeOK
<1>2. (/\ WorkerInv /\ AckedAreJudged /\ WindowFollowsSession
        /\ ActiveWasAcked /\ BlockedIsNotActive)'
  BY DEF Restart, WorkerInv, AckedAreJudged, WindowFollowsSession, ActiveWasAcked,
         BlockedIsNotActive, Idle
<1>3. QED
  BY <1>1, <1>2 DEF CompanionInv

(* The head of the channel, by what the worker does with it.               *)
LEMMA TakeJobStep ==
    ASSUME CompanionInv, TakeJob
    PROVE  CompanionInv'
<1>1. Head(jobs) \in Job /\ jobs' \in Seq(Job)
  BY HeadTailProperties DEF TakeJob, CompanionInv, TypeOK
<1>2. CASE TakeNonce(Head(jobs))
  <2>1. Head(jobs).nonce \in Nonces
    BY <1>1, <1>2 DEF TakeNonce, Job
  <2>2. QED
    BY <1>1, <1>2, <2>1, CompanionAssumption
       DEF TakeJob, TakeNonce, NextState,
           CompanionInv, TypeOK, WorkerInv, AckedAreJudged, WindowFollowsSession,
           ActiveWasAcked, BlockedIsNotActive, SessionState, WindowState, Idle
<1>3. CASE TakeRecheck(Head(jobs))
  BY <1>1, <1>3, CompanionAssumption
     DEF TakeJob, TakeRecheck, NextState,
         CompanionInv, TypeOK, WorkerInv, AckedAreJudged, WindowFollowsSession,
         ActiveWasAcked, BlockedIsNotActive, SessionState, WindowState, Idle
<1>4. CASE TakeShutdown(Head(jobs))
  BY <1>1, <1>4, CompanionAssumption
     DEF TakeJob, TakeShutdown,
         CompanionInv, TypeOK, WorkerInv, AckedAreJudged, WindowFollowsSession,
         ActiveWasAcked, BlockedIsNotActive, SessionState, WindowState, Idle
<1>5. QED
  BY <1>2, <1>3, <1>4 DEF TakeJob

(* A failed scan blocks the window and leaves the session alone.           *)
LEMMA ScanStep ==
    ASSUME CompanionInv, NEW ok \in BOOLEAN, Scan(ok)
    PROVE  CompanionInv'
BY CompanionAssumption
   DEF Scan, NextState,
       CompanionInv, TypeOK, WorkerInv, AckedAreJudged, WindowFollowsSession,
       ActiveWasAcked, BlockedIsNotActive, SessionState, WindowState, Idle

(* A failed attestation concerns a nonce that is not the one answered last. *)
LEMMA AttestFailsStep ==
    ASSUME CompanionInv, NEW decision \in {"allowed", "denied"}, AttestFails(decision)
    PROVE  CompanionInv'
BY CompanionAssumption
   DEF AttestFails, Attested, NextState,
       CompanionInv, TypeOK, WorkerInv, AckedAreJudged, WindowFollowsSession,
       ActiveWasAcked, BlockedIsNotActive, SessionState, WindowState, Idle

(* An acknowledged nonce was open, so it is not the session kept alive.    *)
LEMMA AttestAckedStep ==
    ASSUME CompanionInv, NEW decision \in {"allowed", "denied"}, AttestAcked(decision)
    PROVE  CompanionInv'
BY CompanionAssumption
   DEF AttestAcked, Attested, NextState,
       CompanionInv, TypeOK, WorkerInv, AckedAreJudged, WindowFollowsSession,
       ActiveWasAcked, BlockedIsNotActive, SessionState, WindowState, Idle

(* The refused session is not the one kept alive.                          *)
LEMMA OutcomeDeniedStep ==
    ASSUME CompanionInv, OutcomeDenied
    PROVE  CompanionInv'
BY CompanionAssumption
   DEF OutcomeDenied, NextState,
       CompanionInv, TypeOK, WorkerInv, AckedAreJudged, WindowFollowsSession,
       ActiveWasAcked, BlockedIsNotActive, SessionState, WindowState, Idle

(* The session to keep alive has just been acknowledged.                   *)
LEMMA OutcomeKeptStep ==
    ASSUME CompanionInv, OutcomeKept
    PROVE  CompanionInv'
BY CompanionAssumption
   DEF OutcomeKept,
       CompanionInv, TypeOK, WorkerInv, AckedAreJudged, WindowFollowsSession,
       ActiveWasAcked, BlockedIsNotActive, SessionState, WindowState, Idle

(* A lost heartbeat changes the backend's session at most.                 *)
LEMMA BeatFailsStep ==
    ASSUME CompanionInv, NEW ok \in BOOLEAN, BeatFails(ok)
    PROVE  CompanionInv'
BY CompanionAssumption
   DEF BeatFails, BeatReady, Beaten,
       CompanionInv, TypeOK, WorkerInv, AckedAreJudged, WindowFollowsSession,
       ActiveWasAcked, BlockedIsNotActive, SessionState, WindowState, Idle

(* An answered heartbeat keeps the session or gives it up.                 *)
LEMMA BeatAnsweredStep ==
    ASSUME CompanionInv, NEW ok \in BOOLEAN, BeatAnswered(ok)
    PROVE  CompanionInv'
BY CompanionAssumption
   DEF BeatAnswered, BeatReady, Beaten, NextState,
       CompanionInv, TypeOK, WorkerInv, AckedAreJudged, WindowFollowsSession,
       ActiveWasAcked, BlockedIsNotActive, SessionState, WindowState, Idle

(* The timer concerns nothing else.                                        *)
LEMMA TimerDueStep ==
    ASSUME CompanionInv, TimerDue
    PROVE  CompanionInv'
BY CompanionAssumption
   DEF TimerDue,
       CompanionInv, TypeOK, WorkerInv, AckedAreJudged, WindowFollowsSession,
       ActiveWasAcked, BlockedIsNotActive, SessionState, WindowState, Idle

(* Every step of the companion, its backend and its user keeps the           *)
(* invariant.                                                                *)
LEMMA CompanionStep ==
    ASSUME CompanionInv, [Next]_vars
    PROVE  CompanionInv'
<1>1. CASE Next
  BY <1>1, IssueStep, EndSessionStep, CollectStep, DeliverStep, RecheckStep,
     QuitStep, ExitStep, RestartStep, TakeJobStep, ScanStep, AttestFailsStep,
     AttestAckedStep, OutcomeDeniedStep, OutcomeKeptStep, BeatFailsStep,
     BeatAnsweredStep, TimerDueStep
     DEF Next, WorkerStep
<1>2. CASE UNCHANGED vars
  BY <1>2
     DEF vars, CompanionInv, TypeOK, WorkerInv, AckedAreJudged, WindowFollowsSession,
         ActiveWasAcked, BlockedIsNotActive, Idle
<1>3. QED
  BY <1>1, <1>2

(* The types and the three safety properties together, with what the worker  *)
(* knows in the middle of a job, hold in every state of the companion.       *)
THEOREM CompanionInvariant == Spec => []CompanionInv
BY CompanionInit, CompanionStep, PTL DEF Spec

(* The window of next_state never contradicts the session the worker keeps   *)
(* alive: no green without one, no idle with one, never stuck on checking.   *)
THEOREM WindowIsHonest == Spec => []WindowFollowsSession
<1>1. CompanionInv => WindowFollowsSession
  BY DEF CompanionInv
<1>2. QED
  BY <1>1, CompanionInvariant, PTL

(* attest_once returns a session to keep alive only after this very process  *)
(* has received the acknowledgement of the backend the heartbeats go to: not *)
(* after a lost acknowledgement, nor from before a restart.                  *)
THEOREM OnlyAckedSessionsAreKept == Spec => []ActiveWasAcked
<1>1. CompanionInv => ActiveWasAcked
  BY DEF CompanionInv
<1>2. QED
  BY <1>1, CompanionInvariant, PTL

(* The comparison with last_nonce keeps a duplicate of the answered nonce    *)
(* from putting a refusal over the session that nonce stands for.            *)
THEOREM DuplicatesDoNotBlock == Spec => []BlockedIsNotActive
<1>1. CompanionInv => BlockedIsNotActive
  BY DEF CompanionInv
<1>2. QED
  BY <1>1, CompanionInvariant, PTL

=============================================================================
