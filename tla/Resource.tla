------------------------------ MODULE Resource ------------------------------
(***************************************************************************)
(* The FiveM resource: a deferral thread per connecting player             *)
(* (server/main.lua, server/gate.lua), the liveness loop over the players   *)
(* in game (server/liveness.lua), and the HTTP wrapper both wait on         *)
(* (server/http.lua).                                                       *)
(*                                                                          *)
(* Lua runs one coroutine at a time and switches only where one waits:      *)
(* Wait, Await.  Between a request and the resumption of its caller every   *)
(* other thread, timer, response and player event may run.  The backend     *)
(* and the network may answer anything the wrapper can tell apart, late or  *)
(* never.  A player stands for one connection: FiveM numbers connections    *)
(* and does not reuse a number while its requests are in flight.            *)
(***************************************************************************)
EXTENDS Integers, FiniteSets

CONSTANTS Players,      \* connections, by their source number
          NoPlayer,     \* the liveness loop is waiting for nobody
          MaxRequests,  \* bound on the requests of one run
          MaxLiveness   \* bound on the liveness requests among them

ASSUME ResourceAssumption ==
    /\ NoPlayer \notin Players
    /\ IsFiniteSet(Players)
    /\ MaxLiveness \in Nat
    /\ MaxRequests = 2 * Cardinality(Players) + MaxLiveness

VARIABLES config,         \* configOk and failOpenWhenBackendUnreachable
          presence,       \* whether the connection exists
          thread,         \* where the deferral thread of a player waits
          deferral,       \* what the player's deferral was told
          requests,       \* every request made, by request id
          nextRequestId,
          sessions,       \* players Liveness tracks
          warned,         \* players already warned
          todo,           \* entries the running liveness poll has yet to ask
          asking,         \* the entry it waits for
          warnings,       \* warnings a player saw since the last good answer
          kicked          \* players the loop has dropped

vars == <<config, presence, thread, deferral, requests, nextRequestId,
          sessions, warned, todo, asking, warnings, kicked>>

Ids == 1..MaxRequests

-----------------------------------------------------------------------------
(* What can come back: something unusable (a transport error, a body that   *)
(* is not JSON or that the protocol does not describe), a refusal (4xx) or  *)
(* an error (5xx, 429) as JSON, or the answer asked for.                    *)
Kind == {"nonce", "verdict", "liveness"}

Trouble == {"unusable", "refusal", "outage"}

Good(kind) ==
    CASE kind = "nonce"    -> {"nonce"}
      [] kind = "verdict"  -> {"allow", "allow_fail_open", "deny"}
      [] kind = "liveness" -> {"fine", "overdue", "kick"}

Answers == Trouble \cup UNION {Good(kind) : kind \in Kind}

Request == [kind    : Kind,
            player  : Players \cup {NoPlayer},
            sent    : BOOLEAN,
            pending : BOOLEAN,
            network : BOOLEAN,   \* the response can still come
            timer   : BOOLEAN,   \* the deadline can still fire
            result  : Answers \cup {"none", "timeout"},
            calls   : Nat]       \* how often the callback ran

Unsent == [kind |-> "nonce", player |-> NoPlayer, sent |-> FALSE,
           pending |-> FALSE, network |-> FALSE, timer |-> FALSE,
           result |-> "none", calls |-> 0]

(* Http.request: register, send, arm the deadline.                         *)
OpenedWithoutDeadline(kind, p) ==
    [kind |-> kind, player |-> p, sent |-> TRUE, pending |-> TRUE,
     network |-> TRUE, timer |-> FALSE, result |-> "none", calls |-> 0]
Opened(kind, p) == [kind |-> kind, player |-> p, sent |-> TRUE,
                    pending |-> TRUE, network |-> TRUE, timer |-> TRUE,
                    result |-> "none", calls |-> 0]

Send(kind, p) ==
    /\ nextRequestId < MaxRequests
    /\ nextRequestId' = nextRequestId + 1
    /\ requests' = [requests EXCEPT ![nextRequestId + 1] = Opened(kind, p)]

(* finish: the first of response and deadline reaches the callback.        *)
FinishEveryTime(request, result) ==
    [request EXCEPT !.pending = FALSE, !.result = result, !.calls = @ + 1]
Finish(request, result) ==
    IF request.pending
    THEN [request EXCEPT !.pending = FALSE, !.result = result,
                         !.calls = @ + 1]
    ELSE request

(* requestNonce and pollVerdict: which results mean the resource learned    *)
(* nothing.  An error of the backend written as JSON is not one of them.    *)
DegradedUnlessSilent(result) == result = "unusable"
Degraded(result) == result \in {"unusable", "timeout"}

(* The request a deferral thread or the loop waits for is the newest one    *)
(* made for that player.                                                    *)
RequestsOf(p, kind) ==
    {id \in Ids : /\ requests[id].sent
                  /\ requests[id].player = p
                  /\ requests[id].kind = kind}

Newest(p, kind) ==
    CHOOSE id \in RequestsOf(p, kind) :
        \A other \in RequestsOf(p, kind) : other <= id

Resolved(p, kind) ==
    /\ RequestsOf(p, kind) # {}
    /\ ~requests[Newest(p, kind)].pending

ResultOf(p, kind) == requests[Newest(p, kind)].result

-----------------------------------------------------------------------------
Init ==
    /\ config \in [ok : BOOLEAN, failOpen : BOOLEAN]
    /\ presence = [p \in Players |-> "away"]
    /\ thread = [p \in Players |-> "none"]
    /\ deferral = [p \in Players |-> "none"]
    /\ requests = [id \in Ids |-> Unsent]
    /\ nextRequestId = 0
    /\ sessions = {}
    /\ warned = {}
    /\ todo = {}
    /\ asking = NoPlayer
    /\ warnings = [p \in Players |-> 0]
    /\ kicked = {}

(* playerConnecting: cancelled outright without a valid configuration,      *)
(* otherwise deferred, with a thread that starts after a Wait.              *)
PlayerConnecting(p) ==
    /\ presence[p] = "away"
    /\ presence' = [presence EXCEPT ![p] = "here"]
    /\ deferral' = [deferral EXCEPT ![p] = IF config.ok THEN "open"
                                                        ELSE "refused"]
    /\ thread' = [thread EXCEPT ![p] = IF config.ok THEN "starting"
                                                    ELSE "ended"]
    /\ UNCHANGED <<config, requests, nextRequestId, sessions, warned, todo,
                   asking, warnings, kicked>>

Done(p, answer) ==
    /\ deferral' = [deferral EXCEPT ![p] = answer]
    /\ thread' = [thread EXCEPT ![p] = "ended"]

(* A player without a readable licence is refused.                         *)
RefuseUnlicensed(p) ==
    /\ thread[p] = "starting"
    /\ Done(p, "refused")
    /\ UNCHANGED <<config, presence, requests, nextRequestId, sessions,
                   warned, todo, asking, warnings, kicked>>

RequestNonce(p) ==
    /\ thread[p] = "starting"
    /\ Send("nonce", p)
    /\ thread' = [thread EXCEPT ![p] = "nonce"]
    /\ UNCHANGED <<config, presence, deferral, sessions, warned, todo,
                   asking, warnings, kicked>>

(* degradedDecision: the operator's fallback for a silent backend.         *)
DegradedDecisionAlwaysAllow(failOpen) == "admitted"
DegradedDecision(failOpen) == IF failOpen THEN "admitted" ELSE "refused"

(* What both halves of the thread do with an answer that is not ok.        *)
GiveUp(p, result) ==
    Done(p, IF Degraded(result) THEN DegradedDecision(config.failOpen)
                                ELSE "refused")

(* After requestNonce: the nonce goes to the client and the verdict is      *)
(* asked for, or the deferral ends here.                                    *)
PollVerdict(p) ==
    /\ thread[p] = "nonce"
    /\ Resolved(p, "nonce")
    /\ ResultOf(p, "nonce") = "nonce"
    /\ Send("verdict", p)
    /\ thread' = [thread EXCEPT ![p] = "verdict"]
    /\ UNCHANGED <<config, presence, deferral, sessions, warned, todo,
                   asking, warnings, kicked>>

NonceFailed(p) ==
    /\ thread[p] = "nonce"
    /\ Resolved(p, "nonce")
    /\ ResultOf(p, "nonce") # "nonce"
    /\ GiveUp(p, ResultOf(p, "nonce"))
    /\ UNCHANGED <<config, presence, requests, nextRequestId, sessions,
                   warned, todo, asking, warnings, kicked>>

(* After pollVerdict, by what the verdict says.  The thread does not look   *)
(* whether the player is still there.                                       *)
VerdictAllows(p) ==
    /\ thread[p] = "verdict"
    /\ Resolved(p, "verdict")
    /\ ResultOf(p, "verdict") \in {"allow", "allow_fail_open"}
    /\ sessions' = sessions \cup {p}
    /\ warned' = warned \ {p}
    /\ Done(p, "admitted")
    /\ UNCHANGED <<config, presence, requests, nextRequestId, todo, asking,
                   warnings, kicked>>

VerdictDenies(p) ==
    /\ thread[p] = "verdict"
    /\ Resolved(p, "verdict")
    /\ ResultOf(p, "verdict") = "deny"
    /\ Done(p, "refused")
    /\ UNCHANGED <<config, presence, requests, nextRequestId, sessions,
                   warned, todo, asking, warnings, kicked>>

VerdictFailed(p) ==
    /\ thread[p] = "verdict"
    /\ Resolved(p, "verdict")
    /\ ResultOf(p, "verdict") \in Trouble \cup {"timeout"}
    /\ GiveUp(p, ResultOf(p, "verdict"))
    /\ UNCHANGED <<config, presence, requests, nextRequestId, sessions,
                   warned, todo, asking, warnings, kicked>>

-----------------------------------------------------------------------------
(* The response of PerformHttpRequest arrives, in time or late.            *)
Respond(id, answer) ==
    /\ requests[id].network
    /\ answer \in Trouble \cup Good(requests[id].kind)
    /\ requests' = [requests EXCEPT ![id] =
                        [Finish(@, answer) EXCEPT !.network = FALSE]]
    /\ UNCHANGED <<config, presence, thread, deferral, nextRequestId,
                   sessions, warned, todo, asking, warnings, kicked>>

(* The SetTimeout of the request fires, needed or not.                     *)
Deadline(id) ==
    /\ requests[id].timer
    /\ requests' = [requests EXCEPT ![id] =
                        [Finish(@, "timeout") EXCEPT !.timer = FALSE]]
    /\ UNCHANGED <<config, presence, thread, deferral, nextRequestId,
                   sessions, warned, todo, asking, warnings, kicked>>

(* playerDropped, during the deferral or in game.                          *)
PlayerDropped(p) ==
    /\ presence[p] = "here"
    /\ presence' = [presence EXCEPT ![p] = "gone"]
    /\ sessions' = sessions \ {p}
    /\ warned' = warned \ {p}
    /\ UNCHANGED <<config, thread, deferral, requests, nextRequestId, todo,
                   asking, warnings, kicked>>

-----------------------------------------------------------------------------
(* The loop wakes and takes a copy of the tracked players.                 *)
LivenessPoll ==
    /\ config.ok
    /\ todo = {} /\ asking = NoPlayer
    /\ sessions # {}
    /\ todo' = sessions
    /\ UNCHANGED <<config, presence, thread, deferral, requests,
                   nextRequestId, sessions, warned, asking, warnings, kicked>>

AskLiveness(p) ==
    /\ asking = NoPlayer
    /\ p \in todo
    /\ Cardinality({id \in Ids : /\ requests[id].sent
                                 /\ requests[id].kind = "liveness"})
          < MaxLiveness
    /\ Send("liveness", p)
    /\ todo' = todo \ {p}
    /\ asking' = p
    /\ UNCHANGED <<config, presence, thread, deferral, sessions, warned,
                   warnings, kicked>>

(* The answers Liveness.decide tells apart; anything else changes nothing.  *)
LivenessFine(p) ==
    /\ ResultOf(p, "liveness") = "fine"
    /\ warned' = warned \ {p}
    /\ warnings' = [warnings EXCEPT ![p] = 0]
    /\ UNCHANGED <<presence, sessions, kicked>>

LivenessWarn(p) ==
    /\ ResultOf(p, "liveness") = "overdue"
    /\ p \notin warned
    /\ warned' = warned \cup {p}
    /\ warnings' = [warnings EXCEPT ![p] = @ + 1]
    /\ UNCHANGED <<presence, sessions, kicked>>

(* Still overdue and already warned: decide returns neither a kick nor a    *)
(* warning, and "not a kick" clears the mark.                               *)
LivenessOverdueAgain(p) ==
    /\ ResultOf(p, "liveness") = "overdue"
    /\ p \in warned
    /\ warned' = warned \ {p}
    /\ UNCHANGED <<presence, sessions, warnings, kicked>>

(* DropPlayer, whose playerDropped handler forgets the player as well.     *)
LivenessKick(p) ==
    /\ ResultOf(p, "liveness") = "kick"
    /\ presence' = [presence EXCEPT ![p] = "gone"]
    /\ sessions' = sessions \ {p}
    /\ warned' = warned \ {p}
    /\ kicked' = kicked \cup {p}
    /\ UNCHANGED warnings

LivenessForgetSilent(p) ==
    /\ ResultOf(p, "liveness") \in Trouble \cup {"timeout"}
    /\ sessions' = sessions \ {p}
    /\ UNCHANGED <<presence, warned, warnings, kicked>>
LivenessSilent(p) ==
    /\ ResultOf(p, "liveness") \in Trouble \cup {"timeout"}
    /\ UNCHANGED <<presence, sessions, warned, warnings, kicked>>

LivenessAnswered(p) ==
    /\ asking = p
    /\ Resolved(p, "liveness")
    /\ \/ LivenessFine(p) \/ LivenessWarn(p) \/ LivenessOverdueAgain(p)
       \/ LivenessKick(p) \/ LivenessSilent(p)
    /\ asking' = NoPlayer
    /\ UNCHANGED <<config, thread, deferral, requests, nextRequestId, todo>>

-----------------------------------------------------------------------------
Next ==
    \/ \E p \in Players :
          \/ PlayerConnecting(p) \/ RefuseUnlicensed(p) \/ RequestNonce(p)
          \/ PollVerdict(p) \/ NonceFailed(p)
          \/ VerdictAllows(p) \/ VerdictDenies(p) \/ VerdictFailed(p)
          \/ PlayerDropped(p) \/ AskLiveness(p) \/ LivenessAnswered(p)
    \/ \E id \in Ids :
          \/ Deadline(id)
          \/ \E answer \in Answers : Respond(id, answer)
    \/ LivenessPoll

Spec == Init /\ [][Next]_vars

(* The steps a deferral thread takes once what it waits for is there.      *)
ThreadStep(p) ==
    \/ RefuseUnlicensed(p) \/ RequestNonce(p) \/ PollVerdict(p)
    \/ NonceFailed(p) \/ VerdictAllows(p) \/ VerdictDenies(p)
    \/ VerdictFailed(p)

(* The scheduler resumes a thread whose wait is over and fires due timers;  *)
(* nothing is assumed of the network.                                       *)
FairSpec ==
    /\ Spec
    /\ \A p \in Players : WF_vars(ThreadStep(p))
    /\ \A id \in Ids : WF_vars(Deadline(id))

-----------------------------------------------------------------------------
(* Every variable holds a value of its type.                               *)
TypeOK ==
    /\ config \in [ok : BOOLEAN, failOpen : BOOLEAN]
    /\ presence \in [Players -> {"away", "here", "gone"}]
    /\ thread \in [Players -> {"none", "starting", "nonce", "verdict", "ended"}]
    /\ deferral \in [Players -> {"none", "open", "admitted", "refused"}]
    /\ requests \in [Ids -> Request]
    /\ nextRequestId \in 0..MaxRequests
    /\ sessions \subseteq Players
    /\ warned \subseteq Players
    /\ todo \subseteq Players
    /\ asking \in Players \cup {NoPlayer}
    /\ warnings \in [Players -> Nat]
    /\ kicked \subseteq Players

(* Http.request calls back exactly once: however response and deadline race, *)
(* a callback ran once when the request is no longer pending, never again.   *)
CallbackOnce ==
    \A id \in Ids : requests[id].sent =>
        requests[id].calls = IF requests[id].pending THEN 0 ELSE 1

(* A player gets in because the backend's verdict said so, or because the    *)
(* resource learned nothing and the operator chose to fail open; never past  *)
(* a denial that reached it, and never without a valid configuration.        *)
Asked(p) == RequestsOf(p, "nonce") \cup RequestsOf(p, "verdict")

LearnedNothing(p) == \E id \in Asked(p) : Degraded(requests[id].result)

VerdictAllowed(p) ==
    \E id \in RequestsOf(p, "verdict") :
        requests[id].result \in {"allow", "allow_fail_open"}

Justified(p) ==
    deferral[p] = "admitted" =>
        /\ config.ok
        /\ VerdictAllowed(p) \/ (config.failOpen /\ LearnedNothing(p))
        /\ \A id \in RequestsOf(p, "verdict") : requests[id].result # "deny"

AdmissionJustified == \A p \in Players : Justified(p)

(* A player let in on a verdict is watched for as long as they are there: no *)
(* unanswered, failed or refused liveness request makes the loop lose them.  *)
Watched(p) ==
    (presence[p] = "here" /\ deferral[p] = "admitted" /\ VerdictAllowed(p))
        => p \in sessions

WatchedInGame == \A p \in Players : Watched(p)

(* ADR 0005 wants a disturbance of the backend not to lock players out of a  *)
(* server whose operator fails open.  Silence and noise never do; what can   *)
(* still refuse a player is an answer the backend wrote itself: a denial, a  *)
(* refusal, or its own error as JSON.                                        *)
RefusedByWord(p) ==
    (config.ok /\ config.failOpen /\ deferral[p] = "refused" /\ Asked(p) # {})
        => \E id \in Asked(p) :
              requests[id].result \in {"deny", "refusal", "outage"}

SilenceNeverRefuses == \A p \in Players : RefusedByWord(p)

(* What makes these properties inductive.  Request ids are given out in       *)
(* order and an ended request has an answer to what it asked.                *)
RequestInv ==
    \A id \in Ids :
        /\ requests[id].sent <=> id <= nextRequestId
        /\ requests[id].network \/ requests[id].timer => requests[id].sent
        /\ (requests[id].sent /\ ~requests[id].pending) =>
              requests[id].result \in
                 Trouble \cup {"timeout"} \cup Good(requests[id].kind)

(* The deferral thread of a player makes one request of each kind, the       *)
(* second after the first was answered, and has none left when it ends.      *)
ThreadInv(p) ==
    /\ thread[p] = "none" <=> deferral[p] = "none"
    /\ thread[p] = "none" <=> presence[p] = "away"
    /\ thread[p] = "ended" <=> deferral[p] \in {"admitted", "refused"}
    /\ thread[p] \in {"starting", "nonce", "verdict"} => config.ok
    /\ thread[p] \in {"none", "starting"} => RequestsOf(p, "nonce") = {}
    /\ thread[p] \in {"none", "starting", "nonce"} => RequestsOf(p, "verdict") = {}
    /\ thread[p] \in {"nonce", "verdict"} =>
          \E id \in Ids : /\ RequestsOf(p, "nonce") = {id}
                          /\ thread[p] = "verdict" =>
                                /\ ~requests[id].pending
                                /\ requests[id].result = "nonce"
    /\ thread[p] = "verdict" => \E id \in Ids : RequestsOf(p, "verdict") = {id}
    /\ thread[p] = "ended" =>
          \A id \in Asked(p) : ~requests[id].pending

(* Whoever the loop tracks, has yet to ask for or asks for has connected.     *)
TrackedInv ==
    \A p \in Players : (p \in sessions \cup todo \/ asking = p) => thread[p] # "none"

ResourceInv ==
    /\ TypeOK
    /\ CallbackOnce
    /\ RequestInv
    /\ \A p \in Players : ThreadInv(p)
    /\ AdmissionJustified
    /\ WatchedInGame
    /\ SilenceNeverRefuses

(* No player waits for ever: the deadline of each request ends the deferral  *)
(* even if the backend accepts the connection and goes quiet.                *)
DeferralEnds ==
    \A p \in Players : deferral[p] = "open" ~> deferral[p] # "open"

-----------------------------------------------------------------------------
(* What the repository says of itself and the code does not keep.          *)

(* The comment on warned: the warning is shown once per grace period, that  *)
(* is at most once between two answers that say the heartbeat is on time.   *)
WarnedOncePerGrace == \A p \in Players : warnings[p] <= 1
=============================================================================
