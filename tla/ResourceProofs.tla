---------------------------- MODULE ResourceProofs ----------------------------
(***************************************************************************)
(* Proofs about Resource for every finite set of players and every number   *)
(* of liveness requests: whatever response, deadline, drop and liveness     *)
(* poll come between the steps of a deferral thread.                        *)
(***************************************************************************)
EXTENDS Resource, FiniteSetTheorems, TLAPS

(* Everything the invariant says of one player.                            *)
PlayerInv(p) == ThreadInv(p) /\ Justified(p) /\ Watched(p) /\ RefusedByWord(p)

(* Everything it says of the requests.                                     *)
HttpInv == CallbackOnce /\ RequestInv

(* The invariant, by requests and by players.                              *)
LEMMA InvParts ==
    ResourceInv <=> TypeOK /\ HttpInv /\ \A p \in Players : PlayerInv(p)
BY DEF ResourceInv, HttpInv, PlayerInv, AdmissionJustified, WatchedInGame,
       SilenceNeverRefuses

(* The same of the state after a step.                                     *)
LEMMA InvAfter ==
    ASSUME TypeOK', HttpInv', \A p \in Players : PlayerInv(p)'
    PROVE  ResourceInv'
BY DEF ResourceInv, HttpInv, PlayerInv, AdmissionJustified, WatchedInGame,
       SilenceNeverRefuses

(* The bound on requests is a number.                                      *)
LEMMA RequestBound == MaxRequests \in Nat
<1>1. Cardinality(Players) \in Nat
  BY ResourceAssumption, FS_CardinalityType
<1>2. QED
  BY <1>1, ResourceAssumption

-----------------------------------------------------------------------------
(* Sending takes the next id, which nobody has used, and touches no other   *)
(* request.                                                                 *)
LEMMA SendFacts ==
    ASSUME TypeOK, HttpInv, NEW kind \in Kind, NEW p \in Players, Send(kind, p)
    PROVE  /\ requests' \in [Ids -> Request] /\ nextRequestId' \in 0..MaxRequests
           /\ HttpInv'
           /\ nextRequestId + 1 \in Ids
           /\ requests'[nextRequestId + 1] = Opened(kind, p)
           /\ \A q \in Players, k \in Kind : \A id \in RequestsOf(q, k) :
                 requests'[id] = requests[id]
           /\ \A q \in Players, k \in Kind :
                 RequestsOf(q, k)' =
                    IF q = p /\ k = kind
                    THEN RequestsOf(q, k) \cup {nextRequestId + 1}
                    ELSE RequestsOf(q, k)
<1> DEFINE new == nextRequestId + 1
<1>1. new \in Ids /\ nextRequestId' = new /\ nextRequestId' \in 0..MaxRequests
      /\ nextRequestId \in Nat
  BY RequestBound DEF Send, TypeOK, Ids
<1>2. ~requests[new].sent
  BY <1>1 DEF HttpInv, RequestInv, Ids
<1>3. /\ requests' = [requests EXCEPT ![new] = Opened(kind, p)]
      /\ requests \in [Ids -> Request]
  BY DEF Send, TypeOK
<1>4. Opened(kind, p) \in Request
  BY DEF Opened, Request
<1>5. requests' \in [Ids -> Request]
  BY <1>1, <1>3, <1>4
<1>6. /\ requests'[new] = Opened(kind, p)
      /\ \A id \in Ids : id # new => requests'[id] = requests[id]
  BY <1>1, <1>3
<1>7. /\ Opened(kind, p).sent /\ Opened(kind, p).pending
      /\ Opened(kind, p).player = p /\ Opened(kind, p).kind = kind
      /\ Opened(kind, p).calls = 0
  BY DEF Opened
<1>8. CallbackOnce'
  BY <1>6, <1>7 DEF HttpInv, CallbackOnce
<1>9. RequestInv'
  <2>1. \A id \in Ids : id # new => (id <= nextRequestId <=> id <= new)
    BY <1>1, RequestBound DEF Ids
  <2>2. new <= new
    BY <1>1
  <2>3. QED
    BY <1>1, <1>6, <1>7, <2>1, <2>2 DEF HttpInv, RequestInv
<1>10. \A q \in Players, k \in Kind : \A id \in RequestsOf(q, k) :
          requests'[id] = requests[id]
  BY <1>2, <1>6 DEF RequestsOf
<1>11. ASSUME NEW q \in Players, NEW k \in Kind
       PROVE  RequestsOf(q, k)' = IF q = p /\ k = kind
                                  THEN RequestsOf(q, k) \cup {new}
                                  ELSE RequestsOf(q, k)
  BY <1>1, <1>2, <1>6, <1>7 DEF RequestsOf
<1>12. QED
  BY <1>1, <1>5, <1>6, <1>8, <1>9, <1>10, <1>11 DEF HttpInv

(* finish leaves an ended request alone and keeps what was asked by whom.   *)
LEMMA FinishedRequest ==
    ASSUME NEW r \in Request, NEW result \in Answers \cup {"timeout"}
    PROVE  /\ Finish(r, result) \in Request
           /\ Finish(r, result).sent = r.sent
           /\ ~Finish(r, result).pending
           /\ Finish(r, result).kind = r.kind
           /\ Finish(r, result).player = r.player
           /\ ~r.pending => Finish(r, result) = r
           /\ r.pending => /\ Finish(r, result).result = result
                           /\ Finish(r, result).calls = r.calls + 1
<1>1. CASE r.pending
  <2> DEFINE f == [r EXCEPT !.pending = FALSE, !.result = result, !.calls = @ + 1]
  <2>1. Finish(r, result) = f
    BY <1>1 DEF Finish
  <2>2. r.calls + 1 \in Nat
    BY DEF Request
  <2>3. /\ f.pending = FALSE /\ f.result = result /\ f.calls = r.calls + 1
        /\ f.sent = r.sent /\ f.kind = r.kind /\ f.player = r.player
    BY DEF Request
  <2>4. f \in Request
    BY <2>2 DEF Request
  <2>5. QED
    BY <1>1, <2>1, <2>3, <2>4
<1>2. CASE ~r.pending
  <2>1. Finish(r, result) = r
    BY <1>2 DEF Finish
  <2>2. QED
    BY <1>2, <2>1
<1>3. QED
  BY <1>1, <1>2

(* A response or a deadline ends a pending request, and leaves an ended one  *)
(* as it was.                                                               *)
LEMMA FinishFacts ==
    ASSUME TypeOK, HttpInv, NEW id \in Ids,
           NEW result \in Answers \cup {"timeout"}, NEW request,
           requests[id].sent,
           result \in Trouble \cup {"timeout"} \cup Good(requests[id].kind),
           request \in {[Finish(requests[id], result) EXCEPT !.network = FALSE],
                        [Finish(requests[id], result) EXCEPT !.timer = FALSE]},
           requests' = [requests EXCEPT ![id] = request],
           nextRequestId' = nextRequestId
    PROVE  /\ requests' \in [Ids -> Request]
           /\ HttpInv'
           /\ \A q \in Players, k \in Kind : RequestsOf(q, k)' = RequestsOf(q, k)
           /\ \A i \in Ids : ~requests[i].pending =>
                 ~requests'[i].pending /\ requests'[i].result = requests[i].result
<1>1. requests \in [Ids -> Request] /\ requests[id] \in Request
  BY DEF TypeOK
<1>2. /\ request \in Request
      /\ request.sent /\ ~request.pending
      /\ request.kind = requests[id].kind /\ request.player = requests[id].player
      /\ ~requests[id].pending => /\ request.result = requests[id].result
                                  /\ request.calls = requests[id].calls
      /\ requests[id].pending => /\ request.result = result
                                 /\ request.calls = requests[id].calls + 1
  <2> DEFINE f == Finish(requests[id], result)
  <2>1. /\ f \in Request /\ f.sent = requests[id].sent /\ ~f.pending
        /\ f.kind = requests[id].kind /\ f.player = requests[id].player
        /\ ~requests[id].pending => f = requests[id]
        /\ requests[id].pending => /\ f.result = result
                                   /\ f.calls = requests[id].calls + 1
    BY <1>1, FinishedRequest
  <2>2. /\ request \in Request
        /\ request.sent = f.sent /\ request.pending = f.pending
        /\ request.kind = f.kind /\ request.player = f.player
        /\ request.result = f.result /\ request.calls = f.calls
    <3> HIDE DEF f
    <3>1. request \in {[f EXCEPT !.network = FALSE], [f EXCEPT !.timer = FALSE]}
      BY DEF f
    <3>2. QED
      BY <2>1, <3>1 DEF Request
  <2>3. QED
    BY <2>1, <2>2
<1>3. /\ requests' \in [Ids -> Request]
      /\ requests'[id] = request
      /\ \A i \in Ids : i # id => requests'[i] = requests[i]
  BY <1>1, <1>2
<1>4. CallbackOnce'
  BY <1>2, <1>3 DEF HttpInv, CallbackOnce
<1>5. RequestInv'
  BY <1>2, <1>3 DEF HttpInv, RequestInv
<1>6. ASSUME NEW q \in Players, NEW k \in Kind
      PROVE  RequestsOf(q, k)' = RequestsOf(q, k)
  BY <1>2, <1>3 DEF RequestsOf
<1>7. \A i \in Ids : ~requests[i].pending =>
         ~requests'[i].pending /\ requests'[i].result = requests[i].result
  BY <1>2, <1>3
<1>8. QED
  BY <1>3, <1>4, <1>5, <1>6, <1>7 DEF HttpInv

-----------------------------------------------------------------------------
(* What a step must leave alone for a player whose thread does not move: the *)
(* requests it has waited for to the end keep their answers, and it is not   *)
(* forgotten while it is there.                                              *)
LEMMA PlayerFrame ==
    ASSUME NEW p \in Players, PlayerInv(p),
           thread'[p] = thread[p], deferral'[p] = deferral[p],
           config' = config,
           \/ presence'[p] = presence[p] /\ (p \in sessions => p \in sessions')
           \/ presence[p] # "away" /\ presence'[p] = "gone",
           RequestsOf(p, "nonce")' = RequestsOf(p, "nonce"),
           RequestsOf(p, "verdict")' = RequestsOf(p, "verdict"),
           \A id \in Asked(p) : ~requests[id].pending =>
               ~requests'[id].pending /\ requests'[id].result = requests[id].result
    PROVE  PlayerInv(p)'
<1>1. Asked(p)' = Asked(p)
  BY DEF Asked
<1>2. ThreadInv(p)'
  BY <1>1 DEF PlayerInv, ThreadInv, Asked
<1>3. CASE thread[p] = "ended"
  <2>1. \A id \in Asked(p) : requests'[id].result = requests[id].result
    BY <1>3 DEF PlayerInv, ThreadInv
  <2>2. /\ VerdictAllowed(p)' <=> VerdictAllowed(p)
        /\ LearnedNothing(p)' <=> LearnedNothing(p)
    BY <1>1, <2>1 DEF VerdictAllowed, LearnedNothing, Asked
  <2>3. Justified(p)'
    BY <2>1, <2>2 DEF PlayerInv, Justified, Asked
  <2>4. Watched(p)'
    BY <2>2 DEF PlayerInv, Watched
  <2>5. RefusedByWord(p)'
    BY <1>1, <2>1 DEF PlayerInv, RefusedByWord
  <2>6. QED
    BY <1>2, <2>3, <2>4, <2>5 DEF PlayerInv
<1>4. CASE thread[p] # "ended"
  <2>1. deferral'[p] \notin {"admitted", "refused"}
    BY <1>4 DEF PlayerInv, ThreadInv
  <2>2. QED
    BY <1>2, <2>1 DEF PlayerInv, Justified, Watched, RefusedByWord
<1>5. QED
  BY <1>3, <1>4

(* The steps of one thread that send nothing leave every other player alone. *)
LEMMA OthersFrame ==
    ASSUME ResourceInv, NEW p \in Players,
           \A q \in Players \ {p} :
               /\ thread'[q] = thread[q] /\ deferral'[q] = deferral[q]
               /\ presence'[q] = presence[q]
               /\ q \in sessions => q \in sessions',
           config' = config, requests' = requests
    PROVE  \A q \in Players \ {p} : PlayerInv(q)'
<1> SUFFICES ASSUME NEW q \in Players \ {p} PROVE PlayerInv(q)'
  OBVIOUS
<1>1. PlayerInv(q)
  BY InvParts
<1>2. /\ RequestsOf(q, "nonce")' = RequestsOf(q, "nonce")
      /\ RequestsOf(q, "verdict")' = RequestsOf(q, "verdict")
  BY DEF RequestsOf
<1>3. QED
  BY <1>1, <1>2, PlayerFrame

(* Without a new request or an answer the requests stay as they are.        *)
LEMMA HttpFrame ==
    ASSUME HttpInv, requests' = requests, nextRequestId' = nextRequestId
    PROVE  HttpInv' /\ \A p \in Players, k \in Kind : RequestsOf(p, k)' = RequestsOf(p, k)
BY DEF HttpInv, CallbackOnce, RequestInv, RequestsOf

(* The only request of a kind is the newest of that kind.                   *)
LEMMA OnlyIsNewest ==
    ASSUME NEW p, NEW kind, NEW id \in Ids, RequestsOf(p, kind) = {id}
    PROVE  Newest(p, kind) = id
<1>1. id <= id
  BY RequestBound DEF Ids
<1>2. \A x \in RequestsOf(p, kind) : x = id
  OBVIOUS
<1>3. \E x \in RequestsOf(p, kind) : \A other \in RequestsOf(p, kind) : other <= x
  BY <1>1
<1>4. Newest(p, kind) \in RequestsOf(p, kind)
  BY <1>3 DEF Newest
<1>5. QED
  BY <1>2, <1>4

-----------------------------------------------------------------------------
(* A thread that ends tells the deferral its answer: everything it waited    *)
(* for is there, and the answer is the one the results call for.             *)
LEMMA DoneStep ==
    ASSUME ResourceInv, NEW p \in Players, NEW answer \in {"admitted", "refused"},
           thread[p] \in {"starting", "nonce", "verdict"}, Done(p, answer),
           config' = config, presence' = presence, requests' = requests,
           nextRequestId' = nextRequestId, sessions \subseteq sessions',
           \A id \in Asked(p) : ~requests[id].pending,
           answer = "admitted" =>
               /\ VerdictAllowed(p) \/ (config.failOpen /\ LearnedNothing(p))
               /\ \A id \in RequestsOf(p, "verdict") : requests[id].result # "deny"
               /\ VerdictAllowed(p) => p \in sessions',
           (answer = "refused" /\ config.failOpen /\ Asked(p) # {}) =>
               \E id \in Asked(p) : requests[id].result \in {"deny", "refusal", "outage"}
    PROVE  HttpInv' /\ \A q \in Players : PlayerInv(q)'
<1>1. TypeOK /\ HttpInv /\ PlayerInv(p)
  BY InvParts
<1>2. /\ thread' = [thread EXCEPT ![p] = "ended"]
      /\ deferral' = [deferral EXCEPT ![p] = answer]
      /\ thread \in [Players -> {"none", "starting", "nonce", "verdict", "ended"}]
      /\ deferral \in [Players -> {"none", "open", "admitted", "refused"}]
  BY <1>1 DEF Done, TypeOK
<1>3. \A q \in Players \ {p} : PlayerInv(q)'
  BY <1>2, OthersFrame
<1>4. thread'[p] = "ended" /\ deferral'[p] = answer
  BY <1>2
<1>5. HttpInv' /\ \A q \in Players, k \in Kind : RequestsOf(q, k)' = RequestsOf(q, k)
  BY <1>1, HttpFrame
<1>6. /\ RequestsOf(p, "nonce")' = RequestsOf(p, "nonce")
      /\ RequestsOf(p, "verdict")' = RequestsOf(p, "verdict")
  BY <1>5 DEF Kind
<1>7. /\ Asked(p)' = Asked(p)
      /\ VerdictAllowed(p)' <=> VerdictAllowed(p)
      /\ LearnedNothing(p)' <=> LearnedNothing(p)
  BY <1>6 DEF Asked, VerdictAllowed, LearnedNothing
<1>8. config.ok /\ presence[p] # "away"
  BY <1>1 DEF PlayerInv, ThreadInv
<1>9. ThreadInv(p)'
  BY <1>4, <1>7, <1>8 DEF ThreadInv
<1>10. Justified(p)' /\ Watched(p)' /\ RefusedByWord(p)'
  BY <1>4, <1>6, <1>7, <1>8 DEF Justified, Watched, RefusedByWord
<1>11. QED
  BY <1>3, <1>5, <1>9, <1>10 DEF PlayerInv

(* What a thread reads once its request is resolved: the answer of the only  *)
(* request of that kind it made.                                             *)
LEMMA NonceRead ==
    ASSUME ResourceInv, NEW p \in Players, thread[p] = "nonce", Resolved(p, "nonce")
    PROVE  \E id \in Ids :
              /\ RequestsOf(p, "nonce") = {id} /\ RequestsOf(p, "verdict") = {}
              /\ ~requests[id].pending /\ requests[id].result = ResultOf(p, "nonce")
              /\ ResultOf(p, "nonce") \in Trouble \cup {"timeout", "nonce"}
<1>1. RequestInv /\ ThreadInv(p)
  BY DEF ResourceInv
<1>2. PICK id \in Ids : RequestsOf(p, "nonce") = {id}
  BY <1>1 DEF ThreadInv
<1>3. Newest(p, "nonce") = id
  BY <1>2, OnlyIsNewest
<1>4. /\ ~requests[id].pending /\ requests[id].result = ResultOf(p, "nonce")
      /\ requests[id].sent /\ requests[id].kind = "nonce"
  BY <1>2, <1>3 DEF Resolved, ResultOf, RequestsOf
<1>5. requests[id].result \in Trouble \cup {"timeout"} \cup Good("nonce")
  BY <1>1, <1>4 DEF RequestInv
<1>6. Good("nonce") = {"nonce"}
  BY DEF Good
<1>7. QED
  BY <1>1, <1>2, <1>4, <1>5, <1>6 DEF ThreadInv

(* The same after pollVerdict.                                             *)
LEMMA VerdictRead ==
    ASSUME ResourceInv, NEW p \in Players, thread[p] = "verdict", Resolved(p, "verdict")
    PROVE  \E first, id \in Ids :
              /\ RequestsOf(p, "nonce") = {first} /\ RequestsOf(p, "verdict") = {id}
              /\ ~requests[first].pending /\ requests[first].result = "nonce"
              /\ ~requests[id].pending /\ requests[id].result = ResultOf(p, "verdict")
<1>1. ThreadInv(p)
  BY DEF ResourceInv
<1>2. PICK id \in Ids : RequestsOf(p, "verdict") = {id}
  BY <1>1 DEF ThreadInv
<1>3. Newest(p, "verdict") = id
  BY <1>2, OnlyIsNewest
<1>4. ~requests[id].pending /\ requests[id].result = ResultOf(p, "verdict")
  BY <1>3 DEF Resolved, ResultOf
<1>5. QED
  BY <1>1, <1>2, <1>4 DEF ThreadInv

-----------------------------------------------------------------------------
(* A connection without a valid configuration ends here, another one gets a  *)
(* thread that has asked for nothing.                                        *)
LEMMA PlayerConnectingStep ==
    ASSUME ResourceInv, NEW p \in Players, PlayerConnecting(p)
    PROVE  ResourceInv'
<1>1. TypeOK /\ HttpInv /\ PlayerInv(p)
  BY InvParts
<1>2. TypeOK'
  BY <1>1 DEF PlayerConnecting, TypeOK
<1>3. HttpInv' /\ \A q \in Players, k \in Kind : RequestsOf(q, k)' = RequestsOf(q, k)
  BY <1>1, HttpFrame DEF PlayerConnecting
<1>4. \A q \in Players \ {p} : PlayerInv(q)'
  BY <1>1, OthersFrame DEF PlayerConnecting, TypeOK
<1>5. /\ RequestsOf(p, "nonce")' = {} /\ RequestsOf(p, "verdict")' = {}
      /\ Asked(p)' = {}
  BY <1>1, <1>3 DEF PlayerConnecting, PlayerInv, ThreadInv, Asked, Kind
<1>6. /\ presence'[p] = "here" /\ config' = config
      /\ config.ok => thread'[p] = "starting" /\ deferral'[p] = "open"
      /\ ~config.ok => thread'[p] = "ended" /\ deferral'[p] = "refused"
  BY <1>1 DEF PlayerConnecting, TypeOK
<1>7. PlayerInv(p)'
  BY <1>5, <1>6 DEF PlayerInv, ThreadInv, Justified, Watched, RefusedByWord
<1>8. QED
  BY <1>2, <1>3, <1>4, <1>7, InvAfter

(* Refused before anything was asked.                                       *)
LEMMA RefuseUnlicensedStep ==
    ASSUME ResourceInv, NEW p \in Players, RefuseUnlicensed(p)
    PROVE  ResourceInv'
<1>1. TypeOK'
  BY DEF ResourceInv, RefuseUnlicensed, Done, TypeOK
<1>2. Asked(p) = {}
  BY DEF ResourceInv, ThreadInv, RefuseUnlicensed, Asked
<1>3. HttpInv' /\ \A q \in Players : PlayerInv(q)'
  BY <1>2, DoneStep DEF RefuseUnlicensed
<1>4. QED
  BY <1>1, <1>3, InvAfter

(* A thread that sends: nobody else's requests change.                      *)
LEMMA SendFrame ==
    ASSUME ResourceInv, NEW kind \in Kind, NEW p \in Players, Send(kind, p),
           config' = config, presence' = presence, sessions' = sessions,
           NEW q \in Players, thread'[q] = thread[q], deferral'[q] = deferral[q],
           q # p \/ kind = "liveness"
    PROVE  PlayerInv(q)'
<1>1. TypeOK /\ HttpInv /\ PlayerInv(q)
  BY InvParts
<1>2. /\ \A r \in Players, k \in Kind : \A id \in RequestsOf(r, k) :
            requests'[id] = requests[id]
      /\ \A r \in Players, k \in Kind :
            ~(r = p /\ k = kind) => RequestsOf(r, k)' = RequestsOf(r, k)
  BY <1>1, SendFacts
<1>3. /\ RequestsOf(q, "nonce")' = RequestsOf(q, "nonce")
      /\ RequestsOf(q, "verdict")' = RequestsOf(q, "verdict")
  BY <1>2 DEF Kind
<1>4. \A id \in Asked(q) : requests'[id] = requests[id]
  BY <1>2 DEF Asked, Kind
<1>5. QED
  BY <1>1, <1>3, <1>4, PlayerFrame

(* The first request of the thread.                                         *)
LEMMA RequestNonceStep ==
    ASSUME ResourceInv, NEW p \in Players, RequestNonce(p)
    PROVE  ResourceInv'
<1> DEFINE new == nextRequestId + 1
<1>1. TypeOK /\ HttpInv /\ PlayerInv(p) /\ "nonce" \in Kind /\ "verdict" \in Kind
  BY InvParts DEF Kind
<1>2. /\ requests' \in [Ids -> Request] /\ nextRequestId' \in 0..MaxRequests
      /\ HttpInv' /\ new \in Ids
      /\ RequestsOf(p, "nonce")' = RequestsOf(p, "nonce") \cup {new}
      /\ RequestsOf(p, "verdict")' = RequestsOf(p, "verdict")
  BY <1>1, SendFacts DEF RequestNonce
<1>3. TypeOK'
  BY <1>1, <1>2 DEF RequestNonce, TypeOK
<1>4. thread'[p] = "nonce" /\ \A q \in Players \ {p} : thread'[q] = thread[q]
  BY <1>1 DEF RequestNonce, TypeOK
<1>5. \A q \in Players \ {p} : PlayerInv(q)'
  BY <1>1, <1>4, SendFrame DEF RequestNonce
<1>6. /\ RequestsOf(p, "nonce")' = {new} /\ RequestsOf(p, "verdict")' = {}
      /\ config'.ok /\ deferral'[p] \notin {"none", "admitted", "refused"}
      /\ presence'[p] # "away"
  BY <1>1, <1>2 DEF RequestNonce, PlayerInv, ThreadInv
<1>7. PlayerInv(p)'
  BY <1>2, <1>4, <1>6
     DEF PlayerInv, ThreadInv, Justified, Watched, RefusedByWord
<1>8. QED
  BY <1>2, <1>3, <1>5, <1>7, InvAfter

(* The second request, after the nonce.                                     *)
LEMMA PollVerdictStep ==
    ASSUME ResourceInv, NEW p \in Players, PollVerdict(p)
    PROVE  ResourceInv'
<1> DEFINE new == nextRequestId + 1
<1>1. TypeOK /\ HttpInv /\ PlayerInv(p) /\ "nonce" \in Kind /\ "verdict" \in Kind
  BY InvParts DEF Kind
<1>2. /\ requests' \in [Ids -> Request] /\ nextRequestId' \in 0..MaxRequests
      /\ HttpInv' /\ new \in Ids
      /\ RequestsOf(p, "verdict")' = RequestsOf(p, "verdict") \cup {new}
      /\ RequestsOf(p, "nonce")' = RequestsOf(p, "nonce")
      /\ \A id \in RequestsOf(p, "nonce") : requests'[id] = requests[id]
  BY <1>1, SendFacts DEF PollVerdict
<1>3. TypeOK'
  BY <1>1, <1>2 DEF PollVerdict, TypeOK
<1>4. thread'[p] = "verdict" /\ \A q \in Players \ {p} : thread'[q] = thread[q]
  BY <1>1 DEF PollVerdict, TypeOK
<1>5. \A q \in Players \ {p} : PlayerInv(q)'
  BY <1>1, <1>4, SendFrame DEF PollVerdict
<1>6. PICK id \in Ids :
         /\ RequestsOf(p, "nonce") = {id} /\ RequestsOf(p, "verdict") = {}
         /\ ~requests[id].pending /\ requests[id].result = "nonce"
  BY NonceRead DEF PollVerdict
<1>7. /\ RequestsOf(p, "nonce")' = {id} /\ RequestsOf(p, "verdict")' = {new}
      /\ ~requests'[id].pending /\ requests'[id].result = "nonce"
      /\ config'.ok /\ deferral'[p] \notin {"none", "admitted", "refused"}
      /\ presence'[p] # "away"
  BY <1>1, <1>2, <1>6 DEF PollVerdict, PlayerInv, ThreadInv
<1>8. PlayerInv(p)'
  BY <1>2, <1>4, <1>7
     DEF PlayerInv, ThreadInv, Justified, Watched, RefusedByWord
<1>9. QED
  BY <1>2, <1>3, <1>5, <1>8, InvAfter

(* Without a nonce: the operator's fallback if nothing was learned.         *)
LEMMA NonceFailedStep ==
    ASSUME ResourceInv, NEW p \in Players, NonceFailed(p)
    PROVE  ResourceInv'
<1>1. PICK id \in Ids :
         /\ RequestsOf(p, "nonce") = {id} /\ RequestsOf(p, "verdict") = {}
         /\ ~requests[id].pending /\ requests[id].result = ResultOf(p, "nonce")
         /\ ResultOf(p, "nonce") \in Trouble \cup {"timeout", "nonce"}
  BY NonceRead DEF NonceFailed
<1>2. Asked(p) = {id} /\ requests[id].result \in Trouble \cup {"timeout"}
  BY <1>1 DEF NonceFailed, Asked
<1> DEFINE answer == IF Degraded(ResultOf(p, "nonce"))
                     THEN DegradedDecision(config.failOpen) ELSE "refused"
<1>3. Done(p, answer) /\ answer \in {"admitted", "refused"}
  BY DEF NonceFailed, GiveUp, DegradedDecision
<1>4. TypeOK'
  BY <1>3 DEF ResourceInv, NonceFailed, Done, TypeOK
<1>5. answer = "admitted" => config.failOpen /\ LearnedNothing(p)
  BY <1>1, <1>2 DEF DegradedDecision, LearnedNothing
<1>6. ~VerdictAllowed(p)
  BY <1>1 DEF VerdictAllowed
<1>7. answer = "refused" /\ config.failOpen =>
         requests[id].result \in {"deny", "refusal", "outage"}
  BY <1>1, <1>2 DEF DegradedDecision, Degraded, Trouble
<1>8. HttpInv' /\ \A q \in Players : PlayerInv(q)'
  <2> HIDE DEF answer
  <2>1. QED
    BY <1>1, <1>2, <1>3, <1>5, <1>6, <1>7, DoneStep DEF NonceFailed
<1>9. QED
  BY <1>4, <1>8, InvAfter

(* The verdict lets the player in, and it is tracked from here.             *)
LEMMA VerdictAllowsStep ==
    ASSUME ResourceInv, NEW p \in Players, VerdictAllows(p)
    PROVE  ResourceInv'
<1>1. PICK first, id \in Ids :
         /\ RequestsOf(p, "nonce") = {first} /\ RequestsOf(p, "verdict") = {id}
         /\ ~requests[first].pending /\ requests[first].result = "nonce"
         /\ ~requests[id].pending /\ requests[id].result = ResultOf(p, "verdict")
  BY VerdictRead DEF VerdictAllows
<1>2. \A i \in Asked(p) : ~requests[i].pending
  BY <1>1 DEF Asked
<1>3. VerdictAllowed(p) /\ requests[id].result # "deny"
  BY <1>1 DEF VerdictAllowed, VerdictAllows
<1>4. TypeOK'
  BY DEF ResourceInv, VerdictAllows, Done, TypeOK
<1>5. HttpInv' /\ \A q \in Players : PlayerInv(q)'
  BY <1>1, <1>2, <1>3, DoneStep DEF VerdictAllows
<1>6. QED
  BY <1>4, <1>5, InvAfter

(* The verdict refuses the player.                                          *)
LEMMA VerdictDeniesStep ==
    ASSUME ResourceInv, NEW p \in Players, VerdictDenies(p)
    PROVE  ResourceInv'
<1>1. PICK first, id \in Ids :
         /\ RequestsOf(p, "nonce") = {first} /\ RequestsOf(p, "verdict") = {id}
         /\ ~requests[first].pending /\ requests[first].result = "nonce"
         /\ ~requests[id].pending /\ requests[id].result = ResultOf(p, "verdict")
  BY VerdictRead DEF VerdictDenies
<1>2. /\ \A i \in Asked(p) : ~requests[i].pending
      /\ id \in Asked(p) /\ requests[id].result = "deny"
  BY <1>1 DEF Asked, VerdictDenies
<1>3. TypeOK'
  BY DEF ResourceInv, VerdictDenies, Done, TypeOK
<1>4. HttpInv' /\ \A q \in Players : PlayerInv(q)'
  BY <1>2, DoneStep DEF VerdictDenies
<1>5. QED
  BY <1>3, <1>4, InvAfter

(* No verdict: the operator's fallback if nothing was learned.              *)
LEMMA VerdictFailedStep ==
    ASSUME ResourceInv, NEW p \in Players, VerdictFailed(p)
    PROVE  ResourceInv'
<1>1. PICK first, id \in Ids :
         /\ RequestsOf(p, "nonce") = {first} /\ RequestsOf(p, "verdict") = {id}
         /\ ~requests[first].pending /\ requests[first].result = "nonce"
         /\ ~requests[id].pending /\ requests[id].result = ResultOf(p, "verdict")
  BY VerdictRead DEF VerdictFailed
<1>2. /\ \A i \in Asked(p) : ~requests[i].pending
      /\ id \in Asked(p) /\ requests[id].result \in Trouble \cup {"timeout"}
  BY <1>1 DEF Asked, VerdictFailed
<1> DEFINE answer == IF Degraded(ResultOf(p, "verdict"))
                     THEN DegradedDecision(config.failOpen) ELSE "refused"
<1>3. Done(p, answer) /\ answer \in {"admitted", "refused"}
  BY DEF VerdictFailed, GiveUp, DegradedDecision
<1>4. TypeOK'
  BY <1>3 DEF ResourceInv, VerdictFailed, Done, TypeOK
<1>5. answer = "admitted" => config.failOpen /\ LearnedNothing(p)
  BY <1>1, <1>2 DEF DegradedDecision, LearnedNothing
<1>6. /\ ~VerdictAllowed(p)
      /\ \A i \in RequestsOf(p, "verdict") : requests[i].result # "deny"
  BY <1>1, <1>2 DEF VerdictAllowed, Trouble
<1>7. answer = "refused" /\ config.failOpen =>
         requests[id].result \in {"deny", "refusal", "outage"}
  BY <1>1, <1>2 DEF DegradedDecision, Degraded, Trouble
<1>8. HttpInv' /\ \A q \in Players : PlayerInv(q)'
  <2> HIDE DEF answer
  <2>1. QED
    BY <1>2, <1>3, <1>5, <1>6, <1>7, DoneStep DEF VerdictFailed
<1>9. QED
  BY <1>4, <1>8, InvAfter

-----------------------------------------------------------------------------
(* Responses and deadlines, as PlayerFrame needs them.                      *)
LEMMA FinishFrame ==
    ASSUME ResourceInv, NEW id \in Ids,
           NEW result \in Answers \cup {"timeout"}, NEW request,
           requests[id].sent,
           result \in Trouble \cup {"timeout"} \cup Good(requests[id].kind),
           request \in {[Finish(requests[id], result) EXCEPT !.network = FALSE],
                        [Finish(requests[id], result) EXCEPT !.timer = FALSE]},
           requests' = [requests EXCEPT ![id] = request],
           UNCHANGED <<config, presence, thread, deferral, nextRequestId,
                       sessions, warned, todo, asking, warnings, kicked>>
    PROVE  ResourceInv'
<1>1. TypeOK /\ HttpInv
  BY InvParts
<1>2. /\ requests' \in [Ids -> Request]
      /\ HttpInv'
      /\ \A q \in Players, k \in Kind : RequestsOf(q, k)' = RequestsOf(q, k)
      /\ \A i \in Ids : ~requests[i].pending =>
            ~requests'[i].pending /\ requests'[i].result = requests[i].result
  BY <1>1, FinishFacts
<1>3. TypeOK'
  BY <1>1, <1>2 DEF TypeOK
<1>4. ASSUME NEW p \in Players PROVE PlayerInv(p)'
  <2>1. PlayerInv(p) /\ Asked(p) \subseteq Ids
    BY InvParts DEF Asked, RequestsOf
  <2>2. /\ RequestsOf(p, "nonce")' = RequestsOf(p, "nonce")
        /\ RequestsOf(p, "verdict")' = RequestsOf(p, "verdict")
    BY <1>2 DEF Kind
  <2>3. QED
    BY <1>2, <2>1, <2>2, PlayerFrame
<1>5. QED
  BY <1>2, <1>3, <1>4, InvAfter

(* The response arrives, in time or late.                                   *)
LEMMA RespondStep ==
    ASSUME ResourceInv, NEW id \in Ids, NEW answer \in Answers, Respond(id, answer)
    PROVE  ResourceInv'
<1> DEFINE request == [Finish(requests[id], answer) EXCEPT !.network = FALSE]
<1>1. requests[id].sent
  BY DEF ResourceInv, RequestInv, Respond
<1>2. requests' = [requests EXCEPT ![id] = request]
  BY DEF Respond, ResourceInv, TypeOK
<1>3. QED
  <2> HIDE DEF request
  <2>1. request \in {[Finish(requests[id], answer) EXCEPT !.network = FALSE],
                     [Finish(requests[id], answer) EXCEPT !.timer = FALSE]}
    BY DEF request
  <2>2. QED
    BY <1>1, <1>2, <2>1, FinishFrame DEF Respond

(* The deadline fires, needed or not.                                       *)
LEMMA DeadlineStep ==
    ASSUME ResourceInv, NEW id \in Ids, Deadline(id)
    PROVE  ResourceInv'
<1> DEFINE request == [Finish(requests[id], "timeout") EXCEPT !.timer = FALSE]
<1>1. requests[id].sent
  BY DEF ResourceInv, RequestInv, Deadline
<1>2. requests' = [requests EXCEPT ![id] = request]
  BY DEF Deadline, ResourceInv, TypeOK
<1>3. QED
  <2> HIDE DEF request
  <2>1. request \in {[Finish(requests[id], "timeout") EXCEPT !.network = FALSE],
                     [Finish(requests[id], "timeout") EXCEPT !.timer = FALSE]}
    BY DEF request
  <2>2. QED
    BY <1>1, <1>2, <2>1, FinishFrame DEF Deadline

-----------------------------------------------------------------------------
(* A step that moves no thread and no request, and forgets nobody who stays. *)
LEMMA QuietFrame ==
    ASSUME ResourceInv, TypeOK',
           UNCHANGED <<config, thread, deferral, requests, nextRequestId>>,
           \A q \in Players :
               \/ presence'[q] = presence[q] /\ (q \in sessions => q \in sessions')
               \/ presence[q] # "away" /\ presence'[q] = "gone"
    PROVE  ResourceInv'
<1>1. HttpInv
  BY InvParts
<1>2. HttpInv' /\ \A q \in Players, k \in Kind : RequestsOf(q, k)' = RequestsOf(q, k)
  BY <1>1, HttpFrame
<1>3. ASSUME NEW p \in Players PROVE PlayerInv(p)'
  <2>1. PlayerInv(p)
    BY InvParts
  <2>2. /\ RequestsOf(p, "nonce")' = RequestsOf(p, "nonce")
        /\ RequestsOf(p, "verdict")' = RequestsOf(p, "verdict")
    BY <1>2 DEF Kind
  <2>3. QED
    BY <2>1, <2>2, PlayerFrame
<1>4. QED
  BY <1>2, <1>3, InvAfter

(* The player leaves, during the deferral or in game.                       *)
LEMMA PlayerDroppedStep ==
    ASSUME ResourceInv, NEW p \in Players, PlayerDropped(p)
    PROVE  ResourceInv'
<1>1. TypeOK /\ TypeOK'
  BY DEF ResourceInv, PlayerDropped, TypeOK
<1>2. QED
  BY <1>1, QuietFrame DEF PlayerDropped, TypeOK

(* The loop wakes.                                                          *)
LEMMA LivenessPollStep ==
    ASSUME ResourceInv, LivenessPoll
    PROVE  ResourceInv'
<1>1. TypeOK'
  BY DEF ResourceInv, LivenessPoll, TypeOK
<1>2. QED
  BY <1>1, QuietFrame DEF LivenessPoll

(* The loop asks for one of them: no request of a thread is touched.         *)
LEMMA AskLivenessStep ==
    ASSUME ResourceInv, NEW p \in Players, AskLiveness(p)
    PROVE  ResourceInv'
<1>1. TypeOK /\ HttpInv /\ "liveness" \in Kind
  BY InvParts DEF Kind
<1>2. /\ requests' \in [Ids -> Request] /\ nextRequestId' \in 0..MaxRequests
      /\ HttpInv'
  BY <1>1, SendFacts DEF AskLiveness
<1>3. TypeOK'
  BY <1>1, <1>2 DEF AskLiveness, TypeOK
<1>4. \A q \in Players : PlayerInv(q)'
  BY <1>1, SendFrame DEF AskLiveness
<1>5. QED
  BY <1>2, <1>3, <1>4, InvAfter

(* The answer, by what it says; only a kick forgets the player, who is gone  *)
(* then.                                                                     *)
LEMMA LivenessAnsweredStep ==
    ASSUME ResourceInv, TrackedInv, NEW p \in Players, LivenessAnswered(p)
    PROVE  ResourceInv'
<1>1. TypeOK /\ presence[p] # "away"
  BY DEF ResourceInv, ThreadInv, TrackedInv, LivenessAnswered
<1>2. TypeOK'
  BY <1>1 DEF LivenessAnswered, LivenessFine, LivenessWarn, LivenessOverdueAgain,
              LivenessKick, LivenessSilent, TypeOK
<1>3. \A q \in Players :
         \/ presence'[q] = presence[q] /\ (q \in sessions => q \in sessions')
         \/ presence[q] # "away" /\ presence'[q] = "gone"
  BY <1>1 DEF LivenessAnswered, LivenessFine, LivenessWarn, LivenessOverdueAgain,
              LivenessKick, LivenessSilent, TypeOK
<1>4. QED
  BY <1>2, <1>3, QuietFrame DEF LivenessAnswered

-----------------------------------------------------------------------------
(* Before the first connection there is nothing to say.                     *)
LEMMA ResourceInit == Init => ResourceInv /\ TrackedInv
<1> SUFFICES ASSUME Init PROVE ResourceInv /\ TrackedInv
  OBVIOUS
<1>1. /\ Unsent \in Request /\ ~Unsent.sent
      /\ ~Unsent.network /\ ~Unsent.timer
  BY DEF Unsent, Request, Kind
<1>2. \A id \in Ids : requests[id] = Unsent /\ ~(id <= nextRequestId)
  BY RequestBound DEF Init, Ids
<1>3. TypeOK
  BY <1>1, RequestBound DEF Init, TypeOK
<1>4. HttpInv
  BY <1>1, <1>2 DEF HttpInv, CallbackOnce, RequestInv
<1>5. \A p \in Players, k \in Kind : RequestsOf(p, k) = {}
  BY <1>1, <1>2 DEF RequestsOf
<1>6. ASSUME NEW p \in Players PROVE PlayerInv(p)
  <2>1. /\ thread[p] = "none" /\ deferral[p] = "none" /\ presence[p] = "away"
    BY DEF Init
  <2>2. RequestsOf(p, "nonce") = {} /\ RequestsOf(p, "verdict") = {}
    BY <1>5 DEF Kind
  <2>3. QED
    BY <2>1, <2>2 DEF PlayerInv, ThreadInv, Justified, Watched, RefusedByWord
<1>7. TrackedInv
  BY ResourceAssumption DEF Init, TrackedInv
<1>8. QED
  BY <1>3, <1>4, <1>6, <1>7, InvParts

(* Nobody is tracked before connecting: a thread never goes back to "none".  *)
LEMMA TrackedStep ==
    ASSUME TypeOK, TrackedInv, Next
    PROVE  TrackedInv'
<1>1. ASSUME NEW p \in Players,
             \/ PlayerConnecting(p) \/ RefuseUnlicensed(p) \/ RequestNonce(p)
             \/ PollVerdict(p) \/ NonceFailed(p)
             \/ VerdictAllows(p) \/ VerdictDenies(p) \/ VerdictFailed(p)
      PROVE  TrackedInv'
  BY <1>1 DEF PlayerConnecting, RefuseUnlicensed, RequestNonce, PollVerdict,
              NonceFailed, VerdictAllows, VerdictDenies, VerdictFailed, GiveUp,
              Done, TrackedInv, TypeOK
<1>2. ASSUME NEW p \in Players,
             PlayerDropped(p) \/ AskLiveness(p) \/ LivenessAnswered(p)
      PROVE  TrackedInv'
  BY <1>2, ResourceAssumption
     DEF PlayerDropped, AskLiveness, LivenessAnswered, LivenessFine,
         LivenessWarn, LivenessOverdueAgain, LivenessKick, LivenessSilent,
         TrackedInv, TypeOK
<1>3. CASE LivenessPoll
  BY <1>3 DEF LivenessPoll, TrackedInv
<1>4. ASSUME NEW id \in Ids, Deadline(id) \/ \E answer \in Answers : Respond(id, answer)
      PROVE  TrackedInv'
  BY <1>4 DEF Deadline, Respond, TrackedInv
<1>5. QED
  BY <1>1, <1>2, <1>3, <1>4 DEF Next

(* Every step keeps the invariant.                                          *)
LEMMA ResourceStep ==
    ASSUME ResourceInv, TrackedInv, [Next]_vars
    PROVE  ResourceInv' /\ TrackedInv'
<1>1. CASE Next
  <2>1. ResourceInv'
    BY <1>1, PlayerConnectingStep, RefuseUnlicensedStep, RequestNonceStep,
       PollVerdictStep, NonceFailedStep, VerdictAllowsStep, VerdictDeniesStep,
       VerdictFailedStep, PlayerDroppedStep, AskLivenessStep,
       LivenessAnsweredStep, DeadlineStep, RespondStep, LivenessPollStep
       DEF Next
  <2>2. TrackedInv'
    BY <1>1, TrackedStep DEF ResourceInv
  <2>3. QED
    BY <2>1, <2>2
<1>2. CASE UNCHANGED vars
  <2>1. TypeOK'
    BY <1>2 DEF vars, ResourceInv, TypeOK
  <2>2. QED
    BY <1>2, <2>1, QuietFrame DEF vars, TrackedInv
<1>3. QED
  BY <1>1, <1>2

(* Types, requests, threads and the four safety properties hold together in  *)
(* every state of the resource.                                              *)
THEOREM ResourceInvariant == Spec => [](ResourceInv /\ TrackedInv)
BY ResourceInit, ResourceStep, PTL DEF Spec

(* Http.request's finish: response and deadline reach the callback once       *)
(* between them, in whatever order they come.                                *)
THEOREM CallbacksRunOnce == Spec => []CallbackOnce
<1>1. ResourceInv => CallbackOnce
  BY DEF ResourceInv
<1>2. QED
  BY <1>1, ResourceInvariant, PTL

(* Gate.requestNonce, Gate.pollVerdict and degradedDecision: a player gets in *)
(* on a verdict, or on the operator's word when nothing was learned.         *)
THEOREM AdmissionsAreJustified == Spec => []AdmissionJustified
<1>1. ResourceInv => AdmissionJustified
  BY DEF ResourceInv
<1>2. QED
  BY <1>1, ResourceInvariant, PTL

(* The liveness loop loses nobody who was let in on a verdict and is there.  *)
THEOREM AdmittedAreWatched == Spec => []WatchedInGame
<1>1. ResourceInv => WatchedInGame
  BY DEF ResourceInv
<1>2. QED
  BY <1>1, ResourceInvariant, PTL

(* Under fail-open only something the backend itself wrote refuses a player   *)
(* who was asked about.                                                      *)
THEOREM SilenceIsNoRefusal == Spec => []SilenceNeverRefuses
<1>1. ResourceInv => SilenceNeverRefuses
  BY DEF ResourceInv
<1>2. QED
  BY <1>1, ResourceInvariant, PTL

=============================================================================
