------------------------------ MODULE Exchange ------------------------------
(***************************************************************************)
(* The companion's calls: the scan through the engine's C interface         *)
(* (engine.rs), the requests it builds and what the client makes of the     *)
(* answers (backend.rs), against the backend's routes and against whatever  *)
(* may answer in their place.  The bench is the contract test, which feeds  *)
(* one message to the readers of both languages.                            *)
(***************************************************************************)
EXTENDS Protocol, FiniteSets

CONSTANTS
    INITIAL_BUFFER, MAX_BUFFER,  \* bytes the scan starts with, and stops at
    Sizes,          \* how long the engine's JSON can be
    ServerNames,    \* names an operator gave a game server
    Oddities        \* values a deviating message has in one of its fields

ASSUME BufferAssumption ==
    /\ Sizes \subseteq Nat /\ INITIAL_BUFFER \in Nat
    /\ MAX_BUFFER \in Nat /\ INITIAL_BUFFER <= MAX_BUFFER

VARIABLES
    phase,      \* "ready", "scanning", "calling", "answered" or "bench"
    capacity,   \* bytes of the scan's buffer
    call,       \* "scan", "poll", "attest", "outcome", "heartbeat", or a bench's schema
    message,    \* the request, or the message on the bench
    answer,     \* [by, status, body]
    note,       \* the driver note of the attestation the backend filed, if any
    result      \* what the last call returned to the worker: [kind, body]

vars == <<phase, capacity, call, message, answer, note, result>>

Result(kind, body) == [kind |-> kind, body |-> body]
Nothing == [by |-> "nobody", status |-> 0, body |-> Null]
NotJson == [t |-> "not_json"]

(* A message with every value inside it, four levels deep.                   *)
Parts(S) ==
    S \cup UNION {IF p.t = "object" THEN {p.f[k] : k \in DOMAIN p.f}
                  ELSE IF p.t = "list" THEN {p.items[i] : i \in DOMAIN p.items}
                  ELSE {} : p \in S}
Within(v) == Parts(Parts(Parts(Parts({v}))))

(* A struct written as a list, of which there are no others than in these.   *)
ListFields == {"probeErrors", "pcrSelection", "reasons", "requirements"}
Positional(v) ==
    \/ v.t = "list"
    \/ \E p \in Within(v) :
          \/ p.t = "object" /\ \E k \in DOMAIN p.f \ ListFields : p.f[k].t = "list"
          \/ p.t = "list" /\ \E i \in DOMAIN p.items : p.items[i].t = "list"

-----------------------------------------------------------------------------
(* An ordinary message of each kind, in the style of fixtures/valid.         *)
Nonce == Ascii("hex", 64)
Session == Ascii("uuid", 36)
Now == Ascii("utc", 24)
Word(w) == Ascii(w, 8)

Features == Object([k \in {"secureBoot", "hvci", "testSigning", "kernelDebugging",
                           "driverBlocklist", "iommu",
                           "virtualizationBasedSecurity"} |-> Word("enabled")])
Tpm == Object([present |-> Bool(TRUE), manufacturer |-> Ascii("plain", 4),
               specVersion |-> Ascii("plain", 3)])
Game == Object([pid |-> Number(7), startedAtUnixMs |-> Number(1),
                imageName |-> Ascii("plain", 9), mainWindowPresent |-> Bool(TRUE)])
Snapshot ==
    Object([schemaVersion |-> Number(1), collectedAt |-> Now,
            companionVersion |-> Ascii("semver", 5), companionBuildHash |-> Nonce,
            osBuild |-> Ascii("plain", 10), features |-> Features, tpm |-> Tpm,
            gameProcess |-> Game, probeErrors |-> List(<<Ascii("plain", 28)>>)])
Player == Object([license |-> Ascii("plain", 40), ip |-> Ascii("ip", 9)])
Requirement == Object([requirement |-> Word("hvci_enabled"), status |-> Word("fail"),
                       detail |-> Ascii("plain", 28)])
Quote == Object([akPublicKeyId |-> Nonce, pcrSelection |-> List(<<Number(0)>>),
                 pcrDigest |-> Nonce, quoteBlob |-> Ascii("base64", 400),
                 signature |-> Ascii("base64", 88)])

Typical ==
    [SystemSnapshot |-> Snapshot,
     NonceRequest |-> Object([serverId |-> Session, player |-> Player,
                              protocolVersion |-> Number(1)]),
     NonceResponse |-> Object([nonce |-> Nonce, sessionId |-> Session,
            expiresAt |-> Now, policyTier |-> Word("standard"),
            backendUrl |-> Ascii("plain", 23), protocolVersion |-> Number(1)]),
     AttestationRequest |-> Object([nonce |-> Nonce, snapshot |-> Snapshot,
                                    protocolVersion |-> Number(1)]),
     AttestationAck |-> Object([accepted |-> Bool(TRUE), sessionId |-> Session,
            receivedAt |-> Now, heartbeatIntervalSeconds |-> Number(120)]),
     Verdict |-> Object([decision |-> Word("deny"), sessionId |-> Session,
            reasons |-> List(<<Word("policy_not_met")>>),
            requirements |-> List(<<Requirement>>),
            remediation |-> Ascii("plain", 270), policyTier |-> Word("standard"),
            evaluatedAt |-> Now, failOpen |-> Bool(FALSE)]),
     LivenessResponse |-> Object([sessionId |-> Session, state |-> Word("active"),
            lastHeartbeatAt |-> Now, shouldKick |-> Bool(FALSE)]),
     LocalAttestCommand |-> Object([nonce |-> Nonce, backendUrl |-> Ascii("plain", 23),
            serverName |-> Ascii("plain", 12), protocolVersion |-> Number(1)]),
     LocalAttestAck |-> Object([accepted |-> Bool(TRUE),
            companionVersion |-> Ascii("semver", 5), protocolVersion |-> Number(1)]),
     CompanionPollRequest |-> Object([companionVersion |-> Ascii("semver", 5),
            waitSeconds |-> Number(25), protocolVersion |-> Number(1)]),
     CompanionPollResponse |-> Object([pending |-> Bool(TRUE), nonce |-> Nonce,
            serverName |-> Ascii("plain", 12), policyTier |-> Word("standard"),
            expiresAt |-> Now, protocolVersion |-> Number(1)]),
     CompanionOutcomeRequest |-> Object([sessionId |-> Session,
            waitSeconds |-> Number(5), protocolVersion |-> Number(1)]),
     HeartbeatRequest |-> Object([sessionId |-> Session, companionBuildHash |-> Nonce,
            uptimeSeconds |-> Number(60), gameProcessPresent |-> Bool(TRUE),
            protocolVersion |-> Number(1)]),
     HeartbeatResponse |-> Object([acknowledged |-> Bool(TRUE),
            nextIntervalSeconds |-> Number(120), terminate |-> Bool(FALSE)]),
     ProtocolError |-> Object([code |-> Ascii("plain", 15),
            message |-> Ascii("plain", 14), requestId |-> Ascii("plain", 5)])]

(* One field replaced, removed or added; one list repeated or with one odd   *)
(* item; the fields by position, up to one too many (ten after the snapshot's *)
(* nine); and the same one and two objects further in.                       *)
With(v, k, x) == Object([j \in DOMAIN v.f \cup {k} |-> IF j = k THEN x ELSE v.f[j]])
Without(v, k) == Object([j \in DOMAIN v.f \ {k} |-> v.f[j]])
Lists(x) == {List([i \in 1..n |-> x.items[1]]) : n \in {0, 16, 17, 24, 25, 32, 33}}
            \cup {List(<<o>>) : o \in Oddities}
AsList(order, n, v) ==
    List([i \in 1..n |-> IF i \in DOMAIN order /\ order[i] \in DOMAIN v.f
                         THEN v.f[order[i]] ELSE Null])
OrdersOf(v) == {FieldOrder[m] : m \in {j \in DOMAIN FieldOrder :
    DOMAIN v.f \subseteq {FieldOrder[j][i] : i \in DOMAIN FieldOrder[j]}}}
ByPosition(v) == {AsList(order, n, v) : order \in OrdersOf(v), n \in 0..10}
Shallow(v) ==
    {v, With(v, "clean", Bool(TRUE)), With(v, "quote", Quote),
     With(v, "steam", Ascii("plain", 20)), With(v, "closing", Bool(TRUE)),
     With(v, "attestationKeyId", Nonce), With(v, "reason", Word("banned"))}
    \cup {Without(v, k) : k \in DOMAIN v.f}
    \cup (UNION {{With(v, k, x) : x \in Oddities} : k \in DOMAIN v.f})
    \cup (UNION {{With(v, k, x) : x \in Lists(v.f[k])} :
                    k \in {j \in DOMAIN v.f : v.f[j].t = "list"}})
    \cup ByPosition(v)
Inside(v, Change(_)) ==
    (UNION {{With(v, k, x) : x \in Change(v.f[k])} :
               k \in {j \in DOMAIN v.f : v.f[j].t = "object"}})
    \cup (UNION {{With(v, k, List(<<x>>)) : x \in Change(v.f[k].items[1])} :
               k \in {j \in DOMAIN v.f : v.f[j].t = "list"
                                         /\ v.f[j].items[1].t = "object"}})
Deep(v) == Shallow(v) \cup Inside(v, Shallow)
Deviating == [schema \in DOMAIN Typical |->
                 Deep(Typical[schema]) \cup Inside(Typical[schema], Deep)]

-----------------------------------------------------------------------------
Init ==
    /\ phase = "ready" /\ capacity = INITIAL_BUFFER /\ call = "scan"
    /\ message = Null /\ answer = Nothing
    /\ note = Null /\ result = Result("none", Null)

Return(r) ==
    /\ phase' = "ready" /\ result' = r
    /\ message' = Null /\ answer' = Nothing /\ capacity' = INITIAL_BUFFER

Scan ==
    /\ phase = "ready"
    /\ phase' = "scanning" /\ call' = "scan" /\ capacity' = INITIAL_BUFFER
    /\ message' = Null /\ answer' = Nothing /\ note' = Null
    /\ result' = Result("none", Null)

(* What a refused attempt does: the engine re-probes on the next one, so its *)
(* answer may have grown or shrunk by then.                                  *)
RequiredBare(written) == written
Required(written) == written + 1
TooLarge(required) == required > MAX_BUFFER \/ required <= capacity

EngineTooSmall(size) ==
    /\ phase = "scanning" /\ capacity < size + 1
    /\ IF TooLarge(Required(size))
       THEN Return(Result("too_large", Number(Required(size)))) /\ UNCHANGED <<call, note>>
       ELSE /\ capacity' = Required(size)
            /\ UNCHANGED <<phase, call, message, answer, note, result>>

EngineFails ==
    /\ phase = "scanning"
    /\ Return(Result("engine_failed", Null))
    /\ UNCHANGED <<call, note>>

(* The engine writes its snapshot with the generated to_json: objects by name *)
(* and without the optional fields that are absent.  The shell reads it by    *)
(* its shape alone, its content is for the backend, and writes it out again.  *)
EngineWrites(snapshot) == ~Positional(snapshot) /\ Null \notin Within(snapshot)
Snapshots == {s \in Deviating.SystemSnapshot : EngineWrites(s)}

EngineOk(snapshot) ==
    /\ phase = "scanning" /\ \E size \in Sizes : size + 1 <= capacity
    /\ IF SystemSnapshot("rust", snapshot)
       THEN /\ phase' = "calling" /\ call' = "attest"
            /\ message' = With(Typical.AttestationRequest, "snapshot", snapshot)
            /\ capacity' = INITIAL_BUFFER
            /\ UNCHANGED <<answer, note, result>>
       ELSE Return(Result("no_snapshot", Null)) /\ UNCHANGED <<call, note>>

(* The other three requests.                                                 *)
PatientPoll == With(Typical.CompanionPollRequest, "waitSeconds", Number(31))
PollRequest == Typical.CompanionPollRequest
OutcomeRequest == Typical.CompanionOutcomeRequest
HeartbeatRequests ==
    {With(Typical.HeartbeatRequest, "gameProcessPresent", Bool(b)) : b \in BOOLEAN}
    \cup {With(Typical.HeartbeatRequest, "closing", Bool(TRUE))}

Send(c, request) ==
    /\ phase = "ready"
    /\ phase' = "calling" /\ call' = c /\ message' = request
    /\ answer' = Nothing /\ result' = Result("none", Null)
    /\ UNCHANGED <<capacity, note>>

-----------------------------------------------------------------------------
(* The backend's routes (external here: ConnectGate models their effect).    *)
RequestSchema == [poll |-> "CompanionPollRequest", attest |-> "AttestationRequest",
                  outcome |-> "CompanionOutcomeRequest",
                  heartbeat |-> "HeartbeatRequest"]
AnswerSchema == [poll |-> "CompanionPollResponse", attest |-> "AttestationAck",
                 outcome |-> "Verdict", heartbeat |-> "HeartbeatResponse"]

From(status, body) == [by |-> "backend", status |-> status, body |-> body]

(* hvciFinding replaces the note's 16-character prefix by one of 16, and     *)
(* buildRemediation sets the detail into 242 characters, 250 bytes, of text. *)
VerdictFor(n) ==
    IF n = Null THEN Typical.Verdict
    ELSE With(With(Typical.Verdict, "requirements",
                   List(<<With(Requirement, "detail", Text("plain", n.chars, n.bytes))>>)),
              "remediation", Text("plain", n.chars + 242, n.bytes + 250))

Answers(c) ==
    CASE c = "poll" ->
            {From(200, With(Typical.CompanionPollResponse, "serverName", name)) :
                 name \in ServerNames}
            \cup {From(200, Object([pending |-> Bool(FALSE),
                                    protocolVersion |-> Number(1)])),
                  From(409, Typical.ProtocolError)}
      [] c = "attest" -> {From(202, Typical.AttestationAck),
                          From(409, Typical.ProtocolError)}
      [] c = "outcome" -> {From(200, VerdictFor(note)),
                           From(202, Typical.ProtocolError),
                           From(404, Typical.ProtocolError)}
      [] c = "heartbeat" ->
            {From(200, Typical.HeartbeatResponse),
             From(200, Object([acknowledged |-> Bool(FALSE),
                               nextIntervalSeconds |-> Number(120),
                               terminate |-> Bool(TRUE),
                               terminateReason |-> Word("heartbeat_lost")])),
             From(404, Typical.ProtocolError)}

BackendRefuses ==
    /\ phase = "calling"
    /\ ~Accepts("zod", RequestSchema[call], message)
    /\ phase' = "answered" /\ answer' = From(400, Typical.ProtocolError)
    /\ UNCHANGED <<capacity, call, message, note, result>>

(* The note filed is the first text of the snapshot's probe errors.          *)
BackendAnswers(a) ==
    /\ phase = "calling"
    /\ Accepts("zod", RequestSchema[call], message)
    /\ a \in Answers(call)
    /\ phase' = "answered" /\ answer' = a
    /\ note' = IF call # "attest" \/ a.status >= 400 THEN note
               ELSE LET notes == message.f.snapshot.f.probeErrors.items
                    IN  IF notes = <<>> THEN Null ELSE notes[1]
    /\ UNCHANGED <<capacity, call, message, result>>

(* Something else answers an ordinary request: a proxy, an older or newer    *)
(* backend, a captive portal.  Half a surrogate pair makes it NotJson: serde  *)
(* finds no text in it.                                                      *)
Decodes(body) == \A p \in Within(body) : p.t = "text" => p.form # "unpaired"
Bodies == [schema \in DOMAIN Typical |-> {b \in Deviating[schema] : Decodes(b)}]
SomethingAnswers(status, body) ==
    /\ phase = "calling" /\ note = Null
    /\ call = "attest" => message = Typical.AttestationRequest
    /\ phase' = "answered"
    /\ answer' = [by |-> "other", status |-> status, body |-> body]
    /\ UNCHANGED <<capacity, call, message, note, result>>

CallLost ==
    /\ phase = "calling"
    /\ Return(Result("unreachable", Null))
    /\ UNCHANGED <<call, note>>

-----------------------------------------------------------------------------
(* The client.  post_raw: a status of 400 and above is an error whatever the *)
(* body, and any other answer must be JSON.                                  *)
PostRaw(a) == IF a.status >= 400 THEN "status"
              ELSE IF a.body = NotJson THEN "malformed" ELSE "ok"

Parsed(good, body) == IF good THEN Result("ok", body) ELSE Result("malformed", Null)

PollPending(a) ==
    LET poll == Struct("rust", "CompanionPollResponse", a.body) IN
    IF Accepts("rust", "CompanionPollResponse", a.body)
    THEN IF Given(poll, "nonce", LAMBDA x : FALSE) \/ poll.f.pending = Bool(FALSE)
         THEN Result("none", Null) ELSE Result("ok", poll)
    ELSE Result("malformed", Null)

Attest(a) == Parsed(Accepts("rust", "AttestationAck", a.body), a.body)

OutcomeByBody(a) == Parsed(Accepts("rust", "Verdict", a.body), a.body)
Outcome(a) ==
    IF a.status = 202 THEN Result("none", Null)
    ELSE Parsed(Accepts("rust", "Verdict", a.body), a.body)

Heartbeat(a) == Parsed(Accepts("rust", "HeartbeatResponse", a.body), a.body)

Read(c, a) ==
    IF PostRaw(a) # "ok" THEN Result(PostRaw(a), Null)
    ELSE CASE c = "poll" -> PollPending(a)
           [] c = "attest" -> Attest(a)
           [] c = "outcome" -> Outcome(a)
           [] c = "heartbeat" -> Heartbeat(a)

(* Asking again until there is a verdict, instead of returning to the worker.*)
AskAgain ==
    /\ phase = "answered"
    /\ result' = Read(call, answer)
    /\ phase' = IF call = "outcome" /\ result'.kind = "none" THEN "calling" ELSE "ready"
    /\ UNCHANGED <<capacity, call, message, answer, note>>
Receive ==
    /\ phase = "answered"
    /\ phase' = "ready" /\ result' = Read(call, answer)
    /\ UNCHANGED <<capacity, call, message, answer, note>>

-----------------------------------------------------------------------------
(* The contract test puts a message before both readers.                     *)
Bench(schema, m) ==
    /\ phase' = "bench" /\ call' = schema /\ message' = m
    /\ UNCHANGED <<capacity, answer, note, result>>

BenchDone ==
    /\ phase = "bench"
    /\ Return(Result("none", Null))
    /\ UNCHANGED <<call, note>>

EngineStep ==
    /\ phase = "scanning"
    /\ \/ \E size \in Sizes : EngineTooSmall(size)
       \/ EngineFails
       \/ \E s \in Snapshots : EngineOk(s)

CallStep ==
    /\ phase = "calling"
    /\ \/ BackendRefuses
       \/ \E a \in Answers(call) : BackendAnswers(a)
       \/ \E status \in {200, 202}, body \in Bodies[AnswerSchema[call]]
                \cup {NotJson, Typical.ProtocolError} : SomethingAnswers(status, body)
       \/ SomethingAnswers(502, NotJson)
       \/ CallLost

Next ==
    \/ Scan
    \/ EngineStep
    \/ Send("poll", PollRequest)
    \/ Send("outcome", OutcomeRequest)
    \/ \E r \in HeartbeatRequests : Send("heartbeat", r)
    \/ CallStep
    \/ Receive
    \/ /\ phase = "ready" /\ message = Null /\ note = Null /\ result.kind = "none"
       /\ \E schema \in DOMAIN Typical : \E m \in Deviating[schema] : Bench(schema, m)
    \/ BenchDone

(* The engine returns from every call (it is called on the worker's thread   *)
(* and only reads the system), and the client's timeouts end every call.     *)
Fairness == WF_vars(EngineStep) /\ WF_vars(CallStep) /\ WF_vars(Receive)

Spec == Init /\ [][Next]_vars /\ Fairness
-----------------------------------------------------------------------------
Utf8(v) == \A p \in Within(v) : p.t = "text" => WellFormedText(p)

(* A message is JSON in UTF-8: a text decodes, an array counts from its first. *)
ASSUME WireAssumption ==
    /\ \A name \in ServerNames : name.t = "text" /\ Utf8(name) /\ Decodes(name)
    /\ \A o \in Oddities :
          /\ Utf8(o)
          /\ \A p \in Within(o) :
                p.t = "list" => p.items \in Seq({p.items[i] : i \in DOMAIN p.items})

NonAscii(v) == \E p \in Within(v) : p.t = "text" /\ p.bytes > p.chars
LooselyWritten(v) ==
    \E p \in Within(v) :
        p.t = "text" /\ p.form \in {"HEX", "base64_loose", "offset", "local",
                                   "no_day", "semver_long", "semver_cut"}
WrittenForZod(v) ==
    \E p \in Within(v) :
        p.t = "float" \/ (p.t = "text" /\ p.form \in {"no_seconds", "unpaired"})

(* The scan's buffer stays within the limit the shell set itself, however    *)
(* the engine's answer changes from one attempt to the next, and a scan is   *)
(* given up as too large only for a snapshot that with its closing NUL       *)
(* really is larger than the limit: growing by what the engine asked for is  *)
(* always enough unless the answer grew in between, and then it grows on.    *)
BufferIsEnough ==
    /\ INITIAL_BUFFER <= capacity /\ capacity <= MAX_BUFFER
    /\ result.kind = "too_large" => result.body.n > MAX_BUFFER

(* The two validators disagree only in named ways.  What zod takes and Rust  *)
(* refuses holds a text that is longer in bytes than in characters, a whole  *)
(* number not written in 64 bits of digits, a time without seconds or half a *)
(* surrogate pair; what Rust takes and zod refuses is loosely written, holds *)
(* a null or has a list for a struct.                                        *)
DriftIsNamed ==
    phase = "bench" =>
        /\ Accepts("zod", call, message) /\ ~Accepts("rust", call, message)
              => NonAscii(message) \/ WrittenForZod(message)
        /\ Accepts("rust", call, message) /\ ~Accepts("zod", call, message)
              => \/ LooselyWritten(message)
                 \/ Null \in Within(message) \/ Positional(message)

(* No request the companion builds is refused as malformed by the backend,   *)
(* except an attestation whose snapshot, which the shell does not validate,  *)
(* the Rust validator would have refused as well or let through as loosely   *)
(* written.                                                                  *)
CompanionIsUnderstood ==
    answer.by = "backend" /\ answer.status = 400 =>
        /\ call = "attest"
        /\ \/ ~Accepts("rust", "AttestationRequest", message)
           \/ LooselyWritten(message)

(* Every answer the backend's own routes give is read: a 202 outcome is      *)
(* "not yet", a refusal is a status, and malformed is only a poll whose      *)
(* server name, or a verdict whose driver name, is too long in bytes (the    *)
(* driver name having come from this companion's own snapshot).              *)
AnswersAreRead ==
    answer.by = "backend" /\ result.kind = "malformed" =>
        \/ call = "poll" /\ answer.body.f.serverName.bytes > 128
        \/ call = "outcome" /\ note.t = "text" /\ note.bytes > 200

(* Every call the worker makes comes back to it, whatever answers.           *)
CallsReturn == phase \in {"scanning", "calling", "answered"} ~> phase = "ready"

(* packages/protocol/README.md: a payload the backend accepts is accepted by *)
(* the others.                                                               *)
BackendPayloadsAreAccepted ==
    answer.by = "backend" /\ answer.status = 200 =>
        (Accepts("zod", AnswerSchema[call], answer.body) =>
            Accepts("rust", AnswerSchema[call], answer.body))
=============================================================================
