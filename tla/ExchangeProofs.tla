--------------------------- MODULE ExchangeProofs ---------------------------
(***************************************************************************)
(* Proofs about Exchange for every buffer size and limit, every length of   *)
(* the engine's answer, every server name and every odd value a message may *)
(* hold in one of its fields.                                               *)
(***************************************************************************)
EXTENDS Exchange, TLAPS

-----------------------------------------------------------------------------
(* A call in flight is one of the client's four, its last result is cleared. *)
Calls == {"poll", "attest", "outcome", "heartbeat"}

Calling ==
    /\ phase \in {"ready", "scanning", "calling", "answered", "bench"}
    /\ phase \in {"calling", "answered"} => call \in Calls /\ result.kind = "none"
    /\ phase = "scanning" => result.kind = "none"

Buffered ==
    /\ capacity \in Nat
    /\ INITIAL_BUFFER <= capacity /\ capacity <= MAX_BUFFER
    /\ result.kind = "too_large" => result.body.n > MAX_BUFFER

(* What the client makes of an answer is one of four results.                *)
LEMMA ReadKinds ==
    ASSUME NEW c \in Calls, NEW a
    PROVE  Read(c, a).kind \in {"status", "malformed", "none", "ok"}
<1> USE DEF Result, Parsed
<1>1. PostRaw(a) \in {"status", "malformed", "ok"}
  BY DEF PostRaw
<1>2. /\ PollPending(a).kind \in {"malformed", "none", "ok"}
  BY DEF PollPending
<1>3. Attest(a).kind \in {"malformed", "ok"} /\ Heartbeat(a).kind \in {"malformed", "ok"}
  BY DEF Attest, Heartbeat
<1>4. Outcome(a).kind \in {"malformed", "none", "ok"}
  BY DEF Outcome
<1>5. QED
  BY <1>1, <1>2, <1>3, <1>4 DEF Read, Calls

LEMMA CallingStep ==
    ASSUME Calling, [Next]_vars
    PROVE  Calling'
<1> USE DEF Calling, Result, Calls
<1>1. CASE Scan
  BY <1>1 DEF Scan
<1>2. CASE EngineStep
  BY <1>2 DEF EngineStep, EngineTooSmall, EngineFails, EngineOk, Return
<1>3. ASSUME NEW c \in Calls, NEW r, Send(c, r) PROVE Calling'
  BY <1>3 DEF Send
<1>4. CASE CallStep
  BY <1>4 DEF CallStep, BackendRefuses, BackendAnswers, SomethingAnswers, CallLost, Return
<1>5. CASE Receive
  BY <1>5 DEF Receive
<1>6. ASSUME NEW s, NEW m, Bench(s, m) PROVE Calling'
  BY <1>6 DEF Bench
<1>7. CASE BenchDone
  BY <1>7 DEF BenchDone, Return
<1>8. CASE UNCHANGED vars
  BY <1>8 DEF vars
<1>9. QED
  BY <1>1, <1>2, <1>3, <1>4, <1>5, <1>6, <1>7, <1>8 DEF Next

LEMMA BufferedStep ==
    ASSUME Calling, Buffered, [Next]_vars
    PROVE  Buffered'
<1> USE BufferAssumption DEF Buffered, Result
<1>1. CASE Scan
  BY <1>1 DEF Scan
<1>2. ASSUME NEW size \in Sizes, EngineTooSmall(size) PROVE Buffered'
  <2>1. size \in Nat /\ Required(size) = size + 1 /\ capacity < size + 1
    BY <1>2 DEF Required, EngineTooSmall
  <2>2. CASE TooLarge(Required(size))
    <3>1. Required(size) > MAX_BUFFER
      BY <2>1, <2>2 DEF TooLarge
    <3>2. result'.body.n = Required(size) /\ capacity' = INITIAL_BUFFER
      BY <1>2, <2>2 DEF EngineTooSmall, Return, Number
    <3>3. QED
      BY <3>1, <3>2
  <2>3. CASE ~TooLarge(Required(size))
    BY <1>2, <2>1, <2>3 DEF EngineTooSmall, TooLarge
  <2>4. QED
    BY <2>2, <2>3
<1>3. ASSUME NEW s, EngineFails \/ EngineOk(s) PROVE Buffered'
  BY <1>3 DEF EngineFails, EngineOk, Return
<1>4. ASSUME NEW c, NEW r, Send(c, r) PROVE Buffered'
  BY <1>4 DEF Send
<1>5. CASE CallStep
  BY <1>5 DEF CallStep, BackendRefuses, BackendAnswers, SomethingAnswers, CallLost, Return
<1>6. CASE Receive
  <2>1. result'.kind # "too_large"
    BY <1>6, ReadKinds DEF Receive, Calling
  <2>2. QED
    BY <1>6, <2>1 DEF Receive
<1>7. ASSUME NEW s, NEW m, Bench(s, m) PROVE Buffered'
  BY <1>7 DEF Bench
<1>8. CASE BenchDone
  BY <1>8 DEF BenchDone, Return
<1>9. CASE UNCHANGED vars
  BY <1>9 DEF vars
<1>10. QED
  BY <1>1, <1>2, <1>3, <1>4, <1>5, <1>6, <1>7, <1>8, <1>9 DEF Next, EngineStep

(* engine.rs: the scan's buffer stays within its limits however the engine's  *)
(* answer changes between attempts, and a scan is given up as too large only  *)
(* when what the engine asked for exceeds the limit.                          *)
THEOREM BufferNeverOverruns == Spec => []BufferIsEnough
<1>1. Init => Calling /\ Buffered
  BY BufferAssumption DEF Init, Calling, Buffered, Result
<1>2. Calling /\ Buffered /\ [Next]_vars => (Calling /\ Buffered)'
  BY CallingStep, BufferedStep
<1>3. Calling /\ Buffered => BufferIsEnough
  BY DEF Buffered, BufferIsEnough
<1>4. QED
  BY <1>1, <1>2, <1>3, PTL DEF Spec

-----------------------------------------------------------------------------
(* The two readers.  What one accepts the other accepts as well when every    *)
(* value in it reads alike for both: for zod's messages a text's bytes are    *)
(* its characters and no value is written in a way that only zod takes, for   *)
(* Rust's a text is strictly written, no field is null, and an array is only  *)
(* where a list is.                                                          *)
Other(L) == IF L = "rust" THEN "zod" ELSE "rust"
LooseForms == {"HEX", "base64_loose", "offset", "local", "no_day",
               "semver_long", "semver_cut"}

FineText(L, p) ==
    /\ WellFormedText(p)
    /\ L = "zod" => p.bytes <= p.chars /\ p.form \notin {"no_seconds", "unpaired"}
    /\ L = "rust" => p.form \notin LooseForms
Fine(L, p) ==
    /\ p.t = "text" => FineText(L, p)
    /\ L = "zod" => p.t # "float"
    /\ L = "rust" /\ p.t = "object" =>
          \A k \in DOMAIN p.f :
             p.f[k] # Null /\ (p.f[k].t = "list" => k \in ListFields)
    /\ L = "rust" /\ p.t = "list" => \A i \in DOMAIN p.items : p.items[i].t # "list"

Children(p) ==
    IF p.t = "object" THEN {p.f[k] : k \in DOMAIN p.f}
    ELSE IF p.t = "list" THEN {p.items[i] : i \in DOMAIN p.items}
    ELSE {}
Fine1(L, v) == Fine(L, v) /\ \A c \in Children(v) : Fine(L, c)
Fine2(L, v) == Fine(L, v) /\ \A c \in Children(v) : Fine1(L, c)
Fine3(L, v) == Fine(L, v) /\ \A c \in Children(v) : Fine2(L, c)

Readers == {"rust", "zod"}

LEMMA LengthCarries ==
    ASSUME NEW L \in Readers, NEW x, x.t = "text", Fine(L, x),
           NEW max \in Nat, Length(L, x, 0, max)
    PROVE  Length(Other(L), x, 0, max)
  BY DEF Readers, Fine, FineText, WellFormedText, Length, Other

LEMMA FormsCarry ==
    ASSUME NEW L \in Readers, NEW x, x.t = "text", Fine(L, x)
    PROVE  /\ Hex(L, x) => Hex(Other(L), x)
           /\ Base64(L, x) => Base64(Other(L), x)
           /\ Datetime(L, x) => Datetime(Other(L), x)
           /\ Semver(L, x) => Semver(Other(L), x)
           /\ Uuid(L, x) => Uuid(Other(L), x)
           /\ Ip(L, x) => Ip(Other(L), x)
<1>1. FineText(L, x)
  BY DEF Fine
<1>2. QED
  BY <1>1 DEF Readers, FineText, Other, Hex, Base64, Datetime, Semver, Uuid, Ip, Loose, LooseForms

(* A digest or nonce of exactly 64 digits.                                    *)
LEMMA DigestCarries ==
    ASSUME NEW L \in Readers, NEW x, x.t = "text", Fine(L, x),
           Length(L, x, 64, 64), Hex(L, x)
    PROVE  Length(Other(L), x, 64, 64) /\ Hex(Other(L), x)
<1>1. Hex(Other(L), x)
  BY FormsCarry
<1>2. FineText(L, x)
  BY DEF Fine
<1>3. Length(Other(L), x, 64, 64)
  BY <1>2 DEF Readers, FineText, WellFormedText, Length, Other, Hex, Loose, LooseForms
<1>4. QED
  BY <1>1, <1>3

LEMMA ShapeType ==
    \A L, v : /\ HasType(L, v, "text") => v.t = "text"
              /\ HasType(L, v, "list") => v.t = "list"
              /\ HasType(L, v, "object") => v.t = "object" \/ (L = "rust" /\ v.t = "list")
<1>1. "text" \notin DOMAIN Enums /\ "object" \notin DOMAIN Enums /\ "list" \notin DOMAIN Enums
  BY DEF Enums
<1>2. QED
  BY <1>1 DEF HasType

LEMMA TypeCarries ==
    ASSUME NEW L \in Readers, NEW x, NEW type, Fine(L, x), HasType(L, x, type),
           L = "rust" /\ type = "object" => x.t # "list"
    PROVE  HasType(Other(L), x, type)
<1>1. CASE type \in DOMAIN Enums
  <2>1. ~(/\ L = "rust" /\ x.t = "object"
          /\ \E w \in Enums[type] : x.f = [k \in {w} |-> Null])
    BY DEF Fine
  <2>2. x.t = "text" /\ x.form \in Enums[type]
    BY <1>1, <2>1 DEF HasType
  <2>3. QED
    BY <1>1, <2>2 DEF HasType
<1>2. CASE type \notin DOMAIN Enums
  <2>1. x.t = type
    BY <1>2 DEF HasType, Readers, Fine
  <2>2. L = "zod" => ~(type = "text" /\ x.form = "unpaired")
    BY <2>1 DEF Fine, FineText
  <2>3. QED
    BY <1>2, <2>1, <2>2 DEF HasType, Readers, Other
<1>3. QED
  BY <1>1, <1>2

(* The fields of these types that hold a struct are none of the list fields.  *)
Listed(types) == \A k \in DOMAIN types : types[k] = "object" => k \notin ListFields

LEMMA FieldsCarry ==
    ASSUME NEW L \in Readers, NEW v, NEW required, NEW optional,
           Fields(L, v, required, optional), Fine1(L, v),
           Listed(required), Listed(optional)
    PROVE  Fields(Other(L), v, required, optional)
<1>1. /\ v.t = "object" /\ DOMAIN required \subseteq DOMAIN v.f
      /\ DOMAIN v.f \subseteq DOMAIN required \cup DOMAIN optional
  BY DEF Fields
<1>2. ASSUME NEW k \in DOMAIN v.f, NEW types, Listed(types), k \in DOMAIN types,
             HasType(L, v.f[k], types[k])
      PROVE  HasType(Other(L), v.f[k], types[k])
  <2>1. Fine(L, v.f[k]) /\ Fine(L, v)
    BY <1>1 DEF Fine1, Children
  <2>2. L = "rust" /\ types[k] = "object" => v.f[k].t # "list"
    BY <1>1, <1>2, <2>1 DEF Fine, Listed
  <2>3. QED
    BY <1>2, <2>1, <2>2, TypeCarries
<1>3. \A k \in DOMAIN v.f : ~(L = "rust" /\ v.f[k] = Null)
  BY <1>1 DEF Fine1, Fine
<1>4. ASSUME NEW k \in DOMAIN v.f
      PROVE  IF k \in DOMAIN required THEN HasType(Other(L), v.f[k], required[k])
             ELSE HasType(Other(L), v.f[k], optional[k])
  <2>1. CASE k \in DOMAIN required
    <3>1. HasType(L, v.f[k], required[k])
      BY <2>1 DEF Fields
    <3>2. QED
      BY <1>2, <2>1, <3>1
  <2>2. CASE k \notin DOMAIN required
    <3>1. HasType(L, v.f[k], optional[k]) /\ k \in DOMAIN optional
      BY <1>1, <1>3, <2>2 DEF Fields
    <3>2. QED
      BY <1>2, <2>2, <3>1
  <2>3. QED
    BY <2>1, <2>2
<1>5. QED
  BY <1>1, <1>4 DEF Fields

LEMMA RequiredFieldsCarry ==
    ASSUME NEW L \in Readers, NEW v, NEW required, Fields(L, v, required, None),
           Fine1(L, v), Listed(required)
    PROVE  Fields(Other(L), v, required, None)
<1>1. Listed(None)
  BY DEF Listed, None
<1>2. QED
  BY <1>1, FieldsCarry

(* What a field that is there holds.                                          *)
LEMMA RequiredField ==
    ASSUME NEW L, NEW v, NEW required, NEW optional,
           Fields(L, v, required, optional), NEW k \in DOMAIN required
    PROVE  v.f[k] \in Children(v) /\ HasType(L, v.f[k], required[k])
  BY DEF Fields, Children

LEMMA OptionalField ==
    ASSUME NEW L, NEW v, NEW required, NEW optional,
           Fields(L, v, required, optional),
           NEW k \in DOMAIN v.f, k \notin DOMAIN required, v.f[k] # Null
    PROVE  v.f[k] \in Children(v) /\ HasType(L, v.f[k], optional[k])
  BY DEF Fields, Children

LEMMA RequiredText ==
    ASSUME NEW L, NEW v, NEW required, NEW optional, Fine1(L, v),
           Fields(L, v, required, optional),
           NEW k \in DOMAIN required, required[k] = "text"
    PROVE  v.f[k].t = "text" /\ Fine(L, v.f[k])
  BY RequiredField, ShapeType DEF Fine1

LEMMA OptionalText ==
    ASSUME NEW L, NEW v, NEW required, NEW optional, Fine1(L, v),
           Fields(L, v, required, optional),
           NEW k \in DOMAIN v.f, k \notin DOMAIN required, v.f[k] # Null,
           optional[k] = "text"
    PROVE  v.f[k].t = "text" /\ Fine(L, v.f[k])
  BY OptionalField, ShapeType DEF Fine1

(* A struct in a field is an object, and both read the object itself.         *)
LEMMA StructSame ==
    ASSUME NEW L, NEW m, NEW x, x.t # "list" \/ L = "zod"
    PROVE  Struct(L, m, x) = x
  BY DEF Struct

LEMMA RequiredObject ==
    ASSUME NEW L, NEW v, NEW required, NEW optional, Fine1(L, v),
           Fields(L, v, required, optional), Listed(required),
           NEW k \in DOMAIN required, required[k] = "object"
    PROVE  v.f[k].t = "object" /\ v.f[k] \in Children(v)
<1>1. v.f[k] \in Children(v) /\ HasType(L, v.f[k], "object")
  BY RequiredField
<1>2. v.t = "object" /\ k \in DOMAIN v.f
  BY DEF Fields
<1>3. ~(L = "rust" /\ v.f[k].t = "list")
  BY <1>2 DEF Fine1, Fine, Listed
<1>4. QED
  BY <1>1, <1>3, ShapeType

LEMMA OptionalObject ==
    ASSUME NEW L, NEW v, NEW required, NEW optional, Fine1(L, v),
           Fields(L, v, required, optional), Listed(optional),
           NEW k \in DOMAIN v.f, k \notin DOMAIN required, v.f[k] # Null,
           optional[k] = "object"
    PROVE  v.f[k].t = "object" /\ v.f[k] \in Children(v)
<1>1. v.f[k] \in Children(v) /\ HasType(L, v.f[k], "object")
  BY OptionalField
<1>2. v.t = "object" /\ k \in DOMAIN optional
  BY DEF Fields
<1>3. ~(L = "rust" /\ v.f[k].t = "list")
  BY <1>2 DEF Fine1, Fine, Listed
<1>4. QED
  BY <1>1, <1>3, ShapeType

-----------------------------------------------------------------------------
LEMMA TpmInfoCarries ==
    ASSUME NEW L \in Readers, NEW v, Fine1(L, v), TpmInfo(L, v)
    PROVE  /\ TpmInfo(Other(L), v)
           /\ ValidateTpmInfo(L, v) => ValidateTpmInfo(Other(L), v)
<1> DEFINE required == [present |-> "bool"]
           optional == [k \in {"manufacturer", "specVersion", "attestationKeyId"} |-> "text"]
<1>1. /\ Fields(L, v, required, optional)
      /\ Fields(Other(L), v, required, optional) => TpmInfo(Other(L), v)
  BY DEF TpmInfo
<1>2. /\ DOMAIN required = {"present"}
      /\ \A k \in {"manufacturer", "specVersion", "attestationKeyId"} : optional[k] = "text"
      /\ Listed(required) /\ Listed(optional)
  BY DEF Listed, ListFields
<1> HIDE DEF required, optional
<1>3. TpmInfo(Other(L), v)
  BY <1>1, <1>2, FieldsCarry
<1>4. \A k \in {"manufacturer", "specVersion", "attestationKeyId"} :
         (k \in DOMAIN v.f /\ v.f[k] # Null) => v.f[k].t = "text" /\ Fine(L, v.f[k])
  BY <1>1, <1>2, OptionalText
<1>5. ValidateTpmInfo(L, v) => ValidateTpmInfo(Other(L), v)
  BY <1>4, LengthCarries, FormsCarry DEF ValidateTpmInfo, Given
<1>6. QED
  BY <1>3, <1>5

LEMMA GameProcessEvidenceCarries ==
    ASSUME NEW L \in Readers, NEW v, Fine1(L, v), GameProcessEvidence(L, v)
    PROVE  /\ GameProcessEvidence(Other(L), v)
           /\ ValidateGameProcessEvidence(L, v) => ValidateGameProcessEvidence(Other(L), v)
<1> DEFINE required == [pid |-> "int", startedAtUnixMs |-> "int", imageName |-> "text",
                        mainWindowPresent |-> "bool"]
<1>1. /\ Fields(L, v, required, None)
      /\ Fields(Other(L), v, required, None) => GameProcessEvidence(Other(L), v)
  BY DEF GameProcessEvidence
<1>2. /\ {"imageName"} \subseteq DOMAIN required
      /\ \A k \in {"imageName"} : required[k] = "text"
      /\ Listed(required)
  BY DEF Listed, ListFields
<1> HIDE DEF required
<1>3. GameProcessEvidence(Other(L), v)
  BY <1>1, <1>2, RequiredFieldsCarry
<1>4. \A k \in {"imageName"} :
         v.f[k].t = "text" /\ Fine(L, v.f[k])
  BY <1>1, <1>2, RequiredText
<1>5. ValidateGameProcessEvidence(L, v) => ValidateGameProcessEvidence(Other(L), v)
  BY <1>4, LengthCarries, FormsCarry, DigestCarries
  DEF ValidateGameProcessEvidence
<1>6. QED
  BY <1>3, <1>5

LEMMA PlayerIdentifiersCarries ==
    ASSUME NEW L \in Readers, NEW v, Fine1(L, v), PlayerIdentifiers(L, v)
    PROVE  /\ PlayerIdentifiers(Other(L), v)
           /\ ValidatePlayerIdentifiers(L, v) => ValidatePlayerIdentifiers(Other(L), v)
<1> DEFINE required == [license |-> "text", ip |-> "text"]
           optional == [steam |-> "text", discord |-> "text"]
<1>1. /\ Fields(L, v, required, optional)
      /\ Fields(Other(L), v, required, optional) => PlayerIdentifiers(Other(L), v)
  BY DEF PlayerIdentifiers
<1>2. /\ {"license", "ip"} \subseteq DOMAIN required
      /\ \A k \in {"license", "ip"} : required[k] = "text"
      /\ \A k \in {"steam", "discord"} : k \notin DOMAIN required
      /\ \A k \in {"steam", "discord"} : optional[k] = "text"
      /\ Listed(required) /\ Listed(optional)
  BY DEF Listed, ListFields
<1> HIDE DEF required, optional
<1>3. PlayerIdentifiers(Other(L), v)
  BY <1>1, <1>2, FieldsCarry
<1>4. \A k \in {"license", "ip"} :
         v.f[k].t = "text" /\ Fine(L, v.f[k])
  BY <1>1, <1>2, RequiredText
<1>5. \A k \in {"steam", "discord"} :
         (k \in DOMAIN v.f /\ v.f[k] # Null) => v.f[k].t = "text" /\ Fine(L, v.f[k])
  BY <1>1, <1>2, OptionalText
<1>6. ValidatePlayerIdentifiers(L, v) => ValidatePlayerIdentifiers(Other(L), v)
  BY <1>4, <1>5, LengthCarries, FormsCarry, DigestCarries
  DEF ValidatePlayerIdentifiers, Given
<1>7. QED
  BY <1>3, <1>6

LEMMA NonceResponseCarries ==
    ASSUME NEW L \in Readers, NEW v, Fine1(L, v), NonceResponse(L, v)
    PROVE  /\ NonceResponse(Other(L), v)
           /\ ValidateNonceResponse(L, v) => ValidateNonceResponse(Other(L), v)
<1> DEFINE required == [nonce |-> "text", sessionId |-> "text", expiresAt |-> "text",
                        policyTier |-> "PolicyTier", backendUrl |-> "text",
                        protocolVersion |-> "int"]
<1>1. /\ Fields(L, v, required, None)
      /\ Fields(Other(L), v, required, None) => NonceResponse(Other(L), v)
  BY DEF NonceResponse
<1>2. /\ {"nonce", "sessionId", "expiresAt", "backendUrl"} \subseteq DOMAIN required
      /\ \A k \in {"nonce", "sessionId", "expiresAt", "backendUrl"} : required[k] = "text"
      /\ Listed(required)
  BY DEF Listed, ListFields
<1> HIDE DEF required
<1>3. NonceResponse(Other(L), v)
  BY <1>1, <1>2, RequiredFieldsCarry
<1>4. \A k \in {"nonce", "sessionId", "expiresAt", "backendUrl"} :
         v.f[k].t = "text" /\ Fine(L, v.f[k])
  BY <1>1, <1>2, RequiredText
<1>5. ValidateNonceResponse(L, v) => ValidateNonceResponse(Other(L), v)
  BY <1>4, LengthCarries, FormsCarry, DigestCarries
  DEF ValidateNonceResponse
<1>6. QED
  BY <1>3, <1>5

LEMMA AttestationAckCarries ==
    ASSUME NEW L \in Readers, NEW v, Fine1(L, v), AttestationAck(L, v)
    PROVE  /\ AttestationAck(Other(L), v)
           /\ ValidateAttestationAck(L, v) => ValidateAttestationAck(Other(L), v)
<1> DEFINE required == [accepted |-> "bool", sessionId |-> "text", receivedAt |-> "text",
                        heartbeatIntervalSeconds |-> "int"]
<1>1. /\ Fields(L, v, required, None)
      /\ Fields(Other(L), v, required, None) => AttestationAck(Other(L), v)
  BY DEF AttestationAck
<1>2. /\ {"sessionId", "receivedAt"} \subseteq DOMAIN required
      /\ \A k \in {"sessionId", "receivedAt"} : required[k] = "text"
      /\ Listed(required)
  BY DEF Listed, ListFields
<1> HIDE DEF required
<1>3. AttestationAck(Other(L), v)
  BY <1>1, <1>2, RequiredFieldsCarry
<1>4. \A k \in {"sessionId", "receivedAt"} :
         v.f[k].t = "text" /\ Fine(L, v.f[k])
  BY <1>1, <1>2, RequiredText
<1>5. ValidateAttestationAck(L, v) => ValidateAttestationAck(Other(L), v)
  BY <1>4, LengthCarries, FormsCarry, DigestCarries
  DEF ValidateAttestationAck
<1>6. QED
  BY <1>3, <1>5

LEMMA RequirementResultCarries ==
    ASSUME NEW L \in Readers, NEW v, Fine1(L, v), RequirementResult(L, v)
    PROVE  /\ RequirementResult(Other(L), v)
           /\ ValidateRequirementResult(L, v) => ValidateRequirementResult(Other(L), v)
<1> DEFINE required == [requirement |-> "RequirementId", status |-> "RequirementStatus"]
           optional == [detail |-> "text"]
<1>1. /\ Fields(L, v, required, optional)
      /\ Fields(Other(L), v, required, optional) => RequirementResult(Other(L), v)
  BY DEF RequirementResult
<1>2. /\ \A k \in {"detail"} : k \notin DOMAIN required
      /\ \A k \in {"detail"} : optional[k] = "text"
      /\ Listed(required) /\ Listed(optional)
  BY DEF Listed, ListFields
<1> HIDE DEF required, optional
<1>3. RequirementResult(Other(L), v)
  BY <1>1, <1>2, FieldsCarry
<1>4. \A k \in {"detail"} :
         (k \in DOMAIN v.f /\ v.f[k] # Null) => v.f[k].t = "text" /\ Fine(L, v.f[k])
  BY <1>1, <1>2, OptionalText
<1>5. ValidateRequirementResult(L, v) => ValidateRequirementResult(Other(L), v)
  BY <1>4, LengthCarries, FormsCarry, DigestCarries
  DEF ValidateRequirementResult, Given
<1>6. QED
  BY <1>3, <1>5

LEMMA LivenessResponseCarries ==
    ASSUME NEW L \in Readers, NEW v, Fine1(L, v), LivenessResponse(L, v)
    PROVE  /\ LivenessResponse(Other(L), v)
           /\ ValidateLivenessResponse(L, v) => ValidateLivenessResponse(Other(L), v)
<1> DEFINE required == [sessionId |-> "text", state |-> "SessionState",
                        shouldKick |-> "bool"]
           optional == [lastHeartbeatAt |-> "text", graceExpiresAt |-> "text",
                        reason |-> "DenyReason"]
<1>1. /\ Fields(L, v, required, optional)
      /\ Fields(Other(L), v, required, optional) => LivenessResponse(Other(L), v)
  BY DEF LivenessResponse
<1>2. /\ {"sessionId"} \subseteq DOMAIN required
      /\ \A k \in {"sessionId"} : required[k] = "text"
      /\ \A k \in {"lastHeartbeatAt", "graceExpiresAt"} : k \notin DOMAIN required
      /\ \A k \in {"lastHeartbeatAt", "graceExpiresAt"} : optional[k] = "text"
      /\ Listed(required) /\ Listed(optional)
  BY DEF Listed, ListFields
<1> HIDE DEF required, optional
<1>3. LivenessResponse(Other(L), v)
  BY <1>1, <1>2, FieldsCarry
<1>4. \A k \in {"sessionId"} :
         v.f[k].t = "text" /\ Fine(L, v.f[k])
  BY <1>1, <1>2, RequiredText
<1>5. \A k \in {"lastHeartbeatAt", "graceExpiresAt"} :
         (k \in DOMAIN v.f /\ v.f[k] # Null) => v.f[k].t = "text" /\ Fine(L, v.f[k])
  BY <1>1, <1>2, OptionalText
<1>6. ValidateLivenessResponse(L, v) => ValidateLivenessResponse(Other(L), v)
  BY <1>4, <1>5, LengthCarries, FormsCarry, DigestCarries
  DEF ValidateLivenessResponse, Given
<1>7. QED
  BY <1>3, <1>6

LEMMA LocalAttestCommandCarries ==
    ASSUME NEW L \in Readers, NEW v, Fine1(L, v), LocalAttestCommand(L, v)
    PROVE  /\ LocalAttestCommand(Other(L), v)
           /\ ValidateLocalAttestCommand(L, v) => ValidateLocalAttestCommand(Other(L), v)
<1> DEFINE required == [nonce |-> "text", backendUrl |-> "text",
                        protocolVersion |-> "int"]
           optional == [serverName |-> "text"]
<1>1. /\ Fields(L, v, required, optional)
      /\ Fields(Other(L), v, required, optional) => LocalAttestCommand(Other(L), v)
  BY DEF LocalAttestCommand
<1>2. /\ {"nonce", "backendUrl"} \subseteq DOMAIN required
      /\ \A k \in {"nonce", "backendUrl"} : required[k] = "text"
      /\ \A k \in {"serverName"} : k \notin DOMAIN required
      /\ \A k \in {"serverName"} : optional[k] = "text"
      /\ Listed(required) /\ Listed(optional)
  BY DEF Listed, ListFields
<1> HIDE DEF required, optional
<1>3. LocalAttestCommand(Other(L), v)
  BY <1>1, <1>2, FieldsCarry
<1>4. \A k \in {"nonce", "backendUrl"} :
         v.f[k].t = "text" /\ Fine(L, v.f[k])
  BY <1>1, <1>2, RequiredText
<1>5. \A k \in {"serverName"} :
         (k \in DOMAIN v.f /\ v.f[k] # Null) => v.f[k].t = "text" /\ Fine(L, v.f[k])
  BY <1>1, <1>2, OptionalText
<1>6. ValidateLocalAttestCommand(L, v) => ValidateLocalAttestCommand(Other(L), v)
  BY <1>4, <1>5, LengthCarries, FormsCarry, DigestCarries
  DEF ValidateLocalAttestCommand, Given
<1>7. QED
  BY <1>3, <1>6

LEMMA LocalAttestAckCarries ==
    ASSUME NEW L \in Readers, NEW v, Fine1(L, v), LocalAttestAck(L, v)
    PROVE  /\ LocalAttestAck(Other(L), v)
           /\ ValidateLocalAttestAck(L, v) => ValidateLocalAttestAck(Other(L), v)
<1> DEFINE required == [accepted |-> "bool", companionVersion |-> "text",
                        protocolVersion |-> "int"]
<1>1. /\ Fields(L, v, required, None)
      /\ Fields(Other(L), v, required, None) => LocalAttestAck(Other(L), v)
  BY DEF LocalAttestAck
<1>2. /\ {"companionVersion"} \subseteq DOMAIN required
      /\ \A k \in {"companionVersion"} : required[k] = "text"
      /\ Listed(required)
  BY DEF Listed, ListFields
<1> HIDE DEF required
<1>3. LocalAttestAck(Other(L), v)
  BY <1>1, <1>2, RequiredFieldsCarry
<1>4. \A k \in {"companionVersion"} :
         v.f[k].t = "text" /\ Fine(L, v.f[k])
  BY <1>1, <1>2, RequiredText
<1>5. ValidateLocalAttestAck(L, v) => ValidateLocalAttestAck(Other(L), v)
  BY <1>4, LengthCarries, FormsCarry, DigestCarries
  DEF ValidateLocalAttestAck
<1>6. QED
  BY <1>3, <1>5

LEMMA CompanionPollRequestCarries ==
    ASSUME NEW L \in Readers, NEW v, Fine1(L, v), CompanionPollRequest(L, v)
    PROVE  /\ CompanionPollRequest(Other(L), v)
           /\ ValidateCompanionPollRequest(L, v) => ValidateCompanionPollRequest(Other(L), v)
<1> DEFINE required == [companionVersion |-> "text", waitSeconds |-> "int",
                        protocolVersion |-> "int"]
<1>1. /\ Fields(L, v, required, None)
      /\ Fields(Other(L), v, required, None) => CompanionPollRequest(Other(L), v)
  BY DEF CompanionPollRequest
<1>2. /\ {"companionVersion"} \subseteq DOMAIN required
      /\ \A k \in {"companionVersion"} : required[k] = "text"
      /\ Listed(required)
  BY DEF Listed, ListFields
<1> HIDE DEF required
<1>3. CompanionPollRequest(Other(L), v)
  BY <1>1, <1>2, RequiredFieldsCarry
<1>4. \A k \in {"companionVersion"} :
         v.f[k].t = "text" /\ Fine(L, v.f[k])
  BY <1>1, <1>2, RequiredText
<1>5. ValidateCompanionPollRequest(L, v) => ValidateCompanionPollRequest(Other(L), v)
  BY <1>4, LengthCarries, FormsCarry, DigestCarries
  DEF ValidateCompanionPollRequest
<1>6. QED
  BY <1>3, <1>5

LEMMA CompanionPollResponseCarries ==
    ASSUME NEW L \in Readers, NEW v, Fine1(L, v), CompanionPollResponse(L, v)
    PROVE  /\ CompanionPollResponse(Other(L), v)
           /\ ValidateCompanionPollResponse(L, v) => ValidateCompanionPollResponse(Other(L), v)
<1> DEFINE required == [pending |-> "bool", protocolVersion |-> "int"]
           optional == [nonce |-> "text", serverName |-> "text", policyTier |-> "PolicyTier",
                        expiresAt |-> "text"]
<1>1. /\ Fields(L, v, required, optional)
      /\ Fields(Other(L), v, required, optional) => CompanionPollResponse(Other(L), v)
  BY DEF CompanionPollResponse
<1>2. /\ \A k \in {"nonce", "serverName", "expiresAt"} : k \notin DOMAIN required
      /\ \A k \in {"nonce", "serverName", "expiresAt"} : optional[k] = "text"
      /\ Listed(required) /\ Listed(optional)
  BY DEF Listed, ListFields
<1> HIDE DEF required, optional
<1>3. CompanionPollResponse(Other(L), v)
  BY <1>1, <1>2, FieldsCarry
<1>4. \A k \in {"nonce", "serverName", "expiresAt"} :
         (k \in DOMAIN v.f /\ v.f[k] # Null) => v.f[k].t = "text" /\ Fine(L, v.f[k])
  BY <1>1, <1>2, OptionalText
<1>5. ValidateCompanionPollResponse(L, v) => ValidateCompanionPollResponse(Other(L), v)
  BY <1>4, LengthCarries, FormsCarry, DigestCarries
  DEF ValidateCompanionPollResponse, Given
<1>6. QED
  BY <1>3, <1>5

LEMMA CompanionOutcomeRequestCarries ==
    ASSUME NEW L \in Readers, NEW v, Fine1(L, v), CompanionOutcomeRequest(L, v)
    PROVE  /\ CompanionOutcomeRequest(Other(L), v)
           /\ ValidateCompanionOutcomeRequest(L, v) => ValidateCompanionOutcomeRequest(Other(L), v)
<1> DEFINE required == [sessionId |-> "text", waitSeconds |-> "int",
                        protocolVersion |-> "int"]
<1>1. /\ Fields(L, v, required, None)
      /\ Fields(Other(L), v, required, None) => CompanionOutcomeRequest(Other(L), v)
  BY DEF CompanionOutcomeRequest
<1>2. /\ {"sessionId"} \subseteq DOMAIN required
      /\ \A k \in {"sessionId"} : required[k] = "text"
      /\ Listed(required)
  BY DEF Listed, ListFields
<1> HIDE DEF required
<1>3. CompanionOutcomeRequest(Other(L), v)
  BY <1>1, <1>2, RequiredFieldsCarry
<1>4. \A k \in {"sessionId"} :
         v.f[k].t = "text" /\ Fine(L, v.f[k])
  BY <1>1, <1>2, RequiredText
<1>5. ValidateCompanionOutcomeRequest(L, v) => ValidateCompanionOutcomeRequest(Other(L), v)
  BY <1>4, LengthCarries, FormsCarry, DigestCarries
  DEF ValidateCompanionOutcomeRequest
<1>6. QED
  BY <1>3, <1>5

LEMMA HeartbeatRequestCarries ==
    ASSUME NEW L \in Readers, NEW v, Fine1(L, v), HeartbeatRequest(L, v)
    PROVE  /\ HeartbeatRequest(Other(L), v)
           /\ ValidateHeartbeatRequest(L, v) => ValidateHeartbeatRequest(Other(L), v)
<1> DEFINE required == [sessionId |-> "text", companionBuildHash |-> "text",
                        uptimeSeconds |-> "int", gameProcessPresent |-> "bool",
                        protocolVersion |-> "int"]
           optional == [closing |-> "bool"]
<1>1. /\ Fields(L, v, required, optional)
      /\ Fields(Other(L), v, required, optional) => HeartbeatRequest(Other(L), v)
  BY DEF HeartbeatRequest
<1>2. /\ {"sessionId", "companionBuildHash"} \subseteq DOMAIN required
      /\ \A k \in {"sessionId", "companionBuildHash"} : required[k] = "text"
      /\ Listed(required) /\ Listed(optional)
  BY DEF Listed, ListFields
<1> HIDE DEF required, optional
<1>3. HeartbeatRequest(Other(L), v)
  BY <1>1, <1>2, FieldsCarry
<1>4. \A k \in {"sessionId", "companionBuildHash"} :
         v.f[k].t = "text" /\ Fine(L, v.f[k])
  BY <1>1, <1>2, RequiredText
<1>5. ValidateHeartbeatRequest(L, v) => ValidateHeartbeatRequest(Other(L), v)
  BY <1>4, LengthCarries, FormsCarry, DigestCarries
  DEF ValidateHeartbeatRequest
<1>6. QED
  BY <1>3, <1>5

LEMMA ProtocolErrorCarries ==
    ASSUME NEW L \in Readers, NEW v, Fine1(L, v), ProtocolError(L, v)
    PROVE  /\ ProtocolError(Other(L), v)
           /\ ValidateProtocolError(L, v) => ValidateProtocolError(Other(L), v)
<1> DEFINE required == [code |-> "text", message |-> "text"]
           optional == [requestId |-> "text"]
<1>1. /\ Fields(L, v, required, optional)
      /\ Fields(Other(L), v, required, optional) => ProtocolError(Other(L), v)
  BY DEF ProtocolError
<1>2. /\ {"code", "message"} \subseteq DOMAIN required
      /\ \A k \in {"code", "message"} : required[k] = "text"
      /\ \A k \in {"requestId"} : k \notin DOMAIN required
      /\ \A k \in {"requestId"} : optional[k] = "text"
      /\ Listed(required) /\ Listed(optional)
  BY DEF Listed, ListFields
<1> HIDE DEF required, optional
<1>3. ProtocolError(Other(L), v)
  BY <1>1, <1>2, FieldsCarry
<1>4. \A k \in {"code", "message"} :
         v.f[k].t = "text" /\ Fine(L, v.f[k])
  BY <1>1, <1>2, RequiredText
<1>5. \A k \in {"requestId"} :
         (k \in DOMAIN v.f /\ v.f[k] # Null) => v.f[k].t = "text" /\ Fine(L, v.f[k])
  BY <1>1, <1>2, OptionalText
<1>6. ValidateProtocolError(L, v) => ValidateProtocolError(Other(L), v)
  BY <1>4, <1>5, LengthCarries, FormsCarry, DigestCarries
  DEF ValidateProtocolError, Given
<1>7. QED
  BY <1>3, <1>6

LEMMA HeartbeatResponseCarries ==
    ASSUME NEW L \in Readers, NEW v, Fine1(L, v), HeartbeatResponse(L, v)
    PROVE  /\ HeartbeatResponse(Other(L), v)
           /\ ValidateHeartbeatResponse(L, v) => ValidateHeartbeatResponse(Other(L), v)
<1> DEFINE required == [acknowledged |-> "bool", nextIntervalSeconds |-> "int",
                        terminate |-> "bool"]
           optional == [terminateReason |-> "DenyReason"]
<1>1. Listed(required) /\ Listed(optional)
  BY DEF Listed
<1>2. /\ Fields(L, v, required, optional)
      /\ Fields(Other(L), v, required, optional) => HeartbeatResponse(Other(L), v)
  BY DEF HeartbeatResponse
<1> HIDE DEF required, optional
<1>3. HeartbeatResponse(Other(L), v)
  BY <1>1, <1>2, FieldsCarry
<1>4. QED
  BY <1>3 DEF ValidateHeartbeatResponse

LEMMA SecurityFeaturesCarries ==
    ASSUME NEW L \in Readers, NEW v, Fine1(L, v), SecurityFeatures(L, v)
    PROVE  SecurityFeatures(Other(L), v)
<1> DEFINE required == [k \in {"secureBoot", "hvci", "testSigning", "kernelDebugging",
                               "driverBlocklist", "iommu",
                               "virtualizationBasedSecurity"} |-> "FeatureState"]
<1>1. Listed(required)
  BY DEF Listed
<1>2. /\ Fields(L, v, required, None)
      /\ Fields(Other(L), v, required, None) => SecurityFeatures(Other(L), v)
  BY DEF SecurityFeatures
<1> HIDE DEF required
<1>3. QED
  BY <1>1, <1>2, RequiredFieldsCarry

(* Messages with objects and lists of objects in them.                        *)
LEMMA SystemSnapshotCarries ==
    ASSUME NEW L \in Readers, NEW v, Fine2(L, v), SystemSnapshot(L, v)
    PROVE  /\ SystemSnapshot(Other(L), v)
           /\ ValidateSystemSnapshot(L, v) => ValidateSystemSnapshot(Other(L), v)
<1> DEFINE required == [schemaVersion |-> "int", collectedAt |-> "text",
                        companionVersion |-> "text", companionBuildHash |-> "text",
                        osBuild |-> "text", features |-> "object", tpm |-> "object",
                        probeErrors |-> "list"]
           optional == [gameProcess |-> "object"]
           texts == {"collectedAt", "companionVersion", "companionBuildHash", "osBuild"}
           game == "gameProcess" \in DOMAIN v.f /\ v.f.gameProcess # Null
<1>1. /\ texts \subseteq DOMAIN required /\ \A k \in texts : required[k] = "text"
      /\ \A k \in {"features", "tpm"} : k \in DOMAIN required /\ required[k] = "object"
      /\ "probeErrors" \in DOMAIN required /\ required.probeErrors = "list"
      /\ "gameProcess" \notin DOMAIN required /\ optional.gameProcess = "object"
      /\ Listed(required) /\ Listed(optional)
  BY DEF Listed, ListFields
<1>2. /\ Fields(L, v, required, optional)
      /\ \A i \in DOMAIN v.f.probeErrors.items : HasType(L, v.f.probeErrors.items[i], "text")
  BY DEF SystemSnapshot, Each
<1> HIDE DEF required, optional
<1>3. Fine1(L, v) /\ \A c \in Children(v) : Fine1(L, c)
  BY DEF Fine2, Fine1
<1>4. \A k \in texts : v.f[k].t = "text" /\ Fine(L, v.f[k])
  BY <1>1, <1>2, <1>3, RequiredText
<1>5. /\ v.f.tpm.t = "object" /\ Fine1(L, v.f.tpm)
      /\ v.f.features.t = "object" /\ Fine1(L, v.f.features)
  BY <1>1, <1>2, <1>3, RequiredObject
<1>6. v.f.probeErrors.t = "list" /\ Fine1(L, v.f.probeErrors)
  BY <1>1, <1>2, <1>3, RequiredField, ShapeType
<1>7. game => v.f.gameProcess.t = "object" /\ Fine1(L, v.f.gameProcess)
  BY <1>1, <1>2, <1>3, OptionalObject
<1>8. \A R, m : /\ Struct(R, m, v.f.tpm) = v.f.tpm
                /\ Struct(R, m, v.f.features) = v.f.features
                /\ game => Struct(R, m, v.f.gameProcess) = v.f.gameProcess
  BY <1>5, <1>7, StructSame
<1>9. /\ SecurityFeatures(L, v.f.features) /\ TpmInfo(L, v.f.tpm)
      /\ game => GameProcessEvidence(L, v.f.gameProcess)
  BY <1>8 DEF SystemSnapshot, Given
<1>10. \A i \in DOMAIN v.f.probeErrors.items :
          LET x == v.f.probeErrors.items[i] IN
          x.t = "text" /\ Fine(L, x) /\ HasType(Other(L), x, "text")
  <2> SUFFICES ASSUME NEW i \in DOMAIN v.f.probeErrors.items
               PROVE  LET x == v.f.probeErrors.items[i] IN
                      x.t = "text" /\ Fine(L, x) /\ HasType(Other(L), x, "text")
    OBVIOUS
  <2>1. v.f.probeErrors.items[i] \in Children(v.f.probeErrors)
    BY <1>6 DEF Children
  <2>2. HasType(L, v.f.probeErrors.items[i], "text") /\ Fine(L, v.f.probeErrors.items[i])
    BY <1>2, <1>6, <2>1 DEF Fine1
  <2>3. QED
    BY <2>2, ShapeType, TypeCarries
<1>11. SystemSnapshot(Other(L), v)
  <2>1. Fields(Other(L), v, required, optional)
    BY <1>1, <1>2, <1>3, FieldsCarry
  <2>2. SecurityFeatures(Other(L), v.f.features) /\ TpmInfo(Other(L), v.f.tpm)
    BY <1>5, <1>9, SecurityFeaturesCarries, TpmInfoCarries
  <2>3. game => GameProcessEvidence(Other(L), v.f.gameProcess)
    BY <1>7, <1>9, GameProcessEvidenceCarries
  <2>4. QED
    BY <1>8, <1>10, <2>1, <2>2, <2>3 DEF SystemSnapshot, Given, Each, required, optional
<1>12. ASSUME ValidateSystemSnapshot(L, v) PROVE ValidateSystemSnapshot(Other(L), v)
  <2>1. /\ Datetime(Other(L), v.f.collectedAt)
        /\ Length(Other(L), v.f.companionVersion, 0, 32)
        /\ Semver(Other(L), v.f.companionVersion)
        /\ Length(Other(L), v.f.companionBuildHash, 64, 64)
        /\ Hex(Other(L), v.f.companionBuildHash)
        /\ Length(Other(L), v.f.osBuild, 0, 64)
    BY <1>4, <1>12, LengthCarries, FormsCarry, DigestCarries DEF ValidateSystemSnapshot
  <2>2. ValidateTpmInfo(Other(L), v.f.tpm)
    <3>1. ValidateTpmInfo(L, v.f.tpm)
      BY <1>8, <1>12 DEF ValidateSystemSnapshot
    <3>2. QED
      BY <1>5, <1>9, <3>1, TpmInfoCarries
  <2>3. game => ValidateGameProcessEvidence(Other(L), v.f.gameProcess)
    <3>1. game => ValidateGameProcessEvidence(L, v.f.gameProcess)
      BY <1>8, <1>12 DEF ValidateSystemSnapshot, Given
    <3>2. QED
      BY <1>7, <1>9, <3>1, GameProcessEvidenceCarries
  <2>4. \A i \in DOMAIN v.f.probeErrors.items : Length(Other(L), v.f.probeErrors.items[i], 0, 200)
    BY <1>10, <1>12, LengthCarries DEF ValidateSystemSnapshot, Each
  <2>5. AtLeast(v.f.schemaVersion, 1) /\ MaxItems(v.f.probeErrors, 32)
    BY <1>12 DEF ValidateSystemSnapshot
  <2>6. QED
    BY <1>8, <2>1, <2>2, <2>3, <2>4, <2>5 DEF ValidateSystemSnapshot, Given, Each
<1>13. QED
  BY <1>11, <1>12

LEMMA AttestationQuoteCarries ==
    ASSUME NEW L \in Readers, NEW v, Fine2(L, v), AttestationQuote(L, v)
    PROVE  /\ AttestationQuote(Other(L), v)
           /\ ValidateAttestationQuote(L, v) => ValidateAttestationQuote(Other(L), v)
<1> DEFINE required == [akPublicKeyId |-> "text", pcrSelection |-> "list",
                        pcrDigest |-> "text", quoteBlob |-> "text", signature |-> "text"]
           texts == {"akPublicKeyId", "pcrDigest", "quoteBlob", "signature"}
           list == v.f.pcrSelection
<1>1. /\ Fields(L, v, required, None)
      /\ \A i \in DOMAIN list.items : HasType(L, list.items[i], "int")
      /\ (/\ Fields(Other(L), v, required, None)
          /\ \A i \in DOMAIN list.items : HasType(Other(L), list.items[i], "int"))
            => AttestationQuote(Other(L), v)
  BY DEF AttestationQuote, Each
<1>2. /\ texts \subseteq DOMAIN required /\ \A k \in texts : required[k] = "text"
      /\ "pcrSelection" \in DOMAIN required /\ required.pcrSelection = "list"
      /\ Listed(required)
  BY DEF Listed, ListFields
<1> HIDE DEF required
<1>3. Fine1(L, v) /\ \A c \in Children(v) : Fine1(L, c)
  BY DEF Fine2, Fine1
<1>4. list.t = "list" /\ Fine1(L, list)
  BY <1>1, <1>2, <1>3, RequiredField, ShapeType
<1>5. \A i \in DOMAIN list.items : Fine(L, list.items[i])
  BY <1>4 DEF Fine1, Children
<1>6. \A i \in DOMAIN list.items : HasType(Other(L), list.items[i], "int")
  BY <1>1, <1>5, TypeCarries
<1>7. AttestationQuote(Other(L), v)
  BY <1>1, <1>2, <1>3, <1>6, RequiredFieldsCarry
<1>8. \A k \in texts : v.f[k].t = "text" /\ Fine(L, v.f[k])
  BY <1>1, <1>2, <1>3, RequiredText
<1>9. ValidateAttestationQuote(L, v) => ValidateAttestationQuote(Other(L), v)
  BY <1>8, LengthCarries, FormsCarry DEF ValidateAttestationQuote
<1>10. QED
  BY <1>7, <1>9

LEMMA NonceRequestCarries ==
    ASSUME NEW L \in Readers, NEW v, Fine2(L, v), NonceRequest(L, v)
    PROVE  /\ NonceRequest(Other(L), v)
           /\ ValidateNonceRequest(L, v) => ValidateNonceRequest(Other(L), v)
<1> DEFINE required == [serverId |-> "text", player |-> "object", protocolVersion |-> "int"]
           optional == [gameBuild |-> "text"]
<1>1. /\ {"serverId", "player"} \subseteq DOMAIN required
      /\ required.serverId = "text" /\ required.player = "object"
      /\ "gameBuild" \notin DOMAIN required /\ optional.gameBuild = "text"
      /\ Listed(required) /\ Listed(optional)
  BY DEF Listed, ListFields
<1>2. Fields(L, v, required, optional)
  BY DEF NonceRequest
<1> HIDE DEF required, optional
<1>3. Fine1(L, v) /\ \A c \in Children(v) : Fine1(L, c)
  BY DEF Fine2, Fine1
<1>4. v.f.serverId.t = "text" /\ Fine(L, v.f.serverId)
  BY <1>1, <1>2, <1>3, RequiredText
<1>5. v.f.player.t = "object" /\ Fine1(L, v.f.player)
  BY <1>1, <1>2, <1>3, RequiredObject
<1>6. \A R, m : Struct(R, m, v.f.player) = v.f.player
  BY <1>5, StructSame
<1>7. ("gameBuild" \in DOMAIN v.f /\ v.f.gameBuild # Null) =>
         v.f.gameBuild.t = "text" /\ Fine(L, v.f.gameBuild)
  BY <1>1, <1>2, <1>3, OptionalText
<1>8. PlayerIdentifiers(L, v.f.player)
  BY <1>6 DEF NonceRequest
<1>9. NonceRequest(Other(L), v)
  <2>1. Fields(Other(L), v, required, optional)
    BY <1>1, <1>2, <1>3, FieldsCarry
  <2>2. PlayerIdentifiers(Other(L), v.f.player)
    BY <1>5, <1>8, PlayerIdentifiersCarries
  <2>3. QED
    BY <1>6, <2>1, <2>2 DEF NonceRequest, required, optional
<1>10. ASSUME ValidateNonceRequest(L, v) PROVE ValidateNonceRequest(Other(L), v)
  <2>1. ValidatePlayerIdentifiers(L, v.f.player)
    BY <1>6, <1>10 DEF ValidateNonceRequest
  <2>2. ValidatePlayerIdentifiers(Other(L), v.f.player)
    BY <1>5, <1>8, <2>1, PlayerIdentifiersCarries
  <2>3. QED
    BY <1>4, <1>6, <1>7, <1>10, <2>2, LengthCarries, FormsCarry
    DEF ValidateNonceRequest, Given
<1>11. QED
  BY <1>9, <1>10

LEMMA AttestationRequestCarries ==
    ASSUME NEW L \in Readers, NEW v, Fine3(L, v), AttestationRequest(L, v)
    PROVE  /\ AttestationRequest(Other(L), v)
           /\ ValidateAttestationRequest(L, v) => ValidateAttestationRequest(Other(L), v)
<1> DEFINE required == [nonce |-> "text", snapshot |-> "object", protocolVersion |-> "int"]
           optional == [quote |-> "object"]
           quoted == "quote" \in DOMAIN v.f /\ v.f.quote # Null
<1>1. /\ {"nonce", "snapshot"} \subseteq DOMAIN required
      /\ required.nonce = "text" /\ required.snapshot = "object"
      /\ "quote" \notin DOMAIN required /\ optional.quote = "object"
      /\ Listed(required) /\ Listed(optional)
  BY DEF Listed, ListFields
<1>2. Fields(L, v, required, optional)
  BY DEF AttestationRequest
<1> HIDE DEF required, optional
<1>3. Fine1(L, v) /\ \A c \in Children(v) : Fine2(L, c)
  BY DEF Fine3, Fine2, Fine1
<1>4. v.f.nonce.t = "text" /\ Fine(L, v.f.nonce)
  BY <1>1, <1>2, <1>3, RequiredText
<1>5. v.f.snapshot.t = "object" /\ Fine2(L, v.f.snapshot)
  BY <1>1, <1>2, <1>3, RequiredObject
<1>6. quoted => v.f.quote.t = "object" /\ Fine2(L, v.f.quote)
  BY <1>1, <1>2, <1>3, OptionalObject
<1>7. \A R, m : /\ Struct(R, m, v.f.snapshot) = v.f.snapshot
                /\ quoted => Struct(R, m, v.f.quote) = v.f.quote
  BY <1>5, <1>6, StructSame
<1>8. SystemSnapshot(L, v.f.snapshot) /\ (quoted => AttestationQuote(L, v.f.quote))
  BY <1>7 DEF AttestationRequest, Given
<1>9. AttestationRequest(Other(L), v)
  <2>1. Fields(Other(L), v, required, optional)
    BY <1>1, <1>2, <1>3, FieldsCarry
  <2>2. SystemSnapshot(Other(L), v.f.snapshot)
    BY <1>5, <1>8, SystemSnapshotCarries
  <2>3. quoted => AttestationQuote(Other(L), v.f.quote)
    BY <1>6, <1>8, AttestationQuoteCarries
  <2>4. QED
    BY <1>7, <2>1, <2>2, <2>3 DEF AttestationRequest, Given, required, optional
<1>10. ASSUME ValidateAttestationRequest(L, v) PROVE ValidateAttestationRequest(Other(L), v)
  <2>1. /\ ValidateSystemSnapshot(L, v.f.snapshot)
        /\ quoted => ValidateAttestationQuote(L, v.f.quote)
    BY <1>7, <1>10 DEF ValidateAttestationRequest, Given
  <2>2. ValidateSystemSnapshot(Other(L), v.f.snapshot)
    BY <1>5, <1>8, <2>1, SystemSnapshotCarries
  <2>3. quoted => ValidateAttestationQuote(Other(L), v.f.quote)
    BY <1>6, <1>8, <2>1, AttestationQuoteCarries
  <2>4. QED
    BY <1>4, <1>7, <1>10, <2>2, <2>3, DigestCarries DEF ValidateAttestationRequest, Given
<1>11. QED
  BY <1>9, <1>10

LEMMA VerdictCarries ==
    ASSUME NEW L \in Readers, NEW v, Fine3(L, v), Verdict(L, v)
    PROVE  /\ Verdict(Other(L), v)
           /\ ValidateVerdict(L, v) => ValidateVerdict(Other(L), v)
<1> DEFINE required == [decision |-> "VerdictDecision", sessionId |-> "text",
                        reasons |-> "list", requirements |-> "list",
                        policyTier |-> "PolicyTier", evaluatedAt |-> "text",
                        failOpen |-> "bool"]
           optional == [remediation |-> "text"]
           list == v.f.requirements
           item(i) == list.items[i]
<1>1. /\ Fields(L, v, required, optional)
      /\ \A i \in DOMAIN v.f.reasons.items : HasType(L, v.f.reasons.items[i], "DenyReason")
      /\ \A i \in DOMAIN list.items :
            RequirementResult(L, Struct(L, "RequirementResult", list.items[i]))
      /\ (/\ Fields(Other(L), v, required, optional)
          /\ \A i \in DOMAIN v.f.reasons.items :
                HasType(Other(L), v.f.reasons.items[i], "DenyReason")
          /\ \A i \in DOMAIN list.items :
                RequirementResult(Other(L), Struct(Other(L), "RequirementResult", list.items[i])))
            => Verdict(Other(L), v)
  BY DEF Verdict, Each
<1>2. /\ {"sessionId", "evaluatedAt"} \subseteq DOMAIN required
      /\ \A k \in {"sessionId", "evaluatedAt"} : required[k] = "text"
      /\ \A k \in {"requirements", "reasons"} : k \in DOMAIN required /\ required[k] = "list"
      /\ "remediation" \notin DOMAIN required /\ optional.remediation = "text"
      /\ Listed(required) /\ Listed(optional)
  BY DEF Listed, ListFields
<1> HIDE DEF required, optional
<1>3. Fine1(L, v) /\ \A c \in Children(v) : Fine2(L, c)
  BY DEF Fine3, Fine2, Fine1
<1>4. \A k \in {"sessionId", "evaluatedAt"} : v.f[k].t = "text" /\ Fine(L, v.f[k])
  BY <1>1, <1>2, <1>3, RequiredText
<1>5. ("remediation" \in DOMAIN v.f /\ v.f.remediation # Null) =>
         v.f.remediation.t = "text" /\ Fine(L, v.f.remediation)
  BY <1>1, <1>2, <1>3, OptionalText
<1>6. \A k \in {"requirements", "reasons"} : Fine2(L, v.f[k]) /\ v.f[k].t = "list"
  BY <1>1, <1>2, <1>3, RequiredField, ShapeType
<1>7. \A i \in DOMAIN v.f.reasons.items :
         HasType(Other(L), v.f.reasons.items[i], "DenyReason")
  <2>1. \A i \in DOMAIN v.f.reasons.items : Fine(L, v.f.reasons.items[i])
    BY <1>6 DEF Fine2, Fine1, Children
  <2>2. QED
    BY <1>1, <2>1, TypeCarries
<1>8. ASSUME NEW i \in DOMAIN list.items
      PROVE  /\ Fine1(L, item(i)) /\ RequirementResult(L, item(i))
             /\ \A R, m : Struct(R, m, item(i)) = item(i)
  <2>1. Fine1(L, item(i))
    BY <1>6 DEF Fine2, Children
  <2>2. item(i).t # "list" \/ L = "zod"
    BY <1>6 DEF Fine2, Fine, Readers
  <2>3. Struct(L, "RequirementResult", item(i)) = item(i)
    BY <2>2, StructSame
  <2>4. RequirementResult(L, item(i))
    BY <1>1, <2>3
  <2>5. item(i).t = "object"
    BY <2>4 DEF RequirementResult, Fields
  <2>6. QED
    BY <2>1, <2>4, <2>5, StructSame
<1>9. Verdict(Other(L), v)
  <2>1. Fields(Other(L), v, required, optional)
    BY <1>1, <1>2, <1>3, FieldsCarry
  <2>2. \A i \in DOMAIN list.items :
           RequirementResult(Other(L), Struct(Other(L), "RequirementResult", list.items[i]))
    BY <1>8, RequirementResultCarries
  <2>3. QED
    BY <1>1, <1>7, <2>1, <2>2
<1>10. ASSUME ValidateVerdict(L, v) PROVE ValidateVerdict(Other(L), v)
  <2>1. \A i \in DOMAIN list.items :
           ValidateRequirementResult(L, Struct(L, "RequirementResult", list.items[i]))
    BY <1>10 DEF ValidateVerdict, Each
  <2>2. \A i \in DOMAIN list.items : ValidateRequirementResult(L, item(i))
    BY <1>8, <2>1
  <2>3. \A i \in DOMAIN list.items :
           ValidateRequirementResult(Other(L), Struct(Other(L), "RequirementResult", list.items[i]))
    BY <1>8, <2>2, RequirementResultCarries
  <2>4. QED
    BY <1>4, <1>5, <1>10, <2>3, LengthCarries, FormsCarry DEF ValidateVerdict, Each, Given
<1>11. QED
  BY <1>9, <1>10

-----------------------------------------------------------------------------
(* Any message, whatever is in it.                                            *)
LEMMA PartsFacts ==
    ASSUME NEW S, NEW p \in S
    PROVE  p \in Parts(S) /\ Children(p) \subseteq Parts(S)
  BY DEF Parts, Children

LEMMA WithinFacts ==
    ASSUME NEW v
    PROVE  /\ v \in Within(v) /\ Children(v) \subseteq Within(v)
           /\ \A c \in Children(v) :
                 /\ Children(c) \subseteq Within(v)
                 /\ \A d \in Children(c) :
                       /\ Children(d) \subseteq Within(v)
                       /\ \A e \in Children(d) : Children(e) \subseteq Within(v)
<1> DEFINE P1 == Parts({v})
           P2 == Parts(P1)
           P3 == Parts(P2)
           P4 == Parts(P3)
<1>1. v \in P1 /\ Children(v) \subseteq P1
  BY PartsFacts
<1> HIDE DEF P1
<1>2. P1 \subseteq P2 /\ \A c \in P1 : Children(c) \subseteq P2
  BY PartsFacts
<1> HIDE DEF P2
<1>3. P2 \subseteq P3 /\ \A c \in P2 : Children(c) \subseteq P3
  BY PartsFacts
<1> HIDE DEF P3
<1>4. P3 \subseteq P4 /\ \A c \in P3 : Children(c) \subseteq P4
  BY PartsFacts
<1>5. Within(v) = P4
  BY DEF Within, P1, P2, P3
<1> HIDE DEF P4
<1>6. QED
  BY <1>1, <1>2, <1>3, <1>4, <1>5

(* Everything within it reads alike.                                          *)
Alike(L, v) ==
    /\ \A p \in Within(v) : p.t = "text" => FineText(L, p)
    /\ L = "zod" => \A p \in Within(v) : p.t # "float"
    /\ L = "rust" => Null \notin Within(v) /\ ~Positional(v)

LEMMA AlikeFacts ==
    ASSUME NEW L, NEW v, Alike(L, v)
    PROVE  Fine1(L, v) /\ Fine2(L, v) /\ Fine3(L, v)
<1>1. /\ v \in Within(v) /\ Children(v) \subseteq Within(v)
      /\ \A c \in Children(v) :
            /\ Children(c) \subseteq Within(v)
            /\ \A d \in Children(c) :
                  /\ Children(d) \subseteq Within(v)
                  /\ \A e \in Children(d) : Children(e) \subseteq Within(v)
  BY WithinFacts
<1>2. ASSUME NEW p \in Within(v), Children(p) \subseteq Within(v)
      PROVE  Fine(L, p)
  <2>1. p.t = "object" => \A k \in DOMAIN p.f : p.f[k] \in Within(v)
    BY <1>2 DEF Children
  <2>2. L = "rust" /\ p.t = "object" =>
           \A k \in DOMAIN p.f : p.f[k] # Null /\ (p.f[k].t = "list" => k \in ListFields)
    BY <2>1 DEF Alike, Positional
  <2>3. L = "rust" /\ p.t = "list" => \A i \in DOMAIN p.items : p.items[i].t # "list"
    BY DEF Alike, Positional
  <2>4. QED
    BY <2>2, <2>3 DEF Alike, Fine
<1>3. /\ Fine(L, v) /\ \A c \in Children(v) : Fine(L, c)
      /\ \A c \in Children(v) : \A d \in Children(c) :
            Fine(L, d) /\ \A e \in Children(d) : Fine(L, e)
  BY <1>1, <1>2
<1>4. Fine1(L, v)
  BY <1>3 DEF Fine1
<1>5. Fine2(L, v) /\ \A c \in Children(v) : Fine1(L, c) /\ \A d \in Children(c) : Fine1(L, d)
  BY <1>3 DEF Fine1, Fine2
<1>6. Fine3(L, v)
  BY <1>3, <1>5 DEF Fine2, Fine3
<1>7. QED
  BY <1>4, <1>5, <1>6

Schemas == {"SystemSnapshot", "NonceRequest", "NonceResponse",
            "AttestationRequest", "AttestationAck", "Verdict",
            "LivenessResponse", "LocalAttestCommand", "LocalAttestAck",
            "CompanionPollRequest", "CompanionPollResponse",
            "CompanionOutcomeRequest", "HeartbeatRequest",
            "HeartbeatResponse", "ProtocolError"}

LEMMA SchemaNames == DOMAIN Typical = Schemas
  BY DEF Typical, Schemas

LEMMA ValidCarries ==
    ASSUME NEW L \in Readers, NEW schema \in Schemas, NEW v,
           Alike(L, v), Valid(L, schema, v)
    PROVE  Valid(Other(L), schema, v)
<1> USE DEF Valid
<1>1. CASE schema = "SystemSnapshot"
  BY <1>1, AlikeFacts, SystemSnapshotCarries
<1>2. CASE schema = "NonceRequest"
  BY <1>2, AlikeFacts, NonceRequestCarries
<1>3. CASE schema = "NonceResponse"
  BY <1>3, AlikeFacts, NonceResponseCarries
<1>4. CASE schema = "AttestationRequest"
  BY <1>4, AlikeFacts, AttestationRequestCarries
<1>5. CASE schema = "AttestationAck"
  BY <1>5, AlikeFacts, AttestationAckCarries
<1>6. CASE schema = "Verdict"
  BY <1>6, AlikeFacts, VerdictCarries
<1>7. CASE schema = "LivenessResponse"
  BY <1>7, AlikeFacts, LivenessResponseCarries
<1>8. CASE schema = "LocalAttestCommand"
  BY <1>8, AlikeFacts, LocalAttestCommandCarries
<1>9. CASE schema = "LocalAttestAck"
  BY <1>9, AlikeFacts, LocalAttestAckCarries
<1>10. CASE schema = "CompanionPollRequest"
  BY <1>10, AlikeFacts, CompanionPollRequestCarries
<1>11. CASE schema = "CompanionPollResponse"
  BY <1>11, AlikeFacts, CompanionPollResponseCarries
<1>12. CASE schema = "CompanionOutcomeRequest"
  BY <1>12, AlikeFacts, CompanionOutcomeRequestCarries
<1>13. CASE schema = "HeartbeatRequest"
  BY <1>13, AlikeFacts, HeartbeatRequestCarries
<1>14. CASE schema = "HeartbeatResponse"
  BY <1>14, AlikeFacts, HeartbeatResponseCarries
<1>15. CASE schema = "ProtocolError"
  BY <1>15, AlikeFacts, ProtocolErrorCarries
<1>16. QED
  BY <1>1, <1>2, <1>3, <1>4, <1>5, <1>6, <1>7, <1>8, <1>9, <1>10, <1>11, <1>12, <1>13,
     <1>14, <1>15 DEF Schemas

LEMMA ValidIsObject ==
    ASSUME NEW L, NEW schema \in Schemas, NEW v, Valid(L, schema, v)
    PROVE  v.t = "object"
<1>1. \A required, optional : Fields(L, v, required, optional) => v.t = "object"
  BY DEF Fields
<1>2. CASE schema = "SystemSnapshot"
  BY <1>1, <1>2 DEF Valid, SystemSnapshot
<1>3. CASE schema = "NonceRequest"
  BY <1>1, <1>3 DEF Valid, NonceRequest
<1>4. CASE schema = "NonceResponse"
  BY <1>1, <1>4 DEF Valid, NonceResponse
<1>5. CASE schema = "AttestationRequest"
  BY <1>1, <1>5 DEF Valid, AttestationRequest
<1>6. CASE schema = "AttestationAck"
  BY <1>1, <1>6 DEF Valid, AttestationAck
<1>7. CASE schema = "Verdict"
  BY <1>1, <1>7 DEF Valid, Verdict
<1>8. CASE schema = "LivenessResponse"
  BY <1>1, <1>8 DEF Valid, LivenessResponse
<1>9. CASE schema = "LocalAttestCommand"
  BY <1>1, <1>9 DEF Valid, LocalAttestCommand
<1>10. CASE schema = "LocalAttestAck"
  BY <1>1, <1>10 DEF Valid, LocalAttestAck
<1>11. CASE schema = "CompanionPollRequest"
  BY <1>1, <1>11 DEF Valid, CompanionPollRequest
<1>12. CASE schema = "CompanionPollResponse"
  BY <1>1, <1>12 DEF Valid, CompanionPollResponse
<1>13. CASE schema = "CompanionOutcomeRequest"
  BY <1>1, <1>13 DEF Valid, CompanionOutcomeRequest
<1>14. CASE schema = "HeartbeatRequest"
  BY <1>1, <1>14 DEF Valid, HeartbeatRequest
<1>15. CASE schema = "HeartbeatResponse"
  BY <1>1, <1>15 DEF Valid, HeartbeatResponse
<1>16. CASE schema = "ProtocolError"
  BY <1>1, <1>16 DEF Valid, ProtocolError
<1>17. QED
  BY <1>2, <1>3, <1>4, <1>5, <1>6, <1>7, <1>8, <1>9, <1>10, <1>11, <1>12, <1>13, <1>14,
     <1>15, <1>16 DEF Schemas

LEMMA AcceptsCarries ==
    ASSUME NEW L \in Readers, NEW schema \in DOMAIN Typical, NEW v,
           Alike(L, v), Accepts(L, schema, v)
    PROVE  Accepts(Other(L), schema, v)
<1>1. schema \in Schemas
  BY SchemaNames
<1>2. v.t # "list" \/ L = "zod"
  BY DEF Readers, Alike, Positional
<1>3. Valid(L, schema, v)
  BY <1>2, StructSame DEF Accepts
<1>4. Valid(Other(L), schema, v)
  BY <1>1, <1>3, ValidCarries
<1>5. Struct(Other(L), schema, v) = v
  BY <1>1, <1>3, ValidIsObject, StructSame
<1>6. QED
  BY <1>4, <1>5 DEF Accepts

(* The generated validators (validate() in Rust, the schemas in zod) disagree *)
(* on a message of any kind and content only in the named ways: what zod      *)
(* takes and Rust refuses holds a text longer in bytes than in characters, a  *)
(* whole number not written in 64 bits of digits, a time without seconds or   *)
(* half a surrogate pair; what Rust takes and zod refuses is loosely written, *)
(* holds a null or has an array for a struct.                                 *)
THEOREM ValidatorsDriftInNamedWays ==
    ASSUME NEW schema \in DOMAIN Typical, NEW v, Utf8(v)
    PROVE  /\ Accepts("zod", schema, v) /\ ~Accepts("rust", schema, v)
                 => NonAscii(v) \/ WrittenForZod(v)
           /\ Accepts("rust", schema, v) /\ ~Accepts("zod", schema, v)
                 => LooselyWritten(v) \/ Null \in Within(v) \/ Positional(v)
<1>1. ASSUME Accepts("zod", schema, v), ~NonAscii(v), ~WrittenForZod(v)
      PROVE  Accepts("rust", schema, v)
  <2>1. Alike("zod", v)
    BY <1>1 DEF Alike, FineText, NonAscii, WrittenForZod, Utf8, WellFormedText
  <2>2. QED
    BY <1>1, <2>1, AcceptsCarries DEF Readers, Other
<1>2. ASSUME Accepts("rust", schema, v), ~LooselyWritten(v), Null \notin Within(v), ~Positional(v)
      PROVE  Accepts("zod", schema, v)
  <2>1. Alike("rust", v)
    BY <1>2 DEF Alike, FineText, LooselyWritten, LooseForms, Utf8
  <2>2. QED
    BY <1>2, <2>1, AcceptsCarries DEF Readers, Other
<1>3. QED
  BY <1>1, <1>2

-----------------------------------------------------------------------------
(* The messages of the bench hold UTF-8 texts, as far in as Within looks:     *)
(* n levels deep, and lists.  A shaped one has a first item in each of those. *)
Sequence(items) == items \in Seq({items[i] : i \in DOMAIN items})
Local(s, v) ==
    /\ v.t = "text" => WellFormedText(v)
    /\ v.t = "list" => Sequence(v.items)
    /\ (s = "shaped" /\ v.t = "list") => 1 \in DOMAIN v.items
Sound1(s, v) == Local(s, v) /\ \A c \in Children(v) : Local(s, c)
Sound2(s, v) == Local(s, v) /\ \A c \in Children(v) : Sound1(s, c)
Sound3(s, v) == Local(s, v) /\ \A c \in Children(v) : Sound2(s, c)
Sound4(s, v) == Local(s, v) /\ \A c \in Children(v) : Sound3(s, c)
Sound(s, n, v) ==
    CASE n = 0 -> Local(s, v)
      [] n = 1 -> Sound1(s, v)
      [] n = 2 -> Sound2(s, v)
      [] n = 3 -> Sound3(s, v)
      [] n = 4 -> Sound4(s, v)

LEMMA SoundIs ==
    ASSUME NEW s, NEW v
    PROVE  /\ Sound(s, 0, v) <=> Local(s, v)
           /\ \A n \in 1..4 :
                 Sound(s, n, v) <=> Local(s, v) /\ \A c \in Children(v) : Sound(s, n - 1, c)
<1>1. \A x : /\ Sound(s, 0, x) <=> Local(s, x)
             /\ Sound(s, 1, x) <=> Sound1(s, x)
             /\ Sound(s, 2, x) <=> Sound2(s, x)
             /\ Sound(s, 3, x) <=> Sound3(s, x)
             /\ Sound(s, 4, x) <=> Sound4(s, x)
  BY DEF Sound
<1>2. \A n \in 1..4 : n = 1 \/ n = 2 \/ n = 3 \/ n = 4
  OBVIOUS
<1>3. /\ Sound(s, 1, v) <=> Local(s, v) /\ \A c \in Children(v) : Sound(s, 1 - 1, c)
      /\ Sound(s, 2, v) <=> Local(s, v) /\ \A c \in Children(v) : Sound(s, 2 - 1, c)
      /\ Sound(s, 3, v) <=> Local(s, v) /\ \A c \in Children(v) : Sound(s, 3 - 1, c)
      /\ Sound(s, 4, v) <=> Local(s, v) /\ \A c \in Children(v) : Sound(s, 4 - 1, c)
  BY <1>1 DEF Sound1, Sound2, Sound3, Sound4
<1>4. QED
  BY <1>1, <1>2, <1>3

(* Less deep is easier.                                                       *)
LEMMA SoundLess ==
    ASSUME NEW s, NEW v
    PROVE  \A n \in 1..4 : Sound(s, n, v) => Sound(s, n - 1, v)
<1>1. \A x : Sound(s, 1, x) => Sound(s, 0, x)
  BY SoundIs
<1>2. \A x : Sound(s, 2, x) => Sound(s, 1, x)
  BY <1>1, SoundIs
<1>3. \A x : Sound(s, 3, x) => Sound(s, 2, x)
  BY <1>2, SoundIs
<1>4. \A x : Sound(s, 4, x) => Sound(s, 3, x)
  BY <1>3, SoundIs
<1>5. \A n \in 1..4 : n = 1 \/ n = 2 \/ n = 3 \/ n = 4
  OBVIOUS
<1>6. QED
  BY <1>1, <1>2, <1>3, <1>4, <1>5

LEMMA ShapedIsSound ==
    ASSUME NEW v
    PROVE  \A n \in 0..4 : Sound("shaped", n, v) => Sound("any", n, v)
<1>0. \A x : Sound("shaped", 0, x) => Sound("any", 0, x)
  BY SoundIs DEF Local
<1>1. \A x : Sound("shaped", 1, x) => Sound("any", 1, x)
  BY <1>0, SoundIs DEF Local
<1>2. \A x : Sound("shaped", 2, x) => Sound("any", 2, x)
  BY <1>1, SoundIs DEF Local
<1>3. \A x : Sound("shaped", 3, x) => Sound("any", 3, x)
  BY <1>2, SoundIs DEF Local
<1>4. \A x : Sound("shaped", 4, x) => Sound("any", 4, x)
  BY <1>3, SoundIs DEF Local
<1>5. \A n \in 0..4 : n = 0 \/ n = 1 \/ n = 2 \/ n = 3 \/ n = 4
  OBVIOUS
<1>6. QED
  BY <1>0, <1>1, <1>2, <1>3, <1>4, <1>5

LEMMA LeafSound ==
    ASSUME NEW s, NEW n \in 0..4
    PROVE  /\ \A w : \A m \in Nat : Sound(s, n, Ascii(w, m))
           /\ \A m : Sound(s, n, Number(m)) /\ Sound(s, n, Bool(m))
           /\ Sound(s, n, Null)
<1>1. n = 0 \/ n \in 1..4
  OBVIOUS
<1>2. \A v : (Local(s, v) /\ Children(v) = {}) => Sound(s, n, v)
  BY <1>1, SoundIs
<1>3. \A w : \A m \in Nat : Local(s, Ascii(w, m)) /\ Children(Ascii(w, m)) = {}
  BY DEF Local, Children, Ascii, Text, WellFormedText
<1>4. \A m : /\ Local(s, Number(m)) /\ Children(Number(m)) = {}
             /\ Local(s, Bool(m)) /\ Children(Bool(m)) = {}
  BY DEF Local, Children, Number, Bool
<1>5. Local(s, Null) /\ Children(Null) = {}
  BY DEF Local, Children, Null
<1>6. QED
  BY <1>2, <1>3, <1>4, <1>5

LEMMA ObjectSound ==
    ASSUME NEW s, NEW n \in 0..4, NEW f, n # 0 => \A k \in DOMAIN f : Sound(s, n - 1, f[k])
    PROVE  Sound(s, n, Object(f))
<1>1. Local(s, Object(f)) /\ Children(Object(f)) = {f[k] : k \in DOMAIN f}
  BY DEF Local, Children, Object
<1>2. n = 0 \/ n \in 1..4
  OBVIOUS
<1>3. QED
  BY <1>1, <1>2, SoundIs

LEMMA MadeSequence ==
    ASSUME NEW m \in Nat, NEW many, many = [i \in 1..m |-> many[i]]
    PROVE  Sequence(many)
<1> DEFINE held == {many[i] : i \in DOMAIN many}
<1>1. DOMAIN many = 1..m /\ \A i \in 1..m : many[i] \in held
  OBVIOUS
<1> HIDE DEF held
<1>2. many \in [1..m -> held]
  BY <1>1
<1>3. many \in Seq(held)
  BY <1>2
<1>4. QED
  BY <1>3 DEF Sequence, held

LEMMA SequenceFacts ==
    ASSUME NEW x
    PROVE  /\ Sequence(<<x>>) /\ DOMAIN <<x>> = {1} /\ <<x>>[1] = x
           /\ \A m \in Nat : Sequence([i \in 1..m |-> x])
<1> DEFINE one == <<x>>
<1>1. one \in Seq({x}) /\ DOMAIN one = {1} /\ one[1] = x
  OBVIOUS
<1>2. {one[i] : i \in DOMAIN one} = {x}
  BY <1>1
<1>3. Sequence(one)
  BY <1>1, <1>2 DEF Sequence
<1>4. ASSUME NEW m \in Nat PROVE Sequence([i \in 1..m |-> x])
  <2> DEFINE many == [i \in 1..m |-> x]
  <2>1. many = [i \in 1..m |-> many[i]]
    OBVIOUS
  <2> HIDE DEF many
  <2>2. Sequence(many)
    BY <2>1, MadeSequence
  <2>3. QED
    BY <2>2 DEF many
<1>5. QED
  BY <1>1, <1>3, <1>4

LEMMA ListSound ==
    ASSUME NEW s, NEW n \in 0..4, NEW items, Sequence(items),
           s = "shaped" => 1 \in DOMAIN items,
           n # 0 => \A k \in DOMAIN items : Sound(s, n - 1, items[k])
    PROVE  Sound(s, n, List(items))
<1>1. Local(s, List(items)) /\ Children(List(items)) = {items[k] : k \in DOMAIN items}
  BY DEF Local, Children, List
<1>2. n = 0 \/ n \in 1..4
  OBVIOUS
<1>3. QED
  BY <1>1, <1>2, SoundIs

(* One field replaced, added or removed.                                      *)
LEMMA WithSound ==
    ASSUME NEW s, NEW n \in 0..4, NEW v, v.t = "object", Sound(s, n, v),
           NEW k, NEW x, n # 0 => Sound(s, n - 1, x)
    PROVE  Sound(s, n, With(v, k, x))
<1> DEFINE f == [j \in DOMAIN v.f \cup {k} |-> IF j = k THEN x ELSE v.f[j]]
<1>1. n # 0 => \A j \in DOMAIN v.f : Sound(s, n - 1, v.f[j])
  BY SoundIs DEF Children
<1>2. n # 0 => \A j \in DOMAIN f : Sound(s, n - 1, f[j])
  BY <1>1
<1>3. With(v, k, x) = Object(f)
  BY DEF With
<1> HIDE DEF f
<1>4. QED
  BY <1>2, <1>3, ObjectSound

LEMMA WithoutSound ==
    ASSUME NEW s, NEW n \in 0..4, NEW v, v.t = "object", Sound(s, n, v), NEW k
    PROVE  Sound(s, n, Without(v, k))
<1> DEFINE f == [j \in DOMAIN v.f \ {k} |-> v.f[j]]
<1>1. n # 0 => \A j \in DOMAIN v.f : Sound(s, n - 1, v.f[j])
  BY SoundIs DEF Children
<1>2. n # 0 => \A j \in DOMAIN f : Sound(s, n - 1, f[j])
  BY <1>1
<1>3. Without(v, k) = Object(f)
  BY DEF Without
<1> HIDE DEF f
<1>4. QED
  BY <1>2, <1>3, ObjectSound

LEMMA OdditySound ==
    ASSUME NEW o \in Oddities, NEW n \in 0..3
    PROVE  Sound("any", n, o)
<1>1. /\ o \in Within(o) /\ Children(o) \subseteq Within(o)
      /\ \A c \in Children(o) :
            /\ Children(c) \subseteq Within(o)
            /\ \A d \in Children(c) : Children(d) \subseteq Within(o)
  BY WithinFacts
<1>2. \A p \in Within(o) : Local("any", p)
  BY WireAssumption DEF Utf8, Local, Sequence
<1>3. Sound("any", 3, o)
  <2>1. \A c \in Children(o) : \A d \in Children(c) : Sound1("any", d)
    BY <1>1, <1>2 DEF Sound1
  <2>2. \A c \in Children(o) : Sound2("any", c)
    BY <1>1, <1>2, <2>1 DEF Sound2
  <2>3. Sound3("any", o)
    BY <1>1, <1>2, <2>2 DEF Sound3
  <2>4. QED
    BY <2>3 DEF Sound
<1>4. Sound("any", 2, o)
  BY <1>3, SoundLess
<1>5. Sound("any", 1, o)
  BY <1>4, SoundLess
<1>6. Sound("any", 0, o)
  BY <1>5, SoundLess
<1>7. n = 0 \/ n = 1 \/ n = 2 \/ n = 3
  OBVIOUS
<1>8. QED
  BY <1>3, <1>4, <1>5, <1>6, <1>7

LEMMA SoundIsUtf8 ==
    ASSUME NEW v, Sound("any", 4, v)
    PROVE  Utf8(v)
<1>1. ASSUME NEW n \in 1..4, NEW S, \A p \in S : Sound("any", n, p)
      PROVE  \A p \in Parts(S) : Sound("any", n - 1, p)
  <2>1. \A p \in S : Sound("any", n - 1, p) /\ \A c \in Children(p) : Sound("any", n - 1, c)
    BY <1>1, SoundIs, SoundLess
  <2>2. \A p \in Parts(S) : p \in S \/ \E q \in S : p \in Children(q)
    BY DEF Parts, Children
  <2>3. QED
    BY <2>1, <2>2
<1> DEFINE P1 == Parts({v})
           P2 == Parts(P1)
           P3 == Parts(P2)
           P4 == Parts(P3)
<1>2. \A p \in {v} : Sound("any", 4, p)
  OBVIOUS
<1>3. \A p \in P1 : Sound("any", 3, p)
  <2>1. \A p \in P1 : Sound("any", 4 - 1, p)
    BY <1>1, <1>2
  <2>2. QED
    BY <2>1
<1> HIDE DEF P1
<1>4. \A p \in P2 : Sound("any", 2, p)
  <2>1. \A p \in P2 : Sound("any", 3 - 1, p)
    BY <1>1, <1>3
  <2>2. QED
    BY <2>1
<1> HIDE DEF P2
<1>5. \A p \in P3 : Sound("any", 1, p)
  <2>1. \A p \in P3 : Sound("any", 2 - 1, p)
    BY <1>1, <1>4
  <2>2. QED
    BY <2>1
<1> HIDE DEF P3
<1>6. \A p \in P4 : Sound("any", 0, p)
  <2>1. \A p \in P4 : Sound("any", 1 - 1, p)
    BY <1>1, <1>5
  <2>2. QED
    BY <2>1
<1> HIDE DEF P4
<1>7. Within(v) = P4
  BY DEF Within, P1, P2, P3, P4
<1>8. QED
  BY <1>6, <1>7, SoundIs DEF Utf8, Local

LEMMA QuoteSound ==
    ASSUME NEW n \in 0..4
    PROVE  Sound("any", n, Quote)
<1> DEFINE f == [akPublicKeyId |-> Nonce, pcrSelection |-> List(<<Number(0)>>),
                 pcrDigest |-> Nonce, quoteBlob |-> Ascii("base64", 400),
                 signature |-> Ascii("base64", 88)]
<1>1. \A m \in 0..4 : /\ Sound("any", m, Nonce) /\ Sound("any", m, Ascii("base64", 400))
                      /\ Sound("any", m, Ascii("base64", 88)) /\ Sound("any", m, Number(0))
  BY LeafSound DEF Nonce
<1>2. \A m \in 0..4 : Sound("any", m, List(<<Number(0)>>))
  <2> DEFINE items == <<Number(0)>>
  <2>1. Sequence(items) /\ \A k \in DOMAIN items : items[k] = Number(0)
    BY SequenceFacts
  <2> HIDE DEF items
  <2>2. \A m \in 0..4 : m # 0 => m - 1 \in 0..4
    OBVIOUS
  <2>3. \A m \in 0..4 : Sound("any", m, List(items))
    BY <1>1, <2>1, <2>2, ListSound
  <2>4. QED
    BY <2>3 DEF items
<1>3. Quote = Object(f)
  BY DEF Quote
<1>4. n # 0 => n - 1 \in 0..4
  OBVIOUS
<1>5. \A k \in DOMAIN f : f[k] \in {Nonce, List(<<Number(0)>>), Ascii("base64", 400),
                                    Ascii("base64", 88)}
  OBVIOUS
<1> HIDE DEF f
<1>6. n # 0 => \A k \in DOMAIN f : Sound("any", n - 1, f[k])
  BY <1>1, <1>2, <1>4, <1>5
<1>7. QED
  BY <1>3, <1>6, ObjectSound

(* The fields by position.                                                    *)
LEMMA AsListSound ==
    ASSUME NEW n \in 0..4, NEW v, v.t = "object", Sound("any", n, v),
           NEW order, NEW m \in Nat
    PROVE  Sound("any", n, AsList(order, m, v))
<1> DEFINE items == [i \in 1..m |-> IF i \in DOMAIN order /\ order[i] \in DOMAIN v.f
                                    THEN v.f[order[i]] ELSE Null]
<1>1. AsList(order, m, v) = List(items)
  BY DEF AsList
<1>2. items = [i \in 1..m |-> items[i]]
  OBVIOUS
<1>3. \A i \in DOMAIN items : items[i] = Null \/ items[i] \in Children(v)
  BY DEF Children
<1> HIDE DEF items
<1>4. n # 0 => n - 1 \in 0..4 /\ n \in 1..4
  OBVIOUS
<1>5. n # 0 => \A i \in DOMAIN items : Sound("any", n - 1, items[i])
  BY <1>3, <1>4, SoundIs, LeafSound
<1>6. Sequence(items)
  BY <1>2, MadeSequence
<1>7. QED
  BY <1>1, <1>5, <1>6, ListSound

LEMMA ByPositionIs ==
    ASSUME NEW v, NEW y \in ByPosition(v)
    PROVE  \E order \in OrdersOf(v), m \in 0..10 : y = AsList(order, m, v)
  BY DEF ByPosition

LEMMA ShallowSound ==
    ASSUME NEW n \in 0..4, NEW v, v.t = "object", Sound("shaped", n, v), NEW y \in Shallow(v)
    PROVE  Sound("any", n, y)
<1>1. Sound("any", n, v)
  BY ShapedIsSound
<1>2. n # 0 => n - 1 \in 0..4 /\ n - 1 \in 0..3
  OBVIOUS
<1>3. \A k, x : (n # 0 => Sound("any", n - 1, x)) => Sound("any", n, With(v, k, x))
  BY <1>1, WithSound
<1>4. \/ y = v
      \/ y \in {With(v, "clean", Bool(TRUE)), With(v, "quote", Quote),
                With(v, "steam", Ascii("plain", 20)), With(v, "closing", Bool(TRUE)),
                With(v, "attestationKeyId", Nonce), With(v, "reason", Word("banned"))}
      \/ \E k \in DOMAIN v.f : y = Without(v, k)
      \/ \E k \in DOMAIN v.f, x \in Oddities : y = With(v, k, x)
      \/ \E k \in DOMAIN v.f : v.f[k].t = "list" /\ \E x \in Lists(v.f[k]) : y = With(v, k, x)
      \/ y \in ByPosition(v)
  BY DEF Shallow
<1>5. CASE y = v
  BY <1>1, <1>5
<1>6. CASE y \in {With(v, "clean", Bool(TRUE)), With(v, "quote", Quote),
                  With(v, "steam", Ascii("plain", 20)), With(v, "closing", Bool(TRUE)),
                  With(v, "attestationKeyId", Nonce), With(v, "reason", Word("banned"))}
  <2>1. n # 0 => /\ Sound("any", n - 1, Bool(TRUE)) /\ Sound("any", n - 1, Quote)
                 /\ Sound("any", n - 1, Ascii("plain", 20)) /\ Sound("any", n - 1, Nonce)
                 /\ Sound("any", n - 1, Word("banned"))
    BY <1>2, LeafSound, QuoteSound DEF Nonce, Word
  <2>2. QED
    BY <1>3, <1>6, <2>1
<1>7. CASE \E k \in DOMAIN v.f : y = Without(v, k)
  BY <1>1, <1>7, WithoutSound
<1>8. CASE \E k \in DOMAIN v.f, x \in Oddities : y = With(v, k, x)
  BY <1>2, <1>3, <1>8, OdditySound
<1>9. ASSUME NEW k \in DOMAIN v.f, v.f[k].t = "list", NEW x \in Lists(v.f[k]), y = With(v, k, x)
      PROVE  Sound("any", n, y)
  <2> DEFINE w == v.f[k]
  <2>1. ASSUME n # 0 PROVE Sound("any", n - 1, x)
    <3>1. Sound("shaped", n - 1, w) /\ n - 1 \in 0..4
      BY <1>2, <2>1, SoundIs DEF Children
    <3>2. 1 \in DOMAIN w.items
      <4>1. Local("shaped", w)
        BY <1>2, <2>1, <3>1, SoundIs
      <4>2. QED
        BY <1>9, <4>1 DEF Local
    <3>3. n - 1 # 0 => n - 2 \in 0..3 /\ n - 2 \in 0..4 /\ n - 2 = (n - 1) - 1
      BY <2>1
    <3>4. n - 1 # 0 => Sound("any", n - 2, w.items[1])
      <4>1. w.items[1] \in Children(w)
        BY <1>9, <3>2 DEF Children
      <4>2. n - 1 # 0 => Sound("shaped", n - 2, w.items[1])
        BY <3>1, <3>3, <4>1, SoundIs
      <4>3. QED
        BY <3>3, <4>2, ShapedIsSound
    <3>5. CASE \E m \in {0, 16, 17, 24, 25, 32, 33} : x = List([i \in 1..m |-> w.items[1]])
      <4>1. PICK m \in {0, 16, 17, 24, 25, 32, 33} : x = List([i \in 1..m |-> w.items[1]])
        BY <3>5
      <4> DEFINE items == [i \in 1..m |-> w.items[1]]
      <4>2. Sequence(items) /\ \A i \in DOMAIN items : items[i] = w.items[1]
        BY SequenceFacts
      <4> HIDE DEF items
      <4>3. Sound("any", n - 1, List(items))
        BY <3>1, <3>3, <3>4, <4>2, ListSound
      <4>4. QED
        BY <4>1, <4>3 DEF items
    <3>6. CASE \E o \in Oddities : x = List(<<o>>)
      <4>1. PICK o \in Oddities : x = List(<<o>>)
        BY <3>6
      <4> DEFINE items == <<o>>
      <4>2. Sequence(items) /\ \A i \in DOMAIN items : items[i] = o
        BY SequenceFacts
      <4>3. n - 1 # 0 => Sound("any", n - 2, o)
        BY <3>3, OdditySound
      <4> HIDE DEF items
      <4>4. Sound("any", n - 1, List(items))
        BY <3>1, <3>3, <4>2, <4>3, ListSound
      <4>5. QED
        BY <4>1, <4>4 DEF items
    <3>7. QED
      BY <3>5, <3>6 DEF Lists
  <2>2. QED
    BY <1>3, <1>9, <2>1
<1>10. CASE y \in ByPosition(v)
  BY <1>1, <1>10, ByPositionIs, AsListSound
<1>11. QED
  BY <1>4, <1>5, <1>6, <1>7, <1>8, <1>9, <1>10

(* The same one object further in: a field that is one, or the one item of a  *)
(* list.                                                                      *)
LEMMA FieldSound ==
    ASSUME NEW n \in 1..4, NEW v, v.t = "object", Sound("shaped", n, v), NEW k \in DOMAIN v.f
    PROVE  Sound("shaped", n - 1, v.f[k])
  BY SoundIs DEF Children

LEMMA FirstSound ==
    ASSUME NEW n \in 1..4, NEW w, w.t = "list", Sound("shaped", n, w)
    PROVE  Sound("shaped", n - 1, w.items[1])
<1>1. Local("shaped", w)
  BY SoundIs
<1>2. w.items[1] \in Children(w)
  BY <1>1 DEF Local, Children
<1>3. QED
  BY <1>2, SoundIs

LEMMA SoleItemSound ==
    ASSUME NEW n \in 0..4, NEW x, n # 0 => Sound("any", n - 1, x)
    PROVE  Sound("any", n, List(<<x>>))
<1> DEFINE items == <<x>>
<1>1. Sequence(items) /\ \A i \in DOMAIN items : items[i] = x
  BY SequenceFacts
<1> HIDE DEF items
<1>2. Sound("any", n, List(items))
  BY <1>1, ListSound
<1>3. QED
  BY <1>2 DEF items

LEMMA InsideShallowSound ==
    ASSUME NEW n \in 0..4, NEW v, v.t = "object", Sound("shaped", n, v),
           NEW y \in Inside(v, Shallow)
    PROVE  Sound("any", n, y)
<1>1. Sound("any", n, v)
  BY ShapedIsSound
<1>2. n # 0 => n \in 1..4 /\ n - 1 \in 0..4
  OBVIOUS
<1>3. \A k, x : (n # 0 => Sound("any", n - 1, x)) => Sound("any", n, With(v, k, x))
  BY <1>1, WithSound
<1>4. \/ \E k \in DOMAIN v.f :
            v.f[k].t = "object" /\ \E x \in Shallow(v.f[k]) : y = With(v, k, x)
      \/ \E k \in DOMAIN v.f :
            /\ v.f[k].t = "list" /\ v.f[k].items[1].t = "object"
            /\ \E x \in Shallow(v.f[k].items[1]) : y = With(v, k, List(<<x>>))
  BY DEF Inside
<1>5. ASSUME NEW k \in DOMAIN v.f, v.f[k].t = "object", NEW x \in Shallow(v.f[k]),
             y = With(v, k, x)
      PROVE  Sound("any", n, y)
  <2>1. n # 0 => Sound("any", n - 1, x)
    BY <1>2, <1>5, FieldSound, ShallowSound
  <2>2. QED
    BY <1>3, <1>5, <2>1
<1>6. ASSUME NEW k \in DOMAIN v.f, v.f[k].t = "list", v.f[k].items[1].t = "object",
             NEW x \in Shallow(v.f[k].items[1]), y = With(v, k, List(<<x>>))
      PROVE  Sound("any", n, y)
  <2>1. ASSUME n # 0 PROVE Sound("any", n - 1, List(<<x>>))
    <3>1. Sound("shaped", n - 1, v.f[k])
      BY <1>2, <2>1, FieldSound
    <3>2. n - 1 # 0 => n - 1 \in 1..4 /\ (n - 1) - 1 \in 0..4
      BY <2>1
    <3>3. n - 1 # 0 => Sound("any", (n - 1) - 1, x)
      BY <1>6, <3>1, <3>2, FirstSound, ShallowSound
    <3>4. QED
      BY <1>2, <2>1, <3>3, SoleItemSound
  <2>2. QED
    BY <1>3, <1>6, <2>1
<1>7. QED
  BY <1>4, <1>5, <1>6

LEMMA DeepSound ==
    ASSUME NEW n \in 0..4, NEW v, v.t = "object", Sound("shaped", n, v), NEW y \in Deep(v)
    PROVE  Sound("any", n, y)
  BY ShallowSound, InsideShallowSound DEF Deep

LEMMA InsideDeepSound ==
    ASSUME NEW n \in 0..4, NEW v, v.t = "object", Sound("shaped", n, v),
           NEW y \in Inside(v, Deep)
    PROVE  Sound("any", n, y)
<1>1. Sound("any", n, v)
  BY ShapedIsSound
<1>2. n # 0 => n \in 1..4 /\ n - 1 \in 0..4
  OBVIOUS
<1>3. \A k, x : (n # 0 => Sound("any", n - 1, x)) => Sound("any", n, With(v, k, x))
  BY <1>1, WithSound
<1>4. \/ \E k \in DOMAIN v.f :
            v.f[k].t = "object" /\ \E x \in Deep(v.f[k]) : y = With(v, k, x)
      \/ \E k \in DOMAIN v.f :
            /\ v.f[k].t = "list" /\ v.f[k].items[1].t = "object"
            /\ \E x \in Deep(v.f[k].items[1]) : y = With(v, k, List(<<x>>))
  BY DEF Inside
<1>5. ASSUME NEW k \in DOMAIN v.f, v.f[k].t = "object", NEW x \in Deep(v.f[k]),
             y = With(v, k, x)
      PROVE  Sound("any", n, y)
  <2>1. n # 0 => Sound("any", n - 1, x)
    BY <1>2, <1>5, FieldSound, DeepSound
  <2>2. QED
    BY <1>3, <1>5, <2>1
<1>6. ASSUME NEW k \in DOMAIN v.f, v.f[k].t = "list", v.f[k].items[1].t = "object",
             NEW x \in Deep(v.f[k].items[1]), y = With(v, k, List(<<x>>))
      PROVE  Sound("any", n, y)
  <2>1. ASSUME n # 0 PROVE Sound("any", n - 1, List(<<x>>))
    <3>1. Sound("shaped", n - 1, v.f[k])
      BY <1>2, <2>1, FieldSound
    <3>2. n - 1 # 0 => n - 1 \in 1..4 /\ (n - 1) - 1 \in 0..4
      BY <2>1
    <3>3. n - 1 # 0 => Sound("any", (n - 1) - 1, x)
      BY <1>6, <3>1, <3>2, FirstSound, DeepSound
    <3>4. QED
      BY <1>2, <2>1, <3>3, SoleItemSound
  <2>2. QED
    BY <1>3, <1>6, <2>1
<1>7. QED
  BY <1>4, <1>5, <1>6

(* An ordinary message is sound at every depth and has an item in each list.  *)
Shaped(v) == \A n \in 0..4 : Sound("shaped", n, v)

Yes == Bool(TRUE)
No == Bool(FALSE)

LEMMA ShapedLeaf ==
    /\ \A w : \A m \in Nat : Shaped(Ascii(w, m))
    /\ \A w : Shaped(Word(w))
    /\ \A m : Shaped(Number(m))
    /\ Shaped(Yes) /\ Shaped(No)
    /\ Shaped(Nonce) /\ Shaped(Session) /\ Shaped(Now)
  BY LeafSound DEF Shaped, Word, Nonce, Session, Now, Yes, No

LEMMA ShapedObject ==
    ASSUME NEW f, \A k \in DOMAIN f : Shaped(f[k])
    PROVE  Shaped(Object(f)) /\ Object(f).t = "object"
<1>1. \A n \in 0..4 : n # 0 => n - 1 \in 0..4
  OBVIOUS
<1>2. \A n \in 0..4 : Sound("shaped", n, Object(f))
  BY <1>1, ObjectSound DEF Shaped
<1>3. QED
  BY <1>2 DEF Shaped, Object

LEMMA ShapedList ==
    ASSUME NEW x, Shaped(x)
    PROVE  Shaped(List(<<x>>))
<1> DEFINE items == <<x>>
<1>1. Sequence(items) /\ 1 \in DOMAIN items /\ \A i \in DOMAIN items : items[i] = x
  BY SequenceFacts
<1> HIDE DEF items
<1>2. \A n \in 0..4 : n # 0 => n - 1 \in 0..4
  OBVIOUS
<1>3. \A n \in 0..4 : Sound("shaped", n, List(items))
  BY <1>1, <1>2, ListSound DEF Shaped
<1>4. QED
  BY <1>3 DEF Shaped, items

LEMMA ShapedFeatures == Shaped(Features) /\ Features.t = "object"
<1> DEFINE f == [k \in {"secureBoot", "hvci", "testSigning", "kernelDebugging",
                        "driverBlocklist", "iommu",
                        "virtualizationBasedSecurity"} |-> Word("enabled")]
<1>1. \A k \in DOMAIN f : Shaped(f[k])
  BY ShapedLeaf
<1>2. Features = Object(f)
  BY DEF Features
<1> HIDE DEF f
<1>3. QED
  BY <1>1, <1>2, ShapedObject

LEMMA ShapedTpm == Shaped(Tpm) /\ Tpm.t = "object"
<1> DEFINE f == [present |-> Yes, manufacturer |-> Ascii("plain", 4),
                 specVersion |-> Ascii("plain", 3)]
<1>1. \A k \in DOMAIN f : Shaped(f[k])
  BY ShapedLeaf
<1>2. Tpm = Object(f)
  BY DEF Tpm, Yes, No
<1> HIDE DEF f
<1>3. QED
  BY <1>1, <1>2, ShapedObject

LEMMA ShapedGame == Shaped(Game) /\ Game.t = "object"
<1> DEFINE f == [pid |-> Number(7), startedAtUnixMs |-> Number(1),
                 imageName |-> Ascii("plain", 9), mainWindowPresent |-> Yes]
<1>1. \A k \in DOMAIN f : Shaped(f[k])
  BY ShapedLeaf
<1>2. Game = Object(f)
  BY DEF Game, Yes, No
<1> HIDE DEF f
<1>3. QED
  BY <1>1, <1>2, ShapedObject

LEMMA ShapedPlayer == Shaped(Player) /\ Player.t = "object"
<1> DEFINE f == [license |-> Ascii("plain", 40), ip |-> Ascii("ip", 9)]
<1>1. \A k \in DOMAIN f : Shaped(f[k])
  BY ShapedLeaf
<1>2. Player = Object(f)
  BY DEF Player
<1> HIDE DEF f
<1>3. QED
  BY <1>1, <1>2, ShapedObject

LEMMA ShapedRequirement == Shaped(Requirement) /\ Requirement.t = "object"
<1> DEFINE f == [requirement |-> Word("hvci_enabled"), status |-> Word("fail"),
                 detail |-> Ascii("plain", 28)]
<1>1. \A k \in DOMAIN f : Shaped(f[k])
  BY ShapedLeaf
<1>2. Requirement = Object(f)
  BY DEF Requirement
<1> HIDE DEF f
<1>3. QED
  BY <1>1, <1>2, ShapedObject

LEMMA ShapedSnapshot == Shaped(Snapshot) /\ Snapshot.t = "object"
<1> DEFINE f == [schemaVersion |-> Number(1), collectedAt |-> Now,
                 companionVersion |-> Ascii("semver", 5), companionBuildHash |-> Nonce,
                 osBuild |-> Ascii("plain", 10), features |-> Features, tpm |-> Tpm,
                 gameProcess |-> Game, probeErrors |-> List(<<Ascii("plain", 28)>>)]
<1>0. Shaped(List(<<Ascii("plain", 28)>>))
  BY ShapedLeaf, ShapedList
<1>1. \A k \in DOMAIN f : Shaped(f[k])
  BY <1>0, ShapedLeaf, ShapedFeatures, ShapedTpm, ShapedGame
<1>2. Snapshot = Object(f)
  BY DEF Snapshot
<1> HIDE DEF f
<1>3. QED
  BY <1>1, <1>2, ShapedObject

LEMMA ShapedNonceRequest == Shaped(Typical.NonceRequest) /\ Typical.NonceRequest.t = "object"
<1> DEFINE f == [serverId |-> Session, player |-> Player, protocolVersion |-> Number(1)]
<1>1. \A k \in DOMAIN f : Shaped(f[k])
  BY ShapedLeaf, ShapedPlayer
<1>2. Typical.NonceRequest = Object(f)
  BY DEF Typical
<1> HIDE DEF f
<1>3. QED
  BY <1>1, <1>2, ShapedObject

LEMMA ShapedNonceResponse == Shaped(Typical.NonceResponse) /\ Typical.NonceResponse.t = "object"
<1> DEFINE f == [nonce |-> Nonce, sessionId |-> Session, expiresAt |-> Now,
                 policyTier |-> Word("standard"), backendUrl |-> Ascii("plain", 23),
                 protocolVersion |-> Number(1)]
<1>1. \A k \in DOMAIN f : Shaped(f[k])
  BY ShapedLeaf
<1>2. Typical.NonceResponse = Object(f)
  BY DEF Typical
<1> HIDE DEF f
<1>3. QED
  BY <1>1, <1>2, ShapedObject

LEMMA ShapedAttestationRequest == Shaped(Typical.AttestationRequest) /\ Typical.AttestationRequest.t = "object"
<1> DEFINE f == [nonce |-> Nonce, snapshot |-> Snapshot, protocolVersion |-> Number(1)]
<1>1. \A k \in DOMAIN f : Shaped(f[k])
  BY ShapedLeaf, ShapedSnapshot
<1>2. Typical.AttestationRequest = Object(f)
  BY DEF Typical
<1> HIDE DEF f
<1>3. QED
  BY <1>1, <1>2, ShapedObject

LEMMA ShapedAttestationAck == Shaped(Typical.AttestationAck) /\ Typical.AttestationAck.t = "object"
<1> DEFINE f == [accepted |-> Yes, sessionId |-> Session, receivedAt |-> Now,
                 heartbeatIntervalSeconds |-> Number(120)]
<1>1. \A k \in DOMAIN f : Shaped(f[k])
  BY ShapedLeaf
<1>2. Typical.AttestationAck = Object(f)
  BY DEF Typical, Yes, No
<1> HIDE DEF f
<1>3. QED
  BY <1>1, <1>2, ShapedObject

LEMMA ShapedVerdict == Shaped(Typical.Verdict) /\ Typical.Verdict.t = "object"
<1> DEFINE f == [decision |-> Word("deny"), sessionId |-> Session,
                 reasons |-> List(<<Word("policy_not_met")>>),
                 requirements |-> List(<<Requirement>>),
                 remediation |-> Ascii("plain", 270), policyTier |-> Word("standard"),
                 evaluatedAt |-> Now, failOpen |-> No]
<1>0. Shaped(List(<<Word("policy_not_met")>>)) /\ Shaped(List(<<Requirement>>))
  BY ShapedLeaf, ShapedList, ShapedRequirement
<1>1. \A k \in DOMAIN f : Shaped(f[k])
  BY <1>0, ShapedLeaf
<1>2. Typical.Verdict = Object(f)
  BY DEF Typical, Yes, No
<1> HIDE DEF f
<1>3. QED
  BY <1>1, <1>2, ShapedObject

LEMMA ShapedLivenessResponse == Shaped(Typical.LivenessResponse) /\ Typical.LivenessResponse.t = "object"
<1> DEFINE f == [sessionId |-> Session, state |-> Word("active"),
                 lastHeartbeatAt |-> Now, shouldKick |-> No]
<1>1. \A k \in DOMAIN f : Shaped(f[k])
  BY ShapedLeaf
<1>2. Typical.LivenessResponse = Object(f)
  BY DEF Typical, Yes, No
<1> HIDE DEF f
<1>3. QED
  BY <1>1, <1>2, ShapedObject

LEMMA ShapedLocalAttestCommand == Shaped(Typical.LocalAttestCommand) /\ Typical.LocalAttestCommand.t = "object"
<1> DEFINE f == [nonce |-> Nonce, backendUrl |-> Ascii("plain", 23),
                 serverName |-> Ascii("plain", 12), protocolVersion |-> Number(1)]
<1>1. \A k \in DOMAIN f : Shaped(f[k])
  BY ShapedLeaf
<1>2. Typical.LocalAttestCommand = Object(f)
  BY DEF Typical
<1> HIDE DEF f
<1>3. QED
  BY <1>1, <1>2, ShapedObject

LEMMA ShapedLocalAttestAck == Shaped(Typical.LocalAttestAck) /\ Typical.LocalAttestAck.t = "object"
<1> DEFINE f == [accepted |-> Yes, companionVersion |-> Ascii("semver", 5),
                 protocolVersion |-> Number(1)]
<1>1. \A k \in DOMAIN f : Shaped(f[k])
  BY ShapedLeaf
<1>2. Typical.LocalAttestAck = Object(f)
  BY DEF Typical, Yes, No
<1> HIDE DEF f
<1>3. QED
  BY <1>1, <1>2, ShapedObject

LEMMA ShapedCompanionPollRequest == Shaped(Typical.CompanionPollRequest) /\ Typical.CompanionPollRequest.t = "object"
<1> DEFINE f == [companionVersion |-> Ascii("semver", 5), waitSeconds |-> Number(25),
                 protocolVersion |-> Number(1)]
<1>1. \A k \in DOMAIN f : Shaped(f[k])
  BY ShapedLeaf
<1>2. Typical.CompanionPollRequest = Object(f)
  BY DEF Typical
<1> HIDE DEF f
<1>3. QED
  BY <1>1, <1>2, ShapedObject

LEMMA ShapedCompanionPollResponse == Shaped(Typical.CompanionPollResponse) /\ Typical.CompanionPollResponse.t = "object"
<1> DEFINE f == [pending |-> Yes, nonce |-> Nonce, serverName |-> Ascii("plain", 12),
                 policyTier |-> Word("standard"), expiresAt |-> Now,
                 protocolVersion |-> Number(1)]
<1>1. \A k \in DOMAIN f : Shaped(f[k])
  BY ShapedLeaf
<1>2. Typical.CompanionPollResponse = Object(f)
  BY DEF Typical, Yes, No
<1> HIDE DEF f
<1>3. QED
  BY <1>1, <1>2, ShapedObject

LEMMA ShapedCompanionOutcomeRequest == Shaped(Typical.CompanionOutcomeRequest) /\ Typical.CompanionOutcomeRequest.t = "object"
<1> DEFINE f == [sessionId |-> Session, waitSeconds |-> Number(5),
                 protocolVersion |-> Number(1)]
<1>1. \A k \in DOMAIN f : Shaped(f[k])
  BY ShapedLeaf
<1>2. Typical.CompanionOutcomeRequest = Object(f)
  BY DEF Typical
<1> HIDE DEF f
<1>3. QED
  BY <1>1, <1>2, ShapedObject

LEMMA ShapedHeartbeatRequest == Shaped(Typical.HeartbeatRequest) /\ Typical.HeartbeatRequest.t = "object"
<1> DEFINE f == [sessionId |-> Session, companionBuildHash |-> Nonce,
                 uptimeSeconds |-> Number(60), gameProcessPresent |-> Yes,
                 protocolVersion |-> Number(1)]
<1>1. \A k \in DOMAIN f : Shaped(f[k])
  BY ShapedLeaf
<1>2. Typical.HeartbeatRequest = Object(f)
  BY DEF Typical, Yes, No
<1> HIDE DEF f
<1>3. QED
  BY <1>1, <1>2, ShapedObject

LEMMA ShapedHeartbeatResponse == Shaped(Typical.HeartbeatResponse) /\ Typical.HeartbeatResponse.t = "object"
<1> DEFINE f == [acknowledged |-> Yes, nextIntervalSeconds |-> Number(120),
                 terminate |-> No]
<1>1. \A k \in DOMAIN f : Shaped(f[k])
  BY ShapedLeaf
<1>2. Typical.HeartbeatResponse = Object(f)
  BY DEF Typical, Yes, No
<1> HIDE DEF f
<1>3. QED
  BY <1>1, <1>2, ShapedObject

LEMMA ShapedProtocolError == Shaped(Typical.ProtocolError) /\ Typical.ProtocolError.t = "object"
<1> DEFINE f == [code |-> Ascii("plain", 15), message |-> Ascii("plain", 14),
                 requestId |-> Ascii("plain", 5)]
<1>1. \A k \in DOMAIN f : Shaped(f[k])
  BY ShapedLeaf
<1>2. Typical.ProtocolError = Object(f)
  BY DEF Typical
<1> HIDE DEF f
<1>3. QED
  BY <1>1, <1>2, ShapedObject

LEMMA TypicalIsShaped ==
    ASSUME NEW schema \in DOMAIN Typical
    PROVE  Shaped(Typical[schema]) /\ Typical[schema].t = "object"
<1>1. schema \in {"SystemSnapshot", "NonceRequest", "NonceResponse", "AttestationRequest",
                 "AttestationAck", "Verdict", "LivenessResponse", "LocalAttestCommand",
                 "LocalAttestAck", "CompanionPollRequest", "CompanionPollResponse",
                 "CompanionOutcomeRequest", "HeartbeatRequest", "HeartbeatResponse",
                 "ProtocolError"}
  BY DEF Typical
<1>2. Typical.SystemSnapshot = Snapshot
  BY DEF Typical
<1>3. QED
  BY <1>1, <1>2, ShapedSnapshot, ShapedNonceRequest, ShapedNonceResponse, ShapedAttestationRequest,
     ShapedAttestationAck, ShapedVerdict, ShapedLivenessResponse,
     ShapedLocalAttestCommand, ShapedLocalAttestAck, ShapedCompanionPollRequest,
     ShapedCompanionPollResponse, ShapedCompanionOutcomeRequest, ShapedHeartbeatRequest,
     ShapedHeartbeatResponse, ShapedProtocolError

LEMMA DeviatingIsSound ==
    ASSUME NEW schema \in DOMAIN Typical, NEW m \in Deviating[schema]
    PROVE  Sound("any", 4, m)
<1> DEFINE v == Typical[schema]
           n == 4
<1>1. m \in Deep(v) \/ m \in Inside(v, Deep)
  BY DEF Deviating
<1>2. n \in 0..4 /\ v.t = "object" /\ Sound("shaped", n, v)
  BY TypicalIsShaped DEF Shaped
<1> HIDE DEF v, n
<1>3. ASSUME m \in Deep(v) PROVE Sound("any", n, m)
  BY <1>2, <1>3, DeepSound
<1>4. ASSUME m \in Inside(v, Deep) PROVE Sound("any", n, m)
  BY <1>2, <1>4, InsideDeepSound, Zenon
<1>5. QED
  BY <1>1, <1>3, <1>4 DEF n

LEMMA DeviatingIsUtf8 ==
    ASSUME NEW schema \in DOMAIN Typical, NEW m \in Deviating[schema]
    PROVE  Utf8(m)
  BY DeviatingIsSound, SoundIsUtf8

(* A message on the bench is one of the deviating ones of its schema.         *)
OnBench == phase = "bench" => call \in DOMAIN Typical /\ message \in Deviating[call]

LEMMA OnBenchStep ==
    ASSUME OnBench, [Next]_vars
    PROVE  OnBench'
<1> USE DEF OnBench
<1>1. CASE phase' = "bench" /\ phase # "bench"
  <2>1. \E schema \in DOMAIN Typical : \E m \in Deviating[schema] : Bench(schema, m)
    BY <1>1 DEF Next, vars, Scan, EngineStep, EngineTooSmall, EngineFails, EngineOk, Return,
                Send, CallStep, BackendRefuses, BackendAnswers, SomethingAnswers, CallLost,
                Receive, BenchDone
  <2>2. QED
    BY <2>1 DEF Bench
<1>2. CASE phase = "bench"
  <2>1. BenchDone \/ UNCHANGED vars
    BY <1>2 DEF Next, Scan, EngineStep, Send, CallStep, Receive
  <2>2. QED
    BY <1>2, <2>1 DEF BenchDone, Return, vars
<1>3. QED
  BY <1>1, <1>2

(* The contract test's messages (contract.rs, contract.test.ts): whatever one *)
(* of the oddities does to one field of one message, zod and Rust differ on   *)
(* it only in the named ways.                                                 *)
THEOREM DriftIsNamedOnTheBench == Spec => []DriftIsNamed
<1>1. Init => OnBench
  BY DEF Init, OnBench
<1>2. OnBench /\ [Next]_vars => OnBench'
  BY OnBenchStep
<1>3. OnBench => DriftIsNamed
  BY DeviatingIsUtf8, ValidatorsDriftInNamedWays DEF OnBench, DriftIsNamed
<1>4. QED
  BY <1>1, <1>2, <1>3, PTL DEF Spec

-----------------------------------------------------------------------------
(* What the companion sends.  Three of its requests are read by both.         *)
LEMMA PlainTypes ==
    \A L, v : /\ v.t = "text" /\ v.form # "unpaired" => HasType(L, v, "text")
              /\ v.t = "int" => HasType(L, v, "int")
              /\ v.t = "bool" => HasType(L, v, "bool")
              /\ v.t = "list" => HasType(L, v, "list")
              /\ v.t = "object" => HasType(L, v, "object")
<1>1. /\ "text" \notin DOMAIN Enums /\ "int" \notin DOMAIN Enums
      /\ "bool" \notin DOMAIN Enums /\ "list" \notin DOMAIN Enums
      /\ "object" \notin DOMAIN Enums
  BY DEF Enums
<1>2. QED
  BY <1>1 DEF HasType

LEMMA PollRequestIsRead == Accepts("zod", "CompanionPollRequest", PollRequest)
<1> DEFINE f == [companionVersion |-> Ascii("semver", 5),
                 waitSeconds |-> Number(25), protocolVersion |-> Number(1)]
<1>1. PollRequest = Object(f)
  BY DEF PollRequest, Typical
<1>2. CompanionPollRequest("zod", Object(f))
  BY PlainTypes DEF CompanionPollRequest, Fields, Object, Ascii, Text, Number, None
<1>3. ValidateCompanionPollRequest("zod", Object(f))
  BY DEF ValidateCompanionPollRequest, Object, Ascii, Text, Number, Length, Semver, Loose,
         InRange, AtLeast
<1>4. QED
  BY <1>1, <1>2, <1>3, StructSame DEF Accepts, Valid

LEMMA OutcomeRequestIsRead == Accepts("zod", "CompanionOutcomeRequest", OutcomeRequest)
<1> DEFINE f == [sessionId |-> Session, waitSeconds |-> Number(5),
                 protocolVersion |-> Number(1)]
<1>1. OutcomeRequest = Object(f)
  BY DEF OutcomeRequest, Typical
<1>2. CompanionOutcomeRequest("zod", Object(f))
  BY PlainTypes DEF CompanionOutcomeRequest, Fields, Object, Ascii, Text, Number, None, Session
<1>3. ValidateCompanionOutcomeRequest("zod", Object(f))
  BY DEF ValidateCompanionOutcomeRequest, Object, Ascii, Text, Number, Uuid, Session,
         InRange, AtLeast
<1>4. QED
  BY <1>1, <1>2, <1>3, StructSame DEF Accepts, Valid

LEMMA HeartbeatRequestIsRead ==
    ASSUME NEW r \in HeartbeatRequests
    PROVE  Accepts("zod", "HeartbeatRequest", r)
<1>1. PICK k, x :
         /\ k \in {"gameProcessPresent", "closing"} /\ x.t = "bool"
         /\ r = With(Typical.HeartbeatRequest, k, x)
  BY DEF HeartbeatRequests, Bool
<1> DEFINE f == r.f
<1>2. /\ DOMAIN f = {"sessionId", "companionBuildHash", "uptimeSeconds",
                     "gameProcessPresent", "protocolVersion", k}
      /\ f.sessionId = Session /\ f.companionBuildHash = Nonce
      /\ f.uptimeSeconds = Number(60) /\ f.protocolVersion = Number(1)
      /\ f.gameProcessPresent.t = "bool"
      /\ k = "closing" => f.closing.t = "bool"
  <2> DEFINE g == [sessionId |-> Session, companionBuildHash |-> Nonce,
                   uptimeSeconds |-> Number(60), gameProcessPresent |-> Yes,
                   protocolVersion |-> Number(1)]
  <2>1. Typical.HeartbeatRequest = Object(g)
    BY DEF Typical, Yes
  <2>2. Yes.t = "bool"
    BY DEF Yes, Bool
  <2>3. Typical.HeartbeatRequest.f = g
    BY <2>1 DEF Object
  <2>4. f = [j \in DOMAIN g \cup {k} |-> IF j = k THEN x ELSE g[j]]
    BY <1>1, <2>3 DEF With, Object
  <2>5. QED
    BY <1>1, <2>2, <2>4
<1>3. r.t = "object"
  BY <1>1 DEF With, Object
<1>4. HeartbeatRequest("zod", r)
  BY <1>1, <1>2, <1>3, PlainTypes DEF HeartbeatRequest, Fields, Ascii, Text, Number, Session, Nonce
<1>5. ValidateHeartbeatRequest("zod", r)
  BY <1>2 DEF ValidateHeartbeatRequest, Ascii, Text, Number, Session, Nonce, Uuid, Length,
              Hex, Loose, AtLeast
<1>6. QED
  BY <1>4, <1>5, StructSame DEF Accepts, Valid

(* The attestation carries the snapshot the engine wrote.                     *)
Attestation(s) == With(Typical.AttestationRequest, "snapshot", s)

LEMMA PartsDistribute ==
    ASSUME NEW S, NEW R
    PROVE  Parts(S \cup R) \subseteq Parts(S) \cup Parts(R)
  BY DEF Parts

LEMMA PartsGrow ==
    ASSUME NEW S, NEW R, S \subseteq R
    PROVE  Parts(S) \subseteq Parts(R)
  BY DEF Parts

LEMMA WithinAttestation ==
    ASSUME NEW s
    PROVE  Within(Attestation(s)) \subseteq {Attestation(s), Nonce, Number(1)} \cup Within(s)
<1> DEFINE m == Attestation(s)
           A == {m, Nonce, Number(1)}
           S1 == Parts({s})
           S2 == Parts(S1)
           S3 == Parts(S2)
<1>1. Parts(A) \subseteq A \cup {s}
  <2> DEFINE f == [nonce |-> Nonce, snapshot |-> Snapshot, protocolVersion |-> Number(1)]
  <2>1. Typical.AttestationRequest = Object(f)
    BY DEF Typical
  <2>2. Typical.AttestationRequest.f = f
    BY <2>1 DEF Object
  <2>3. m = Object([j \in DOMAIN f \cup {"snapshot"} |-> IF j = "snapshot" THEN s ELSE f[j]])
    BY <2>2 DEF Attestation, With
  <2>4. Children(m) \subseteq A \cup {s}
    BY <2>3 DEF Children, Object
  <2>5. Children(Nonce) = {} /\ Children(Number(1)) = {}
    BY DEF Children, Nonce, Ascii, Text, Number
  <2> HIDE DEF m
  <2>6. \A p \in Parts(A) : p \in A \/ \E q \in A : p \in Children(q)
    BY DEF Parts, Children
  <2>7. QED
    BY <2>4, <2>5, <2>6
<1> HIDE DEF m
<1>2. ASSUME NEW S, s \in S PROVE Parts(A \cup S) \subseteq A \cup Parts(S)
  <2>1. s \in Parts(S)
    BY <1>2, PartsFacts
  <2>2. QED
    BY <1>1, <2>1, PartsDistribute
<1>3. s \in S1 /\ s \in S2 /\ s \in S3
  BY PartsFacts
<1>4. Parts({m}) \subseteq A \cup {s}
  <2>1. Parts({m}) \subseteq Parts(A)
    BY PartsGrow
  <2>2. QED
    BY <1>1, <2>1
<1>5. ASSUME NEW R, NEW S, s \in S, R \subseteq A \cup S
      PROVE  Parts(R) \subseteq A \cup Parts(S)
  <2>1. Parts(R) \subseteq Parts(A \cup S)
    BY <1>5, PartsGrow
  <2>2. Parts(A \cup S) \subseteq A \cup Parts(S)
    BY <1>2, <1>5
  <2>3. QED
    BY <2>1, <2>2
<1> HIDE DEF A
<1>6. Parts(Parts({m})) \subseteq A \cup S1
  BY <1>4, <1>5
<1> HIDE DEF S1
<1>7. Parts(Parts(Parts({m}))) \subseteq A \cup S2
  BY <1>3, <1>5, <1>6 DEF S2
<1> HIDE DEF S2
<1>8. Parts(Parts(Parts(Parts({m})))) \subseteq A \cup S3
  BY <1>3, <1>5, <1>7 DEF S3
<1>9. S3 \subseteq Parts(S3) /\ Within(s) = Parts(S3)
  BY PartsFacts DEF Within, S1, S2, S3
<1>10. QED
  BY <1>8, <1>9 DEF Within, A, m

LEMMA SnapshotFields ==
    ASSUME NEW s, SystemSnapshot("zod", s)
    PROVE  /\ s.t = "object" /\ "probeErrors" \in DOMAIN s.f
           /\ s.f.probeErrors.t = "list"
           /\ \A i \in DOMAIN s.f.probeErrors.items : s.f.probeErrors.items[i].t = "text"
  BY ShapeType DEF SystemSnapshot, Fields, Each

LEMMA AttestationIsSound ==
    ASSUME NEW s \in Snapshots
    PROVE  Sound("any", 4, Attestation(s))
<1>1. Sound("any", 4, s)
  <2>1. "SystemSnapshot" \in DOMAIN Typical
    BY DEF Typical
  <2>2. QED
    BY <2>1, DeviatingIsSound DEF Snapshots
<1>2. Sound("any", 4 - 1, s)
  BY <1>1, SoundLess
<1>3. "AttestationRequest" \in DOMAIN Typical
  BY DEF Typical
<1>4. Typical.AttestationRequest.t = "object" /\ Sound("any", 4, Typical.AttestationRequest)
  BY <1>3, TypicalIsShaped, ShapedIsSound DEF Shaped
<1>5. QED
  BY <1>2, <1>4, WithSound DEF Attestation

(* A request is well read when the backend refuses it only for an attestation *)
(* that Rust's validator would have refused too, or that is loosely written.  *)
WellRead(c, m) ==
    ~Accepts("zod", RequestSchema[c], m) =>
        /\ c = "attest"
        /\ ~Accepts("rust", "AttestationRequest", m) \/ LooselyWritten(m)

LEMMA AttestationIsRead ==
    ASSUME NEW s \in Snapshots
    PROVE  WellRead("attest", Attestation(s))
<1> DEFINE m == Attestation(s)
<1>1. Utf8(m)
  BY AttestationIsSound, SoundIsUtf8
<1>2. Within(m) \subseteq {m, Nonce, Number(1)} \cup Within(s)
  BY WithinAttestation
<1>3. ~Positional(s) /\ Null \notin Within(s) /\ s.t # "list"
  BY DEF Snapshots, EngineWrites, Positional
<1>4. /\ m.t = "object" /\ DOMAIN m.f = {"nonce", "snapshot", "protocolVersion"}
      /\ m.f.nonce = Nonce /\ m.f.protocolVersion = Number(1) /\ m.f.snapshot = s
  BY DEF Attestation, With, Typical, Object
<1>5. Nonce.t = "text" /\ Number(1).t = "int" /\ Null.t = "null"
  BY DEF Nonce, Ascii, Text, Number, Null
<1> HIDE DEF m
<1>6. Null \notin Within(m)
  BY <1>2, <1>3, <1>4, <1>5
<1>7. ~Positional(m)
  BY <1>2, <1>3, <1>4, <1>5 DEF Positional
<1>8. ASSUME ~LooselyWritten(m), Accepts("rust", "AttestationRequest", m)
      PROVE  Accepts("zod", "AttestationRequest", m)
  <2>1. Alike("rust", m)
    BY <1>1, <1>6, <1>7, <1>8 DEF LooselyWritten, Alike, FineText, LooseForms, Utf8
  <2>2. "rust" \in Readers /\ Other("rust") = "zod" /\ "AttestationRequest" \in DOMAIN Typical
    BY DEF Readers, Other, Typical
  <2>3. QED
    BY <1>8, <2>1, <2>2, AcceptsCarries
<1>9. WellRead("attest", m)
  BY <1>8 DEF WellRead, RequestSchema
<1>10. QED
  BY <1>9 DEF m

(* No backend's answer is kept from one call to the next, and a request in    *)
(* flight is well read.                                                       *)
Asked ==
    /\ phase \in {"scanning", "bench"} \/ message = Null => answer.by # "backend"
    /\ phase \in {"calling", "answered"} => message # Null
    /\ phase = "calling" => WellRead(call, message)

LEMMA NoBadRequestFromARoute ==
    ASSUME NEW c \in Calls, NEW a \in Answers(c)
    PROVE  a.status # 400 /\ a.by = "backend"
  BY DEF Answers, Calls, From

LEMMA RequestsAreWellRead ==
    /\ WellRead("poll", PollRequest) /\ WellRead("outcome", OutcomeRequest)
    /\ \A r \in HeartbeatRequests : WellRead("heartbeat", r)
  BY PollRequestIsRead, OutcomeRequestIsRead, HeartbeatRequestIsRead
  DEF WellRead, RequestSchema

LEMMA RequestsAreObjects ==
    /\ PollRequest # Null /\ OutcomeRequest # Null
    /\ \A r \in HeartbeatRequests : r # Null
    /\ \A s : Attestation(s) # Null
<1>1. \A v, k, x : With(v, k, x) # Null
  BY DEF With, Object, Null
<1>2. PollRequest # Null /\ OutcomeRequest # Null
  BY DEF PollRequest, OutcomeRequest, Typical, Object, Null
<1>3. QED
  BY <1>1, <1>2 DEF HeartbeatRequests, Attestation

LEMMA AskedStep ==
    ASSUME Calling, Asked, CompanionIsUnderstood, [Next]_vars
    PROVE  Asked' /\ CompanionIsUnderstood'
<1> USE DEF Asked, CompanionIsUnderstood
<1>1. Nothing.by # "backend" /\ Calling
  BY DEF Nothing
<1>2. ASSUME NEW r, Return(r) PROVE Asked' /\ CompanionIsUnderstood'
  BY <1>1, <1>2 DEF Return
<1>3. CASE Scan
  BY <1>1, <1>3 DEF Scan
<1>4. ASSUME NEW size \in Sizes, phase = "scanning", EngineTooSmall(size)
      PROVE  Asked' /\ CompanionIsUnderstood'
  BY <1>2, <1>4 DEF EngineTooSmall
<1>5. ASSUME phase = "scanning", EngineFails PROVE Asked' /\ CompanionIsUnderstood'
  BY <1>2, <1>5 DEF EngineFails
<1>6. ASSUME NEW s \in Snapshots, phase = "scanning", EngineOk(s)
      PROVE  Asked' /\ CompanionIsUnderstood'
  <2>1. CASE SystemSnapshot("rust", s)
    <3>1. /\ phase' = "calling" /\ call' = "attest" /\ answer' = answer
          /\ message' = Attestation(s)
      BY <1>6, <2>1 DEF EngineOk, Attestation
    <3>2. WellRead("attest", Attestation(s))
      BY AttestationIsRead
    <3>3. QED
      BY <1>6, <3>1, <3>2, RequestsAreObjects
  <2>2. CASE ~SystemSnapshot("rust", s)
    BY <1>2, <1>6, <2>2 DEF EngineOk
  <2>3. QED
    BY <2>1, <2>2
<1>7. ASSUME NEW c, NEW r, WellRead(c, r), r # Null, Send(c, r)
      PROVE  Asked' /\ CompanionIsUnderstood'
  <2>1. phase' = "calling" /\ call' = c /\ message' = r /\ answer'.by # "backend"
    BY <1>1, <1>7 DEF Send
  <2>2. QED
    BY <1>7, <2>1
<1>8. CASE CallStep
  <2>1. CASE BackendRefuses
    <3>1. phase = "calling" /\ ~Accepts("zod", RequestSchema[call], message)
      BY <2>1 DEF BackendRefuses
    <3>2. /\ call = "attest"
          /\ ~Accepts("rust", "AttestationRequest", message) \/ LooselyWritten(message)
      BY <3>1 DEF WellRead
    <3>3. message # Null
      BY <3>1
    <3>4. phase' = "answered" /\ UNCHANGED <<call, message>>
      BY <2>1 DEF BackendRefuses
    <3>5. QED
      BY <3>2, <3>3, <3>4
  <2>2. ASSUME NEW a \in Answers(call), phase = "calling", BackendAnswers(a)
        PROVE  Asked' /\ CompanionIsUnderstood'
    <3>1. a.status # 400
      BY <2>2, NoBadRequestFromARoute DEF Calling
    <3>2. phase' = "answered" /\ answer' = a /\ UNCHANGED <<call, message>>
      BY <2>2 DEF BackendAnswers
    <3>3. QED
      BY <2>2, <3>1, <3>2
  <2>3. ASSUME NEW status, NEW body, SomethingAnswers(status, body)
        PROVE  Asked' /\ CompanionIsUnderstood'
    BY <2>3 DEF SomethingAnswers
  <2>4. CASE CallLost
    BY <1>2, <2>4 DEF CallLost
  <2>5. QED
    BY <1>8, <2>1, <2>2, <2>3, <2>4 DEF CallStep
<1>9. CASE Receive
  BY <1>9 DEF Receive
<1>10. ASSUME NEW schema, NEW m, message = Null, Bench(schema, m)
       PROVE  Asked' /\ CompanionIsUnderstood'
  BY <1>10 DEF Bench
<1>11. CASE BenchDone
  BY <1>2, <1>11 DEF BenchDone
<1>12. CASE UNCHANGED vars
  BY <1>12 DEF vars
<1>13. QED
  BY <1>3, <1>4, <1>5, <1>6, <1>7, <1>8, <1>9, <1>10, <1>11, <1>12, RequestsAreWellRead,
     RequestsAreObjects
  DEF Next, EngineStep

(* backend.rs against the routes' schemas: no request the companion builds is *)
(* refused as malformed, except an attestation whose snapshot Rust's own      *)
(* validator, which the shell does not run, would have refused or which is    *)
(* loosely written.                                                           *)
THEOREM CompanionSpeaksTheProtocol == Spec => []CompanionIsUnderstood
<1>1. Init => Calling /\ Asked /\ CompanionIsUnderstood
  BY DEF Init, Calling, Asked, CompanionIsUnderstood, Nothing, Result
<1>2. Calling /\ Asked /\ CompanionIsUnderstood /\ [Next]_vars
         => (Calling /\ Asked /\ CompanionIsUnderstood)'
  BY CallingStep, AskedStep
<1>3. QED
  BY <1>1, <1>2, PTL DEF Spec

-----------------------------------------------------------------------------
(* What the routes answer, as the client reads it: both kinds of heartbeat    *)
(* answer, the acknowledgement, the empty poll, and a pairing or a verdict    *)
(* whose one free text is short enough in bytes.                              *)
LEMMA AckIsRead == Accepts("rust", "AttestationAck", Typical.AttestationAck)
<1> DEFINE f == [accepted |-> Yes, sessionId |-> Session, receivedAt |-> Now,
                 heartbeatIntervalSeconds |-> Number(120)]
<1>1. Typical.AttestationAck = Object(f)
  BY DEF Typical, Yes
<1>2. Yes.t = "bool"
  BY DEF Yes, Bool
<1>3. AttestationAck("rust", Object(f))
  BY <1>2, PlainTypes DEF AttestationAck, Fields, Object, Ascii, Text, Number, None, Session, Now
<1>4. ValidateAttestationAck("rust", Object(f))
  BY DEF ValidateAttestationAck, Object, Ascii, Text, Number, Uuid, Session, Now, Datetime,
         Loose, InRange
<1>5. QED
  BY <1>1, <1>3, <1>4, StructSame DEF Accepts, Valid, Object

LEMMA EnumTypes ==
    \A L, v : v.t = "text" =>
        /\ v.form \in DenyReason => HasType(L, v, "DenyReason")
        /\ v.form \in PolicyTier => HasType(L, v, "PolicyTier")
        /\ v.form \in VerdictDecision => HasType(L, v, "VerdictDecision")
        /\ v.form \in RequirementId => HasType(L, v, "RequirementId")
        /\ v.form \in RequirementStatus => HasType(L, v, "RequirementStatus")
  BY DEF HasType, Enums

(* Both readers take an object as it is, and nothing else but a list.         *)
LEMMA ValidObject ==
    ASSUME NEW L, NEW schema, NEW f, Valid(L, schema, Object(f))
    PROVE  Accepts(L, schema, Object(f))
<1>1. Object(f).t # "list"
  BY DEF Object
<1>2. QED
  BY <1>1, StructSame DEF Accepts

LEMMA AcceptedIsJson ==
    ASSUME NEW L, NEW schema \in Schemas, NEW v, Accepts(L, schema, v)
    PROVE  v # NotJson
<1>1. CASE v.t = "list"
  BY <1>1 DEF NotJson
<1>2. CASE v.t # "list"
  BY <1>2, StructSame, ValidIsObject DEF Accepts, NotJson
<1>3. QED
  BY <1>1, <1>2

LEMMA HeartbeatAnswersAreRead ==
    ASSUME NEW a \in Answers("heartbeat"), a.status < 400
    PROVE  Accepts("rust", "HeartbeatResponse", a.body)
<1> DEFINE f == [acknowledged |-> Yes, nextIntervalSeconds |-> Number(120), terminate |-> No]
           g == [acknowledged |-> No, nextIntervalSeconds |-> Number(120),
                 terminate |-> Yes, terminateReason |-> Word("heartbeat_lost")]
<1>1. Answers("heartbeat") = {From(200, Typical.HeartbeatResponse), From(200, Object(g)),
                              From(404, Typical.ProtocolError)}
  BY DEF Answers, Yes, No
<1>2. Typical.HeartbeatResponse = Object(f)
  BY DEF Typical, Yes, No
<1>3. Yes.t = "bool" /\ No.t = "bool"
  BY DEF Yes, No, Bool
<1>4. a.body = Object(f) \/ a.body = Object(g)
  BY <1>1, <1>2 DEF From
<1>5. HeartbeatResponse("rust", Object(f))
  BY <1>3, PlainTypes DEF HeartbeatResponse, Fields, Object, Number
<1>6. HeartbeatResponse("rust", Object(g))
  BY <1>3, PlainTypes, EnumTypes DEF HeartbeatResponse, Fields, Object, Number, Word, Ascii,
                                     Text, DenyReason
<1>7. \A x \in {f, g} : ValidateHeartbeatResponse("rust", Object(x))
  BY DEF ValidateHeartbeatResponse, Object, Number, InRange
<1>8. \A x \in {f, g} : Valid("rust", "HeartbeatResponse", Object(x))
  BY <1>5, <1>6, <1>7 DEF Valid
<1>9. QED
  BY <1>4, <1>8, ValidObject

LEMMA PollAnswersAreRead ==
    ASSUME NEW a \in Answers("poll"), a.status < 400,
           ~Accepts("rust", "CompanionPollResponse", a.body)
    PROVE  a.body.f.serverName.bytes > 128
<1> DEFINE e == [pending |-> No, protocolVersion |-> Number(1)]
<1>1. Yes.t = "bool" /\ No.t = "bool"
  BY DEF Yes, No, Bool
<1>2. Accepts("rust", "CompanionPollResponse", Object(e))
  <2>1. CompanionPollResponse("rust", Object(e))
    BY <1>1, PlainTypes DEF CompanionPollResponse, Fields, Object, Number
  <2>2. ValidateCompanionPollResponse("rust", Object(e))
    BY DEF ValidateCompanionPollResponse, Given, Object, Number, AtLeast
  <2>3. QED
    BY <2>1, <2>2, ValidObject DEF Valid
<1>3. PICK name \in ServerNames : a.body = With(Typical.CompanionPollResponse, "serverName", name)
  <2>1. Answers("poll") =
          {From(200, With(Typical.CompanionPollResponse, "serverName", name)) :
              name \in ServerNames}
          \cup {From(200, Object(e)), From(409, Typical.ProtocolError)}
    BY DEF Answers, No
  <2>2. QED
    BY <1>2, <2>1 DEF From
<1>4. name.t = "text" /\ name.bytes \in Nat /\ name.form # "unpaired"
  BY WithinFacts, WireAssumption DEF Utf8, WellFormedText, Decodes
<1> DEFINE f == [pending |-> Yes, nonce |-> Nonce, serverName |-> name,
                 policyTier |-> Word("standard"), expiresAt |-> Now,
                 protocolVersion |-> Number(1)]
<1>5. a.body = Object(f)
  <2> DEFINE g == [pending |-> Yes, nonce |-> Nonce,
                   serverName |-> Ascii("plain", 12), policyTier |-> Word("standard"),
                   expiresAt |-> Now, protocolVersion |-> Number(1)]
  <2>1. Typical.CompanionPollResponse = Object(g)
    BY DEF Typical, Yes
  <2>2. Typical.CompanionPollResponse.f = g
    BY <2>1 DEF Object
  <2>3. With(Typical.CompanionPollResponse, "serverName", name) =
           Object([j \in DOMAIN g \cup {"serverName"} |-> IF j = "serverName" THEN name ELSE g[j]])
    BY <2>2 DEF With
  <2>4. [j \in DOMAIN g \cup {"serverName"} |-> IF j = "serverName" THEN name ELSE g[j]] = f
    OBVIOUS
  <2>5. QED
    BY <1>3, <2>3, <2>4
<1>6. CompanionPollResponse("rust", Object(f))
  BY <1>1, <1>4, PlainTypes, EnumTypes
  DEF CompanionPollResponse, Fields, Object, Number, Word, Ascii, Text, Nonce, Now, PolicyTier
<1>7. Object(f).f.serverName.bytes <= 128 => ValidateCompanionPollResponse("rust", Object(f))
  BY <1>4 DEF ValidateCompanionPollResponse, Given, Object, Number, Word, Ascii, Text, Nonce, Now,
              AtLeast, Length, Hex, Loose, Datetime
<1>8. Object(f).f.serverName.bytes > 128
  <2>1. Object(f).f.serverName = name
    BY DEF Object
  <2>2. ~(Object(f).f.serverName.bytes <= 128)
    BY <1>5, <1>6, <1>7, ValidObject DEF Valid
  <2>3. QED
    BY <1>4, <2>1, <2>2
<1>9. QED
  BY <1>5, <1>8

(* The note the backend filed is a text of the snapshot it was sent.          *)
Filed == note = Null \/ (note.t = "text" /\ WellFormedText(note))

LEMMA RequirementIsRead ==
    ASSUME NEW d, d.t = "text", d.form = "plain", d.bytes \in Nat
    PROVE  /\ RequirementResult("rust", With(Requirement, "detail", d))
           /\ d.bytes <= 200 =>
                 ValidateRequirementResult("rust", With(Requirement, "detail", d))
<1> DEFINE g == [requirement |-> Word("hvci_enabled"), status |-> Word("fail"),
                 detail |-> Ascii("plain", 28)]
           f == [requirement |-> Word("hvci_enabled"), status |-> Word("fail"), detail |-> d]
<1>1. Requirement.f = g
  BY DEF Requirement, Object
<1>2. With(Requirement, "detail", d) =
         Object([j \in DOMAIN g \cup {"detail"} |-> IF j = "detail" THEN d ELSE g[j]])
  BY <1>1 DEF With
<1>3. [j \in DOMAIN g \cup {"detail"} |-> IF j = "detail" THEN d ELSE g[j]] = f
  OBVIOUS
<1>4. RequirementResult("rust", Object(f))
  BY PlainTypes, EnumTypes DEF RequirementResult, Fields, Object, Word, Ascii, Text,
                               RequirementId, RequirementStatus
<1>5. d.bytes <= 200 => ValidateRequirementResult("rust", Object(f))
  BY DEF ValidateRequirementResult, Given, Object, Length
<1>6. QED
  BY <1>2, <1>3, <1>4, <1>5

(* A verdict with this requirement and this remediation.                      *)
VerdictWith(r, text) ==
    [decision |-> Word("deny"), sessionId |-> Session,
     reasons |-> List(<<Word("policy_not_met")>>), requirements |-> List(<<r>>),
     remediation |-> text, policyTier |-> Word("standard"),
     evaluatedAt |-> Now, failOpen |-> No]

LEMMA VerdictIsRead ==
    ASSUME NEW r, RequirementResult("rust", r), ValidateRequirementResult("rust", r),
           NEW text, text.t = "text", text.form = "plain",
           text.bytes \in Nat, text.bytes <= 500
    PROVE  Accepts("rust", "Verdict", Object(VerdictWith(r, text)))
<1> DEFINE v == Object(VerdictWith(r, text))
           reasons == <<Word("policy_not_met")>>
           requirements == <<r>>
<1>1. /\ DOMAIN v.f = {"decision", "sessionId", "reasons", "requirements", "remediation",
                       "policyTier", "evaluatedAt", "failOpen"}
      /\ v.t = "object"
      /\ v.f.decision = Word("deny") /\ v.f.sessionId = Session
      /\ v.f.reasons = List(reasons) /\ v.f.requirements = List(requirements)
      /\ v.f.remediation = text /\ v.f.policyTier = Word("standard")
      /\ v.f.evaluatedAt = Now /\ v.f.failOpen = No
  BY DEF Object, VerdictWith
<1>2. /\ DOMAIN reasons = {1} /\ reasons[1] = Word("policy_not_met") /\ Len(reasons) = 1
      /\ DOMAIN requirements = {1} /\ requirements[1] = r /\ Len(requirements) = 1
  OBVIOUS
<1>3. No.t = "bool" /\ \A m : Struct("rust", m, r) = r
  BY StructSame DEF No, Bool, RequirementResult, Fields
<1> HIDE DEF v, reasons, requirements
<1>4. Verdict("rust", v)
  <2>1. Each(v.f.reasons, LAMBDA x : HasType("rust", x, "DenyReason"))
    BY <1>1, <1>2, EnumTypes DEF Each, List, Word, Ascii, Text, DenyReason
  <2>2. Each(v.f.requirements, LAMBDA x :
             RequirementResult("rust", Struct("rust", "RequirementResult", x)))
    BY <1>1, <1>2, <1>3 DEF Each, List
  <2>3. Fields("rust", v, [decision |-> "VerdictDecision", sessionId |-> "text",
                     reasons |-> "list", requirements |-> "list",
                     policyTier |-> "PolicyTier", evaluatedAt |-> "text",
                     failOpen |-> "bool"], [remediation |-> "text"])
    BY <1>1, <1>3, PlainTypes, EnumTypes
    DEF Fields, List, Word, Ascii, Text, Session, Now, VerdictDecision, PolicyTier
  <2>4. QED
    BY <2>1, <2>2, <2>3 DEF Verdict
<1>5. ValidateVerdict("rust", v)
  <2>1. /\ Uuid("rust", v.f.sessionId) /\ Datetime("rust", v.f.evaluatedAt)
        /\ MaxItems(v.f.reasons, 16) /\ MaxItems(v.f.requirements, 32)
    <3>1. Uuid("rust", v.f.sessionId) /\ Datetime("rust", v.f.evaluatedAt)
      BY <1>1 DEF Uuid, Datetime, Session, Now, Ascii, Text
    <3>2. v.f.reasons.items = reasons /\ v.f.requirements.items = requirements
      BY <1>1 DEF List
    <3>3. Len(v.f.reasons.items) = 1 /\ Len(v.f.requirements.items) = 1
      BY <1>2, <3>2, Zenon
    <3>4. \A n : n = 1 => n <= 16 /\ n <= 32
      OBVIOUS
    <3>5. MaxItems(v.f.reasons, 16) /\ MaxItems(v.f.requirements, 32)
      BY <3>3, <3>4, Zenon DEF MaxItems
    <3>6. QED
      BY <3>1, <3>5
  <2>2. Each(v.f.requirements, LAMBDA x :
             ValidateRequirementResult("rust", Struct("rust", "RequirementResult", x)))
    BY <1>1, <1>2, <1>3 DEF Each, List
  <2>3. Given(v, "remediation", LAMBDA x : Length("rust", x, 0, 500))
    BY <1>1 DEF Given, Length
  <2>4. QED
    BY <2>1, <2>2, <2>3 DEF ValidateVerdict
<1>6. Valid("rust", "Verdict", v)
  BY <1>4, <1>5 DEF Valid
<1>7. QED
  BY <1>6, ValidObject DEF v

LEMMA VerdictForIsRead ==
    ASSUME NEW n, n = Null \/ (n.t = "text" /\ WellFormedText(n) /\ n.bytes <= 200)
    PROVE  Accepts("rust", "Verdict", VerdictFor(n))
<1> DEFINE plain == VerdictWith(Requirement, Ascii("plain", 270))
<1>1. Typical.Verdict = Object(plain)
  BY DEF Typical, VerdictWith, No
<1>2. CASE n = Null
  <2>1. RequirementResult("rust", Requirement) /\ ValidateRequirementResult("rust", Requirement)
    <3> DEFINE g == [requirement |-> Word("hvci_enabled"), status |-> Word("fail"),
                     detail |-> Ascii("plain", 28)]
    <3>1. Requirement = Object(g)
      BY DEF Requirement
    <3>2. RequirementResult("rust", Object(g))
      BY PlainTypes, EnumTypes DEF RequirementResult, Fields, Object, Word, Ascii, Text,
                                   RequirementId, RequirementStatus
    <3>3. ValidateRequirementResult("rust", Object(g))
      BY DEF ValidateRequirementResult, Given, Object, Length, Ascii, Text
    <3>4. QED
      BY <3>1, <3>2, <3>3
  <2>2. /\ Ascii("plain", 270).t = "text" /\ Ascii("plain", 270).bytes \in Nat
        /\ Ascii("plain", 270).bytes <= 500 /\ Ascii("plain", 270).form = "plain"
    BY DEF Ascii, Text
  <2>3. Accepts("rust", "Verdict", Object(plain))
    BY <2>1, <2>2, VerdictIsRead
  <2>4. QED
    BY <1>1, <1>2, <2>3 DEF VerdictFor
<1>3. CASE n # Null
  <2> DEFINE d == Text("plain", n.chars, n.bytes)
             text == Text("plain", n.chars + 242, n.bytes + 250)
             r == With(Requirement, "detail", d)
             once == With(Typical.Verdict, "requirements", List(<<r>>))
  <2>1. n.bytes \in Nat /\ n.bytes <= 200
    BY <1>3 DEF WellFormedText
  <2>2. /\ d.t = "text" /\ d.form = "plain" /\ d.bytes = n.bytes
        /\ text.t = "text" /\ text.form = "plain" /\ text.bytes = n.bytes + 250
    BY DEF Text
  <2>3. VerdictFor(n) = With(once, "remediation", text)
    BY <1>3 DEF VerdictFor
  <2>4. RequirementResult("rust", r) /\ ValidateRequirementResult("rust", r)
    BY <2>1, <2>2, RequirementIsRead
  <2> HIDE DEF d, text, r
  <2>5. once = Object(VerdictWith(r, Ascii("plain", 270)))
    <3>1. Typical.Verdict.f = plain
      BY <1>1 DEF Object
    <3>2. once = Object([j \in DOMAIN plain \cup {"requirements"} |->
                            IF j = "requirements" THEN List(<<r>>) ELSE plain[j]])
      BY <3>1 DEF With
    <3>3. [j \in DOMAIN plain \cup {"requirements"} |->
              IF j = "requirements" THEN List(<<r>>) ELSE plain[j]]
             = VerdictWith(r, Ascii("plain", 270))
      BY DEF VerdictWith
    <3>4. QED
      BY <3>2, <3>3
  <2>6. VerdictFor(n) = Object(VerdictWith(r, text))
    <3> DEFINE g == VerdictWith(r, Ascii("plain", 270))
    <3>1. once.f = g
      BY <2>5 DEF Object
    <3> HIDE DEF once
    <3>2. With(once, "remediation", text) =
             Object([j \in DOMAIN g \cup {"remediation"} |->
                        IF j = "remediation" THEN text ELSE g[j]])
      BY <3>1 DEF With
    <3>3. [j \in DOMAIN g \cup {"remediation"} |-> IF j = "remediation" THEN text ELSE g[j]]
             = VerdictWith(r, text)
      BY DEF VerdictWith
    <3>4. QED
      BY <2>3, <3>2, <3>3
  <2>7. QED
    BY <2>1, <2>2, <2>4, <2>6, VerdictIsRead
<1>4. QED
  BY <1>2, <1>3

LEMMA RouteAnswersAreRead ==
    ASSUME NEW c \in Calls, NEW a \in Answers(c), Filed, Read(c, a).kind = "malformed"
    PROVE  \/ c = "poll" /\ a.body.f.serverName.bytes > 128
           \/ c = "outcome" /\ note.t = "text" /\ note.bytes > 200
<1>1. a.status \in {200, 202, 404, 409}
  BY DEF Answers, Calls, From
<1>2. a.status \in {200, 202}
  <2>1. a.status >= 400 => Read(c, a).kind = "status"
    BY DEF Read, PostRaw, Result
  <2>2. QED
    BY <1>1, <2>1
<1>3. CASE c = "poll"
  <2>1. ~Accepts("rust", "CompanionPollResponse", a.body) \/ PostRaw(a) # "ok"
    BY <1>3 DEF Read, PollPending, Result
  <2>2. CASE PostRaw(a) = "ok"
    BY <1>2, <1>3, <2>1, <2>2, PollAnswersAreRead
  <2>3. CASE PostRaw(a) # "ok"
    <3>1. a.body = NotJson
      BY <1>2, <2>3 DEF PostRaw
    <3>2. \A v, k, x : With(v, k, x) # NotJson
      BY DEF With, Object, NotJson
    <3>3. \A f : Object(f) # NotJson
      BY DEF Object, NotJson
    <3>4. a.status = 409
      BY <1>3, <3>1, <3>2, <3>3 DEF Answers, From
    <3>5. QED
      BY <1>2, <3>4
  <2>4. QED
    BY <2>2, <2>3
<1>4. CASE c = "attest"
  <2>1. a = From(202, Typical.AttestationAck)
    BY <1>2, <1>4 DEF Answers, From
  <2>2. a.body = Typical.AttestationAck /\ Typical.AttestationAck # NotJson
    BY <2>1 DEF From, Typical, Object, NotJson
  <2>3. PostRaw(a) = "ok"
    BY <1>2, <2>2 DEF PostRaw
  <2>4. Attest(a).kind = "ok"
    BY <2>2, AckIsRead DEF Attest, Parsed, Result
  <2>5. QED
    BY <1>4, <2>3, <2>4 DEF Read
<1>5. CASE c = "heartbeat"
  <2>1. Accepts("rust", "HeartbeatResponse", a.body)
    BY <1>2, <1>5, HeartbeatAnswersAreRead
  <2>2. a.body # NotJson
    BY <2>1, AcceptedIsJson DEF Schemas
  <2>3. PostRaw(a) = "ok"
    BY <1>2, <2>2 DEF PostRaw
  <2>4. Heartbeat(a).kind = "ok"
    BY <2>1 DEF Heartbeat, Parsed, Result
  <2>5. QED
    BY <1>5, <2>3, <2>4 DEF Read
<1>6. CASE c = "outcome"
  <2>1. a = From(200, VerdictFor(note)) \/ a = From(202, Typical.ProtocolError)
    BY <1>2, <1>6 DEF Answers, From
  <2>2. CASE a = From(202, Typical.ProtocolError)
    <3>1. a.status = 202 /\ a.body # NotJson
      BY <2>2 DEF From, Typical, Object, NotJson
    <3>2. PostRaw(a) = "ok" /\ Outcome(a).kind = "none"
      BY <3>1 DEF PostRaw, Outcome, Result
    <3>3. QED
      BY <1>6, <3>2 DEF Read
  <2>3. CASE a = From(200, VerdictFor(note))
    <3>1. a.status = 200 /\ a.body = VerdictFor(note)
      BY <2>3 DEF From
    <3>2. SUFFICES ASSUME ~(note.t = "text" /\ note.bytes > 200)
                   PROVE  FALSE
      BY <1>6
    <3>3. note = Null \/ (note.t = "text" /\ WellFormedText(note) /\ note.bytes <= 200)
      BY <3>2 DEF Filed, WellFormedText
    <3>4. Accepts("rust", "Verdict", a.body)
      BY <3>1, <3>3, VerdictForIsRead
    <3>5. a.body # NotJson
      BY <3>4, AcceptedIsJson DEF Schemas
    <3>6. PostRaw(a) = "ok"
      BY <3>1, <3>5 DEF PostRaw
    <3>7. Outcome(a).kind = "ok"
      BY <3>1, <3>4 DEF Outcome, Parsed, Result
    <3>8. QED
      BY <1>6, <3>6, <3>7 DEF Read
  <2>4. QED
    BY <2>1, <2>2, <2>3
<1>7. QED
  BY <1>3, <1>4, <1>5, <1>6 DEF Calls

(* What the backend said last, until the client has read it.                  *)
Routed ==
    /\ Filed
    /\ phase = "calling" /\ call = "attest" => Sound("any", 4, message)
    /\ phase = "answered" /\ answer.by = "backend" =>
          answer.status >= 400 \/ answer \in Answers(call)

LEMMA FiledStep ==
    ASSUME Routed, phase = "calling", NEW a, BackendAnswers(a)
    PROVE  Filed'
<1> USE DEF Routed, Filed
<1>1. CASE call # "attest" \/ a.status >= 400
  BY <1>1 DEF BackendAnswers
<1>2. CASE call = "attest" /\ ~(a.status >= 400)
  <2> DEFINE s == message.f.snapshot
             list == s.f.probeErrors
  <2>1. note' = IF list.items = <<>> THEN Null ELSE list.items[1]
    BY <1>2 DEF BackendAnswers
  <2>2. AttestationRequest("zod", message)
    BY <1>2, StructSame DEF BackendAnswers, RequestSchema, Accepts, Valid
  <2>3. /\ message.t = "object" /\ s \in Children(message)
        /\ SystemSnapshot("zod", s)
    BY <2>2, StructSame DEF AttestationRequest, Fields, Children
  <2>4. /\ s.t = "object" /\ list \in Children(s) /\ list.t = "list"
        /\ \A i \in DOMAIN list.items : list.items[i].t = "text"
    BY <2>3, SnapshotFields DEF Children
  <2>5. Sound("any", 4, message)
    BY <1>2
  <2> HIDE DEF s, list
  <2>6. Sound("any", 4 - 1, s)
    BY <2>3, <2>5, SoundIs
  <2>7. Sound("any", 3 - 1, list)
    BY <2>4, <2>6, SoundIs
  <2>8. Sequence(list.items) /\ \A x \in Children(list) : Sound("any", 2 - 1, x)
    BY <2>4, <2>7, SoundIs DEF Local
  <2>9. CASE list.items # <<>>
    <3>1. 1 \in DOMAIN list.items
      BY <2>8, <2>9 DEF Sequence
    <3>2. Sound("any", 1, list.items[1])
      BY <2>4, <2>8, <3>1 DEF Children
    <3>3. WellFormedText(list.items[1]) /\ list.items[1].t = "text"
      BY <2>4, <3>1, <3>2, SoundIs DEF Local
    <3>4. QED
      BY <2>1, <2>9, <3>3
  <2>10. QED
    BY <2>1, <2>9
<1>3. QED
  BY <1>1, <1>2

LEMMA RoutedStep ==
    ASSUME Calling, Asked, Routed, AnswersAreRead, [Next]_vars
    PROVE  Routed' /\ AnswersAreRead'
<1> USE DEF Routed, AnswersAreRead
<1>1. Nothing.by # "backend" /\ \A v : Result("none", v).kind = "none"
  BY DEF Nothing, Result
<1>2. Filed /\ (note' = note => Filed') /\ (note' = Null => Filed')
  BY DEF Filed
<1>3. ASSUME NEW r, Return(r), note' = note PROVE Routed' /\ AnswersAreRead'
  BY <1>1, <1>2, <1>3 DEF Return
<1>4. CASE Scan
  BY <1>1, <1>2, <1>4 DEF Scan
<1>5. ASSUME NEW size \in Sizes, phase = "scanning", EngineTooSmall(size)
      PROVE  Routed' /\ AnswersAreRead'
  BY <1>2, <1>3, <1>5 DEF EngineTooSmall, Asked
<1>6. ASSUME phase = "scanning", EngineFails PROVE Routed' /\ AnswersAreRead'
  BY <1>3, <1>6 DEF EngineFails
<1>7. ASSUME NEW s \in Snapshots, phase = "scanning", EngineOk(s)
      PROVE  Routed' /\ AnswersAreRead'
  <2>1. CASE SystemSnapshot("rust", s)
    <3>1. /\ phase' = "calling" /\ answer' = answer /\ note' = note /\ result' = result
          /\ message' = Attestation(s)
      BY <1>7, <2>1 DEF EngineOk, Attestation
    <3>2. Sound("any", 4, Attestation(s))
      BY AttestationIsSound
    <3>3. answer.by # "backend"
      BY <1>7 DEF Asked
    <3>4. QED
      BY <1>2, <3>1, <3>2, <3>3
  <2>2. CASE ~SystemSnapshot("rust", s)
    BY <1>3, <1>7, <2>2 DEF EngineOk
  <2>3. QED
    BY <2>1, <2>2
<1>8. ASSUME NEW c \in {"poll", "outcome", "heartbeat"}, NEW r, Send(c, r)
      PROVE  Routed' /\ AnswersAreRead'
  <2>1. /\ phase' = "calling" /\ call' = c /\ answer'.by # "backend" /\ note' = note
    BY <1>1, <1>8 DEF Send
  <2>2. QED
    BY <1>2, <1>8, <2>1
<1>9. CASE CallStep
  <2>1. CASE BackendRefuses
    <3>1. phase' = "answered" /\ answer'.status = 400 /\ note' = note /\ result' = result
      BY <2>1 DEF BackendRefuses, From
    <3>2. result.kind = "none"
      BY <2>1 DEF BackendRefuses, Calling
    <3>3. QED
      BY <1>2, <3>1, <3>2
  <2>2. ASSUME NEW a \in Answers(call), phase = "calling", BackendAnswers(a)
        PROVE  Routed' /\ AnswersAreRead'
    <3>1. Filed'
      BY <2>2, FiledStep
    <3>2. /\ phase' = "answered" /\ answer' = a /\ call' = call /\ result' = result
          /\ result.kind = "none" /\ call \in Calls
      BY <2>2 DEF BackendAnswers, Calling
    <3>3. call # "attest" => note' = note
      BY <2>2 DEF BackendAnswers
    <3>4. a \in Answers(call)'
      BY <2>2, <3>2, <3>3 DEF Answers, Calls
    <3>5. QED
      BY <3>1, <3>2, <3>4
  <2>3. ASSUME NEW status, NEW body, SomethingAnswers(status, body)
        PROVE  Routed' /\ AnswersAreRead'
    BY <1>2, <2>3 DEF SomethingAnswers
  <2>4. CASE CallLost
    BY <1>3, <2>4 DEF CallLost
  <2>5. QED
    BY <1>9, <2>1, <2>2, <2>3, <2>4 DEF CallStep
<1>10. CASE Receive
  <2>1. /\ phase = "answered" /\ phase' = "ready" /\ result' = Read(call, answer)
        /\ call' = call /\ answer' = answer /\ note' = note
    BY <1>10 DEF Receive
  <2>2. answer.status >= 400 => Read(call, answer).kind = "status"
    BY DEF Read, PostRaw, Result
  <2>3. call \in Calls
    BY <2>1 DEF Calling
  <2>4. AnswersAreRead'
    BY <1>2, <2>1, <2>2, <2>3, RouteAnswersAreRead
  <2>5. QED
    BY <1>2, <2>1, <2>4
<1>11. ASSUME NEW schema, NEW m, message = Null, Bench(schema, m)
       PROVE  Routed' /\ AnswersAreRead'
  BY <1>2, <1>11 DEF Bench, Asked
<1>12. CASE BenchDone
  BY <1>3, <1>12 DEF BenchDone
<1>13. CASE UNCHANGED vars
  <2>1. Answers(call)' = Answers(call)
    BY <1>13 DEF vars, Answers
  <2>2. QED
    BY <1>2, <1>13, <2>1 DEF vars
<1>14. QED
  BY <1>4, <1>5, <1>6, <1>7, <1>8, <1>9, <1>10, <1>11, <1>12, <1>13
  DEF Next, EngineStep

(* backend.rs: whatever a route of the backend answers, the client reads, but *)
(* for a server name or a driver's name that is too long in bytes for Rust    *)
(* and was short enough in characters for the backend.                        *)
THEOREM BackendIsUnderstood == Spec => []AnswersAreRead
<1> DEFINE Inv == Calling /\ Asked /\ CompanionIsUnderstood /\ Routed /\ AnswersAreRead
<1>1. Init => Inv
  BY DEF Init, Calling, Asked, CompanionIsUnderstood, Routed, Filed, AnswersAreRead, Nothing, Result
<1>2. Inv /\ [Next]_vars => Inv'
  BY CallingStep, AskedStep, RoutedStep
<1>3. Inv => AnswersAreRead
  OBVIOUS
<1>4. QED
  BY <1>1, <1>2, <1>3, PTL DEF Spec
=============================================================================
