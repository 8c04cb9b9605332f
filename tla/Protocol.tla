------------------------------ MODULE Protocol ------------------------------
(***************************************************************************)
(* The messages on the wire and what accepts them: the generated Rust types *)
(* (serde reads the shape, validate() the content) and, for the backend,    *)
(* the zod schemas generated from the same declarations.  A definition      *)
(* takes the reader L, "rust" or "zod": the generators emit the same fields *)
(* and limits for both, which differ in the checks at the top and in what   *)
(* the libraries, serde and zod, take for a value of a type.                *)
(*                                                                          *)
(* A JSON value carries its type.  Of a text only what the checks can tell  *)
(* apart is kept: its length in characters and in UTF-8 bytes, and its form *)
(* (an enum word, or a class of texts the format checks treat alike).  A    *)
(* repeated name is left out: JSON.parse and serde's JSON value keep the     *)
(* last value, while a struct read from the text itself (local.rs) is        *)
(* refused, as malformed.                                                    *)
(***************************************************************************)
EXTENDS Integers, Sequences

Text(form, chars, bytes) ==
    [t |-> "text", form |-> form, chars |-> chars, bytes |-> bytes]
Ascii(form, n) == Text(form, n, n)
(* Digits that fit 64 bits; a whole number written otherwise (120.0, 1e3, -0  *)
(* or beyond 64 bits); one that is not whole.                                *)
Number(n) == [t |-> "int", n |-> n]
Float(n) == [t |-> "float", n |-> n]
Fraction == [t |-> "fraction"]
Bool(b) == [t |-> "bool", b |-> b]
Null == [t |-> "null"]
List(items) == [t |-> "list", items |-> items]
Object(fields) == [t |-> "object", f |-> fields]

(* UTF-8 needs at least a byte per character, hexadecimal digits exactly one. *)
WellFormedText(v) ==
    /\ v.chars \in Nat /\ v.bytes \in Nat /\ v.chars <= v.bytes
    /\ v.form \in {"hex", "HEX"} => v.chars = v.bytes

PROTOCOL_VERSION == 1

-----------------------------------------------------------------------------
(* The checks.  Rust counts bytes, zod UTF-16 units (one per character here).*)
Length(L, v, min, max) ==
    LET n == IF L = "rust" THEN v.bytes ELSE v.chars IN min <= n /\ n <= max
InRange(v, min, max) == min <= v.n /\ v.n <= max
AtLeast(v, min) == min <= v.n
MaxItems(v, max) == Len(v.items) <= max

(* "HEX" holds a capital, "base64_loose" an = before its end, "offset" a     *)
(* zone other than Z, "local" none, "no_day" is 2026-13-45, "semver_long"    *)
(* is 1.2.3.4, "semver_cut" is 1.2.3-.  "no_seconds" is 2026-08-04T12:00Z,   *)
(* "unpaired" any text with the escape of half a surrogate pair.             *)
Forms == {"plain", "hex", "HEX", "base64", "base64_loose", "ip", "uuid",
          "utc", "no_seconds", "offset", "local", "no_day", "unpaired",
          "semver", "semver_tag", "semver_long", "semver_cut"}
Loose(L, forms) == IF L = "rust" THEN forms ELSE {}

Hex(L, v) == v.form \in {"hex"} \cup Loose(L, {"HEX"})
Base64(L, v) == v.form \in {"hex", "HEX", "base64"} \cup Loose(L, {"base64_loose"})
Ip(L, v) == v.chars > 0 /\ v.form \in {"hex", "HEX", "ip"}
Uuid(L, v) == v.form = "uuid"
Datetime(L, v) ==
    v.form \in {"utc"} \cup (IF L = "rust" THEN {"offset", "local", "no_day"}
                             ELSE {"no_seconds"})
UntaggedSemver(L, v) ==
    v.form \in {"semver"} \cup Loose(L, {"semver_long"})
             \cup (IF L = "zod" THEN {"semver_tag"} ELSE {})
Semver(L, v) ==
    v.form \in {"semver", "semver_tag"} \cup Loose(L, {"semver_long", "semver_cut"})

-----------------------------------------------------------------------------
PolicyTier == {"relaxed", "standard", "strict"}
FailMode == {"fail_open", "fail_closed"}
FeatureState == {"enabled", "disabled", "unknown"}
SessionState == {"pending", "attested", "active", "expired", "terminated"}
VerdictDecision == {"allow", "deny", "pending"}
RequirementId ==
    {"companion_attested", "test_signing_disabled", "kernel_debugging_disabled",
     "secure_boot_enabled", "tpm_attestation_valid", "hvci_enabled",
     "driver_blocklist_enabled", "iommu_enabled", "vulnerable_drivers_absent",
     "game_process_present", "network_origin_matches"}
RequirementStatus == {"pass", "fail", "warn", "skipped", "unknown"}
DenyReason ==
    {"companion_missing", "companion_timeout", "companion_outdated",
     "attestation_invalid", "nonce_expired", "nonce_reused",
     "network_origin_mismatch", "game_process_missing", "policy_not_met",
     "heartbeat_lost", "backend_unavailable", "banned"}

Enums == [PolicyTier |-> PolicyTier, FailMode |-> FailMode,
          FeatureState |-> FeatureState, SessionState |-> SessionState,
          VerdictDecision |-> VerdictDecision, RequirementId |-> RequirementId,
          RequirementStatus |-> RequirementStatus, DenyReason |-> DenyReason]

-----------------------------------------------------------------------------
(* z.number().int() takes a whole number however it is written, serde's i64   *)
(* only digits.  Serde also reads an enum's word from an object that maps it  *)
(* to null, and a struct from a list, but no text that is not Unicode.       *)
HasType(L, v, type) ==
    IF type \in DOMAIN Enums
    THEN \/ v.t = "text" /\ v.form \in Enums[type]
         \/ /\ L = "rust" /\ v.t = "object"
            /\ \E w \in Enums[type] : v.f = [k \in {w} |-> Null]
    ELSE \/ v.t = type /\ ~(L = "rust" /\ type = "text" /\ v.form = "unpaired")
         \/ L = "zod" /\ type = "int" /\ v.t = "float"
         \/ L = "rust" /\ type = "object" /\ v.t = "list"

(* deny_unknown_fields and .strict(); an optional field may be null in Rust. *)
Fields(L, v, required, optional) ==
    /\ v.t = "object"
    /\ DOMAIN required \subseteq DOMAIN v.f
    /\ DOMAIN v.f \subseteq DOMAIN required \cup DOMAIN optional
    /\ \A k \in DOMAIN v.f :
          IF k \in DOMAIN required THEN HasType(L, v.f[k], required[k])
          ELSE HasType(L, v.f[k], optional[k]) \/ (L = "rust" /\ v.f[k] = Null)

(* The fields of each struct as declared, which is how serde reads a list: by *)
(* position, where optional fields at the end may be missing and an item too  *)
(* many is refused.                                                          *)
FieldOrder ==
    [SecurityFeatures |-> <<"secureBoot", "hvci", "testSigning", "kernelDebugging",
         "driverBlocklist", "iommu", "virtualizationBasedSecurity">>,
     TpmInfo |-> <<"present", "manufacturer", "specVersion", "attestationKeyId">>,
     GameProcessEvidence |->
         <<"pid", "startedAtUnixMs", "imageName", "mainWindowPresent">>,
     SystemSnapshot |-> <<"schemaVersion", "collectedAt", "companionVersion",
         "companionBuildHash", "osBuild", "features", "tpm", "gameProcess",
         "probeErrors">>,
     AttestationQuote |->
         <<"akPublicKeyId", "pcrSelection", "pcrDigest", "quoteBlob", "signature">>,
     PlayerIdentifiers |-> <<"license", "steam", "discord", "ip">>,
     NonceRequest |-> <<"serverId", "player", "gameBuild", "protocolVersion">>,
     NonceResponse |-> <<"nonce", "sessionId", "expiresAt", "policyTier", "backendUrl",
         "protocolVersion">>,
     AttestationRequest |-> <<"nonce", "snapshot", "quote", "protocolVersion">>,
     AttestationAck |->
         <<"accepted", "sessionId", "receivedAt", "heartbeatIntervalSeconds">>,
     RequirementResult |-> <<"requirement", "status", "detail">>,
     Verdict |-> <<"decision", "sessionId", "reasons", "requirements", "remediation",
         "policyTier", "evaluatedAt", "failOpen">>,
     LivenessResponse |-> <<"sessionId", "state", "lastHeartbeatAt", "graceExpiresAt",
         "shouldKick", "reason">>,
     LocalAttestCommand |-> <<"nonce", "backendUrl", "serverName", "protocolVersion">>,
     LocalAttestAck |-> <<"accepted", "companionVersion", "protocolVersion">>,
     CompanionPollRequest |-> <<"companionVersion", "waitSeconds", "protocolVersion">>,
     CompanionPollResponse |-> <<"pending", "nonce", "serverName", "policyTier",
         "expiresAt", "protocolVersion">>,
     CompanionOutcomeRequest |-> <<"sessionId", "waitSeconds", "protocolVersion">>,
     HeartbeatRequest |-> <<"sessionId", "companionBuildHash", "uptimeSeconds",
         "gameProcessPresent", "closing", "protocolVersion">>,
     HeartbeatResponse |->
         <<"acknowledged", "nextIntervalSeconds", "terminate", "terminateReason">>,
     ProtocolError |-> <<"code", "message", "requestId">>]

Named(order, items) ==
    Object([k \in {order[i] : i \in DOMAIN items} |->
               items[CHOOSE i \in DOMAIN items : order[i] = k]])
Struct(L, message, v) ==
    IF L = "rust" /\ v.t = "list" /\ Len(v.items) <= Len(FieldOrder[message])
    THEN Named(FieldOrder[message], v.items) ELSE v

(* What is left of a struct whose absent optional fields were null.          *)
DropNulls(v) == Object([k \in {j \in DOMAIN v.f : v.f[j] # Null} |-> v.f[k]])

None == [k \in {} |-> ""]

Given(v, k, Check(_)) == (k \in DOMAIN v.f /\ v.f[k] # Null) => Check(v.f[k])
Each(list, Check(_)) == \A i \in DOMAIN list.items : Check(list.items[i])

-----------------------------------------------------------------------------
SecurityFeatures(L, v) ==
    Fields(L, v, [k \in {"secureBoot", "hvci", "testSigning", "kernelDebugging",
                         "driverBlocklist", "iommu",
                         "virtualizationBasedSecurity"} |-> "FeatureState"], None)

TpmInfo(L, v) ==
    Fields(L, v, [present |-> "bool"],
           [k \in {"manufacturer", "specVersion", "attestationKeyId"} |-> "text"])
ValidateTpmInfo(L, v) ==
    /\ Given(v, "manufacturer", LAMBDA x : Length(L, x, 0, 64))
    /\ Given(v, "specVersion", LAMBDA x : Length(L, x, 0, 32))
    /\ Given(v, "attestationKeyId", LAMBDA x : Length(L, x, 0, 128) /\ Hex(L, x))

GameProcessEvidence(L, v) ==
    Fields(L, v, [pid |-> "int", startedAtUnixMs |-> "int", imageName |-> "text",
                  mainWindowPresent |-> "bool"], None)
ValidateGameProcessEvidence(L, v) ==
    /\ AtLeast(v.f.pid, 1)
    /\ AtLeast(v.f.startedAtUnixMs, 0)
    /\ Length(L, v.f.imageName, 0, 128)

SystemSnapshot(L, v) ==
    /\ Fields(L, v, [schemaVersion |-> "int", collectedAt |-> "text",
                     companionVersion |-> "text", companionBuildHash |-> "text",
                     osBuild |-> "text", features |-> "object", tpm |-> "object",
                     probeErrors |-> "list"], [gameProcess |-> "object"])
    /\ SecurityFeatures(L, Struct(L, "SecurityFeatures", v.f.features))
    /\ TpmInfo(L, Struct(L, "TpmInfo", v.f.tpm))
    /\ Given(v, "gameProcess", LAMBDA x :
             GameProcessEvidence(L, Struct(L, "GameProcessEvidence", x)))
    /\ Each(v.f.probeErrors, LAMBDA x : HasType(L, x, "text"))
ValidateSystemSnapshot(L, v) ==
    /\ AtLeast(v.f.schemaVersion, 1)
    /\ Datetime(L, v.f.collectedAt)
    /\ Length(L, v.f.companionVersion, 0, 32) /\ Semver(L, v.f.companionVersion)
    /\ Length(L, v.f.companionBuildHash, 64, 64) /\ Hex(L, v.f.companionBuildHash)
    /\ Length(L, v.f.osBuild, 0, 64)
    /\ ValidateTpmInfo(L, Struct(L, "TpmInfo", v.f.tpm))
    /\ Given(v, "gameProcess", LAMBDA x :
             ValidateGameProcessEvidence(L, Struct(L, "GameProcessEvidence", x)))
    /\ MaxItems(v.f.probeErrors, 32)
    /\ Each(v.f.probeErrors, LAMBDA x : Length(L, x, 0, 200))

AttestationQuote(L, v) ==
    /\ Fields(L, v, [akPublicKeyId |-> "text", pcrSelection |-> "list",
                     pcrDigest |-> "text", quoteBlob |-> "text",
                     signature |-> "text"], None)
    /\ Each(v.f.pcrSelection, LAMBDA x : HasType(L, x, "int"))
ValidateAttestationQuote(L, v) ==
    /\ Length(L, v.f.akPublicKeyId, 0, 128) /\ Hex(L, v.f.akPublicKeyId)
    /\ MaxItems(v.f.pcrSelection, 24)
    /\ Each(v.f.pcrSelection, LAMBDA x : InRange(x, 0, 23))
    /\ Length(L, v.f.pcrDigest, 0, 128) /\ Hex(L, v.f.pcrDigest)
    /\ Length(L, v.f.quoteBlob, 0, 8192) /\ Base64(L, v.f.quoteBlob)
    /\ Length(L, v.f.signature, 0, 2048) /\ Base64(L, v.f.signature)

PlayerIdentifiers(L, v) ==
    Fields(L, v, [license |-> "text", ip |-> "text"],
           [steam |-> "text", discord |-> "text"])
ValidatePlayerIdentifiers(L, v) ==
    /\ Length(L, v.f.license, 0, 128)
    /\ Given(v, "steam", LAMBDA x : Length(L, x, 0, 128))
    /\ Given(v, "discord", LAMBDA x : Length(L, x, 0, 128))
    /\ Length(L, v.f.ip, 0, 45) /\ Ip(L, v.f.ip)

NonceRequest(L, v) ==
    /\ Fields(L, v, [serverId |-> "text", player |-> "object",
                     protocolVersion |-> "int"], [gameBuild |-> "text"])
    /\ PlayerIdentifiers(L, Struct(L, "PlayerIdentifiers", v.f.player))
ValidateNonceRequest(L, v) ==
    /\ Uuid(L, v.f.serverId)
    /\ ValidatePlayerIdentifiers(L, Struct(L, "PlayerIdentifiers", v.f.player))
    /\ Given(v, "gameBuild", LAMBDA x : Length(L, x, 0, 32))
    /\ AtLeast(v.f.protocolVersion, 1)

NonceResponse(L, v) ==
    Fields(L, v, [nonce |-> "text", sessionId |-> "text", expiresAt |-> "text",
                  policyTier |-> "PolicyTier", backendUrl |-> "text",
                  protocolVersion |-> "int"], None)
ValidateNonceResponse(L, v) ==
    /\ Length(L, v.f.nonce, 64, 64) /\ Hex(L, v.f.nonce)
    /\ Uuid(L, v.f.sessionId)
    /\ Datetime(L, v.f.expiresAt)
    /\ Length(L, v.f.backendUrl, 0, 256)
    /\ AtLeast(v.f.protocolVersion, 1)

AttestationRequest(L, v) ==
    /\ Fields(L, v, [nonce |-> "text", snapshot |-> "object",
                     protocolVersion |-> "int"], [quote |-> "object"])
    /\ SystemSnapshot(L, Struct(L, "SystemSnapshot", v.f.snapshot))
    /\ Given(v, "quote", LAMBDA x :
             AttestationQuote(L, Struct(L, "AttestationQuote", x)))
ValidateAttestationRequest(L, v) ==
    /\ Length(L, v.f.nonce, 64, 64) /\ Hex(L, v.f.nonce)
    /\ ValidateSystemSnapshot(L, Struct(L, "SystemSnapshot", v.f.snapshot))
    /\ Given(v, "quote", LAMBDA x :
             ValidateAttestationQuote(L, Struct(L, "AttestationQuote", x)))
    /\ AtLeast(v.f.protocolVersion, 1)

AttestationAck(L, v) ==
    Fields(L, v, [accepted |-> "bool", sessionId |-> "text", receivedAt |-> "text",
                  heartbeatIntervalSeconds |-> "int"], None)
ValidateAttestationAck(L, v) ==
    /\ Uuid(L, v.f.sessionId)
    /\ Datetime(L, v.f.receivedAt)
    /\ InRange(v.f.heartbeatIntervalSeconds, 5, 3600)

RequirementResult(L, v) ==
    Fields(L, v, [requirement |-> "RequirementId", status |-> "RequirementStatus"],
           [detail |-> "text"])
ValidateRequirementResult(L, v) ==
    Given(v, "detail", LAMBDA x : Length(L, x, 0, 200))

Verdict(L, v) ==
    /\ Fields(L, v, [decision |-> "VerdictDecision", sessionId |-> "text",
                     reasons |-> "list", requirements |-> "list",
                     policyTier |-> "PolicyTier", evaluatedAt |-> "text",
                     failOpen |-> "bool"], [remediation |-> "text"])
    /\ Each(v.f.reasons, LAMBDA x : HasType(L, x, "DenyReason"))
    /\ Each(v.f.requirements, LAMBDA x :
             RequirementResult(L, Struct(L, "RequirementResult", x)))
ValidateVerdict(L, v) ==
    /\ Uuid(L, v.f.sessionId)
    /\ MaxItems(v.f.reasons, 16)
    /\ MaxItems(v.f.requirements, 32)
    /\ Each(v.f.requirements, LAMBDA x :
             ValidateRequirementResult(L, Struct(L, "RequirementResult", x)))
    /\ Given(v, "remediation", LAMBDA x : Length(L, x, 0, 500))
    /\ Datetime(L, v.f.evaluatedAt)

LivenessResponse(L, v) ==
    Fields(L, v, [sessionId |-> "text", state |-> "SessionState",
                  shouldKick |-> "bool"],
           [lastHeartbeatAt |-> "text", graceExpiresAt |-> "text",
            reason |-> "DenyReason"])
ValidateLivenessResponse(L, v) ==
    /\ Uuid(L, v.f.sessionId)
    /\ Given(v, "lastHeartbeatAt", LAMBDA x : Datetime(L, x))
    /\ Given(v, "graceExpiresAt", LAMBDA x : Datetime(L, x))

LocalAttestCommand(L, v) ==
    Fields(L, v, [nonce |-> "text", backendUrl |-> "text",
                  protocolVersion |-> "int"], [serverName |-> "text"])
ValidateLocalAttestCommand(L, v) ==
    /\ Length(L, v.f.nonce, 64, 64) /\ Hex(L, v.f.nonce)
    /\ Length(L, v.f.backendUrl, 0, 256)
    /\ Given(v, "serverName", LAMBDA x : Length(L, x, 0, 128))
    /\ AtLeast(v.f.protocolVersion, 1)

LocalAttestAck(L, v) ==
    Fields(L, v, [accepted |-> "bool", companionVersion |-> "text",
                  protocolVersion |-> "int"], None)
ValidateLocalAttestAck(L, v) ==
    /\ Length(L, v.f.companionVersion, 0, 32) /\ Semver(L, v.f.companionVersion)
    /\ AtLeast(v.f.protocolVersion, 1)

CompanionPollRequest(L, v) ==
    Fields(L, v, [companionVersion |-> "text", waitSeconds |-> "int",
                  protocolVersion |-> "int"], None)
ValidateCompanionPollRequest(L, v) ==
    /\ Length(L, v.f.companionVersion, 0, 32) /\ Semver(L, v.f.companionVersion)
    /\ InRange(v.f.waitSeconds, 0, 30)
    /\ AtLeast(v.f.protocolVersion, 1)

CompanionPollResponse(L, v) ==
    Fields(L, v, [pending |-> "bool", protocolVersion |-> "int"],
           [nonce |-> "text", serverName |-> "text", policyTier |-> "PolicyTier",
            expiresAt |-> "text"])
ValidateCompanionPollResponse(L, v) ==
    /\ Given(v, "nonce", LAMBDA x : Length(L, x, 64, 64) /\ Hex(L, x))
    /\ Given(v, "serverName", LAMBDA x : Length(L, x, 0, 128))
    /\ Given(v, "expiresAt", LAMBDA x : Datetime(L, x))
    /\ AtLeast(v.f.protocolVersion, 1)

CompanionOutcomeRequest(L, v) ==
    Fields(L, v, [sessionId |-> "text", waitSeconds |-> "int",
                  protocolVersion |-> "int"], None)
ValidateCompanionOutcomeRequest(L, v) ==
    /\ Uuid(L, v.f.sessionId)
    /\ InRange(v.f.waitSeconds, 0, 10)
    /\ AtLeast(v.f.protocolVersion, 1)

HeartbeatRequest(L, v) ==
    Fields(L, v, [sessionId |-> "text", companionBuildHash |-> "text",
                  uptimeSeconds |-> "int", gameProcessPresent |-> "bool",
                  protocolVersion |-> "int"], [closing |-> "bool"])
ValidateHeartbeatRequest(L, v) ==
    /\ Uuid(L, v.f.sessionId)
    /\ Length(L, v.f.companionBuildHash, 64, 64) /\ Hex(L, v.f.companionBuildHash)
    /\ AtLeast(v.f.uptimeSeconds, 0)
    /\ AtLeast(v.f.protocolVersion, 1)

HeartbeatResponse(L, v) ==
    Fields(L, v, [acknowledged |-> "bool", nextIntervalSeconds |-> "int",
                  terminate |-> "bool"], [terminateReason |-> "DenyReason"])
ValidateHeartbeatResponse(L, v) == InRange(v.f.nextIntervalSeconds, 5, 3600)

ProtocolError(L, v) ==
    Fields(L, v, [code |-> "text", message |-> "text"], [requestId |-> "text"])
ValidateProtocolError(L, v) ==
    /\ Length(L, v.f.code, 0, 64)
    /\ Length(L, v.f.message, 0, 500)
    /\ Given(v, "requestId", LAMBDA x : Length(L, x, 0, 64))

(* Does L accept v as this message: its shape, then its content.             *)
Valid(L, schema, v) ==
    CASE schema = "SystemSnapshot" ->
            SystemSnapshot(L, v) /\ ValidateSystemSnapshot(L, v)
      [] schema = "NonceRequest" -> NonceRequest(L, v) /\ ValidateNonceRequest(L, v)
      [] schema = "NonceResponse" ->
            NonceResponse(L, v) /\ ValidateNonceResponse(L, v)
      [] schema = "AttestationRequest" ->
            AttestationRequest(L, v) /\ ValidateAttestationRequest(L, v)
      [] schema = "AttestationAck" ->
            AttestationAck(L, v) /\ ValidateAttestationAck(L, v)
      [] schema = "Verdict" -> Verdict(L, v) /\ ValidateVerdict(L, v)
      [] schema = "LivenessResponse" ->
            LivenessResponse(L, v) /\ ValidateLivenessResponse(L, v)
      [] schema = "LocalAttestCommand" ->
            LocalAttestCommand(L, v) /\ ValidateLocalAttestCommand(L, v)
      [] schema = "LocalAttestAck" ->
            LocalAttestAck(L, v) /\ ValidateLocalAttestAck(L, v)
      [] schema = "CompanionPollRequest" ->
            CompanionPollRequest(L, v) /\ ValidateCompanionPollRequest(L, v)
      [] schema = "CompanionPollResponse" ->
            CompanionPollResponse(L, v) /\ ValidateCompanionPollResponse(L, v)
      [] schema = "CompanionOutcomeRequest" ->
            CompanionOutcomeRequest(L, v) /\ ValidateCompanionOutcomeRequest(L, v)
      [] schema = "HeartbeatRequest" ->
            HeartbeatRequest(L, v) /\ ValidateHeartbeatRequest(L, v)
      [] schema = "HeartbeatResponse" ->
            HeartbeatResponse(L, v) /\ ValidateHeartbeatResponse(L, v)
      [] schema = "ProtocolError" ->
            ProtocolError(L, v) /\ ValidateProtocolError(L, v)
Accepts(L, schema, v) == Valid(L, schema, Struct(L, schema, v))
=============================================================================
