------------------------------- MODULE Policy -------------------------------
(***************************************************************************)
(* From a machine to a verdict: the scan engine's probes                    *)
(* (native/src/probes.cpp, windows_source.cpp), the backend's policy table  *)
(* and evaluation (attestation/policy.ts), the sentence a refused player    *)
(* reads (attestation/remediation.ts) and the lines the companion's window  *)
(* shows before the server has judged (worker.rs, checks_from).             *)
(*                                                                          *)
(* The state is one player's situation and its latest evaluation.  A step   *)
(* changes one fact (a Windows setting, the game, the address, the tier the *)
(* operator chose, the list of accepted builds) and attests again, so the   *)
(* properties can compare two evaluations.  Texts stand for themselves by   *)
(* the requirement or reason they explain; details are left out.            *)
(***************************************************************************)
EXTENDS Integers, Sequences

CONSTANTS Hosts,        \* public addresses
          GameHost,     \* the one the game connects from
          TpmVersions,  \* TPM devices a machine may have, "none" for no device
          OptionSets,   \* values of CodeIntegrityOptions, as sets of bits
          Platforms     \* values of RequirePlatformSecurityFeatures

VARIABLES input, outcome

vars == <<input, outcome>>

-----------------------------------------------------------------------------
(* A machine, as Windows answers the engine's questions.                   *)
Reading == {"yes", "no", "unreadable"}

(* Bits of CodeIntegrityOptions the engine knows.                          *)
CodeIntegrityBit == {"enabled", "testsign", "hvci_kmci", "hvci_audit"}

ASSUME PolicyAssumption ==
    /\ GameHost \in Hosts
    /\ OptionSets \subseteq SUBSET CodeIntegrityBit
    /\ Platforms \subseteq -1..3     \* -1: no such registry value

Form == {"plain", "mapped"}   \* an IPv4 address, or the same one as ::ffff:

Tier == {"relaxed", "standard", "strict"}

Values ==
    [secureBoot      |-> Reading,
     options         |-> OptionSets,
     debugger        |-> Reading,
     driverBlocklist |-> Reading,
     platform        |-> Platforms,
     tpm             |-> TpmVersions,
     game            |-> BOOLEAN,
     host            |-> Hosts,
     form            |-> Form,
     buildAccepted   |-> BOOLEAN,
     tier            |-> Tier]

(* code_integrity_options: success with no bit set says nothing.           *)
OptionReading(options, bit) ==
    IF options = {} THEN "unreadable"
    ELSE IF bit \in options THEN "yes" ELSE "no"

(* hvci_from_options: audit mode alone does not count.                     *)
HvciReading(options) ==
    IF options # {} /\ "hvci_audit" \in options /\ "hvci_kmci" \notin options
    THEN "no"
    ELSE OptionReading(options, "hvci_kmci")

IommuReading(value) ==
    IF value = -1 THEN "unreadable"
    ELSE IF value \in {1, 3} THEN "yes" ELSE "no"

StateFromUnknownIsOff(reading) ==
    IF reading = "yes" THEN "enabled" ELSE "disabled"
StateFrom(reading) ==
    CASE reading = "yes"        -> "enabled"
      [] reading = "no"         -> "disabled"
      [] reading = "unreadable" -> "unknown"

(* tpm_info: a device without 2.0 cannot attest, so it is not reported.     *)
TpmPresent(version) == version = "2.0"

(* run_probes and build_snapshot: facts only.                              *)
Snapshot(m) ==
    [secureBoot      |-> StateFrom(m.secureBoot),
     testSigning     |-> StateFrom(OptionReading(m.options, "testsign")),
     kernelDebugging |-> StateFrom(m.debugger),
     hvci            |-> StateFrom(HvciReading(m.options)),
     driverBlocklist |-> StateFrom(m.driverBlocklist),
     iommu           |-> StateFrom(IommuReading(m.platform)),
     tpm             |-> TpmPresent(m.tpm),
     gameProcess     |-> m.game]

-----------------------------------------------------------------------------
REPORT_ORDER ==
    <<"companion_attested", "test_signing_disabled",
      "kernel_debugging_disabled", "game_process_present",
      "network_origin_matches", "secure_boot_enabled",
      "tpm_attestation_valid", "hvci_enabled", "driver_blocklist_enabled",
      "vulnerable_drivers_absent", "iommu_enabled">>

RequirementId == {REPORT_ORDER[i] : i \in DOMAIN REPORT_ORDER}

(* The rows of TARGET_POLICY_TABLE by their shape.                         *)
Everywhere == [relaxed |-> "block", standard |-> "block", strict |-> "block"]
FromStandard == [relaxed |-> "skip", standard |-> "block", strict |-> "block"]

TargetPolicy(id) ==
    CASE id = "vulnerable_drivers_absent" ->
             [relaxed |-> "warn", standard |-> "block", strict |-> "block"]
      [] id = "iommu_enabled" ->
             [relaxed |-> "skip", standard |-> "warn", strict |-> "block"]
      [] id \in {"secure_boot_enabled", "tpm_attestation_valid",
                 "hvci_enabled", "driver_blocklist_enabled"} -> FromStandard
      [] OTHER -> Everywhere

(* PHASE_1_OVERRIDES applied: what nobody can evaluate yet does not block.  *)
Enforcement(id, tier) ==
    IF id = "vulnerable_drivers_absent" THEN "skip" ELSE TargetPolicy(id)[tier]

-----------------------------------------------------------------------------
(* expect and hvciFinding.                                                 *)
Expect(actual, wanted) ==
    IF actual = wanted THEN "met"
    ELSE IF actual = "unknown" THEN "unknown" ELSE "unmet"

Holds(fact) == IF fact THEN "met" ELSE "unmet"

(* normaliseIp: the two spellings of one IPv4 address become one.          *)
NormaliseIpRaw(host, form) == [host |-> host, form |-> form]
NormaliseIp(host, form) == [host |-> host, form |-> "plain"]

(* collectFindings.                                                        *)
Finding(id, i) ==
    LET s == Snapshot(i)
    IN  CASE id = "companion_attested"        -> "met"
          [] id = "test_signing_disabled"     -> Expect(s.testSigning, "disabled")
          [] id = "kernel_debugging_disabled" -> Expect(s.kernelDebugging, "disabled")
          [] id = "secure_boot_enabled"       -> Expect(s.secureBoot, "enabled")
          [] id = "hvci_enabled"              -> Expect(s.hvci, "enabled")
          [] id = "driver_blocklist_enabled"  -> Expect(s.driverBlocklist, "enabled")
          [] id = "iommu_enabled"             -> Expect(s.iommu, "enabled")
          [] id = "tpm_attestation_valid"     -> Holds(s.tpm)
          [] id = "vulnerable_drivers_absent" -> "unknown"
          [] id = "game_process_present"      -> Holds(s.gameProcess)
          [] id = "network_origin_matches"    ->
                 Holds(NormaliseIp(GameHost, "plain") = NormaliseIp(i.host, i.form))

(* What evaluatePolicy reports for one requirement, and whether it denies.  *)
Status(id, i) ==
    LET enforcement == Enforcement(id, i.tier)
        finding     == Finding(id, i)
    IN  CASE enforcement = "skip"  -> "skipped"
          [] enforcement # "skip" /\ finding = "met" -> "pass"
          [] enforcement # "skip" /\ finding = "unknown" -> "unknown"
          [] OTHER -> IF enforcement = "warn" THEN "warn" ELSE "fail"

Blocks(id, i) == Enforcement(id, i.tier) = "block" /\ Finding(id, i) # "met"

ReasonFor(id) ==
    CASE id = "game_process_present"   -> "game_process_missing"
      [] id = "network_origin_matches" -> "network_origin_mismatch"
      [] OTHER                         -> "policy_not_met"

Reasons(i) ==
    {ReasonFor(id) : id \in {r \in RequirementId : Blocks(r, i)}}
        \cup (IF i.buildAccepted THEN {} ELSE {"companion_outdated"})

-----------------------------------------------------------------------------
(* buildRemediation: the text of the first requirement reported as failed   *)
(* or unknown, else of a reason that has one.  companion_attested has no    *)
(* text of its own, and of the reasons above only companion_outdated has.   *)
HasText == (RequirementId \ {"companion_attested"}) \cup {"companion_outdated"}

FirstFailureKnown(requirements) ==
    LET failed == {n \in DOMAIN REPORT_ORDER :
                      requirements[REPORT_ORDER[n]] = "fail"}
    IN  IF failed = {} THEN "none"
        ELSE REPORT_ORDER[CHOOSE n \in failed : \A k \in failed : n <= k]
FirstFailure(requirements) ==
    LET failed == {n \in DOMAIN REPORT_ORDER :
                      requirements[REPORT_ORDER[n]] \in {"fail", "unknown"}}
    IN  IF failed = {} THEN "none"
        ELSE REPORT_ORDER[CHOOSE n \in failed : \A k \in failed : n <= k]

Remediation(reasons, requirements) ==
    LET first == FirstFailure(requirements)
    IN  IF first \in HasText THEN first
        ELSE IF reasons \cap HasText # {}
             THEN CHOOSE reason \in reasons : reason \in HasText
             ELSE "none"

EvaluatePolicy(i) ==
    LET requirements == [id \in RequirementId |-> Status(id, i)]
        reasons      == Reasons(i)
    IN  [decision     |-> IF reasons = {} THEN "allow" ELSE "deny",
         reasons      |-> reasons,
         requirements |-> requirements,
         remediation  |-> Remediation(reasons, requirements)]

-----------------------------------------------------------------------------
(* checks_from: the companion's own lines, measured without a policy.      *)
EnabledIsPass(state) ==
    CASE state = "enabled" -> "pass" [] state = "disabled" -> "fail"
      [] state = "unknown" -> "unknown"

EnabledIsFail(state) ==
    CASE state = "enabled" -> "fail" [] state = "disabled" -> "pass"
      [] state = "unknown" -> "unknown"

ChecksFromUninverted(i) ==
    LET s == Snapshot(i)
    IN  [secure_boot_enabled       |-> EnabledIsPass(s.secureBoot),
         hvci_enabled              |-> EnabledIsPass(s.hvci),
         driver_blocklist_enabled  |-> EnabledIsPass(s.driverBlocklist),
         iommu_enabled             |-> EnabledIsPass(s.iommu),
         test_signing_disabled     |-> EnabledIsPass(s.testSigning),
         kernel_debugging_disabled |-> EnabledIsFail(s.kernelDebugging),
         tpm_attestation_valid     |-> IF s.tpm THEN "pass" ELSE "fail",
         game_process_present      |-> IF s.gameProcess THEN "pass" ELSE "fail"]
ChecksFrom(i) ==
    LET s == Snapshot(i)
    IN  [secure_boot_enabled       |-> EnabledIsPass(s.secureBoot),
         hvci_enabled              |-> EnabledIsPass(s.hvci),
         driver_blocklist_enabled  |-> EnabledIsPass(s.driverBlocklist),
         iommu_enabled             |-> EnabledIsPass(s.iommu),
         test_signing_disabled     |-> EnabledIsFail(s.testSigning),
         kernel_debugging_disabled |-> EnabledIsFail(s.kernelDebugging),
         tpm_attestation_valid     |-> IF s.tpm THEN "pass" ELSE "fail",
         game_process_present      |-> IF s.gameProcess THEN "pass" ELSE "fail"]

(* merge_server_view: the server's reading of a requirement replaces the    *)
(* companion's; what the server did not mention stays.                      *)
MergeServerView(local, server) ==
    [id \in DOMAIN local \cup DOMAIN server |->
        IF id \in DOMAIN server THEN server[id] ELSE local[id]]

-----------------------------------------------------------------------------
Init ==
    /\ input \in [secureBoot : Reading, options : OptionSets,
                  debugger : Reading, driverBlocklist : Reading,
                  platform : Platforms, tpm : TpmVersions, game : BOOLEAN,
                  host : Hosts, form : Form, buildAccepted : BOOLEAN,
                  tier : Tier]
    /\ outcome = EvaluatePolicy(input)

(* One fact changes and the player attests again.                          *)
Attest(field, value) ==
    /\ input[field] # value
    /\ input' = [input EXCEPT ![field] = value]
    /\ outcome' = EvaluatePolicy(input')

Next == \E field \in DOMAIN Values : \E value \in Values[field] :
            Attest(field, value)

Spec == Init /\ [][Next]_vars

-----------------------------------------------------------------------------
(* Design document 7, read off the machine itself: whoever is let in has    *)
(* been seen to meet every requirement their tier enforces.  A setting the  *)
(* probes could not read, audit-mode memory integrity, a TPM 1.2 or an      *)
(* address that is not the game's never passes for the real thing.          *)
TestSigningSeenOff(m) == m.options # {} /\ "testsign" \notin m.options

HardenedMachine(m) ==
    /\ m.secureBoot = "yes" /\ m.driverBlocklist = "yes"
    /\ "hvci_kmci" \in m.options
    /\ m.tpm = "2.0"

AdmittedMachineIsSafe ==
    outcome.decision = "allow" =>
        /\ TestSigningSeenOff(input) /\ input.debugger = "no"
        /\ input.game /\ input.host = GameHost /\ input.buildAccepted
        /\ input.tier # "relaxed" => HardenedMachine(input)
        /\ input.tier = "strict" => input.platform \in {1, 3}

(* And nobody is kept out for anything else: a machine that meets its       *)
(* tier's requirements is let in, whatever the skipped and warned ones say.  *)
SafeMachineIsAdmitted ==
    (/\ TestSigningSeenOff(input) /\ input.debugger = "no"
     /\ input.game /\ input.host = GameHost /\ input.buildAccepted
     /\ input.tier # "relaxed" => HardenedMachine(input)
     /\ input.tier = "strict" => input.platform \in {1, 3})
        => outcome.decision = "allow"

(* remediation.ts: "Only the first blocking failure is explained".  The text *)
(* of a refusal is about something that refused this player, with one         *)
(* exception: a requirement that only warns on this tier and could not be    *)
(* read is explained in its place.                                            *)
DenialIsExplained ==
    outcome.decision = "deny" =>
        \/ outcome.remediation \in outcome.reasons
        \/ /\ outcome.remediation \in RequirementId
           /\ \/ Blocks(outcome.remediation, input)
              \/ /\ Enforcement(outcome.remediation, input.tier) = "warn"
                 /\ outcome.requirements[outcome.remediation] = "unknown"

(* The companion's window and the server agree on what was measured: a line  *)
(* the window shows as passed is never what the server refuses for, and      *)
(* after a refusal every requirement that caused it stands as failed or      *)
(* unknown in the merged list.                                               *)
WindowAgreesWithServer ==
    /\ \A id \in DOMAIN ChecksFrom(input) :
          (ChecksFrom(input)[id] = "pass") <=> (Finding(id, input) = "met")
    /\ \A id \in RequirementId : Blocks(id, input) =>
          MergeServerView(ChecksFrom(input), outcome.requirements)[id]
              \in {"fail", "unknown"}

=============================================================================
