---------------------------- MODULE PolicyProofs ----------------------------
(***************************************************************************)
(* Proofs about Policy for every set of addresses, TPM devices, option      *)
(* words and platform values a machine may report.                          *)
(***************************************************************************)
EXTENDS Policy, WellFoundedInduction, TLAPS

-----------------------------------------------------------------------------
Inputs ==
    [secureBoot : Reading, options : OptionSets, debugger : Reading,
     driverBlocklist : Reading, platform : Platforms, tpm : TpmVersions,
     game : BOOLEAN, host : Hosts, form : Form, buildAccepted : BOOLEAN,
     tier : Tier]

(* The stored outcome is the evaluation of the stored input.                 *)
Evaluated == input \in Inputs /\ outcome = EvaluatePolicy(input)

LEMMA AttestStays ==
    ASSUME NEW i \in Inputs, NEW field \in DOMAIN Values, NEW value \in Values[field]
    PROVE  [i EXCEPT ![field] = value] \in Inputs
<1>1. field \in {"secureBoot", "options", "debugger", "driverBlocklist", "platform",
                 "tpm", "game", "host", "form", "buildAccepted", "tier"}
  BY DEF Values
<1>2. CASE field \in {"secureBoot", "debugger", "driverBlocklist"}
  BY <1>2 DEF Values, Inputs
<1>3. CASE field \in {"options", "platform", "tpm"}
  BY <1>3 DEF Values, Inputs
<1>4. CASE field \in {"game", "buildAccepted"}
  BY <1>4 DEF Values, Inputs
<1>5. CASE field \in {"host", "form", "tier"}
  BY <1>5 DEF Values, Inputs
<1>6. QED
  BY <1>1, <1>2, <1>3, <1>4, <1>5

LEMMA EvaluatedHolds == Spec => []Evaluated
<1>1. Init => Evaluated
  BY DEF Init, Evaluated, Inputs
<1>2. Evaluated /\ [Next]_vars => Evaluated'
  <2>1. CASE UNCHANGED vars
    BY <2>1 DEF vars, Evaluated
  <2>2. ASSUME Evaluated, NEW field \in DOMAIN Values, NEW value \in Values[field],
               Attest(field, value)
        PROVE  Evaluated'
    BY <2>2, AttestStays DEF Attest, Evaluated
  <2>3. QED
    BY <2>1, <2>2 DEF Next
<1>3. QED
  BY <1>1, <1>2, PTL DEF Spec

-----------------------------------------------------------------------------
LEMMA Ids ==
    /\ DOMAIN REPORT_ORDER = 1..11
    /\ RequirementId =
         {"companion_attested", "test_signing_disabled",
          "kernel_debugging_disabled", "game_process_present",
          "network_origin_matches", "secure_boot_enabled",
          "tpm_attestation_valid", "hvci_enabled", "driver_blocklist_enabled",
          "vulnerable_drivers_absent", "iommu_enabled"}
<1>1. DOMAIN REPORT_ORDER = 1..11
  BY DEF REPORT_ORDER
<1>2. \A i \in 1..11 : i = 1 \/ i = 2 \/ i = 3 \/ i = 4 \/ i = 5 \/ i = 6 \/ i = 7
                       \/ i = 8 \/ i = 9 \/ i = 10 \/ i = 11
  OBVIOUS
<1>3. QED
  BY <1>1, <1>2 DEF REPORT_ORDER, RequirementId

(* What the probes and collectFindings make of a machine.                    *)
LEMMA Findings ==
    ASSUME NEW i \in Inputs
    PROVE  /\ Finding("companion_attested", i) = "met"
           /\ Finding("test_signing_disabled", i) = "met" <=> TestSigningSeenOff(i)
           /\ Finding("kernel_debugging_disabled", i) = "met" <=> i.debugger = "no"
           /\ Finding("game_process_present", i) = "met" <=> i.game
           /\ Finding("network_origin_matches", i) = "met" <=> i.host = GameHost
           /\ Finding("secure_boot_enabled", i) = "met" <=> i.secureBoot = "yes"
           /\ Finding("tpm_attestation_valid", i) = "met" <=> i.tpm = "2.0"
           /\ Finding("hvci_enabled", i) = "met" <=> "hvci_kmci" \in i.options
           /\ Finding("driver_blocklist_enabled", i) = "met" <=> i.driverBlocklist = "yes"
           /\ Finding("iommu_enabled", i) = "met" <=> i.platform \in {1, 3}
<1> USE DEF Finding, Snapshot
<1>1. Finding("companion_attested", i) = "met"
  OBVIOUS
<1>2. Finding("test_signing_disabled", i) = "met" <=> TestSigningSeenOff(i)
  BY DEF Expect, StateFrom, OptionReading, TestSigningSeenOff
<1>3. Finding("kernel_debugging_disabled", i) = "met" <=> i.debugger = "no"
  BY DEF Expect, StateFrom, Inputs, Reading
<1>4. Finding("game_process_present", i) = "met" <=> i.game
  BY DEF Holds, Inputs
<1>5. Finding("network_origin_matches", i) = "met" <=> i.host = GameHost
  BY DEF Holds, NormaliseIp
<1>6. Finding("secure_boot_enabled", i) = "met" <=> i.secureBoot = "yes"
  BY DEF Expect, StateFrom, Inputs, Reading
<1>7. Finding("tpm_attestation_valid", i) = "met" <=> i.tpm = "2.0"
  BY DEF Holds, TpmPresent
<1>8. Finding("hvci_enabled", i) = "met" <=> "hvci_kmci" \in i.options
  BY DEF Expect, StateFrom, HvciReading, OptionReading
<1>9. Finding("driver_blocklist_enabled", i) = "met" <=> i.driverBlocklist = "yes"
  BY DEF Expect, StateFrom, Inputs, Reading
<1>10. Finding("iommu_enabled", i) = "met" <=> i.platform \in {1, 3}
  BY PolicyAssumption DEF Expect, StateFrom, IommuReading, Inputs
<1>11. QED
  BY <1>1, <1>2, <1>3, <1>4, <1>5, <1>6, <1>7, <1>8, <1>9, <1>10

(* The policy table, read by tier.                                           *)
LEMMA Table ==
    ASSUME NEW tier \in Tier
    PROVE  /\ \A id \in RequirementId : Enforcement(id, tier) \in {"skip", "warn", "block"}
           /\ \A id \in {"companion_attested", "test_signing_disabled",
                         "kernel_debugging_disabled", "game_process_present",
                         "network_origin_matches"} : Enforcement(id, tier) = "block"
           /\ \A id \in {"secure_boot_enabled", "tpm_attestation_valid",
                         "hvci_enabled", "driver_blocklist_enabled"} :
                 Enforcement(id, tier) = "block" <=> tier # "relaxed"
           /\ Enforcement("iommu_enabled", tier) = "block" <=> tier = "strict"
           /\ Enforcement("vulnerable_drivers_absent", tier) # "block"
<1> USE DEF Enforcement, TargetPolicy, Everywhere, FromStandard, Tier
<1>1. \A id \in {"companion_attested", "test_signing_disabled",
                 "kernel_debugging_disabled", "game_process_present",
                 "network_origin_matches"} : Enforcement(id, tier) = "block"
  OBVIOUS
<1>2. \A id \in {"secure_boot_enabled", "tpm_attestation_valid",
                 "hvci_enabled", "driver_blocklist_enabled"} :
         /\ Enforcement(id, tier) = "block" <=> tier # "relaxed"
         /\ Enforcement(id, tier) \in {"skip", "block"}
  OBVIOUS
<1>3. /\ Enforcement("iommu_enabled", tier) = "block" <=> tier = "strict"
      /\ Enforcement("iommu_enabled", tier) \in {"skip", "warn", "block"}
  OBVIOUS
<1>4. Enforcement("vulnerable_drivers_absent", tier) = "skip"
  OBVIOUS
<1> HIDE DEF Enforcement
<1>5. QED
  BY <1>1, <1>2, <1>3, <1>4, Ids

(* evaluatePolicy lets in whom nothing blocks.                                *)
Required(i) ==
    /\ TestSigningSeenOff(i) /\ i.debugger = "no"
    /\ i.game /\ i.host = GameHost /\ i.buildAccepted
    /\ i.tier # "relaxed" => HardenedMachine(i)
    /\ i.tier = "strict" => i.platform \in {1, 3}

LEMMA AdmittedIffRequired ==
    ASSUME NEW i \in Inputs
    PROVE  EvaluatePolicy(i).decision = "allow" <=> Required(i)
<1>1. EvaluatePolicy(i).decision = "allow" <=> Reasons(i) = {}
  BY DEF EvaluatePolicy
<1>2. Reasons(i) = {} <=> i.buildAccepted /\ \A id \in RequirementId : ~Blocks(id, i)
  BY DEF Reasons, Inputs
<1>3. i.tier \in Tier
  BY DEF Inputs
<1>4. (\A id \in RequirementId : ~Blocks(id, i)) <=>
         /\ TestSigningSeenOff(i) /\ i.debugger = "no"
         /\ i.game /\ i.host = GameHost
         /\ i.tier # "relaxed" => HardenedMachine(i)
         /\ i.tier = "strict" => i.platform \in {1, 3}
  BY <1>3, Ids, Findings, Table DEF Blocks, HardenedMachine
<1>5. QED
  BY <1>1, <1>2, <1>4 DEF Required

(* Whoever is let in by policy.ts has been seen by the probes to meet every   *)
(* requirement their tier enforces, whatever the machine reports.             *)
THEOREM OnlySafeMachinesAreAdmitted == Spec => []AdmittedMachineIsSafe
<1>1. Evaluated => AdmittedMachineIsSafe
  BY AdmittedIffRequired DEF Evaluated, AdmittedMachineIsSafe, Required
<1>2. QED
  BY <1>1, EvaluatedHolds, PTL

(* A machine that meets its tier's requirements is let in by policy.ts,       *)
(* whatever the requirements that are skipped or only warn say.               *)
THEOREM SafeMachinesAreAdmitted == Spec => []SafeMachineIsAdmitted
<1>1. Evaluated => SafeMachineIsAdmitted
  BY AdmittedIffRequired DEF Evaluated, SafeMachineIsAdmitted, Required
<1>2. QED
  BY <1>1, EvaluatedHolds, PTL

-----------------------------------------------------------------------------
(* What is reported of one requirement, and whether it denies.                *)
LEMMA StatusFacts ==
    ASSUME NEW i \in Inputs, NEW id \in RequirementId
    PROVE  /\ Blocks(id, i) => Status(id, i) \in {"fail", "unknown"}
           /\ Status(id, i) = "fail" => Blocks(id, i)
           /\ Status(id, i) = "unknown" =>
                 Blocks(id, i) \/ Enforcement(id, i.tier) = "warn"
           /\ id = "companion_attested" => Status(id, i) = "pass"
<1>1. i.tier \in Tier
  BY DEF Inputs
<1>2. Enforcement(id, i.tier) \in {"skip", "warn", "block"}
  BY <1>1, Table
<1>3. id = "companion_attested" =>
         Enforcement(id, i.tier) = "block" /\ Finding(id, i) = "met"
  BY <1>1, Table, Findings
<1>4. QED
  BY <1>2, <1>3 DEF Status, Blocks

(* The report has a first entry among those that failed.                      *)
LEMMA FirstIn ==
    ASSUME NEW S \in SUBSET (1..11), S # {}
    PROVE  (CHOOSE n \in S : \A k \in S : n <= k) \in S
<1>1. S \subseteq Nat
  OBVIOUS
<1>2. PICK p \in S : \A q \in S : ~(<<q, p>> \in OpToRel(<, Nat))
  BY <1>1, NatLessThanWellFounded, WFMin
<1>3. ASSUME NEW q \in S PROVE p <= q
  <2>1. p \in Nat /\ q \in Nat
    BY <1>1
  <2> DEFINE pair == <<q, p>>
  <2>2. pair \in Nat \X Nat /\ pair[1] = q /\ pair[2] = p
    BY <2>1
  <2>3. ~(pair[1] < pair[2])
    <3> HIDE DEF pair
    <3>1. pair \in {ss \in Nat \X Nat : ss[1] < ss[2]} <=> pair[1] < pair[2]
      BY <2>2
    <3>2. QED
      BY <1>2, <3>1 DEF OpToRel, pair
  <2>4. QED
    BY <2>1, <2>2, <2>3
<1>4. QED
  BY <1>3

(* buildRemediation's first failure: none is reported, or one of them is it.   *)
LEMMA FirstFailureFacts ==
    ASSUME NEW r
    PROVE  \/ /\ FirstFailure(r) = "none"
              /\ \A id \in RequirementId : r[id] \notin {"fail", "unknown"}
           \/ /\ FirstFailure(r) \in RequirementId
              /\ r[FirstFailure(r)] \in {"fail", "unknown"}
<1> DEFINE failed == {n \in DOMAIN REPORT_ORDER : r[REPORT_ORDER[n]] \in {"fail", "unknown"}}
<1>1. CASE failed = {}
  BY <1>1 DEF FirstFailure, RequirementId
<1>2. CASE failed # {}
  <2> DEFINE n == CHOOSE n \in failed : \A k \in failed : n <= k
  <2>1. n \in failed
    <3>1. failed \in SUBSET (1..11)
      BY Ids
    <3> HIDE DEF failed
    <3>2. QED
      BY <1>2, <3>1, FirstIn
  <2>2. FirstFailure(r) = REPORT_ORDER[n]
    BY <1>2 DEF FirstFailure
  <2> HIDE DEF n
  <2>3. QED
    BY <2>1, <2>2 DEF RequirementId
<1>3. QED
  BY <1>1, <1>2

LEMMA OutcomeFacts ==
    ASSUME Evaluated
    PROVE  /\ outcome.decision = IF Reasons(input) = {} THEN "allow" ELSE "deny"
           /\ outcome.reasons = Reasons(input)
           /\ DOMAIN outcome.requirements = RequirementId
           /\ \A id \in RequirementId : outcome.requirements[id] = Status(id, input)
           /\ outcome.remediation = Remediation(outcome.reasons, outcome.requirements)
  BY DEF Evaluated, EvaluatePolicy

(* The sentence remediation.ts picks for a refused player is about something  *)
(* that refused them, or about a requirement that could not be read and would *)
(* only have warned.                                                          *)
THEOREM DenialsAreExplained == Spec => []DenialIsExplained
<1>1. Evaluated => DenialIsExplained
  <2> SUFFICES ASSUME Evaluated, outcome.decision = "deny" PROVE DenialIsExplained
    BY DEF DenialIsExplained
  <2> DEFINE first == FirstFailure(outcome.requirements)
  <2>1. input \in Inputs
    BY DEF Evaluated
  <2>2. Reasons(input) # {}
    BY OutcomeFacts
  <2>3. CASE first \in RequirementId /\ outcome.requirements[first] \in {"fail", "unknown"}
    <3> HIDE DEF first
    <3>1. Status(first, input) \in {"fail", "unknown"} /\ outcome.requirements[first] = Status(first, input)
      BY <2>3, OutcomeFacts
    <3>2. first # "companion_attested"
      BY <2>1, <2>3, <3>1, StatusFacts
    <3>3. outcome.remediation = first
      BY <2>3, <3>2, OutcomeFacts DEF Remediation, HasText, first
    <3>4. \/ Blocks(first, input)
          \/ Enforcement(first, input.tier) = "warn" /\ outcome.requirements[first] = "unknown"
      BY <2>1, <2>3, <3>1, StatusFacts
    <3>5. QED
      BY <2>3, <3>3, <3>4 DEF DenialIsExplained
  <2>4. CASE first = "none" /\ \A id \in RequirementId :
                                  outcome.requirements[id] \notin {"fail", "unknown"}
    <3> HIDE DEF first
    <3>1. \A id \in RequirementId : ~Blocks(id, input)
      BY <2>1, <2>4, OutcomeFacts, StatusFacts
    <3>2. outcome.reasons = {"companion_outdated"}
      BY <2>2, <3>1, OutcomeFacts DEF Reasons
    <3>3. "companion_outdated" \in HasText /\ "none" \notin HasText
      BY Ids DEF HasText
    <3>4. outcome.remediation = CHOOSE reason \in outcome.reasons : reason \in HasText
      BY <2>4, <3>2, <3>3, OutcomeFacts DEF Remediation, first
    <3>5. outcome.remediation \in outcome.reasons
      BY <3>2, <3>3, <3>4
    <3>6. QED
      BY <3>5 DEF DenialIsExplained
  <2>5. QED
    BY <2>3, <2>4, FirstFailureFacts
<1>2. QED
  BY <1>1, EvaluatedHolds, PTL

(* checks_from and collectFindings read one snapshot alike, and after         *)
(* merge_server_view every requirement that refused the player stands as      *)
(* failed or unknown in the companion's window.                               *)
THEOREM WindowAndServerAgree == Spec => []WindowAgreesWithServer
<1>1. ASSUME NEW i \in Inputs, NEW id \in DOMAIN ChecksFrom(i)
      PROVE  ChecksFrom(i)[id] = "pass" <=> Finding(id, i) = "met"
  <2>1. id \in {"secure_boot_enabled", "hvci_enabled", "driver_blocklist_enabled",
                "iommu_enabled", "test_signing_disabled", "kernel_debugging_disabled",
                "tpm_attestation_valid", "game_process_present"}
    BY DEF ChecksFrom
  <2>2. \A s : /\ StateFrom(s) \in {"enabled", "disabled", "unknown"} =>
                     /\ EnabledIsPass(StateFrom(s)) = "pass" <=>
                           Expect(StateFrom(s), "enabled") = "met"
                     /\ EnabledIsFail(StateFrom(s)) = "pass" <=>
                           Expect(StateFrom(s), "disabled") = "met"
    BY DEF EnabledIsPass, EnabledIsFail, Expect
  <2>3. \A s \in Reading : StateFrom(s) \in {"enabled", "disabled", "unknown"}
    BY DEF Reading, StateFrom
  <2>4. /\ i.secureBoot \in Reading /\ i.debugger \in Reading
        /\ i.driverBlocklist \in Reading
        /\ HvciReading(i.options) \in Reading
        /\ OptionReading(i.options, "testsign") \in Reading
        /\ IommuReading(i.platform) \in Reading
    BY DEF Inputs, Reading, HvciReading, OptionReading, IommuReading
  <2>5. CASE id \in {"secure_boot_enabled", "hvci_enabled", "driver_blocklist_enabled",
                     "iommu_enabled"}
    BY <2>2, <2>3, <2>4, <2>5 DEF ChecksFrom, Finding, Snapshot
  <2>6. CASE id \in {"test_signing_disabled", "kernel_debugging_disabled"}
    BY <2>2, <2>3, <2>4, <2>6 DEF ChecksFrom, Finding, Snapshot
  <2>7. CASE id \in {"tpm_attestation_valid", "game_process_present"}
    BY <2>7 DEF ChecksFrom, Finding, Snapshot, Holds
  <2>8. QED
    BY <2>1, <2>5, <2>6, <2>7
<1>2. ASSUME Evaluated, NEW id \in RequirementId, Blocks(id, input)
      PROVE  MergeServerView(ChecksFrom(input), outcome.requirements)[id]
                 \in {"fail", "unknown"}
  <2>1. MergeServerView(ChecksFrom(input), outcome.requirements)[id] = Status(id, input)
    BY <1>2, OutcomeFacts DEF MergeServerView
  <2>2. QED
    BY <1>2, <2>1, StatusFacts DEF Evaluated
<1>3. Evaluated => WindowAgreesWithServer
  BY <1>1, <1>2 DEF WindowAgreesWithServer, Evaluated
<1>4. QED
  BY <1>3, EvaluatedHolds, PTL
=============================================================================
