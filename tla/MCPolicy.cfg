SPECIFICATION Spec
CONSTANTS
    Hosts = {h1, h2}
    GameHost = h1
    TpmVersions = {"1.2", "2.0"}
    OptionSets <- SomeOptions
    Platforms <- SomePlatforms
INVARIANTS AdmittedMachineIsSafe SafeMachineIsAdmitted DenialIsExplained WindowAgreesWithServer
