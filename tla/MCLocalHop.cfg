SPECIFICATION Spec
CONSTANTS
    Ports = {1, 2, 3}
    Squatted = {2}
    Commands <- Asks
    Origin <- Origins
    BuiltIn = {"api"}
    SettingsFile <- File
    Strays = {100}
    StrayCommands <- Others
    MAX_CONCURRENT = 1
    MaxAsks = 2
    MaxStarts = 2
INVARIANTS SlotsAccounted ReportIsTrue
    OncePerCompanion ForwardedIsOurs
PROPERTY BusyEnds
CHECK_DEADLOCK FALSE
