CONSTANTS
    Servers = {"postgresql", "sqlite"}
    MaxTorn = 2
SPECIFICATION Spec
INVARIANTS
    ServesModels
    IndexesComplete
    OnlyFirstUpgradeSticks
    DownUndoesUp
