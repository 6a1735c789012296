CONSTANTS
    None = None k1 = k1 k2 = k2
    Keys <- TwoKeys
    Configs <- ThreeConfigs
    Modes <- AllModes
    Faults <- WriteFaults
    MaxLaunches = 3
    MaxWrites = 2
SPECIFICATION Spec
INVARIANT AcknowledgedIsDurable
INVARIANT SavesAreAtomic
INVARIANT RestoredUnderItsModels
INVARIANT RefusedOnlyOnMismatch
SYMMETRY Symmetric
