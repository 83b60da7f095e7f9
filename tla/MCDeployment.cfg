SPECIFICATION Spec
CONSTANTS
    Outputs = 4
    MaxSelection = 3
    MaxSnapshots = 6
    Slots <- MCSlots
    Selected <- MCSelected
    Derivations <- MCDerivations
    Corpora <- MCCorpora
    Tables <- MCTables
    MaxDrift = 2
    MaxRuns = 2
INVARIANTS InputsChecked PartsBelong PlansAgree
CHECK_DEADLOCK FALSE
VIEW MCView
