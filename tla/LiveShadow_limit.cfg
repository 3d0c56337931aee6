CONSTANTS
    N = 5
    SlotOf <- MCSlotOf
    KindOf <- MCKindOf
    LastSlot = 5
    PageSize = 2
    MaxPages = 2
    Limit = 2
    SlotGap = 1
    Window = 1
    StepSize = 1
    MinWindows = 2
    MaxDeaths = 1
INVARIANT BatchesAreContinuous
SPECIFICATION Spec
