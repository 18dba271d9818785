SPECIFICATION Spec
CONSTANTS
    Snapshots <- MCSnapshots
    SourceOf <- MCSourceOf
    SidecarOf <- MCSidecarOf
    Inline = Inline
    MaxEdits = 1
    MaxForeign = 2
    MaxFaults = 1
    MaterialStatus <- MCMaterialStatus
    ShaderOf <- MCShaderOf
    Selected = {1}
    Shaders = {1, 2}
    SlotChoices <- MCSlotChoices
INVARIANTS
    TextureOfOneInstant
    AllOrNothing
    MaterialsGrounded
    ImportableLast
    CreatedIsAccounted
    ExitZeroIsExact
