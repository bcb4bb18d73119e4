CONSTANTS
    FillTarget = 4
    Limits <- const_Limits
SPECIFICATION Spec
INVARIANTS
    FieldInv
    
    UnfilledIsBounded
PROPERTIES
    AllHolesGetFilled
    ImplementsHoleLine
