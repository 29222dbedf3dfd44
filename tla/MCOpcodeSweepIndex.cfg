SPECIFICATION Spec
CONSTANTS
    Order <- MCOrder
    Guard <- MCGuard
    Encodes <- MCEncodes
    Unknown <- MCUnknown
    Setups <- MCSetups
    Instances <- MCInstances
INVARIANT IndexIsComplete
