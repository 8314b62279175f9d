SPECIFICATION Spec
CONSTANTS
    Nodes = {1, 3, 4}
    Services = {2, 5}
    MaxEntries = 4
INVARIANTS
    Forest
    MenuIsComplete
PROPERTIES
    OthersKeepTheirOrder
