\* Five names and ids of four values: the table works below and beyond its limit.
CONSTANTS
    Names <- MCNames
    Reserved = "reserved"
    NoName = ""
    IdModulus = 4

SPECIFICATION Spec

INVARIANT TypeOK
INVARIANT TablesAgree
PROPERTY IdsAreStable
