\* The same instance: id 0 is given once the vector has IdModulus entries.
CONSTANTS
    Names <- MCNames
    Reserved = "reserved"
    NoName = ""
    IdModulus = 4

SPECIFICATION Spec

INVARIANT ReservedIdIsNotGiven
