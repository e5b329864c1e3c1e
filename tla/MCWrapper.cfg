SPECIFICATION Spec
CONSTANTS
    Families <- AllFamilies
INVARIANTS NoOrphan NeverRefused StructTrue
