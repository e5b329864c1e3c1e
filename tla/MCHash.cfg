SPECIFICATION Spec
CONSTANTS
    Objects = {o1, o2, o3}
    Contexts = {1, 2}
    Lengths = {0, 1, 3}
    Block = 2
    MaxChunks = 3
INVARIANTS DigestCovers CacheFits
SYMMETRY Symmetry
