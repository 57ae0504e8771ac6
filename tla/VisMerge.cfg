SPECIFICATION MCSpec
CONSTANTS
    A = A
    B = B
    C = C
    D = D
    T = T
    U = U
    Uids = {A, B, C, D}
    Texts = {T, U}
    None = None
    Null = Null
    MaxCopies = 4
    MaxTexts = 1
    Chunks <- MCChunks
INVARIANTS NothingVanishes Redelivery MergesLand Batching
