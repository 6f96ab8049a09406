SPECIFICATION Spec
CONSTANTS
    Node = {a, b}
    Worker = {w1, w2}
    Index = {i1, i2, i3}
    Nil = Nil
    Initiator = {a, b}
    Ending = {a}
    MaxEphemeral = 4
    MaxCrowded = 3
SYMMETRY IndexSymmetry
INVARIANTS OwnersEntered EntriesOwned KeyConfirmed SendIndexAgreed DerivedOnce
