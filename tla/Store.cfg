CONSTANTS
    Fds = {f1, f2}
    Names = {c1, c2, c3}
    MaxInvited = 2
SPECIFICATION StoreSpec
SYMMETRY StoreSymmetry
CONSTRAINT InvitationBound
INVARIANTS
    NoDuplicates
    NoEmptyEntry
PROPERTIES
    StoreImplementsMembership
