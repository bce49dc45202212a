CONSTANTS
    Fds = {f1, f2}
    Nicks = {n1, n2}
    NoNick = NoNick
    Names = {c1}
    Keys = {k1, k2}
    NoKey = NoKey
    Topics = {t1}
    NoTopic = NoTopic
    MaxLimit = 1
    Absent = Absent
    Invalid = Invalid
SPECIFICATION Spec
SYMMETRY FdNickSymmetry
INVARIANTS
    TypeOK
    NickUnique
    RegisteredIffComplete
PROPERTIES
    WelcomeOnce
