CONSTANTS
    Fds = {f1, f2}
    Nicks = {n1, n2, n3}
    NoNick = NoNick
    Names = {c1}
    Keys = {k1}
    NoKey = NoKey
    Topics = {}
    NoTopic = NoTopic
    MaxLimit = 0
    Absent = Absent
    Invalid = Invalid
SPECIFICATION ClaimSpec
SYMMETRY FdNickSymmetry
INVARIANT ModeQueryAnswered
