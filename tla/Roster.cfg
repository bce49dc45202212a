CONSTANTS
    Fds = {f1, f2, f3}
    Nicks = {n1, n2, n3}
    NoNick = NoNick
    Names = {c1}
    Keys = {}
    NoKey = NoKey
    Topics = {}
    NoTopic = NoTopic
    MaxLimit = 0
    Absent = Absent
    Invalid = Invalid
SPECIFICATION RosterSpec
SYMMETRY FdNickSymmetry
VIEW RosterView
INVARIANT RosterRight
