CONSTANTS
    Fds = {f1, f2, f3}
    Nicks = {n1, n2, n3}
    NoNick = NoNick
    Names = {c1}
    Keys = {}
    NoKey = NoKey
    Topics = {t1}
    NoTopic = NoTopic
    MaxLimit = 2
    Absent = Absent
    Invalid = Invalid
SPECIFICATION Spec
SYMMETRY FdNickSymmetry
VIEW ServerView
INVARIANTS
    OperatorsAreMembers
    NoStaleFd
    NoEmptyChannel
PROPERTIES
    OnlyDisconnectOrphans
    OrphanFrozen
    AdmissionControl
    NoSilentChange
    OutsidersHearAnswersOnly
    ImplementsMembership
