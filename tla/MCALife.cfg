SPECIFICATION Spec
CONSTANTS
    NULL = NULL
    Killed = {1}
    NoNext = NoNext
    Here = Here
    Away = Away
    IDs = {1, 2, 3}
    Stalkers = {1, 3}
    Groups = {2}
    m_online_limit_per_update = 1
    m_objects_per_update = 1
INVARIANTS TypeOK InItsPlace MembersTogether OnlyEmptyGroupThrows
PROPERTIES WholeRound NobodyForgotten
