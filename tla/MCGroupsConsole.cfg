CONSTANTS
    USER = USER
    g1 = g1
    g2 = g2
    u1 = u1
    u2 = u2
    u3 = u3
    Groups = {USER, g1, g2}
    Users = {u1, u2, u3}
    Requests = {q1, q2}
    Batches <- MCBatches
    Protected = {USER}
    Default = USER
    Present = {USER, g1}
    FirstMembers <- MCFirstMembers
    FirstNumber <- MCFirstNumber
    NoNumber <- MCNoNumber
    None = None
    Selections <- MCSelections
    Ticked = {g1, g2}
    Hidden = {u3}
    Shared = {q2}
SPECIFICATION CFairSpec
INVARIANTS
    ConsoleInv
    NameStaysFree
    NumbersDiffer
    ConsoleAgrees
PROPERTIES
    ProtectedStay
    GroupsAreAtomic
    RequestsEnd
CHECK_DEADLOCK FALSE
