CONSTANTS
    u1 = u1  u2 = u2  u3 = u3
    m1 = m1  m2 = m2
    p1 = p1  p2 = p1
    o1 = o1  o2 = o1
    Requests = {r1, r2}
    Uids = {u1, u2, u3}
    Mails = {m1, m2}
    Phones = {p1}
    Orgs = {o1}
    Bodies <- MCBodies
    Seeds <- MCSeeds
    None = None
    Absent = Absent
SPECIFICATION FairSpec
INVARIANTS
    IInv
    EmailUnique
    RoleMatchesAccounts
PROPERTIES
    AccountsAreAtomic
    RequestsEnd
CHECK_DEADLOCK FALSE
