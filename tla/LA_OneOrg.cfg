CONSTANTS
    u1 = u1  u2 = u1  u3 = u1
    m1 = m1  m2 = m1
    p1 = p1  p2 = p1
    o1 = o1  o2 = o2
    Requests = {r1, r2}
    Uids = {u1}
    Mails = {m1}
    Phones = {p1}
    Orgs = {o1, o2}
    Bodies <- MCBodies
    Seeds <- MCSeeds
    None = None
    Absent = Absent
SPECIFICATION Spec
INVARIANT OneOrg
CHECK_DEADLOCK FALSE
