CONSTANTS
    o1 = o1
    o2 = o2
    d1 = d1
    d2 = d2
    c1 = c1
    c2 = c2
    r1 = r1
    s1 = s1
    s2 = s2
    s3 = s3
    s4 = s4
    None = None
    Boot = Boot
    Orgs = {o1, o2}
    Databases = {d1, d2}
    Provisioners = {c1}
    Callers = {c1, r1, Boot}
    Sources = {s1, s2}
    Ops = {"update", "rename"}
    MaxMishaps = 0
SPECIFICATION Spec
SYMMETRY Symmetry
INVARIANT OneDatabasePerOrganization
CHECK_DEADLOCK FALSE
