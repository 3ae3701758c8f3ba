SPECIFICATION Spec
CONSTANTS
    p1 = p1
    p2 = p2
    p3 = p3
    p4 = p4
    c1 = c1
    c2 = c2
    c3 = c3
    c4 = c4
    w1 = w1
    w2 = w2
    Pkt = {p1, p2, p3, p4}
    Cmd = {}
    Size <- SizeLarge
    Odd = {}
    Writer = {}
    GrantBlocks = {255}
    Staging = 65536
    InflightCap = 4
    UnackedMax = 0
    IfDown = FALSE
    IoFails = FALSE
INVARIANTS
    WithinCredit
