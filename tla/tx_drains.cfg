SPECIFICATION FairSpec
CONSTANTS
    p1 = p1
    p2 = p2
    p3 = p3
    p4 = p4
    c1 = c1
    c2 = c2
    c3 = c3
    c4 = c4
    w1 = w1
    w2 = w2
    Pkt = {p1, p2, p3}
    Cmd = {}
    Size <- SizeLarge
    Odd = {p3}
    Writer = {}
    GrantBlocks = {255}
    Staging = 65536
    InflightCap = 1
    UnackedMax = 100
    IfDown = FALSE
    IoFails = FALSE
PROPERTIES
    DataDrains
    BusyQueueReopens
