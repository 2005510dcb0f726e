CONSTANTS
    memory = memory
    agents = agents
    a = a
    b = b
    big = big
    binary = binary
    Files <- TwoFiles
    Content = {a, b, big, binary}
    Oversize = {big}
    Undecodable = {binary}
    Absent = Absent
SPECIFICATION Spec
INVARIANTS TypeOK ScanCatchesUp WriteMeansEdit
