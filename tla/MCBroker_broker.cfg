SPECIFICATION Spec
CONSTANTS
    r1 = r1
    r2 = r2
    r3 = r3
    pod = pod
    gone = gone
    mac = mac
    seal = seal
    Requests <- ThreeRequests
    Callers = {pod, gone, mac}
    Caller <- Makes
    Scenes <- TwoScenes
    Pods = {pod, gone}
    Readers = {mac, pod}
    Keys = {seal}
    SizeOf <- TwoSizes
    MaxObject = 2
    MaxAws = 1
    MaxCached = 1
    TTL = 1
INVARIANTS
    TypeOK
PROPERTIES
    AcksAreTrue
    NamedRecently
    EveryRequestEnds
