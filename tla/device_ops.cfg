SPECIFICATION Spec
CONSTANTS
    p1 = p1
    p33 = p33
    p2 = p2
    DevThread = DevThread
    Free = Free
    NoId = NoId
    Adapters = {p1, p33}
    Mux <- MCMux
    Offset <- MCOffset
    Requests <- OneRequest
    DevOps = {"probe", "remove"}
INVARIANT DevOpsReachOwnMaster
