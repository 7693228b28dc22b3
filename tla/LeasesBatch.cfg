SPECIFICATION Spec
CONSTANTS
    Units = {u1, u2}
    Properties = {memory, io}
    Requested = {low}
    WeightProperties = {}
    Disturbances = {"crash", "transport", "store", "verify", "depart"}
    MaxDisturbances = 2
    MaxLife = 1
    Vendor = Vendor
    KernelDefault = KernelDefault
    Foreign = Foreign
    OperatorFile = OperatorFile
    NoFile = NoFile
    NoLease = NoLease
    NoRecord = NoRecord
    NoTx = NoTx
SYMMETRY InstanceSymmetry
INVARIANT AppliedIsLive
