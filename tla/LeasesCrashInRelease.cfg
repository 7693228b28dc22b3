SPECIFICATION Spec
CONSTANTS
    Units = {u1}
    Properties = {cpu}
    Requested = {low}
    WeightProperties = {cpu}
    Disturbances = {"crash"}
    MaxDisturbances = 1
    MaxLife = 1
    Vendor = Vendor
    KernelDefault = KernelDefault
    Foreign = Foreign
    OperatorFile = OperatorFile
    NoFile = NoFile
    NoLease = NoLease
    NoRecord = NoRecord
    NoTx = NoTx
INVARIANT CrashesResolve
