SPECIFICATION Spec
CONSTANTS
    Units = {u1}
    Properties = {cpu, memory}
    Requested = {low, high}
    WeightProperties = {cpu}
    Disturbances = {"crash", "transport", "store", "verify", "depart", "operator"}
    MaxDisturbances = 2
    MaxLife = 2
    Vendor = Vendor
    KernelDefault = KernelDefault
    Foreign = Foreign
    OperatorFile = OperatorFile
    NoFile = NoFile
    NoLease = NoLease
    NoRecord = NoRecord
    NoTx = NoTx
INVARIANT OwnedFilesRecorded
INVARIANT BaselinePreserved
PROPERTY ReleaseRevertsOwnFiles
