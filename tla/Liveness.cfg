SPECIFICATION LivenessSpec
CONSTANTS
    u1 = u1
    cpu = cpu
    low = low
    high = high
    Units = {u1}
    Properties = {cpu}
    Requested = {low, high}
    WeightProperties = {cpu}
    Disturbances = {"crash", "transport", "store", "verify", "depart", "operator"}
    MaxDisturbances = 2
    MaxLife = 2
    Vendor = Vendor
    KernelDefault = KernelDefault
    Foreign = Foreign
    OperatorFile = OperatorFile
    NoFile = NoFile
    NoLease = NoLease
    NoRecord = NoRecord
    NoTx = NoTx
    Users = {u1}
    Workers = {w1}
    Stoppers = {s1, s2}
    Cycle = Cycle
    Capacity = 1
    MaxJobs = 2
    NoJob = NoJob
    NoReading = NoReading
PROPERTIES ReleaseCompletes DepartedUnitsCleaned HooksEnd
