CONSTANTS
    d1 = d1
    d2 = d2
    c1 = c1
    c2 = c2
    c3 = c3
    Devices = {d1}
    Calls = {c1, c2}
    DeviceOf <- MCDeviceOf
    Ops <- AllOps
    NoDevice = NoDevice
    NoCall = NoCall
SPECIFICATION FairSpec
PROPERTIES
    CloseReturnsCalls
    CancelReturnsCall
