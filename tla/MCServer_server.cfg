SPECIFICATION FairServerSpec
CONSTANTS
    a1 = a1
    a2 = a2
    r1 = r1
    r2 = r2
    l1 = l1
    o1 = o1
    o2 = o2
    Absent = Absent
    Addresses <- MCAddresses
    Calls <- MCCalls
    Lookups <- MCLookups
    Orders <- MCOrders
    Stored <- MCStored
    Rate = 1
    Burst = 1
    Interval = 0
    LastTick = 2
CHECK_DEADLOCK FALSE
INVARIANT
    PanicsOnlyAfterFailure
PROPERTIES
    ImplementsBuckets
    RequestsEnd
