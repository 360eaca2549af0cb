SPECIFICATION FairSpec
CONSTANTS
    a = a
    b = b
    c = c
    d = d
    r1 = r1
    Unset = Unset
    NTargets = 2
    Addrs <- MCAddrs
    Weight <- MCWeight
    Zones <- MCZones
    MaxMembers = 3
    HealthyAfter = 1
    UnhealthyAfter = 2
    Requests <- MCRequests
    MaxChanges = 2
    MaxFailures = 1
INVARIANTS SickMemberShunned
PROPERTIES DialledUnderItsName FollowsDns
