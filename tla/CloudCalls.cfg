CONSTANTS
    net = net
    vpcs = vpcs
    machines = machines
    vms = vms
    eips = eips
    quota = quota
    domains = domains
    act = act
    groups = groups
    press = press
    none = none
    Nodes = {net, vpcs, machines, vms, eips, quota, domains, act, groups, press}
    Parent <- Tree
    NoNode = none
    Gathers = {net, machines, quota}
    After <- Order
    Fatal <- Needs
    Writes = {press}
    Service = {domains}
    UsesDb = {eips, domains}
    Gate = 2
    MaxWorkers = 2
    Requests = 2
    MaxRetries = 1
    MaxTroubles = 1
    MaxTokens = 3
SPECIFICATION Spec
CHECK_DEADLOCK FALSE
INVARIANTS NothingLeaks WritesTold RefusedOnlyIfRevoked
PROPERTIES Answered
