SPECIFICATION FairSpec
CONSTANTS
    Sockets = {s1, s2}
    Fds = {f1, f2}
    Hosts = {h1}
    Configs <- SomeConfigs
    None = None
    MaxAddresses = 2
    Senders = {s1}
    MaxBytes = 2
INVARIANT DescriptorsOwnedOnce
INVARIANT SocketsMatchKernel
PROPERTY AcceptLeavesServerListening
PROPERTY CallsReturn
