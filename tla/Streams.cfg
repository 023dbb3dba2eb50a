CONSTANTS
    Parts = {"signal", "operation", "framed", "tls"}
    Handles = {h1, h2, h3}
    Flights = {o1, o2}
    MaxClosers = 1
    Sleepers = {"timeout", "interval"}
    SleeperKind <- MCSleeperKind
    MaxTime = 5
    Period = 2
    MaxTimers = 3
    MaxResets = 1
    Listeners = {"a", "b"}
    Handlers = {"t1", "t2"}
    SignumOf <- MCSignumOf
    MaxSignals = 2
    Scripts <- MCScripts
    PipeCapacity = 2
    Systems = {"uring", "kqueue", "iocp"}
    Calls = {"accept", "open", "connect", "read", "write", "read_at", "write_at", "readv", "writev", "recv", "send", "send_to", "sendmsg", "recv_from", "recvmsg", "recv_managed", "recv_from_managed", "create_dir", "hardlink", "rename", "symlink", "unlink", "sync", "truncate", "set_permissions", "stat", "path_stat"}
    Room = 2
    Framings <- MCFramings
    Items <- MCItems
    ByteBase = 3
    MaxItems = 2
    MaxRebuilds = 1
    PeerScripts <- MCPeerScripts
    OutCapacity = 2
    MaxTlsCalls = 2
SPECIFICATION Spec
INVARIANTS NoSignalLost HandlerInstalled NothingLeaks FramesExact WireFaithful PlaintextFaithful
CHECK_DEADLOCK FALSE
