SPECIFICATION Spec
CONSTANTS
    CRD = CRD
    Widget = Widget
    crd = crd
    widget = widget
    ns = ns
    NoKind = NoKind
    NoName = NoName
    NoEvent = NoEvent
    SyncChannel = SyncChannel
    Objects = {crd, widget}
    Ids = {crd, widget}
    Strategy = "automatic"
    Channels <- MCChannels
    Events <- AllEvents
    GroupKind <- MCGroupKind
    Namespace <- MCNamespace
    Defines <- MCDefines
    NamespaceName <- MCNamespaceName
    Scenarios <- MCScenarios
    Unschedulable = {widget}
    MaxStarts = 2
    MaxChanges = 2
    MaxTasks = 1
INVARIANT
    ClosedWithoutSenders
CHECK_DEADLOCK FALSE
