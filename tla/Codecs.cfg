SPECIFICATION Spec
CONSTANTS
    Base = 8
    Width = 3
    Half = 4
    ByteBits = 4
    event_constructors <- ConstructorsDef
    pluginInfo_events <- PluginsDef
    host2AddrInfo <- HostsDef
INVARIANTS PacketsComeBack CutPacketRefused OrdersAreStrict BitsComeBack
    TextsComeBack ConfigAsWritten
CHECK_DEADLOCK FALSE
