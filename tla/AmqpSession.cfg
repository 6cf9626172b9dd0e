\* Channel 1 consumes with two consumer tags, channel 2 publishes.
CONSTANTS
    Channels = {1, 2}
    Publishers = {2}
    Subscribers = {1}
    ConsumerTags = {t1, t2}
    MaxId = 2
    DeliveryTags = {1}
    Sizes = {0, 1, 2}
    MaxHeaders = 2
    MaxCloses = 1
SPECIFICATION Spec
INVARIANTS
    
    NoStalePublish
    SettlementNamesReceiver
