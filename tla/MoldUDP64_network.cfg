\* Three messages in packets of up to two, heartbeats, and five deliveries, so
\* that the stream can come again, in another order or in part.
SPECIFICATION Spec
CONSTANTS
    MaxMessages = 3
    MaxPerPacket = 2
    MaxDelivered = 5
INVARIANTS NumbersExact GapsShow
