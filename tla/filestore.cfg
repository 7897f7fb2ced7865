\* Two local writers, a collector's request and the sweep, one failure or kill.
SPECIFICATION Spec
CONSTANTS
    MaxTenant = 2
    Event <- MCEvent
    TenantOf <- MCTenantOf
    DayOf <- MCDayOf
    Payload = {"prompt"}
    PayloadOf <- MCPayloadOf
    NoPayload = "none"
    Writer = {"ingester", "proxy", "collect"}
    Collect = {"collect"}
    WriterOf <- MCWriterOf
    NoWriter = "nobody"
    MaxDay = 2
    Earlier <- MCEarlier
    MaxFailures = 1
INVARIANTS NamedPayloadsWhole
PROPERTIES ReadableStays PartitionTakesConfirmed DaysCompacted
