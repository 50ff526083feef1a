SPECIFICATION MCSpec
CONSTANTS
    Programs = {"blockio", "noblockio", "pollio", "blockconcur", "noblockconcur", "poll", "select",
                "asyncio", "asyncio_concur", "optasyncio", "optasyncio_concur", "uart"}
    Chunk = 2
    Reports = 3
    BufRoom = 4
    MaxSent = 8
INVARIANTS SignalsSuffice ExitUnderstood
PROPERTIES InputFollowed
