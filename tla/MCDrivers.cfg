\* Two or three transfers per driver, short FIFOs and buffers.
CONSTANTS
    SpiCtxs = {c1, c2}
    SpiLengths <- SomeLengths
    SpiDepth = 2
    FlashTrans = {t1, t2}
    FlashThreads = {h1}
    UartCtxs = {c1, c2}
    UartLengths = {1, 2}
    UartDepth = 2
    UartWatermark = 1
    UartMoves = 1
    UartErrors = 1
    CdcSize = 3
    CdcNumbers = 5
    StdioSize = 5
    StdioChunk = 2
    StdioNumbers = 13
    StdioLosses = 1
    I2cTrans = {t1, t2}
    I2cRequests <- WithStop
    NrfRxAddrs = {a}
    NrfTxAddrs = {a, b}
    NrfRxSizes = {2}
    NrfTxSizes = {2}
    NrfChannels = {ch}
    NrfRates = {Kbps250, fast}
    NrfDelays = {0, 1}
    NrfDyn = {TRUE, FALSE}
    NrfSave = {TRUE, FALSE}
    NrfPayloads = {p}
    NrfFifo = 2
    NrfPending = 1
    Kbps250 = Kbps250
    None = None
    MaxPacket = 2
    Requests <- AllRequests
    FastRequests = {"in", "out", "none"}
    LostAcks = {"data_in", "data_out", "status_out"}
    HostGoesOn = FALSE
    SectorSize = 2
    Sectors = 2
    Images <- AllImages
SPECIFICATION AllSpec
CONSTRAINT NotRaced
INVARIANTS SpiInStep  CdcStream StdioStream I2cNackLast NrfSetUp NrfVerdict
INVARIANTS TypeOK SetupGetsThrough PingPongAgrees DataIntact AddressAgrees VerdictAgrees
INVARIANTS DownloadExact BlocksKept
PROPERTIES SpiEnds FlashEnds UartEnds I2cEnds NrfEnds RequestEnds ErrorSticks SessionEnds
