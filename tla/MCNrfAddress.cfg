\* One address listened on and sent to.
CONSTANTS
    NrfRxAddrs = {a}
    NrfTxAddrs = {a}
    NrfRxSizes = {2}
    NrfTxSizes = {2}
    NrfChannels = {ch}
    NrfRates = {fast}
    NrfDelays = {0}
    NrfDyn = {FALSE}
    NrfSave = {FALSE}
    NrfPayloads = {p}
    NrfFifo = 1
    NrfPending = 0
    Kbps250 = Kbps250
    None = None
SPECIFICATION NrfSpec
INVARIANTS SendsToAddress
