-------------------------------- MODULE Nrf --------------------------------
(***************************************************************************)
(* The nRF24L01+ radio, src/src/nrf/nrf.c: one request at a time, carried  *)
(* out as a chain of SPI transfers whose callbacks queue the next one, and *)
(* a second, static transaction that reads and clears the status of the    *)
(* radio when its interrupt pin falls.                                     *)
(*                                                                         *)
(* The SPI bus is the queue of src/src/soc/kinetis/dspi.c: transfers are   *)
(* carried out in order, and the next one starts before the callback of    *)
(* the last one runs.  Requests and settings come when no request is under *)
(* way: from a thread, or from the callback of the last request.           *)
(***************************************************************************)
EXTENDS Naturals, Sequences, FiniteSets

CONSTANTS
    NrfRxAddrs, NrfTxAddrs,   \* addresses listened on, addresses sent to
    NrfRxSizes, NrfTxSizes,   \* len of nrf_receive; of nrf_send, and widths heard
    NrfChannels, NrfRates, NrfDelays,   \* arguments of the nrf_set functions
    NrfDyn, NrfSave,          \* whether dynamic payloads, power saving are on
    NrfPayloads,              \* what is sent
    NrfPending,               \* settings changed between two requests, at most
    NrfFifo,                  \* packets the receive FIFO of the radio holds
    Kbps250,                  \* NRF_DATA_RATE_250KBPS
    None                      \* NULL, and an address nobody asked for

MaxPayload == 32

ASSUME NrfAssumption ==
    /\ NrfDelays \subseteq Nat /\ NrfFifo \in Nat \ {0} /\ NrfPending \in Nat
    /\ NrfDyn \subseteq BOOLEAN /\ NrfSave \subseteq BOOLEAN
    /\ NrfRxSizes \cup NrfTxSizes \subseteq 1..MaxPayload
    /\ None \notin NrfRxAddrs \cup NrfTxAddrs \cup NrfPayloads \cup {"data"}

VARIABLES
    nrf,      \* nrf_ctx: the request, the settings, dirty, and the state
    nrfPc,    \* "thread", or who runs user_cb: "chain" or "status"
    bus,      \* the transfers queued, the first one on the wire
    seen,     \* the status in the static transaction of nrf_interrupt
    ce,       \* the pin NRF_CE
    radio,    \* the radio: registers, STATUS, FIFOs, the latched edge of IRQ
    did,      \* history: what became of the request on the air
    held      \* history: what the radio holds that is not written again, see Held

nrfVars == <<nrf, nrfPc, bus, seen, ce, radio, did, held>>

-----------------------------------------------------------------------------
(* The steps of a request, in the order of the switch statements.  A state *)
(* of the chain is the name of the step to look at next.                   *)

Setup == <<"RF_SETUP", "RF_CH", "FEATURE", "SETUP_RETR", "CONFIG">>

Steps ==
    [recv |-> Setup \o <<"RX_PW", "DYNPD", "RX_ADDR_P1", "CE">>,
     send |-> Setup \o <<"TX_ADDR", "RX_ADDR_P0", "DYNPD", "TX_PAYLOAD", "CE">>]

StepNames == {"RF_SETUP", "RF_CH", "FEATURE", "SETUP_RETR", "CONFIG", "RX_PW",
              "DYNPD", "RX_ADDR_P1", "TX_ADDR", "RX_ADDR_P0", "TX_PAYLOAD", "CE"}

\* The dirty bit that makes a step necessary; the other steps always are.
DirtyBit ==
    [RF_SETUP |-> "rate", RF_CH |-> "channel", FEATURE |-> "dyn",
     SETUP_RETR |-> "retr", RX_PW |-> "size", DYNPD |-> "dyn",
     RX_ADDR_P1 |-> "addr", TX_ADDR |-> "addr", RX_ADDR_P0 |-> "addr"]

Needed(ctx, step) == step \in DOMAIN DirtyBit => DirtyBit[step] \in ctx.dirty

\* Where the switch gets to, falling through from ctx.state.
NextStep(ctx) ==
    LET steps == Steps[ctx.way]
        from == CHOOSE i \in DOMAIN steps : steps[i] = ctx.state
    IN CHOOSE i \in from..Len(steps) :
         /\ Needed(ctx, steps[i])
         /\ \A j \in from..i - 1 : ~Needed(ctx, steps[j])

\* Mutant: every step clears its bit, TX_ADDR and FEATURE too.
Prepared_clean(ctx, step) ==
    [ctx EXCEPT !.dirty = IF step \in DOMAIN DirtyBit THEN @ \ {DirtyBit[step]} ELSE @]

\* FEATURE and TX_ADDR leave their bit to DYNPD and RX_ADDR_P0.  The slowest
\* rate needs at least the second delay.
Prepared(ctx, step) ==
    LET slow == step = "RF_SETUP" /\ ctx.rate = Kbps250 /\ ctx.ard = 0
        clean == IF step \in DOMAIN DirtyBit \ {"FEATURE", "TX_ADDR"}
                 THEN {DirtyBit[step]} ELSE {}
    IN [ctx EXCEPT !.ard = IF slow THEN 1 ELSE @,
                   !.dirty = (IF slow THEN @ \cup {"retr"} ELSE @) \ clean]

Config(ctx, up) == [up |-> up, rx |-> ctx.way = "recv"]

\* The bit of the pipe used: 1 to receive, 0 for the acknowledge of a send.
Pipes(ctx) == IF ctx.dyn THEN {IF ctx.way = "recv" THEN 1 ELSE 0} ELSE {}

StepValue(ctx, step) ==
    CASE step = "RF_SETUP"   -> ctx.rate
      [] step = "RF_CH"      -> ctx.channel
      [] step = "FEATURE"    -> ctx.dyn
      [] step = "SETUP_RETR" -> ctx.ard
      [] step = "CONFIG"     -> Config(ctx, TRUE)
      [] step = "RX_PW"      -> ctx.size
      [] step = "DYNPD"      -> Pipes(ctx)
      [] step = "TX_PAYLOAD" -> ctx.payload
      [] OTHER               -> ctx.addr

-----------------------------------------------------------------------------
(* nrf_handle_setup, nrf_handle_receive and nrf_handle_send                *)

\* A transfer: its command, and whose callback ends it.
Transfer(cmd, value, cb) == [cmd |-> cmd, value |-> value, cb |-> cb, done |-> FALSE]

ReadStatus == Transfer("STATUS", None, "status")
ClearStatus == Transfer("STATUS", None, "none")

\* The next step of the chain; after is what the caller queues behind it.
Chain(ctx, queue, after) ==
    LET i == NextStep(ctx)
        step == Steps[ctx.way][i]
        ready == Prepared(ctx, step)
    IN /\ IF step = "CE"
          THEN /\ nrf' = [ctx EXCEPT !.state = "WAITING"]
               /\ bus' = queue \o after
          ELSE /\ nrf' = [ready EXCEPT !.state = Steps[ctx.way][i + 1]]
               /\ bus' = queue \o <<Transfer(step, StepValue(ready, step), "chain")>>
                             \o after
       /\ ce' = (ce \/ step = "CE")
       /\ UNCHANGED nrfPc

\* The state after the last command, with and without power saving.
LastState(ctx) == IF ctx.save THEN "POWER_DOWN" ELSE "USER_DATA"

Discards(ctx) == ctx.dyn /\ ctx.size > MaxPayload

\* What follows the radio's answer: the next state and the command.
Command(ctx) ==
    CASE ctx.state = "GET_PAYLOAD_SIZE" ->
           <<"GET_PAYLOAD", Transfer("R_RX_PL_WID", None, "chain")>>
      [] ctx.state = "GET_PAYLOAD" ->
           <<LastState(ctx), Transfer(IF Discards(ctx) THEN "FLUSH_RX" ELSE "R_RX_PAYLOAD",
                                 None, "chain")>>
      [] ctx.state = "MAX_RT" -> <<LastState(ctx), Transfer("FLUSH_TX", None, "chain")>>
      [] ctx.state = "POWER_DOWN" ->
           <<"USER_DATA", Transfer("CONFIG", Config(ctx, FALSE), "chain")>>

\* user_cb is called within Handle, and returns in CallbackReturns.
Handle(ctx, queue, after) ==
    CASE ctx.state \in StepNames -> Chain(ctx, queue, after)
      [] ctx.state = "USER_DATA" ->
           /\ nrf' = ctx /\ bus' = queue
           /\ nrfPc' = IF after = <<>> THEN "chain" ELSE "status"
           /\ UNCHANGED ce
      [] OTHER ->
           /\ nrf' = [ctx EXCEPT !.state = Command(ctx)[1],
                                 !.payload = IF ctx.state = "GET_PAYLOAD" /\ Discards(ctx)
                                             THEN None ELSE @]
           /\ bus' = queue \o <<Command(ctx)[2]>> \o after
           /\ UNCHANGED <<nrfPc, ce>>

-----------------------------------------------------------------------------
(* Requests and settings, when no request is under way: from a thread, or  *)
(* from the callback of the last request.                                  *)

Free == nrf.state = "USER_DATA" /\ \A i \in 1..Len(bus) : bus[i].cb # "chain"

\* Switching between receiving and sending writes FEATURE and DYNPD again.
Asked(way, addr, size, payload, dirty) ==
    [nrf EXCEPT !.way = way, !.state = "RF_SETUP", !.addr = addr, !.size = size,
                !.payload = payload,
                !.dirty = dirty \cup (IF nrf.way # way THEN {"dyn"} ELSE {})
                                \cup (IF nrf.addr # addr THEN {"addr"} ELSE {})]

\* An address and a length are not written again when they are those of the
\* last request or packet.  Of that address, held says for which way it was
\* written; of that length, whether it was; of the delay, that it has not been
\* set to the shortest since the data rate was written.
Held(way, addr, size, written) ==
    (IF nrf.addr # addr THEN {way} ELSE held \cap {"recv", "send"})
        \cup (IF nrf.size # size THEN written ELSE held \cap {"width"})
        \cup (held \cap {"delay"})

\* A packet, or a failed send, leaves its own length.
LengthLeft == held' = IF nrf'.size = nrf.size THEN held ELSE held \ {"width"}

nrf_receive(addr, len) ==
    /\ Free
    /\ LET dirty == (nrf.dirty \ {"addr", "size"})
                       \cup (IF ~nrf.dyn /\ nrf.size # len THEN {"size"} ELSE {})
       IN Chain(Asked("recv", addr, len, "data", dirty), bus, <<>>)
    /\ did' = "nothing"
    /\ held' = Held("recv", addr, len, IF nrf.dyn THEN {} ELSE {"width"})
    /\ UNCHANGED <<seen, radio>>

nrf_send(addr, data, len) ==
    /\ Free
    /\ Chain(Asked("send", addr, len, data, nrf.dirty \ {"addr"}), bus, <<>>)
    /\ did' = "nothing"
    /\ held' = Held("send", addr, len, {})
    /\ UNCHANGED <<seen, radio>>

Set(settings) ==
    /\ Free /\ nrf' = settings
    /\ Cardinality(nrf'.dirty \ {"addr", "size"}) <= NrfPending
    /\ UNCHANGED <<nrfPc, bus, seen, ce, radio, did>>

nrf_set_channel(ch) ==
    /\ Set([nrf EXCEPT !.channel = ch, !.dirty = @ \cup {"channel"}])
    /\ UNCHANGED held
nrf_set_power_datarate(rate) ==
    /\ Set([nrf EXCEPT !.rate = rate, !.dirty = @ \cup {"rate"}])
    /\ held' = held \cup {"delay"}
nrf_set_autoretransmit(delay) ==
    /\ Set([nrf EXCEPT !.ard = delay, !.dirty = @ \cup {"retr"}])
    /\ held' = IF delay = 0 /\ "rate" \notin nrf.dirty
               THEN held \ {"delay"} ELSE held \cup {"delay"}
nrf_set_dynamic_payload(on) ==
    /\ Set([nrf EXCEPT !.dyn = on, !.dirty = @ \cup {"dyn"}])
    /\ UNCHANGED held

\* Nothing to write: at any time.
nrf_set_powersave(on) ==
    /\ nrf' = [nrf EXCEPT !.save = on]
    /\ UNCHANGED <<nrfPc, bus, seen, ce, radio, did, held>>

\* handle_status goes on to clear the status after user_cb.
CallbackReturns ==
    /\ nrfPc # "thread" /\ nrfPc' = "thread"
    /\ bus' = IF nrfPc = "status" THEN Append(bus, ClearStatus) ELSE bus
    /\ UNCHANGED <<nrf, seen, ce, radio, did, held>>

-----------------------------------------------------------------------------
(* Interrupts: the pin change, and the end of a transfer, which has the    *)
(* lower number.                                                           *)

\* Mutant: the radio is left on while its status is handled.
nrf_interrupt_on ==
    /\ nrfPc = "thread" /\ radio.edge /\ (bus # <<>> => ~Head(bus).done)
    /\ radio' = [radio EXCEPT !.edge = FALSE]
    /\ bus' = IF \A i \in 1..Len(bus) : bus[i].cmd # "STATUS"
              THEN Append(bus, ReadStatus) ELSE bus
    /\ UNCHANGED <<nrf, nrfPc, seen, ce, did, held>>

\* The static transaction is not queued twice.
nrf_interrupt ==
    /\ nrfPc = "thread" /\ radio.edge /\ (bus # <<>> => ~Head(bus).done)
    /\ ce' = FALSE
    /\ radio' = [radio EXCEPT !.edge = FALSE]
    /\ bus' = IF \A i \in 1..Len(bus) : bus[i].cmd # "STATUS"
              THEN Append(bus, ReadStatus) ELSE bus
    /\ UNCHANGED <<nrf, nrfPc, seen, did, held>>

Waits(way, bit) == nrf.state = "WAITING" /\ nrf.way = way /\ bit \in seen

\* Mutant: the two ends of a send are taken for one.
handle_status_one(queue) ==
    CASE Waits("recv", "RX_DR") ->
           Handle([nrf EXCEPT !.state = IF nrf.dyn THEN "GET_PAYLOAD_SIZE"
                                        ELSE "GET_PAYLOAD"],
                  queue, <<ClearStatus>>)
      [] Waits("send", "TX_DS") \/ Waits("send", "MAX_RT") ->
           Handle([nrf EXCEPT !.state = LastState(nrf)], queue, <<ClearStatus>>)
      [] OTHER ->
           bus' = Append(queue, ClearStatus) /\ UNCHANGED <<nrf, nrfPc, ce>>

handle_status(queue) ==
    CASE Waits("recv", "RX_DR") ->
           Handle([nrf EXCEPT !.state = IF nrf.dyn THEN "GET_PAYLOAD_SIZE"
                                        ELSE "GET_PAYLOAD"],
                  queue, <<ClearStatus>>)
      [] Waits("send", "TX_DS") ->
           Handle([nrf EXCEPT !.state = LastState(nrf)], queue, <<ClearStatus>>)
      [] Waits("send", "MAX_RT") ->
           Handle([nrf EXCEPT !.state = "MAX_RT", !.payload = None, !.size = 0],
                  queue, <<ClearStatus>>)
      [] OTHER ->
           bus' = Append(queue, ClearStatus) /\ UNCHANGED <<nrf, nrfPc, ce>>

\* SPI0_Handler has taken the transfer off the queue and makes the callback.
TransferDone ==
    /\ nrfPc = "thread" /\ bus # <<>> /\ Head(bus).done
    /\ CASE Head(bus).cb = "chain" -> Handle(nrf, Tail(bus), <<>>)
         [] Head(bus).cb = "status" -> handle_status(Tail(bus))
         [] Head(bus).cb = "none" ->
              bus' = Tail(bus) /\ UNCHANGED <<nrf, nrfPc, ce>>
    /\ LengthLeft
    /\ UNCHANGED <<seen, radio, did>>

-----------------------------------------------------------------------------
(* The radio, from how nrf.c uses it.  It acts on the air while CE is      *)
(* high.  IRQ is low while a bit of STATUS is set; its fall is latched.    *)

Raised(bit) ==
    [radio EXCEPT !.status = @ \cup {bit}, !.edge = @ \/ radio.status = {}]

\* A dynamic width may be out of range; of width 0 is a pipe that is not used.
Widths == IF radio.reg.DYNPD = {} THEN {radio.reg.RX_PW} \ {0}
          ELSE NrfTxSizes \cup {MaxPayload + 1}

RadioReceives ==
    /\ ce /\ radio.reg.CONFIG = [up |-> TRUE, rx |-> TRUE]
    /\ Len(radio.rx) < NrfFifo
    /\ \E width \in Widths :
          radio' = [Raised("RX_DR") EXCEPT !.rx = Append(@, width)]
    /\ UNCHANGED <<nrf, nrfPc, bus, seen, ce, did, held>>

\* The payload is acknowledged, or all retransmissions fail and it stays.
RadioSends ==
    /\ ce /\ radio.reg.CONFIG = [up |-> TRUE, rx |-> FALSE]
    /\ radio.tx # <<>> /\ "MAX_RT" \notin radio.status
    /\ \/ /\ radio' = [Raised("TX_DS") EXCEPT !.tx = Tail(@)]
          /\ did' = IF Head(radio.tx) = nrf.payload THEN "acked" ELSE "stray"
       \/ /\ radio' = Raised("MAX_RT")
          /\ did' = "failed"
    /\ UNCHANGED <<nrf, nrfPc, bus, seen, ce, held>>

\* A status transfer returns STATUS and clears what the last one returned:
\* from the second interrupt on even the one meant as a NOP.
WireStatus ==
    /\ seen' = radio.status
    /\ radio' = [radio EXCEPT !.status = @ \ seen]
    /\ UNCHANGED <<nrf, did>>

WireFifo(cmd, value) ==
    /\ radio' =
         CASE cmd = "TX_PAYLOAD"   -> [radio EXCEPT !.tx = Append(@, value)]
           [] cmd = "FLUSH_TX"     -> [radio EXCEPT !.tx = <<>>]
           [] cmd = "FLUSH_RX"     -> [radio EXCEPT !.rx = <<>>]
           [] cmd = "R_RX_PAYLOAD" -> [radio EXCEPT !.rx = SubSeq(@, 2, Len(@))]
           [] cmd = "R_RX_PL_WID"  -> radio
    /\ nrf' = IF cmd = "R_RX_PL_WID" /\ radio.rx # <<>>
              THEN [nrf EXCEPT !.size = Head(radio.rx)] ELSE nrf
    /\ did' = CASE cmd = "R_RX_PAYLOAD" /\ radio.rx # <<>>
                    /\ (nrf.dyn => Head(radio.rx) = nrf.size) -> "read"
                [] cmd = "FLUSH_RX" -> "flushed"
                [] OTHER -> did
    /\ UNCHANGED seen

FifoCommands ==
    {"TX_PAYLOAD", "FLUSH_TX", "FLUSH_RX", "R_RX_PAYLOAD", "R_RX_PL_WID"}

\* The radio carries out the transfer on the wire.
Wire ==
    /\ bus # <<>> /\ ~Head(bus).done
    /\ bus' = [bus EXCEPT ![1].done = TRUE]
    /\ LET t == Head(bus)
       IN CASE t.cmd = "STATUS" -> WireStatus
            [] t.cmd \in FifoCommands -> WireFifo(t.cmd, t.value)
            [] OTHER -> /\ radio' = [radio EXCEPT !.reg[t.cmd] = t.value]
                        /\ UNCHANGED <<nrf, seen, did>>
    /\ LengthLeft
    /\ UNCHANGED <<nrfPc, ce>>

-----------------------------------------------------------------------------
\* nrf_init, and the radio after power-on, which is what nrf_init counts on.
NrfInit ==
    \E rate \in NrfRates \ {Kbps250}, channel \in NrfChannels :
    /\ nrf = [way |-> "none", state |-> "USER_DATA", addr |-> None, size |-> 0,
              payload |-> None, dyn |-> FALSE, save |-> FALSE, rate |-> rate,
              channel |-> channel, ard |-> 0, dirty |-> {"addr"}]
    /\ nrfPc = "thread" /\ bus = <<>> /\ seen = {} /\ ce = FALSE
    /\ radio = [reg |-> [RF_SETUP |-> rate, RF_CH |-> channel, FEATURE |-> FALSE,
                         SETUP_RETR |-> 0, RX_PW |-> 0, DYNPD |-> {},
                        CONFIG |-> [up |-> FALSE, rx |-> FALSE],
                        RX_ADDR_P1 |-> None, TX_ADDR |-> None, RX_ADDR_P0 |-> None],
               status |-> {}, rx |-> <<>>, tx |-> <<>>, edge |-> FALSE]
    /\ did = "nothing"
    /\ held = {"width", "delay"}

NrfCalls ==
    \/ \E addr \in NrfRxAddrs, len \in NrfRxSizes : nrf_receive(addr, len)
    \/ \E addr \in NrfTxAddrs, data \in NrfPayloads, len \in NrfTxSizes :
          nrf_send(addr, data, len)
    \/ \E ch \in NrfChannels : nrf_set_channel(ch)
    \/ \E rate \in NrfRates : nrf_set_power_datarate(rate)
    \/ \E delay \in NrfDelays : nrf_set_autoretransmit(delay)
    \/ \E on \in NrfDyn : nrf_set_dynamic_payload(on)
    \/ \E on \in NrfSave : nrf_set_powersave(on)

NrfHandlers == nrf_interrupt \/ TransferDone \/ CallbackReturns

NrfNext == NrfCalls \/ NrfHandlers \/ Wire \/ RadioSends \/ RadioReceives

NrfSpec == NrfInit /\ [][NrfNext]_nrfVars

\* Handlers and the wire get on; the radio ends what it sends, and as long as
\* it listens packets come.
NrfFairness ==
    /\ WF_nrfVars(NrfHandlers) /\ WF_nrfVars(Wire)
    /\ WF_nrfVars(RadioSends \/ RadioReceives)

-----------------------------------------------------------------------------
(* Properties                                                              *)

OnAir == nrf.state = "WAITING" /\ ce

\* A send goes to the address it names, and its acknowledge is listened for
\* there; a receive listens on its own (nrf.h:76, nrf.h:84).  Exception: the
\* address is the last one used, and was given for the other way.
NrfRightAddress ==
    OnAir /\ nrf.way \in held =>
        IF nrf.way = "send"
        THEN radio.reg.TX_ADDR = nrf.addr /\ radio.reg.RX_ADDR_P0 = nrf.addr
        ELSE radio.reg.RX_ADDR_P1 = nrf.addr

\* Without dynamic payloads a receive is set up for its len (nrf.h:78).
\* Exception: the len is the last length seen, and not from a static receive.
NrfRightWidth ==
    OnAir /\ nrf.way = "recv" /\ ~nrf.dyn /\ "width" \in held
        => radio.reg.RX_PW = nrf.size

\* The slowest data rate is not used with the shortest delay (nrf.c:430).
\* Exception: that delay was asked for after the rate had been written.
NrfRetryDelay ==
    OnAir /\ radio.reg.RF_SETUP = Kbps250 /\ "delay" \in held
        => radio.reg.SETUP_RETR >= 1

\* When the radio is let loose it is set up as the program last asked, however
\* requests and settings alternated and whatever was not written again because
\* it was taken to be there already, with the three exceptions above.
NrfSetUp ==
    /\ NrfRightAddress /\ NrfRightWidth /\ NrfRetryDelay
    /\ OnAir =>
           /\ radio.reg.CONFIG = Config(nrf, TRUE)
           /\ radio.reg.RF_SETUP = nrf.rate /\ radio.reg.RF_CH = nrf.channel
           /\ radio.reg.SETUP_RETR = nrf.ard
           /\ radio.reg.FEATURE = nrf.dyn /\ radio.reg.DYNPD = Pipes(nrf)
           /\ nrf.way = "send" /\ "TX_DS" \notin radio.status
                => radio.tx = <<nrf.payload>>

\* user_cb is told what happened to this request on the air: a send succeeded
\* only if its own payload was acknowledged, and failed only if all retries
\* did, with length zero; a receive hands out a packet, of the length it says if
\* that is dynamic, or NULL and a length above 32.
NrfVerdict ==
    nrfPc # "thread" /\ Free =>
        IF nrf.way = "send"
        THEN IF nrf.payload # None THEN did = "acked"
             ELSE did = "failed" /\ nrf.size = 0
        ELSE IF nrf.payload # None THEN did = "read"
             ELSE did = "flushed" /\ nrf.size > MaxPayload

\* Every request ends with its callback: no interrupt of the radio is missed,
\* though its pin reports only the first of several events and the status is
\* cleared by a transfer queued behind others.  Exception: a receive whose len
\* the radio was not told, which may find the pipe switched off.
NrfEnds == []<>(Free \/ (nrf.way = "recv" /\ "width" \notin held))

\* NrfRightAddress of a send, with no exception (nrf.h:84, "Send "data" with
\* size "len" to a certain address "addr"").
SendsToAddress == OnAir /\ nrf.way = "send" => radio.reg.TX_ADDR = nrf.addr
=============================================================================
