----------------------------- MODULE UsbControl -----------------------------
(***************************************************************************)
(* The control endpoint of the USB device core, src/src/usb/usb.c, with    *)
(* the Kinetis back end src/src/soc/kinetis/usb.c, the controller between  *)
(* it and the bus, and a host that follows the control transfer protocol.  *)
(*                                                                         *)
(* A handler runs to completion (nothing preempts it that touches USB), so *)
(* everything the C code does for one interrupt is one function from a     *)
(* device state to the next.  The host's tokens interleave with handlers:  *)
(* the controller serves the buffer descriptors on its own and only holds  *)
(* tokens off between a SETUP and the handler's usb_enable_xfers.          *)
(*                                                                         *)
(* Packets are lengths: MaxPacket stands for EP0_BUFSIZE, and `at` is the  *)
(* position of a packet in its transfer.                                   *)
(***************************************************************************)
EXTENDS Naturals, Sequences, FiniteSets

CONSTANTS
    MaxPacket,      \* EP0_BUFSIZE
    Requests,       \* the requests hosts make
    FastRequests,   \* directions of requests whose tokens can outrun a handler
    LostAcks,       \* packets whose handshake can get lost
    HostGoesOn      \* whether a host goes on after a timeout without a bus reset

Directions == {"in", "out", "none"}
Kinds == {"std", "address", "config", "class", "unknown"}
Packets == {"data_in", "last_in", "data_out", "last_out",
            "status_in", "status_out"}

\* len is wLength and size the data the device has; copied replies go through
\* ep0_buf; ok is the verdict of the function's callback on its data.
\* No host asks for data of length zero: usb_handle_control_status would wait
\* for the wrong status stage.
ASSUME UsbAssumption ==
    /\ MaxPacket \in Nat \ {0, 1}
    /\ Requests \subseteq [kind : Kinds, dir : Directions, len : Nat,
                           size : Nat, copied : BOOLEAN, ok : BOOLEAN,
                           value : Nat]
    /\ \A r \in Requests :
          /\ r.dir = "none" <=> r.len = 0
          /\ r.kind \in {"address", "config"} => r.dir = "none"
          /\ r.kind = "std" => r.dir # "out"
          /\ r.kind = "class" => r.dir = "out"
          /\ r.dir = "in" /\ r.kind = "std" => r.size > 0
          /\ ~r.ok => r.kind = "class"
    /\ FastRequests \subseteq Directions
    /\ LostAcks \subseteq Packets
    /\ HostGoesOn \in BOOLEAN

VARIABLES
    dev,     \* usb, usbd_pipe_state of endpoint 0, and the descriptor table
    hw,      \* the controller's own state
    host     \* the host's side of the transfer in progress

vars == <<dev, hw, host>>

Smaller(m, n) == IF m < n THEN m ELSE n

-----------------------------------------------------------------------------
(* Buffer descriptors and pipes                                            *)

Elsewhere == 2      \* a data_buf that is neither half of ep0_buf
SetupLen == 1       \* a SETUP packet is shorter than EP0_BUFSIZE

Armed(pipe, len, at, buf) ==
    [own |-> TRUE, stall |-> FALSE, tog |-> pipe.tog, len |-> len,
     at |-> at, buf |-> buf]
Idle == [own |-> FALSE, stall |-> FALSE, tog |-> 0, len |-> 0,
         at |-> 0, buf |-> Elsewhere]
Stalled == [Idle EXCEPT !.own = TRUE, !.stall = TRUE]

\* The zeroed struct usbd_ep_pipe_state_t that usb_init_ep leaves.
FreshPipe == [pp |-> 0, tog |-> 0, size |-> 0, pos |-> 0, short |-> FALSE,
              buf |-> Elsewhere, cb |-> "none"]

usb_rx(d, buf, len, cb) ==
    [d EXCEPT !.rx = [@ EXCEPT !.size = len, !.pos = 0, !.buf = buf, !.cb = cb],
              !.rxbd[d.rx.pp] = Armed(d.rx, Smaller(len, MaxPacket), 0, buf)]

\* Ready for the next SETUP.
usb_setup_control(d) ==
    usb_rx([d EXCEPT !.rx.tog = 0, !.tx.tog = 1], d.rx.pp, MaxPacket, "control")

usb_handle_control_done(d) ==
    usb_setup_control(
        IF d.state = "setting" THEN [d EXCEPT !.state = "address",
                                              !.addr = d.address]
                               ELSE d)

\* Mutant: a transfer longer than a packet goes out in one piece.
ThisLen_unsplit(pipe) == pipe.size

ThisLen(pipe) == Smaller(pipe.size, MaxPacket)

\* Mutant: no zero length packet after a last packet that is full.
StaysShort_never(pipe) == FALSE

\* A short transfer needs a zero length packet unless a shorter one ends it.
StaysShort(pipe) ==
    pipe.short /\ pipe.size > 0 /\ ThisLen(pipe) = MaxPacket

\* Queue the next packet, or a zero length one to end a short transfer that
\* fills its last packet, or finish.
usb_tx_next(d) ==
    LET p == [d.tx EXCEPT !.tog = 1 - @]
        len == ThisLen(p)
    IN IF p.size > 0 \/ p.short
       THEN [d EXCEPT
               !.txbd[p.pp] = Armed(p, len, p.pos,
                                    IF p.size > 0 THEN p.buf ELSE Elsewhere),
               !.tx = [p EXCEPT !.pos = @ + len, !.size = @ - len,
                                !.short = StaysShort(p), !.pp = 1 - @]]
       ELSE IF p.cb = "done" THEN usb_handle_control_done([d EXCEPT !.tx = p])
            ELSE [d EXCEPT !.tx = p]

\* setup_tx and submit_tx, which flips the toggle for usb_tx_next to flip back.
usb_tx(d, buf, len, reqlen, cb) ==
    LET size == Smaller(len, reqlen)
    IN usb_tx_next(
         [d EXCEPT !.tx = [@ EXCEPT !.buf = buf, !.size = size, !.pos = 0,
                                    !.short = size < reqlen, !.cb = cb,
                                    !.tog = 1 - d.tx.tog]])

usb_ep0_tx_cp(d, len, reqlen, cb) == usb_tx(d, d.tx.pp, len, reqlen, cb)

-----------------------------------------------------------------------------
(* Control requests                                                        *)

Refuse(d) == [d EXCEPT !.rxbd[d.rx.pp] = Stalled, !.txbd[d.tx.pp] = Stalled]

\* usb_handle_control_status_cb with usb_handle_control_done.
StatusStage(d) ==
    IF d.ctrl_in
    THEN usb_rx([d EXCEPT !.rx.tog = 1], Elsewhere, 0, "done")
    ELSE usb_ep0_tx_cp([d EXCEPT !.tx.tog = 1], 0, 1, "done")

usb_handle_control_status(d, fail) ==
    IF fail THEN Refuse(d) ELSE StatusStage(d)

\* A request to an interface reaches a function once a configuration is set.
Accepts(config, r) ==
    CASE r.kind = "unknown" -> FALSE
      [] r.kind = "class" -> config # 0
      [] OTHER -> TRUE

\* Mutant: SET_ADDRESS takes effect before its status stage.
SetAddress_now(d, address) == [d EXCEPT !.addr = address]

SetAddress(d, address) == [d EXCEPT !.address = address, !.state = "setting"]

usb_handle_control(dd, r) ==
    LET d == [dd EXCEPT !.ctrl_in = (r.dir = "in")]
    IN IF ~Accepts(d.config, r) THEN usb_handle_control_status(d, TRUE)
       ELSE CASE r.kind = "class" ->
                   usb_rx(d, Elsewhere, r.len, "function")
              [] r.kind = "address" ->
                   usb_handle_control_status(SetAddress(d, r.value), FALSE)
              [] r.kind = "config" ->
                   usb_handle_control_status([d EXCEPT !.config = r.value], FALSE)
              [] r.kind = "std" /\ r.dir = "in" ->
                   usb_handle_control_status(
                       IF r.copied THEN usb_ep0_tx_cp(d, r.size, r.len, "none")
                       ELSE usb_tx(d, Elsewhere, r.size, r.len, "none"), FALSE)
              [] OTHER -> usb_handle_control_status(d, FALSE)

\* Mutant: the verdict of the function is dropped.
FunctionDone_deaf(d, r) ==
    usb_handle_control_status([d EXCEPT !.received = d.rx.pos], FALSE)

\* The function's callback on its data, dfu_dnload_complete for one.
FunctionDone(d, r) ==
    usb_handle_control_status([d EXCEPT !.received = d.rx.pos], ~r.ok)

\* Mutant: the packets of a transfer overwrite each other.
Taken_in_place(pipe, n) ==
    [pipe EXCEPT !.tog = 1 - @, !.size = @ - n, !.pp = 1 - @]

\* Mutant: the driver does not move to the other half.
Taken_one_half(pipe, n) ==
    [pipe EXCEPT !.tog = 1 - @, !.size = @ - n, !.pos = @ + n]

Taken(pipe, n) ==
    [pipe EXCEPT !.tog = 1 - @, !.size = @ - n, !.pos = @ + n, !.pp = 1 - @]

\* A packet was received: hand over the transfer when it is short or complete,
\* otherwise receive the next one.  r is what a SETUP packet holds.
usb_rx_next(d, r) ==
    LET n == d.rxbd[d.rx.pp].len
        p == Taken(d.rx, n)
        e == [d EXCEPT !.rx = p]
    IN IF n < MaxPacket \/ p.size = 0
       THEN CASE p.cb = "control" -> usb_handle_control(e, r)
              [] p.cb = "done" -> usb_handle_control_done(e)
              [] p.cb = "function" -> FunctionDone(e, r)
              [] OTHER -> e
       ELSE [e EXCEPT !.rxbd[p.pp] =
                         Armed(p, Smaller(p.size, MaxPacket), p.pos, p.buf)]

\* A SETUP that nothing waits for stalls the endpoint.
usb_handle_transaction(d, pid, r) ==
    CASE pid = "setup" /\ d.rx.cb # "control" -> usb_handle_control_status(d, TRUE)
      [] pid = "in" -> usb_tx_next(d)
      [] OTHER -> usb_rx_next(d, r)

\* usb_restart, from usb_reset: everything forgotten, the first SETUP awaited.
Restarted ==
    usb_setup_control(
        [rx |-> FreshPipe, tx |-> FreshPipe,
         rxbd |-> [i \in 0..1 |-> Idle], txbd |-> [i \in 0..1 |-> Idle],
         ctrl_in |-> FALSE, state |-> "default", address |-> 0, addr |-> 0,
         config |-> 0, received |-> 0])

-----------------------------------------------------------------------------
(* The controller.  rx and tx are the descriptors it uses next; they only  *)
(* advance when a packet is acknowledged.  statq is the STAT FIFO.         *)

FreshController ==
    [rx |-> 0, tx |-> 0, suspend |-> FALSE, statq |-> <<>>,
     stall |-> FALSE, reset |-> FALSE]

Quiet == hw.statq = <<>> /\ ~hw.stall /\ ~hw.reset

RxBd == dev.rxbd[hw.rx]
TxBd == dev.txbd[hw.tx]

RxDone(pid, len) ==
    /\ dev' = [dev EXCEPT !.rxbd[hw.rx] = [@ EXCEPT !.own = FALSE, !.len = len]]
    /\ hw' = [hw EXCEPT !.rx = 1 - @, !.suspend = (pid = "setup"),
                        !.statq = Append(@, pid)]

TxDone ==
    /\ dev' = [dev EXCEPT !.txbd[hw.tx].own = FALSE]
    /\ hw' = [hw EXCEPT !.tx = 1 - @, !.statq = Append(@, "in")]

Stalls == hw' = [hw EXCEPT !.stall = TRUE] /\ UNCHANGED dev

-----------------------------------------------------------------------------
(* The host                                                                *)

NoRequest == [kind |-> "std", dir |-> "none", len |-> 0, size |-> 0,
              copied |-> FALSE, ok |-> TRUE, value |-> 0]

\* intact, after and early are history: whether packets landed where they
\* belong, whether the request came after one that was stalled, and whether it
\* was stalled while a packet of its own waited for the handler.
FreshHost == [stage |-> "idle", req |-> NoRequest, tog |-> 0, done |-> 0,
              intact |-> TRUE, result |-> "none", addr |-> 0,
              after |-> FALSE, early |-> FALSE]

\* The device hears a token at its address, when the controller is not held up.
CanToken ==
    /\ ~hw.suspend /\ ~hw.reset
    /\ dev.addr = host.addr
    /\ Quiet \/ host.req.dir \in FastRequests

FirstStage(r) == CASE r.dir = "in" -> "data_in"
                   [] r.dir = "out" -> "data_out"
                   [] OTHER -> "status_in"

\* Hosts set a configuration once after each reset.
HostSetup(r) ==
    /\ host.stage \in {"idle"} \cup (IF HostGoesOn THEN {"given_up"} ELSE {})
    /\ CanToken /\ RxBd.own
    /\ r.kind = "config" => dev.config = 0
    /\ IF RxBd.stall
       THEN Stalls /\ UNCHANGED host
       ELSE /\ RxDone("setup", SetupLen)
            /\ host' = [host EXCEPT !.stage = FirstStage(r), !.req = r, !.tog = 1,
                                    !.done = 0, !.intact = TRUE,
                                    !.result = "none", !.early = FALSE,
                                    !.after = (host.result = "stall")]

HostRefused ==
    /\ host' = [host EXCEPT !.stage = "idle", !.result = "stall",
                            !.early = (hw.statq # <<>>)]
    /\ Stalls

\* The status stage of the request succeeded.
Succeeded ==
    [host EXCEPT !.stage = "idle", !.result = "ok",
                 !.addr = IF host.req.kind = "address" THEN host.req.value ELSE @]

\* The host after a data packet in: it drops one whose toggle it has seen.
Received ==
    LET done == host.done + TxBd.len
    IN IF TxBd.tog # host.tog THEN host
       ELSE [host EXCEPT
               !.tog = 1 - @, !.done = done,
               !.intact = @ /\ TxBd.at = host.done,
               !.stage = IF TxBd.len < MaxPacket \/ done = host.req.len
                         THEN "status_out" ELSE @]

HostIn ==
    /\ host.stage \in {"data_in", "status_in"} /\ CanToken /\ TxBd.own
    /\ \/ TxBd.stall /\ HostRefused
       \/ /\ ~TxBd.stall
          /\ LET after == IF host.stage = "data_in" THEN Received
                          ELSE IF TxBd.tog = 1 THEN Succeeded ELSE host
                 packet == IF after.stage = "status_out" THEN "last_in"
                           ELSE host.stage
             IN /\ host' = after
                /\ \/ TxDone
                   \/ packet \in LostAcks /\ UNCHANGED <<dev, hw>>

\* The host after a packet out was acknowledged.
Sent(len) ==
    IF host.stage = "status_out" THEN Succeeded
    ELSE [host EXCEPT !.tog = 1 - @, !.done = @ + len,
                      !.stage = IF host.done + len = host.req.len
                                THEN "status_in" ELSE @]

HostOut ==
    /\ host.stage \in {"data_out", "status_out"} /\ CanToken /\ RxBd.own
    /\ LET len == IF host.stage = "status_out" THEN 0
                  ELSE Smaller(host.req.len - host.done, MaxPacket)
           tog == IF host.stage = "status_out" THEN 1 ELSE host.tog
           packet == IF Sent(len).stage = "status_in" THEN "last_out"
                     ELSE host.stage
       IN \/ RxBd.stall /\ HostRefused
          \/ /\ ~RxBd.stall /\ RxBd.tog # tog     \* a packet it already has
             /\ host' = Sent(len)
             /\ UNCHANGED <<dev, hw>>
          \/ /\ ~RxBd.stall /\ RxBd.tog = tog
             /\ RxDone("out", len)
             /\ LET placed == host.intact /\ (len > 0 => RxBd.at = host.done)
                IN \/ host' = [Sent(len) EXCEPT !.intact = placed]
                   \/ /\ packet \in LostAcks
                      /\ host' = [host EXCEPT !.intact = placed]

\* A transfer times out at the host.
HostAbandons ==
    /\ host.stage \notin {"idle", "given_up"} /\ Quiet
    /\ host' = [host EXCEPT !.stage = "given_up"]
    /\ UNCHANGED <<dev, hw>>

BusReset ==
    /\ host' = FreshHost
    /\ hw' = [hw EXCEPT !.reset = TRUE]
    /\ UNCHANGED dev

-----------------------------------------------------------------------------
(* USB0_Handler: a bus reset alone, or a stall and then one transaction.   *)

\* Mutant: nobody clears a stall.
Unstalled_never(d) == d

Unstalled(d) ==
    IF hw.stall /\ d.rxbd[d.rx.pp].stall THEN usb_setup_control(d) ELSE d

USB0_Handler ==
    /\ ~Quiet
    /\ IF hw.reset
       THEN dev' = Restarted /\ hw' = FreshController
       ELSE IF hw.statq = <<>>
       THEN dev' = Unstalled(dev) /\ hw' = [hw EXCEPT !.stall = FALSE]
       ELSE LET pid == Head(hw.statq)
            IN /\ dev' = usb_handle_transaction(Unstalled(dev), pid, host.req)
               /\ hw' = [hw EXCEPT !.stall = FALSE, !.statq = Tail(@),
                                   !.suspend = @ /\ pid # "setup"]
    /\ UNCHANGED host

\* usb_init runs usb_reset before it enables the interrupt.
Init ==
    /\ dev = Restarted
    /\ hw = FreshController
    /\ host = FreshHost

Next ==
    \/ \E r \in Requests : HostSetup(r)
    \/ HostIn
    \/ HostOut
    \/ HostAbandons
    \/ BusReset
    \/ USB0_Handler

Spec == Init /\ [][Next]_vars

\* The interrupt is served and a host carries on with a transfer it began.
Fairness == WF_vars(USB0_Handler) /\ WF_vars(HostIn \/ HostOut)
FairSpec == Spec /\ Fairness

-----------------------------------------------------------------------------
(* Properties                                                              *)

BdType == [own : BOOLEAN, stall : BOOLEAN, tog : 0..1, len : 0..MaxPacket,
           at : Nat, buf : 0..Elsewhere]
PipeType == [pp : 0..1, tog : 0..1, size : Nat, pos : Nat, short : BOOLEAN,
             buf : 0..Elsewhere, cb : {"none", "control", "done", "function"}]

Devices == [rx : PipeType, tx : PipeType, rxbd : [0..1 -> BdType],
            txbd : [0..1 -> BdType], ctrl_in : BOOLEAN,
            state : {"default", "setting", "address"}, address : Nat,
            addr : Nat, config : Nat, received : Nat]
Controllers == [rx : 0..1, tx : 0..1, suspend : BOOLEAN,
                statq : Seq({"setup", "in", "out"}), stall : BOOLEAN,
                reset : BOOLEAN]
Hosts == [stage : {"idle", "given_up", "data_in", "data_out", "status_in",
                   "status_out"},
          req : Requests \cup {NoRequest}, tog : 0..1, done : Nat,
          intact : BOOLEAN, result : {"none", "ok", "stall"}, addr : Nat,
          after : BOOLEAN, early : BOOLEAN]

\* The type invariant.
TypeOK == dev \in Devices /\ hw \in Controllers /\ host \in Hosts

\* The host met a STALL before the device knew what to answer, the one that
\* the refusal of the request before had left in the send descriptor.
StaleStall == host.early /\ host.after /\ host.req.dir = "out"

\* Whenever the host is between transfers and the device has served its
\* interrupts, the next SETUP finds a descriptor that takes it, whatever became
\* of the last request, unless a stale STALL ended it.
SetupTakes == RxBd.own /\ ~RxBd.stall /\ RxBd.tog = 0 /\ dev.rx.cb = "control"
SetupGetsThrough == Quiet /\ host.stage = "idle" => SetupTakes \/ StaleStall

\* What the comment on control transfers asks for, with no exception (usb.c:415,
\* "clear the STALL after that so that the next SETUP can make it through").
StallIsCleared == Quiet /\ host.stage = "idle" => SetupTakes

\* The driver's idea of the next descriptor (pingpong, flipped in software
\* only) is the controller's: no completion is attributed to the wrong half
\* ("XXX pass usb_stat to validate pingpong").
PingPongAgrees ==
    LET received == {i \in 1..Len(hw.statq) : hw.statq[i] # "in"}
    IN ~hw.reset =>
       /\ dev.rx.pp = (hw.rx + Cardinality(received)) % 2
       /\ dev.tx.pp = (hw.tx + (IF TxBd.own /\ ~TxBd.stall THEN 1 ELSE 0)) % 2

\* A refusal is where the controller looks: when the driver has stalled its
\* next descriptor, the controller's next one is stalled (usb.c:549, "If we
\* receive a SETUP transaction, but don't expect it [...], stall the EP").
StallTakesEffect == Quiet /\ dev.rxbd[dev.rx.pp].stall => RxBd.stall

\* A transfer arrives whole and in order: packets land where they belong, the
\* host gets exactly the data it asked for or all there is, and the function
\* gets all the host sent before the status stage ends well.
DataIntact ==
    /\ host.intact
    /\ host.stage = "status_out" =>
          host.done = Smaller(host.req.len, host.req.size)
    /\ host.result = "ok" /\ host.req.dir = "out" => dev.received = host.req.len

\* The device changes its address after the status stage of SET_ADDRESS and
\* not before: while no interrupt is due it listens where the host calls it.
AddressAgrees == Quiet => dev.addr = host.addr

\* The host sees a STALL exactly for the requests the device refuses, but for
\* the one case of a stale STALL: it only meets requests that send data to the
\* device and come right after a refused one.
Refused(r) == r.kind = "unknown" \/ ~r.ok \/ (r.kind = "class" /\ dev.config = 0)
VerdictAgrees ==
    /\ host.result = "stall" => Refused(host.req) \/ StaleStall
    /\ host.result = "ok" => ~Refused(host.req)

\* Every control transfer ends: no side waits for the other for good.
RequestEnds == []<>(host.stage \in {"idle", "given_up"})
=============================================================================
