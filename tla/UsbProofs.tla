------------------------------ MODULE UsbProofs ------------------------------
(***************************************************************************)
(* The control endpoint keeps its promises, for packets and requests of    *)
(* any size: transfers are intact, refusals and the address are seen by    *)
(* the host as they are meant, and the next SETUP gets through.  The one   *)
(* exception, a stale STALL, is in the properties and a phase of its own.  *)
(***************************************************************************)
EXTENDS UsbControl, FiniteSetTheorems, SequenceTheorems, TLAPS

\* Hosts that stay within what the driver can serve: one that gives a transfer
\* up resets the bus, and the handshakes that end a stage arrive.
Civil ==
    /\ ~HostGoesOn
    /\ LostAcks \subseteq {"data_in", "data_out", "status_out"}

-----------------------------------------------------------------------------
(* Descriptors and pipes                                                   *)

\* The controller is about to use the receive descriptor the driver filled.
RxArmed(cb, tog) ==
    /\ dev.rx.pp = hw.rx /\ dev.rx.cb = cb /\ dev.rx.tog = tog
    /\ RxBd.own /\ ~RxBd.stall /\ RxBd.tog = tog
    /\ ~dev.rxbd[1 - hw.rx].own

\* A packet of length len was received, and the handler does not know yet.
RxTaken(cb, len) ==
    /\ dev.rx.pp = 1 - hw.rx /\ dev.rx.cb = cb
    /\ ~RxBd.own /\ ~dev.rxbd[1 - hw.rx].own /\ ~dev.rxbd[1 - hw.rx].stall
    /\ dev.rxbd[1 - hw.rx].len = len

RxFree == dev.rx.pp = hw.rx /\ ~RxBd.own /\ ~dev.rxbd[1 - hw.rx].own

TxArmed ==
    /\ dev.tx.pp = 1 - hw.tx
    /\ TxBd.own /\ ~TxBd.stall /\ TxBd.tog = dev.tx.tog
    /\ ~dev.txbd[1 - hw.tx].own

\* Nothing is to be sent; a stall may have been left behind.
TxIdle ==
    /\ dev.tx.pp = hw.tx /\ ~dev.txbd[1 - hw.tx].own
    /\ TxBd.own => TxBd.stall

TxFree == TxIdle /\ ~TxBd.own

Undisturbed == ~hw.stall /\ ~hw.suspend /\ ~hw.reset

\* The device listens where the host calls, and is to stay there.
SettledAddress == dev.state # "setting" /\ dev.addr = host.addr

-----------------------------------------------------------------------------
(* The phases of a control transfer                                        *)

AwaitsSetup ==
    /\ dev.rx.size = MaxPacket
    /\ dev.tx.tog = 1 /\ TxIdle
    /\ SettledAddress

\* The next SETUP can come; the host may have missed the handshake of the
\* status stage.
Ready ==
    /\ hw.statq = <<>> /\ Undisturbed
    /\ AwaitsSetup /\ RxArmed("control", 0)
    /\ TxBd.own => host.result = "stall"
    /\ \/ host.stage = "idle"
       \/ host.stage = "status_out" /\ host.req \in Requests
          /\ host.req.dir = "in" /\ host.req.kind = "std"

SetupTaken ==
    /\ hw.statq = <<"setup">> /\ hw.suspend /\ ~hw.stall /\ ~hw.reset
    /\ AwaitsSetup /\ RxTaken("control", SetupLen) /\ dev.rx.tog = 0
    /\ TxBd.own => host.after
    /\ host.req \in Requests /\ host.stage = FirstStage(host.req)
    /\ host.tog = 1 /\ host.done = 0

Refusing ==
    /\ hw.statq = <<>> /\ ~hw.suspend /\ ~hw.reset
    /\ dev.rx.pp = hw.rx /\ ~dev.rxbd[1 - hw.rx].own
    /\ RxBd.own /\ RxBd.stall
    /\ TxIdle /\ TxBd.own
    /\ SettledAddress /\ Refused(host.req)
    /\ \/ host.stage \in {"data_in", "data_out", "status_in"} /\ ~hw.stall
       \/ /\ host.stage = "idle" /\ host.result = "stall"
          /\ hw.stall \/ StaleStall

\* Data to the host.
ToHost ==
    /\ Undisturbed /\ SettledAddress
    /\ host.req \in Requests /\ host.req.dir = "in" /\ host.req.kind = "std"
    /\ dev.tx.cb = "none" /\ dev.rx.size = 0
    /\ dev.tx.pos + dev.tx.size = Smaller(host.req.size, host.req.len)

\* All packets but the last are full, and are followed by one more.
PacketMatches(len) ==
    /\ len < MaxPacket => dev.tx.size = 0 /\ ~dev.tx.short
    /\ len = MaxPacket => (dev.tx.short <=> host.req.size < host.req.len)

DataIn ==
    /\ ToHost /\ host.stage = "data_in" /\ RxArmed("done", 1)
    /\ \/ /\ hw.statq = <<>> /\ TxArmed
          /\ TxBd.at + TxBd.len = dev.tx.pos /\ PacketMatches(TxBd.len)
          /\ \/ host.tog = TxBd.tog /\ host.done = TxBd.at
             \/ /\ host.tog # TxBd.tog /\ host.done = dev.tx.pos
                /\ TxBd.len = MaxPacket /\ dev.tx.pos # host.req.len
       \/ /\ hw.statq = <<"in">> /\ TxFree
          /\ host.tog # dev.tx.tog /\ host.done = dev.tx.pos
          /\ PacketMatches(MaxPacket) /\ dev.tx.pos # host.req.len

AllSent == dev.tx.size = 0 /\ ~dev.tx.short /\ TxFree

StatusOut ==
    /\ ToHost /\ host.stage = "status_out" /\ AllSent
    /\ RxArmed("done", 1) /\ hw.statq \in {<<>>, <<"in">>}

StatusOutTaken ==
    /\ ToHost /\ host.stage \in {"idle", "status_out"} /\ AllSent
    /\ RxTaken("done", 0) /\ hw.statq \in {<<"out">>, <<"in", "out">>}

\* Data to the device.
DataOut ==
    /\ Undisturbed /\ SettledAddress /\ TxIdle /\ (TxBd.own => host.after)
    /\ host.req \in Requests /\ host.req.kind = "class" /\ dev.config # 0
    /\ ~dev.ctrl_in
    /\ dev.rx.size > 0 /\ dev.rx.pos + dev.rx.size = host.req.len
    /\ LET n == Smaller(dev.rx.size, MaxPacket)
       IN \/ /\ hw.statq = <<>> /\ RxArmed("function", dev.rx.tog)
             /\ RxBd.at = dev.rx.pos /\ host.stage = "data_out"
             /\ \/ host.tog = dev.rx.tog /\ host.done = dev.rx.pos
                \/ host.tog # dev.rx.tog /\ host.done + MaxPacket = dev.rx.pos
          \/ /\ hw.statq = <<"out">> /\ RxTaken("function", n)
             /\ \/ /\ host.tog # dev.rx.tog /\ host.done = dev.rx.pos + n
                   /\ host.stage = IF n = dev.rx.size THEN "status_in" ELSE "data_out"
                \/ /\ host.tog = dev.rx.tog /\ host.done = dev.rx.pos
                   /\ host.stage = "data_out" /\ n < dev.rx.size

\* The token of the status stage met a stale STALL before the device knew of
\* the last packet,
MetStall ==
    /\ hw.statq = <<"out">> /\ hw.stall /\ ~hw.suspend /\ ~hw.reset
    /\ SettledAddress /\ TxIdle
    /\ host.req \in Requests /\ host.req.kind = "class" /\ dev.config # 0
    /\ host.stage = "idle" /\ host.result = "stall" /\ StaleStall
    /\ ~dev.ctrl_in
    /\ dev.rx.size > 0 /\ dev.rx.size <= MaxPacket
    /\ RxTaken("function", dev.rx.size)

\* and then the device waits for the token again, and for no SETUP.
Misled ==
    /\ hw.statq = <<>> /\ Undisturbed /\ SettledAddress
    /\ host.stage = "idle" /\ host.result = "stall" /\ StaleStall
    /\ RxFree /\ TxArmed

\* The status stage of transfers without data and of those to the device.
ToStatus ==
    /\ Undisturbed /\ RxFree
    /\ host.req \in Requests /\ host.req.dir # "in" /\ ~Refused(host.req)
    /\ host.req.dir = "out" => dev.received = host.req.len
    /\ dev.tx.cb = "done" /\ dev.tx.size = 0 /\ ~dev.tx.short
    /\ dev.state = "setting" <=> host.req.kind = "address"
    /\ dev.state = "setting" => dev.address = host.req.value

StatusIn ==
    /\ ToStatus /\ host.stage = "status_in" /\ hw.statq = <<>>
    /\ TxArmed /\ TxBd.tog = 1 /\ dev.addr = host.addr

StatusInTaken ==
    /\ ToStatus /\ host.stage = "idle" /\ hw.statq = <<"in">> /\ TxFree
    /\ host.addr = IF dev.state = "setting" THEN dev.address ELSE dev.addr

\* The host waits for nothing but a reset.
GivenUp ==
    /\ hw.statq = <<>> /\ ~hw.stall /\ host.stage = "given_up"
    /\ dev.rx.pp = hw.rx /\ (TxArmed \/ TxIdle)
    /\ dev.addr = host.addr

Phases ==
    \/ Ready \/ SetupTaken \/ Refusing
    \/ DataIn \/ StatusOut \/ StatusOutTaken
    \/ DataOut \/ MetStall \/ Misled
    \/ StatusIn \/ StatusInTaken
    \/ GivenUp

UsbInv ==
    /\ TypeOK /\ DataIntact /\ VerdictAgrees
    /\ host.stage # "idle" => host.result = "none"
    /\ IF hw.reset THEN host = FreshHost ELSE Phases

-----------------------------------------------------------------------------
(* What the functions of usb.c return                                      *)

Callbacks == {"none", "control", "done", "function"}

LEMMA PacketSize ==
    /\ MaxPacket \in Nat /\ MaxPacket > 1
    /\ \A n \in Nat : /\ Smaller(n, MaxPacket) \in 0..MaxPacket
                       /\ Smaller(n, MaxPacket) <= n
                       /\ n - Smaller(n, MaxPacket) \in Nat
  BY UsbAssumption DEF UsbAssumption, Smaller

\* What only requests and the status stage change.
Rest(d) == <<d.ctrl_in, d.state, d.address, d.addr, d.config, d.received>>

LEMMA ArmedFacts ==
    ASSUME NEW pipe \in PipeType, NEW len \in 0..MaxPacket, NEW at \in Nat,
           NEW buf \in 0..Elsewhere
    PROVE  LET bd == Armed(pipe, len, at, buf)
           IN /\ bd \in BdType /\ bd.own /\ ~bd.stall
              /\ bd.tog = pipe.tog /\ bd.len = len /\ bd.at = at
  BY DEF Armed, BdType, PipeType

\* e is d with a transfer to be received.
Receives(e, d, len, cb, tog) ==
    /\ e \in Devices
    /\ e.rx.pp = d.rx.pp /\ e.rx.tog = tog /\ e.rx.cb = cb
    /\ e.rx.size = len /\ e.rx.pos = 0
    /\ e.rxbd[d.rx.pp].own /\ ~e.rxbd[d.rx.pp].stall
    /\ e.rxbd[d.rx.pp].tog = tog /\ e.rxbd[d.rx.pp].at = 0
    /\ e.rxbd[1 - d.rx.pp] = d.rxbd[1 - d.rx.pp]
    /\ e.txbd = d.txbd

LEMMA RxFacts ==
    ASSUME NEW d \in Devices, NEW buf \in 0..Elsewhere, NEW len \in Nat,
           NEW cb \in Callbacks
    PROVE  LET e == usb_rx(d, buf, len, cb)
           IN Receives(e, d, len, cb, d.rx.tog) /\ Rest(e) = Rest(d) /\ e.tx = d.tx
<1> DEFINE bd == Armed(d.rx, Smaller(len, MaxPacket), 0, buf)
           p == [d.rx EXCEPT !.size = len, !.pos = 0, !.buf = buf, !.cb = cb]
           e == [d EXCEPT !.rx = p, !.rxbd[d.rx.pp] = bd]
<1>1. d.rx \in PipeType /\ d.rx.pp \in 0..1 /\ d.rxbd \in [0..1 -> BdType]
  BY DEF Devices, PipeType
<1>2. Smaller(len, MaxPacket) \in 0..MaxPacket
  BY PacketSize
<1>3. bd \in BdType /\ bd.own /\ ~bd.stall /\ bd.tog = d.rx.tog /\ bd.at = 0
  BY <1>1, <1>2, ArmedFacts
<1> HIDE DEF bd
<1>4. /\ p \in PipeType /\ p.pp = d.rx.pp /\ p.tog = d.rx.tog /\ p.cb = cb
      /\ p.size = len /\ p.pos = 0
  BY <1>1 DEF PipeType, Callbacks
<1> HIDE DEF p
<1>5. /\ [d.rxbd EXCEPT ![d.rx.pp] = bd] \in [0..1 -> BdType]
      /\ [d.rxbd EXCEPT ![d.rx.pp] = bd][d.rx.pp] = bd
      /\ [d.rxbd EXCEPT ![d.rx.pp] = bd][1 - d.rx.pp] = d.rxbd[1 - d.rx.pp]
  BY <1>1, <1>3
<1>6. /\ e.rx = p /\ e.rxbd = [d.rxbd EXCEPT ![d.rx.pp] = bd]
      /\ e.tx = d.tx /\ e.txbd = d.txbd /\ Rest(e) = Rest(d)
  BY <1>1 DEF Devices, Rest
<1>7. e \in Devices
  BY <1>4, <1>5 DEF Devices
<1>8. usb_rx(d, buf, len, cb) = e
  BY DEF usb_rx, bd, p
<1> HIDE DEF e
<1> QED
  BY <1>3, <1>4, <1>5, <1>6, <1>7, <1>8 DEF Receives

LEMMA SetupControlFacts ==
    ASSUME NEW d \in Devices
    PROVE  LET e == usb_setup_control(d)
           IN /\ Receives(e, d, MaxPacket, "control", 0)
              /\ Rest(e) = Rest(d) /\ e.tx.pp = d.tx.pp /\ e.tx.tog = 1
<1> DEFINE f == [d EXCEPT !.rx.tog = 0, !.tx.tog = 1]
<1>1. /\ f \in Devices /\ Rest(f) = Rest(d) /\ f.rxbd = d.rxbd /\ f.txbd = d.txbd
      /\ f.tx.pp = d.tx.pp /\ f.tx.tog = 1 /\ f.rx.pp = d.rx.pp /\ f.rx.tog = 0
  <2> DEFINE p == [d.rx EXCEPT !.tog = 0]
             q == [d.tx EXCEPT !.tog = 1]
  <2>1. d.rx \in PipeType /\ d.tx \in PipeType
    BY DEF Devices
  <2>2. /\ p \in PipeType /\ p.pp = d.rx.pp /\ p.tog = 0
        /\ q \in PipeType /\ q.pp = d.tx.pp /\ q.tog = 1
    BY <2>1 DEF PipeType
  <2>3. f = [d EXCEPT !.rx = p, !.tx = q]
    BY DEF Devices
  <2> HIDE DEF p, q, f
  <2>4. /\ f.rx = p /\ f.tx = q /\ f.rxbd = d.rxbd /\ f.txbd = d.txbd
        /\ Rest(f) = Rest(d)
    BY <2>3 DEF Devices, Rest
  <2>5. f \in Devices
    BY <2>2, <2>3 DEF Devices
  <2> QED
    BY <2>2, <2>4, <2>5
<1>2. d.rx.pp \in 0..Elsewhere /\ MaxPacket \in Nat /\ "control" \in Callbacks
  BY PacketSize DEF Devices, PipeType, Elsewhere, Callbacks
<1> HIDE DEF f
<1>3. usb_setup_control(d) = usb_rx(f, d.rx.pp, MaxPacket, "control")
  BY DEF usb_setup_control, f
<1> DEFINE e == usb_rx(f, d.rx.pp, MaxPacket, "control")
<1>4. Receives(e, f, MaxPacket, "control", 0) /\ Rest(e) = Rest(f) /\ e.tx = f.tx
  BY <1>1, <1>2, RxFacts
<1> HIDE DEF e
<1> QED
  BY <1>1, <1>3, <1>4 DEF e, Receives

LEMMA ControlDoneFacts ==
    ASSUME NEW d \in Devices
    PROVE  LET e == usb_handle_control_done(d)
           IN /\ Receives(e, d, MaxPacket, "control", 0)
              /\ e.state = IF d.state = "setting" THEN "address" ELSE d.state
              /\ e.addr = IF d.state = "setting" THEN d.address ELSE d.addr
              /\ e.config = d.config /\ e.received = d.received
              /\ e.tx.pp = d.tx.pp /\ e.tx.tog = 1
<1> DEFINE f == IF d.state = "setting"
                THEN [d EXCEPT !.state = "address", !.addr = d.address] ELSE d
<1>1. /\ f \in Devices
      /\ f.state = IF d.state = "setting" THEN "address" ELSE d.state
      /\ f.addr = IF d.state = "setting" THEN d.address ELSE d.addr
      /\ f.config = d.config /\ f.received = d.received
      /\ f.rx = d.rx /\ f.tx = d.tx /\ f.rxbd = d.rxbd /\ f.txbd = d.txbd
  BY DEF Devices
<1> HIDE DEF f
<1>2. usb_handle_control_done(d) = usb_setup_control(f)
  BY DEF usb_handle_control_done, f
<1> QED
  BY <1>1, <1>2, SetupControlFacts DEF Rest, Receives

\* The next packet, of a transfer that goes on.
LEMMA TxMore ==
    ASSUME NEW d \in Devices, d.tx.size > 0 \/ d.tx.short
    PROVE  LET e == usb_tx_next(d)
               len == Smaller(d.tx.size, MaxPacket)
               bd == e.txbd[d.tx.pp]
           IN /\ e \in Devices /\ Rest(e) = Rest(d)
              /\ e.rx = d.rx /\ e.rxbd = d.rxbd
              /\ e.tx.pp = 1 - d.tx.pp /\ e.tx.tog = 1 - d.tx.tog
              /\ e.tx.cb = d.tx.cb
              /\ e.tx.pos = d.tx.pos + len /\ e.tx.size = d.tx.size - len
              /\ e.tx.short = (d.tx.short /\ d.tx.size > 0 /\ len = MaxPacket)
              /\ bd.own /\ ~bd.stall /\ bd.tog = 1 - d.tx.tog
              /\ bd.len = len /\ bd.at = d.tx.pos
              /\ e.txbd[1 - d.tx.pp] = d.txbd[1 - d.tx.pp]
<1> DEFINE p == [d.tx EXCEPT !.tog = 1 - @]
           len == Smaller(d.tx.size, MaxPacket)
           buf == IF p.size > 0 THEN p.buf ELSE Elsewhere
           bd == Armed(p, len, p.pos, buf)
           short == StaysShort(p)
           q == [p EXCEPT !.pos = @ + len, !.size = @ - len, !.short = short,
                          !.pp = 1 - @]
           e == [d EXCEPT !.txbd[p.pp] = bd, !.tx = q]
<1>1. d.tx \in PipeType /\ d.tx.pp \in 0..1 /\ d.txbd \in [0..1 -> BdType]
  BY DEF Devices, PipeType
<1>2. /\ p \in PipeType /\ p.tog = 1 - d.tx.tog /\ p.pp = d.tx.pp /\ p.cb = d.tx.cb
      /\ p.size = d.tx.size /\ p.pos = d.tx.pos /\ p.short = d.tx.short
  BY <1>1 DEF PipeType
<1>3. len \in 0..MaxPacket /\ d.tx.size - len \in Nat
  BY <1>1, PacketSize DEF PipeType
<1>4. buf \in 0..Elsewhere
  BY <1>2 DEF PipeType, Elsewhere
<1>5. short \in BOOLEAN /\ short = (d.tx.short /\ d.tx.size > 0 /\ len = MaxPacket)
  BY <1>2 DEF StaysShort, ThisLen, PipeType
<1>6. usb_tx_next(d) = e
  BY <1>2 DEF usb_tx_next, ThisLen
<1> HIDE DEF p, buf, short
<1>7. /\ bd \in BdType /\ bd.own /\ ~bd.stall /\ bd.tog = 1 - d.tx.tog
      /\ bd.len = len /\ bd.at = d.tx.pos
  BY <1>2, <1>3, <1>4, ArmedFacts DEF PipeType
<1> HIDE DEF bd
<1>8. /\ q \in PipeType /\ q.pp = 1 - d.tx.pp /\ q.tog = 1 - d.tx.tog
      /\ q.cb = d.tx.cb /\ q.pos = d.tx.pos + len /\ q.size = d.tx.size - len
      /\ q.short = short
  <2>1. /\ p.pos + len \in Nat /\ p.size - len \in Nat /\ 1 - p.pp \in 0..1
        /\ short \in BOOLEAN
    BY <1>2, <1>3, <1>5 DEF PipeType
  <2>2. q = [p EXCEPT !.pos = p.pos + len, !.size = p.size - len,
                      !.short = short, !.pp = 1 - p.pp]
    BY <1>2 DEF PipeType
  <2> HIDE DEF q
  <2>3. q \in PipeType
    BY <1>2, <2>1, <2>2 DEF PipeType
  <2>4. /\ q.pp = 1 - p.pp /\ q.tog = p.tog /\ q.cb = p.cb
        /\ q.pos = p.pos + len /\ q.size = p.size - len
    BY <1>2, <2>2 DEF PipeType
  <2>5. q.short = short
    BY <1>2, <2>2 DEF PipeType
  <2> QED
    BY <1>2, <2>3, <2>4, <2>5
<1> HIDE DEF q, len
<1>9. /\ e.tx = q /\ e.txbd = [d.txbd EXCEPT ![d.tx.pp] = bd]
      /\ e.rx = d.rx /\ e.rxbd = d.rxbd /\ Rest(e) = Rest(d)
  BY <1>2 DEF Devices, Rest
<1> HIDE DEF e
<1>10. /\ e.txbd \in [0..1 -> BdType] /\ e.txbd[d.tx.pp] = bd
       /\ e.txbd[1 - d.tx.pp] = d.txbd[1 - d.tx.pp]
  BY <1>1, <1>7, <1>9
<1>11. e \in Devices
  <2>1. e = [d EXCEPT !.txbd = [d.txbd EXCEPT ![d.tx.pp] = bd], !.tx = q]
    BY <1>2 DEF e, Devices
  <2> QED
    BY <1>8, <1>9, <1>10, <2>1 DEF Devices
<1> QED
  BY <1>5, <1>6, <1>7, <1>8, <1>9, <1>10, <1>11 DEF len

\* Nothing left to send.
LEMMA TxEnd ==
    ASSUME NEW d \in Devices, d.tx.size = 0, ~d.tx.short
    PROVE  \E f \in Devices :
              /\ f.tx.pp = d.tx.pp /\ f.tx.size = 0 /\ ~f.tx.short /\ f.tx.cb = d.tx.cb
              /\ f.rx = d.rx /\ f.rxbd = d.rxbd /\ f.txbd = d.txbd
              /\ Rest(f) = Rest(d) /\ f.tx.pos = d.tx.pos
              /\ usb_tx_next(d) = IF d.tx.cb = "done" THEN usb_handle_control_done(f)
                                  ELSE f
<1> DEFINE p == [d.tx EXCEPT !.tog = 1 - @]
           f == [d EXCEPT !.tx = p]
<1>1. d.tx \in PipeType
  BY DEF Devices
<1>2. /\ p \in PipeType /\ p.pp = d.tx.pp /\ p.cb = d.tx.cb
      /\ p.size = 0 /\ ~p.short /\ p.pos = d.tx.pos
  BY <1>1 DEF PipeType
<1>3. usb_tx_next(d) = IF d.tx.cb = "done" THEN usb_handle_control_done(f) ELSE f
  BY <1>2 DEF usb_tx_next
<1> HIDE DEF p
<1>4. /\ f \in Devices /\ f.tx = p /\ f.rx = d.rx /\ f.rxbd = d.rxbd
      /\ f.txbd = d.txbd /\ Rest(f) = Rest(d)
  BY <1>2 DEF Devices, Rest
<1> HIDE DEF f
<1> QED
  BY <1>2, <1>3, <1>4

\* e is d with a packet queued.
Sends(e, d, len, at, tog) ==
    /\ e \in Devices /\ Rest(e) = Rest(d) /\ e.rx = d.rx /\ e.rxbd = d.rxbd
    /\ e.tx.pp = 1 - d.tx.pp /\ e.tx.tog = tog
    /\ e.txbd[d.tx.pp].own /\ ~e.txbd[d.tx.pp].stall
    /\ e.txbd[d.tx.pp].tog = tog
    /\ e.txbd[d.tx.pp].len = len /\ e.txbd[d.tx.pp].at = at
    /\ e.txbd[1 - d.tx.pp] = d.txbd[1 - d.tx.pp]

\* A transfer of which the host asked for reqlen begins with the toggle the
\* pipe has.
LEMMA TxFacts ==
    ASSUME NEW d \in Devices, NEW buf \in 0..Elsewhere, NEW size \in Nat,
           NEW reqlen \in Nat, reqlen > 0, NEW cb \in Callbacks
    PROVE  LET e == usb_tx(d, buf, size, reqlen, cb)
               total == Smaller(size, reqlen)
               len == Smaller(total, MaxPacket)
           IN /\ Sends(e, d, len, 0, d.tx.tog)
              /\ e.tx.cb = cb /\ e.tx.pos = len /\ e.tx.size = total - len
              /\ e.tx.short = (size < reqlen /\ total > 0 /\ len = MaxPacket)
<1> DEFINE total == Smaller(size, reqlen)
           short == total < reqlen
           p == [d.tx EXCEPT !.buf = buf, !.size = total, !.pos = 0,
                             !.short = short, !.cb = cb, !.tog = 1 - d.tx.tog]
           f == [d EXCEPT !.tx = p]
<1>1. d.tx \in PipeType /\ d.tx.tog \in 0..1
  BY DEF Devices, PipeType
<1>2. /\ total \in Nat /\ total <= reqlen
      /\ short \in BOOLEAN /\ short = (size < reqlen)
      /\ total > 0 \/ size < reqlen
  BY DEF Smaller
<1>3. usb_tx(d, buf, size, reqlen, cb) = usb_tx_next(f)
  BY DEF usb_tx, short
<1> HIDE DEF total, short
<1>4. /\ p \in PipeType /\ p.pp = d.tx.pp /\ p.tog = 1 - d.tx.tog /\ p.cb = cb
      /\ p.size = total /\ p.pos = 0
  <2>1. 1 - d.tx.tog \in 0..1
    BY <1>1
  <2>2. p = [d.tx EXCEPT !.buf = buf, !.size = total, !.pos = 0,
                         !.short = short, !.cb = cb, !.tog = 1 - d.tx.tog]
    BY <1>1 DEF PipeType
  <2> HIDE DEF p
  <2> QED
    BY <1>1, <1>2, <2>1, <2>2 DEF PipeType, Callbacks
<1>5. p.short = short
  BY <1>1, <1>2 DEF PipeType
<1> HIDE DEF p
<1>6. /\ f \in Devices /\ f.tx = p /\ f.rx = d.rx /\ f.rxbd = d.rxbd
      /\ f.txbd = d.txbd /\ Rest(f) = Rest(d)
  BY <1>4 DEF Devices, Rest
<1> HIDE DEF f
<1> DEFINE e == usb_tx_next(f)
           len == Smaller(total, MaxPacket)
<1>7. f.tx.size > 0 \/ f.tx.short
  <2>1. total > 0 \/ short
    BY <1>2
  <2> QED
    BY <1>4, <1>5, <1>6, <2>1
<1>8. /\ Sends(e, f, len, 0, 1 - f.tx.tog)
      /\ e.tx.cb = cb /\ e.tx.pos = 0 + len /\ e.tx.size = total - len
      /\ e.tx.short = (f.tx.short /\ total > 0 /\ len = MaxPacket)
  BY <1>4, <1>6, <1>7, TxMore DEF Sends
<1> HIDE DEF e
<1>9. len \in Nat /\ 1 - f.tx.tog = d.tx.tog
  BY <1>1, <1>2, <1>4, <1>6, PacketSize
<1>10. Sends(e, d, len, 0, d.tx.tog)
  BY <1>4, <1>6, <1>8, <1>9 DEF Sends
<1>11. e.tx.short = (size < reqlen /\ total > 0 /\ len = MaxPacket)
  BY <1>2, <1>5, <1>6, <1>8
<1>12. e.tx.pos = len
  BY <1>8, <1>9
<1> QED
  BY <1>3, <1>8, <1>10, <1>11, <1>12 DEF e, total

LEMMA RefuseFacts ==
    ASSUME NEW d \in Devices
    PROVE  LET e == Refuse(d)
           IN /\ e \in Devices /\ Rest(e) = Rest(d) /\ e.rx = d.rx /\ e.tx = d.tx
              /\ e.rxbd[d.rx.pp].own /\ e.rxbd[d.rx.pp].stall
              /\ e.txbd[d.tx.pp].own /\ e.txbd[d.tx.pp].stall
              /\ e.rxbd[1 - d.rx.pp] = d.rxbd[1 - d.rx.pp]
              /\ e.txbd[1 - d.tx.pp] = d.txbd[1 - d.tx.pp]
<1>1. Stalled \in BdType /\ Stalled.own /\ Stalled.stall
  <2>1. 0 \in 0..MaxPacket /\ 0 \in Nat /\ 0 \in 0..1 /\ Elsewhere \in 0..Elsewhere
    BY PacketSize DEF Elsewhere
  <2>2. Idle \in BdType
    BY <2>1 DEF Idle, BdType
  <2> HIDE DEF Idle
  <2>3. Stalled \in BdType
    BY <2>2 DEF Stalled, BdType
  <2>4. Stalled.own
    BY <2>2 DEF Stalled, BdType
  <2>5. Stalled.stall
    BY <2>2 DEF Stalled, BdType
  <2> QED
    BY <2>3, <2>4, <2>5
<1>2. /\ d.rx.pp \in 0..1 /\ d.tx.pp \in 0..1
      /\ d.rxbd \in [0..1 -> BdType] /\ d.txbd \in [0..1 -> BdType]
  BY DEF Devices, PipeType
<1> DEFINE rxbd == [d.rxbd EXCEPT ![d.rx.pp] = Stalled]
           txbd == [d.txbd EXCEPT ![d.tx.pp] = Stalled]
<1>3. /\ rxbd \in [0..1 -> BdType] /\ rxbd[d.rx.pp] = Stalled
      /\ rxbd[1 - d.rx.pp] = d.rxbd[1 - d.rx.pp]
      /\ txbd \in [0..1 -> BdType] /\ txbd[d.tx.pp] = Stalled
      /\ txbd[1 - d.tx.pp] = d.txbd[1 - d.tx.pp]
  BY <1>1, <1>2
<1>4. Refuse(d) = [d EXCEPT !.rxbd = rxbd, !.txbd = txbd]
  BY DEF Refuse, Devices
<1> HIDE DEF rxbd, txbd
<1>5. /\ Refuse(d).rxbd = rxbd /\ Refuse(d).txbd = txbd
      /\ Refuse(d).rx = d.rx /\ Refuse(d).tx = d.tx /\ Rest(Refuse(d)) = Rest(d)
  BY <1>4 DEF Devices, Rest
<1>6. Refuse(d) \in Devices
  BY <1>3, <1>4 DEF Devices
<1> QED
  BY <1>1, <1>3, <1>5, <1>6

\* After data to the host, its empty packet is awaited.
LEMMA StatusOutFacts ==
    ASSUME NEW d \in Devices, d.ctrl_in
    PROVE  LET e == StatusStage(d)
           IN Receives(e, d, 0, "done", 1) /\ Rest(e) = Rest(d) /\ e.tx = d.tx
<1> DEFINE p == [d.rx EXCEPT !.tog = 1]
           f == [d EXCEPT !.rx = p]
<1>1. p \in PipeType /\ p.pp = d.rx.pp /\ p.tog = 1
  BY DEF Devices, PipeType
<1>2. StatusStage(d) = usb_rx(f, Elsewhere, 0, "done")
  BY DEF StatusStage, Devices
<1> HIDE DEF p
<1>3. /\ f \in Devices /\ f.rx = p /\ f.tx = d.tx /\ f.rxbd = d.rxbd
      /\ f.txbd = d.txbd /\ Rest(f) = Rest(d)
  BY <1>1 DEF Devices, Rest
<1> HIDE DEF f
<1> DEFINE e == usb_rx(f, Elsewhere, 0, "done")
<1>4. Receives(e, f, 0, "done", f.rx.tog) /\ Rest(e) = Rest(f) /\ e.tx = f.tx
  BY <1>3, RxFacts DEF Elsewhere, Callbacks
<1> HIDE DEF e
<1> QED
  BY <1>1, <1>2, <1>3, <1>4 DEF e, Receives

\* Otherwise an empty packet is sent.
LEMMA StatusInFacts ==
    ASSUME NEW d \in Devices, ~d.ctrl_in
    PROVE  LET e == StatusStage(d)
           IN /\ Sends(e, d, 0, 0, 1)
              /\ e.tx.cb = "done" /\ e.tx.size = 0 /\ ~e.tx.short
<1> DEFINE p == [d.tx EXCEPT !.tog = 1]
           f == [d EXCEPT !.tx = p]
<1>1. p \in PipeType /\ p.pp = d.tx.pp /\ p.tog = 1
  BY DEF Devices, PipeType
<1>2. StatusStage(d) = usb_tx(f, f.tx.pp, 0, 1, "done")
  BY DEF StatusStage, usb_ep0_tx_cp, Devices
<1> HIDE DEF p
<1>3. /\ f \in Devices /\ f.tx = p /\ f.rx = d.rx /\ f.rxbd = d.rxbd
      /\ f.txbd = d.txbd /\ Rest(f) = Rest(d)
  BY <1>1 DEF Devices, Rest
<1> HIDE DEF f
<1>4. f.tx.pp \in 0..Elsewhere
  BY <1>3 DEF Devices, PipeType, Elsewhere
<1>5. Smaller(0, 1) = 0 /\ Smaller(0, MaxPacket) = 0
  BY PacketSize DEF Smaller
<1> DEFINE e == usb_tx(f, f.tx.pp, 0, 1, "done")
<1>6. /\ Sends(e, f, 0, 0, f.tx.tog)
      /\ e.tx.cb = "done" /\ e.tx.size = 0 - 0 /\ ~e.tx.short
  <2>1. "done" \in Callbacks
    BY DEF Callbacks
  <2> DEFINE g == usb_tx(f, f.tx.pp, 0, 1, "done")
             total == Smaller(0, 1)
             len == Smaller(total, MaxPacket)
  <2>2. /\ Sends(g, f, len, 0, f.tx.tog)
        /\ g.tx.cb = "done" /\ g.tx.size = total - len
        /\ g.tx.short = (0 < 1 /\ total > 0 /\ len = MaxPacket)
    BY <1>3, <1>4, <2>1, TxFacts
  <2>3. total = 0 /\ len = 0 /\ ~(total > 0)
    BY <1>5
  <2> HIDE DEF g, total, len
  <2>4. ~g.tx.short
    BY <2>2, <2>3, Zenon
  <2> QED
    BY <2>2, <2>3, <2>4 DEF g
<1> HIDE DEF e
<1> QED
  BY <1>1, <1>2, <1>3, <1>6 DEF e, Sends

\* A packet of n bytes has arrived.
LEMMA TakenFacts ==
    ASSUME NEW d \in Devices, NEW n \in Nat, n <= d.rx.size
    PROVE  LET e == [d EXCEPT !.rx = Taken(d.rx, n)]
           IN /\ e \in Devices /\ Rest(e) = Rest(d) /\ e.tx = d.tx
              /\ e.rxbd = d.rxbd /\ e.txbd = d.txbd
              /\ e.rx.pp = 1 - d.rx.pp /\ e.rx.tog = 1 - d.rx.tog
              /\ e.rx.cb = d.rx.cb
              /\ e.rx.size = d.rx.size - n /\ e.rx.pos = d.rx.pos + n
<1> DEFINE p == Taken(d.rx, n)
           e == [d EXCEPT !.rx = p]
<1>1. d.rx \in PipeType
  BY DEF Devices
<1>2. /\ p \in PipeType /\ p.pp = 1 - d.rx.pp /\ p.tog = 1 - d.rx.tog
      /\ p.cb = d.rx.cb /\ p.size = d.rx.size - n /\ p.pos = d.rx.pos + n
  <2>1. /\ d.rx.size - n \in Nat /\ d.rx.pos + n \in Nat
        /\ 1 - d.rx.pp \in 0..1 /\ 1 - d.rx.tog \in 0..1
    BY <1>1 DEF PipeType
  <2>2. p = [d.rx EXCEPT !.tog = 1 - d.rx.tog, !.size = d.rx.size - n,
                         !.pos = d.rx.pos + n, !.pp = 1 - d.rx.pp]
    BY <1>1 DEF Taken, PipeType
  <2> HIDE DEF p
  <2> QED
    BY <1>1, <2>1, <2>2 DEF PipeType
<1> HIDE DEF p
<1>3. /\ e \in Devices /\ Rest(e) = Rest(d) /\ e.tx = d.tx /\ e.rx = p
      /\ e.rxbd = d.rxbd /\ e.txbd = d.txbd
  BY <1>2 DEF Devices, Rest
<1> HIDE DEF e
<1> QED
  BY <1>2, <1>3 DEF e, p

-----------------------------------------------------------------------------
(* What becomes of a request                                               *)

LEMMA RequestFacts ==
    ASSUME NEW r \in Requests
    PROVE  /\ r.kind \in Kinds /\ r.dir \in Directions
           /\ r.len \in Nat /\ r.size \in Nat /\ r.value \in Nat
           /\ r.copied \in BOOLEAN /\ r.ok \in BOOLEAN
           /\ r.dir = "none" <=> r.len = 0
           /\ r.dir = "in" => r.kind \in {"std", "unknown"}
           /\ r.dir = "in" /\ r.kind = "std" => r.size > 0
           /\ r.dir = "out" => r.kind \in {"class", "unknown"}
           /\ r.dir = "none" => r.kind \in {"std", "address", "config", "unknown"}
           /\ ~r.ok => r.kind = "class"
  BY UsbAssumption DEF UsbAssumption, Kinds, Directions

\* The device with the direction of the request noted.
LEMMA DirectionFacts ==
    ASSUME NEW d \in Devices, NEW r
    PROVE  LET e == [d EXCEPT !.ctrl_in = (r.dir = "in")]
           IN /\ e \in Devices /\ (e.ctrl_in <=> r.dir = "in")
              /\ e.rx = d.rx /\ e.tx = d.tx /\ e.rxbd = d.rxbd /\ e.txbd = d.txbd
              /\ e.state = d.state /\ e.address = d.address /\ e.addr = d.addr
              /\ e.config = d.config /\ e.received = d.received
<1> DEFINE b == r.dir = "in"
           e == [d EXCEPT !.ctrl_in = b]
<1>1. b \in BOOLEAN
  OBVIOUS
<1> HIDE DEF b
<1>2. /\ e \in Devices
      /\ e.rx = d.rx /\ e.tx = d.tx /\ e.rxbd = d.rxbd /\ e.txbd = d.txbd
      /\ e.state = d.state /\ e.address = d.address /\ e.addr = d.addr
      /\ e.config = d.config /\ e.received = d.received
  BY <1>1 DEF Devices
<1>3. e.ctrl_in = b
  BY DEF Devices
<1> HIDE DEF e
<1> QED
  BY <1>2, <1>3 DEF b, e

LEMMA ControlRefuses ==
    ASSUME NEW d \in Devices, NEW r \in Requests, ~Accepts(d.config, r)
    PROVE  LET e == usb_handle_control(d, r)
           IN /\ e \in Devices /\ e.rx = d.rx /\ e.tx = d.tx
              /\ e.state = d.state /\ e.addr = d.addr /\ e.config = d.config
              /\ e.received = d.received
              /\ e.rxbd[d.rx.pp].own /\ e.rxbd[d.rx.pp].stall
              /\ e.txbd[d.tx.pp].own /\ e.txbd[d.tx.pp].stall
              /\ e.rxbd[1 - d.rx.pp] = d.rxbd[1 - d.rx.pp]
              /\ e.txbd[1 - d.tx.pp] = d.txbd[1 - d.tx.pp]
<1> DEFINE f == [d EXCEPT !.ctrl_in = (r.dir = "in")]
<1>1. /\ f \in Devices
      /\ f.rx = d.rx /\ f.tx = d.tx /\ f.rxbd = d.rxbd /\ f.txbd = d.txbd
      /\ f.state = d.state /\ f.addr = d.addr /\ f.config = d.config
      /\ f.received = d.received
  BY DirectionFacts
<1>2. usb_handle_control(d, r) = IF ~Accepts(f.config, r) THEN Refuse(f)
                                 ELSE usb_handle_control(d, r)
  BY DEF usb_handle_control, usb_handle_control_status
<1> HIDE DEF f
<1> QED
  BY <1>1, <1>2, RefuseFacts DEF Rest

\* Data to the host: its first packet is queued, and the status stage awaited.
LEMMA ControlReads ==
    ASSUME NEW d \in Devices, NEW r \in Requests, r.kind = "std", r.dir = "in"
    PROVE  \E f : LET e == usb_handle_control(d, r)
                      total == Smaller(r.size, r.len)
                      len == Smaller(total, MaxPacket)
                  IN /\ Sends(f, [d EXCEPT !.ctrl_in = TRUE], len, 0, d.tx.tog)
                     /\ f.tx.cb = "none" /\ f.tx.pos = len /\ f.tx.size = total - len
                     /\ f.tx.short = (r.size < r.len /\ total > 0 /\ len = MaxPacket)
                     /\ Receives(e, f, 0, "done", 1)
                     /\ Rest(e) = Rest(f) /\ e.tx = f.tx
<1> DEFINE c == [d EXCEPT !.ctrl_in = (r.dir = "in")]
           b == [d EXCEPT !.ctrl_in = TRUE]
           buf == IF r.copied THEN c.tx.pp ELSE Elsewhere
           f == usb_tx(c, buf, r.size, r.len, "none")
           total == Smaller(r.size, r.len)
           len == Smaller(total, MaxPacket)
<1>1. c \in Devices /\ c.ctrl_in /\ c.tx = d.tx
  BY DirectionFacts
<1>2. c = b
  BY DEF Devices
<1>3. Accepts(c.config, r)
  BY DEF Accepts
<1>4. usb_handle_control(d, r) = StatusStage(f)
  <2>1. CASE r.copied
    BY <1>3, <2>1 DEF usb_handle_control, usb_handle_control_status, usb_ep0_tx_cp
  <2>2. CASE ~r.copied
    BY <1>3, <2>2 DEF usb_handle_control, usb_handle_control_status
  <2> QED
    BY <2>1, <2>2
<1>5. buf \in 0..Elsewhere
  BY <1>1 DEF Devices, PipeType, Elsewhere
<1>6. /\ r.size \in Nat /\ r.len \in Nat /\ r.len > 0 /\ "none" \in Callbacks
  BY RequestFacts DEF Callbacks, Directions
<1> HIDE DEF c, buf
<1>7. /\ Sends(f, c, len, 0, c.tx.tog)
      /\ f.tx.cb = "none" /\ f.tx.pos = len /\ f.tx.size = total - len
      /\ f.tx.short = (r.size < r.len /\ total > 0 /\ len = MaxPacket)
  BY <1>1, <1>5, <1>6, TxFacts
<1> HIDE DEF f, total, len
<1>8. f \in Devices /\ f.ctrl_in
  BY <1>1, <1>7 DEF Sends, Rest
<1>9. Receives(StatusStage(f), f, 0, "done", 1) /\ Rest(StatusStage(f)) = Rest(f)
      /\ StatusStage(f).tx = f.tx
  BY <1>8, StatusOutFacts
<1> HIDE DEF b
<1>10. Sends(f, b, len, 0, d.tx.tog)
  BY <1>1, <1>2, <1>7
<1> QED
  BY <1>4, <1>7, <1>9, <1>10 DEF total, len, b

\* Data to the device.
LEMMA ControlWrites ==
    ASSUME NEW d \in Devices, NEW r \in Requests, r.kind = "class", d.config # 0
    PROVE  LET e == usb_handle_control(d, r)
           IN /\ Receives(e, d, r.len, "function", d.rx.tog) /\ ~e.ctrl_in
              /\ e.state = d.state /\ e.addr = d.addr /\ e.config = d.config
              /\ e.tx = d.tx
<1> DEFINE c == [d EXCEPT !.ctrl_in = (r.dir = "in")]
           e == usb_rx(c, Elsewhere, r.len, "function")
<1>1. r.dir = "out" /\ r.len \in Nat
  BY RequestFacts, UsbAssumption DEF UsbAssumption
<1>2. /\ c \in Devices /\ ~c.ctrl_in
      /\ c.rx = d.rx /\ c.tx = d.tx /\ c.rxbd = d.rxbd /\ c.txbd = d.txbd
      /\ c.state = d.state /\ c.addr = d.addr /\ c.config = d.config
  BY <1>1, DirectionFacts
<1>3. Accepts(c.config, r)
  BY <1>2 DEF Accepts
<1>4. usb_handle_control(d, r) = e
  BY <1>3 DEF usb_handle_control
<1> HIDE DEF c
<1>5. /\ Receives(e, c, r.len, "function", c.rx.tog) /\ Rest(e) = Rest(c)
      /\ e.tx = c.tx
  BY <1>1, <1>2, RxFacts DEF Callbacks, Elsewhere
<1> HIDE DEF e
<1> QED
  BY <1>2, <1>4, <1>5 DEF Receives, Rest

\* No data: the status stage follows at once.
LEMMA ControlActs ==
    ASSUME NEW d \in Devices, NEW r \in Requests, r.dir = "none",
           r.kind # "unknown", d.state # "setting"
    PROVE  \E f \in Devices :
              LET e == usb_handle_control(d, r)
              IN /\ f.rx = d.rx /\ f.tx = d.tx /\ f.rxbd = d.rxbd /\ f.txbd = d.txbd
                 /\ f.addr = d.addr /\ (f.state = "setting" <=> r.kind = "address")
                 /\ f.state = "setting" => f.address = r.value
                 /\ Sends(e, f, 0, 0, 1)
                 /\ e.tx.cb = "done" /\ e.tx.size = 0 /\ ~e.tx.short
<1> DEFINE c == [d EXCEPT !.ctrl_in = (r.dir = "in")]
           f == CASE r.kind = "address" -> SetAddress(c, r.value)
                  [] r.kind = "config" -> [c EXCEPT !.config = r.value]
                  [] OTHER -> c
<1>1. /\ c \in Devices /\ ~c.ctrl_in
      /\ c.rx = d.rx /\ c.tx = d.tx /\ c.rxbd = d.rxbd /\ c.txbd = d.txbd
      /\ c.state = d.state /\ c.addr = d.addr /\ c.config = d.config
  BY DirectionFacts
<1>2. r.kind \in {"std", "address", "config"} /\ r.value \in Nat
  BY RequestFacts
<1>3. Accepts(c.config, r)
  BY <1>2 DEF Accepts
<1>4. usb_handle_control(d, r) = StatusStage(f)
  BY <1>2, <1>3 DEF usb_handle_control, usb_handle_control_status
<1> HIDE DEF c
<1>5. /\ f \in Devices /\ ~f.ctrl_in
      /\ f.rx = c.rx /\ f.tx = c.tx /\ f.rxbd = c.rxbd /\ f.txbd = c.txbd
      /\ f.addr = c.addr /\ (f.state = "setting" <=> r.kind = "address")
      /\ f.state = "setting" => f.address = r.value
  <2>1. CASE r.kind = "address"
    BY <1>1, <1>2, <2>1 DEF SetAddress, Devices
  <2>2. CASE r.kind = "config"
    BY <1>1, <1>2, <2>2 DEF Devices
  <2>3. CASE r.kind = "std"
    BY <1>1, <2>3
  <2> QED
    BY <1>2, <2>1, <2>2, <2>3
<1> HIDE DEF f
<1>6. /\ Sends(StatusStage(f), f, 0, 0, 1)
      /\ StatusStage(f).tx.cb = "done" /\ StatusStage(f).tx.size = 0
      /\ ~StatusStage(f).tx.short
  BY <1>5, StatusInFacts
<1> QED
  BY <1>1, <1>4, <1>5, <1>6

-----------------------------------------------------------------------------
(* The initial state, and after a bus reset                                *)

LEMMA RestartedFacts ==
    /\ Restarted \in Devices
    /\ Restarted.rx.pp = 0 /\ Restarted.rx.tog = 0 /\ Restarted.rx.cb = "control"
    /\ Restarted.rx.size = MaxPacket
    /\ Restarted.rxbd[0].own /\ ~Restarted.rxbd[0].stall /\ Restarted.rxbd[0].tog = 0
    /\ ~Restarted.rxbd[1].own
    /\ Restarted.tx.pp = 0 /\ Restarted.tx.tog = 1
    /\ ~Restarted.txbd[0].own /\ ~Restarted.txbd[1].own
    /\ Restarted.state = "default" /\ Restarted.addr = 0
<1> DEFINE bds == [i \in 0..1 |-> Idle]
           d == [rx |-> FreshPipe, tx |-> FreshPipe, rxbd |-> bds, txbd |-> bds,
                 ctrl_in |-> FALSE, state |-> "default", address |-> 0,
                 addr |-> 0, config |-> 0, received |-> 0]
<1>1. Idle \in BdType /\ ~Idle.own
  BY PacketSize DEF Idle, BdType, Elsewhere
<1>2. FreshPipe \in PipeType /\ FreshPipe.pp = 0
  BY DEF FreshPipe, PipeType, Elsewhere
<1>3. Restarted = usb_setup_control(d)
  BY DEF Restarted
<1> HIDE DEF Idle, FreshPipe
<1>4. bds \in [0..1 -> BdType] /\ bds[0] = Idle /\ bds[1] = Idle
  BY <1>1
<1> HIDE DEF bds
<1>5. /\ d \in Devices /\ d.rx = FreshPipe /\ d.tx = FreshPipe
      /\ d.rxbd = bds /\ d.txbd = bds /\ d.state = "default" /\ d.addr = 0
  BY <1>2, <1>4 DEF Devices
<1> HIDE DEF d
<1> DEFINE e == usb_setup_control(d)
<1>6. /\ Receives(e, d, MaxPacket, "control", 0)
      /\ Rest(e) = Rest(d) /\ e.tx.pp = d.tx.pp /\ e.tx.tog = 1
  BY <1>5, SetupControlFacts
<1> HIDE DEF e
<1>7. /\ e \in Devices /\ e.rx.pp = 0 /\ e.rx.tog = 0 /\ e.rx.cb = "control"
      /\ e.rx.size = MaxPacket /\ e.rxbd[0].own /\ ~e.rxbd[0].stall
      /\ e.rxbd[0].tog = 0 /\ e.rxbd[1 - 0] = bds[1 - 0] /\ e.txbd = bds
  BY <1>2, <1>5, <1>6 DEF Receives
<1>8. e.state = "default" /\ e.addr = 0
  BY <1>5, <1>6 DEF Rest
<1> QED
  BY <1>1, <1>2, <1>3, <1>4, <1>5, <1>6, <1>7, <1>8 DEF e

LEMMA FreshFacts ==
    /\ FreshController \in Controllers /\ FreshHost \in Hosts
    /\ FreshController.rx = 0 /\ FreshController.tx = 0
    /\ FreshController.statq = <<>> /\ ~FreshController.suspend
    /\ ~FreshController.stall /\ ~FreshController.reset
    /\ FreshHost.stage = "idle" /\ FreshHost.addr = 0
    /\ FreshHost.intact /\ FreshHost.result = "none"
    /\ FreshHost.after = FALSE /\ FreshHost.early = FALSE
  BY DEF FreshController, Controllers, FreshHost, Hosts

LEMMA UsbStart ==
    ASSUME dev = Restarted, hw = FreshController, host = FreshHost
    PROVE  UsbInv
<1>1. TypeOK
  BY RestartedFacts, FreshFacts DEF TypeOK
<1>2. DataIntact /\ VerdictAgrees
  BY FreshFacts DEF DataIntact, VerdictAgrees
<1>3. RxArmed("control", 0)
  BY RestartedFacts, FreshFacts DEF RxArmed, RxBd
<1>4. TxIdle
  BY RestartedFacts, FreshFacts DEF TxIdle, TxBd
<1>5. ~TxBd.own
  BY RestartedFacts, FreshFacts DEF TxBd
<1>6. Ready
  BY <1>3, <1>4, <1>5, RestartedFacts, FreshFacts
     DEF Ready, Undisturbed, AwaitsSetup, SettledAddress
<1> QED
  BY <1>1, <1>2, <1>6, FreshFacts DEF UsbInv, Phases

LEMMA UsbInit == Init => UsbInv
  BY UsbStart DEF Init

-----------------------------------------------------------------------------
(* The handler                                                             *)

\* What the host has been told does not depend on the handler any more.
LEMMA HandlerKeeps ==
    ASSUME UsbInv, UNCHANGED host, dev' \in Devices, hw' \in Controllers,
           \/ host.stage # "idle"
           \/ dev'.received = dev.received /\ dev'.config = dev.config
    PROVE  /\ TypeOK' /\ DataIntact' /\ VerdictAgrees'
           /\ (host.stage # "idle" => host.result = "none")'
<1>1. TypeOK'
  BY DEF UsbInv, TypeOK
<1>2. (host.stage # "idle" => host.result = "none")'
  BY DEF UsbInv
<1>3. DataIntact'
  BY DEF UsbInv, DataIntact
<1>4. VerdictAgrees'
  BY DEF UsbInv, VerdictAgrees, Refused, StaleStall
<1> QED
  BY <1>1, <1>2, <1>3, <1>4

LEMMA StatusQueue ==
    ASSUME NEW p \in {"setup", "in", "out"}, NEW q \in {"setup", "in", "out"}
    PROVE  /\ <<p>> # <<>> /\ Head(<<p>>) = p /\ Tail(<<p>>) = <<>>
           /\ <<p, q>> # <<>> /\ Head(<<p, q>>) = p /\ Tail(<<p, q>>) = <<q>>
           /\ Append(<<>>, p) = <<p>> /\ Append(<<p>>, q) = <<p, q>>
<1> DEFINE S == {"setup", "in", "out"}
<1>1. <<>> \in Seq(S) /\ <<p>> \in Seq(S) /\ <<p, q>> \in Seq(S) /\ <<q>> \in Seq(S)
  OBVIOUS
<1>2. <<p>> # <<>> /\ Head(<<p>>) = p /\ Tail(<<p>>) = <<>>
  BY <1>1
<1>3. <<p, q>> # <<>> /\ Head(<<p, q>>) = p
  BY <1>1
<1>4. Tail(<<p, q>>) = <<q>>
  BY <1>1
<1>5. Append(<<>>, p) = <<p>>
  BY <1>1
<1>6. Append(<<p>>, q) = <<p, q>>
  <2> DEFINE s == Append(<<p>>, q)
  <2>1. s \in Seq(S) /\ Len(s) = 2 /\ s[1] = p /\ s[2] = q
    <3>1. Len(<<p>>) = 1 /\ <<p>>[1] = p
      OBVIOUS
    <3>2. /\ s \in Seq(S) /\ Len(s) = 1 + 1 /\ s[1 + 1] = q
          /\ \A i \in 1..1 : s[i] = p
      BY <1>1, <3>1, AppendProperties
    <3> HIDE DEF s
    <3> QED
      BY <3>2
  <2>2. s = [i \in 1..2 |-> s[i]]
    BY <2>1
  <2> HIDE DEF s
  <2>3. <<p, q>> = [i \in 1..2 |-> s[i]]
    BY <2>1
  <2> QED
    BY <2>2, <2>3 DEF s
<1> QED
  BY <1>2, <1>3, <1>4, <1>5, <1>6

\* One transaction.
LEMMA HandlerTakes ==
    ASSUME TypeOK, ~hw.reset, ~hw.stall \/ ~dev.rxbd[dev.rx.pp].stall,
           hw.statq # <<>>, USB0_Handler
    PROVE  /\ dev' = usb_handle_transaction(dev, Head(hw.statq), host.req)
           /\ hw' \in Controllers /\ hw'.statq = Tail(hw.statq)
           /\ hw'.rx = hw.rx /\ hw'.tx = hw.tx /\ ~hw'.stall /\ ~hw'.reset
           /\ (hw'.suspend <=> hw.suspend /\ Head(hw.statq) # "setup")
           /\ UNCHANGED host
<1> DEFINE pid == Head(hw.statq)
           held == hw.suspend /\ pid # "setup"
           queue == Tail(hw.statq)
           after == [hw EXCEPT !.stall = FALSE, !.statq = queue, !.suspend = held]
<1>1. hw \in Controllers /\ held \in BOOLEAN /\ queue \in Seq({"setup", "in", "out"})
  BY DEF TypeOK, Controllers
<1>2. dev' = usb_handle_transaction(dev, pid, host.req) /\ hw' = after
  BY DEF USB0_Handler, Unstalled
<1>3. UNCHANGED host
  BY DEF USB0_Handler
<1> HIDE DEF held, queue, pid
<1>4. /\ after \in Controllers /\ after.statq = queue /\ after.rx = hw.rx
      /\ after.tx = hw.tx /\ ~after.stall /\ after.reset = hw.reset
  BY <1>1 DEF Controllers
<1>5. after.suspend = held
  BY <1>1 DEF Controllers
<1> HIDE DEF after
<1> QED
  BY <1>2, <1>3, <1>4, <1>5 DEF held, queue, pid

LEMMA ReceivesArms ==
    ASSUME NEW d \in Devices, NEW len, NEW cb, NEW tog,
           Receives(dev', d, len, cb, tog), hw'.rx = d.rx.pp, hw'.rx \in 0..1,
           ~d.rxbd[1 - d.rx.pp].own
    PROVE  /\ RxArmed(cb, tog)' /\ RxBd'.at = 0
           /\ dev'.rx.size = len /\ dev'.rx.pos = 0
  BY DEF Receives, RxArmed, RxBd

LEMMA SendsArms ==
    ASSUME NEW d \in Devices, NEW e, NEW len, NEW at, NEW tog, Sends(e, d, len, at, tog),
           dev'.tx = e.tx, dev'.txbd = e.txbd, hw'.tx = d.tx.pp, hw'.tx \in 0..1,
           ~d.txbd[1 - d.tx.pp].own
    PROVE  TxArmed' /\ TxBd'.tog = tog /\ TxBd'.len = len /\ TxBd'.at = at
  BY DEF Sends, TxArmed, TxBd

\* The device when it looks at a SETUP packet.
Heard(d) ==
    /\ d \in Devices /\ d.rx.pp = hw.rx /\ d.rx.tog = 1
    /\ ~d.rxbd[hw.rx].own /\ ~d.rxbd[1 - hw.rx].own
    /\ d.tx.pp = hw.tx /\ d.tx.tog = 1
    /\ ~d.txbd[1 - hw.tx].own
    /\ d.txbd[hw.tx].own => d.txbd[hw.tx].stall /\ host.after
    /\ d.state # "setting" /\ d.addr = host.addr

LEMMA SetupServed ==
    ASSUME TypeOK, ~hw.reset, SetupTaken, USB0_Handler
    PROVE  /\ \E d : Heard(d) /\ dev' = usb_handle_control(d, host.req)
           /\ hw' \in Controllers /\ hw'.statq = <<>> /\ Undisturbed'
           /\ hw'.rx = hw.rx /\ hw'.tx = hw.tx /\ UNCHANGED host
<1> DEFINE d == [dev EXCEPT !.rx = Taken(dev.rx, SetupLen)]
<1>1. /\ hw.statq = <<"setup">> /\ ~hw.stall /\ dev \in Devices /\ hw.rx \in 0..1
      /\ dev.rx.pp = 1 - hw.rx /\ dev.rx.cb = "control" /\ dev.rx.tog = 0
      /\ ~dev.rxbd[hw.rx].own /\ ~dev.rxbd[1 - hw.rx].own
      /\ dev.rxbd[1 - hw.rx].len = SetupLen /\ dev.rx.size = MaxPacket
  BY DEF SetupTaken, AwaitsSetup, RxTaken, RxBd, TypeOK, Controllers
<1>2. /\ dev' = usb_handle_transaction(dev, "setup", host.req)
      /\ hw' \in Controllers /\ hw'.statq = <<>> /\ Undisturbed'
      /\ hw'.rx = hw.rx /\ hw'.tx = hw.tx /\ UNCHANGED host
  BY <1>1, StatusQueue, HandlerTakes DEF Undisturbed
<1>3. SetupLen \in Nat /\ SetupLen < MaxPacket
  BY PacketSize DEF SetupLen
<1>4. /\ d \in Devices /\ Rest(d) = Rest(dev) /\ d.tx = dev.tx
      /\ d.rxbd = dev.rxbd /\ d.txbd = dev.txbd
      /\ d.rx.pp = 1 - dev.rx.pp /\ d.rx.tog = 1 - dev.rx.tog
      /\ d.rx.cb = dev.rx.cb
  <2>1. SetupLen <= dev.rx.size
    BY <1>1, <1>3, PacketSize
  <2> QED
    BY <1>1, <1>3, <2>1, TakenFacts
<1>5. dev' = usb_handle_control(d, host.req)
  <2>1. d.rx = Taken(dev.rx, SetupLen)
    BY <1>1 DEF Devices
  <2> HIDE DEF SetupLen
  <2>2. Taken(dev.rx, SetupLen).cb = "control"
    BY <1>1, <1>4, <2>1
  <2> QED
    BY <1>1, <1>2, <1>3, <2>2 DEF usb_handle_transaction, usb_rx_next
<1> HIDE DEF d
<1>6. Heard(d)
  BY <1>1, <1>4 DEF Heard, SetupTaken, AwaitsSetup, TxIdle, TxBd, SettledAddress, Rest
<1> QED
  BY <1>2, <1>5, <1>6

LEMMA HandlerSetup ==
    ASSUME UsbInv, ~hw.reset, SetupTaken, USB0_Handler
    PROVE  UsbInv'
<1>1. /\ TypeOK /\ hw \in Controllers /\ hw.rx \in 0..1 /\ hw.tx \in 0..1
      /\ host.req \in Requests /\ host.stage = FirstStage(host.req)
      /\ host.tog = 1 /\ host.done = 0
  BY DEF UsbInv, TypeOK, SetupTaken, Controllers
<1>2. PICK d : Heard(d) /\ dev' = usb_handle_control(d, host.req)
  BY <1>1, SetupServed
<1>3. /\ hw' \in Controllers /\ hw'.statq = <<>> /\ Undisturbed'
      /\ hw'.rx = hw.rx /\ hw'.tx = hw.tx /\ UNCHANGED host
  BY <1>1, SetupServed
<1>4. host.stage \in {"data_in", "data_out", "status_in"}
  BY <1>1 DEF FirstStage
<1>5. SUFFICES dev' \in Devices /\ Phases'
  <2>1. /\ TypeOK' /\ DataIntact' /\ VerdictAgrees'
        /\ (host.stage # "idle" => host.result = "none")'
    BY <1>3, <1>4, <1>5, HandlerKeeps
  <2> QED
    BY <1>3, <1>5, <2>1 DEF UsbInv, Undisturbed
<1> DEFINE r == host.req
<1>6. CASE ~Accepts(d.config, r)
  <2>1. /\ dev' \in Devices /\ dev'.rx = d.rx /\ dev'.tx = d.tx
        /\ dev'.state = d.state /\ dev'.addr = d.addr /\ dev'.config = d.config
        /\ dev'.rxbd[d.rx.pp].own /\ dev'.rxbd[d.rx.pp].stall
        /\ dev'.txbd[d.tx.pp].own /\ dev'.txbd[d.tx.pp].stall
        /\ dev'.rxbd[1 - d.rx.pp] = d.rxbd[1 - d.rx.pp]
        /\ dev'.txbd[1 - d.tx.pp] = d.txbd[1 - d.tx.pp]
    BY <1>1, <1>2, <1>6, ControlRefuses DEF Heard
  <2>2. Refused(host.req)'
    BY <1>3, <1>6, <2>1 DEF Accepts, Refused
  <2>3. TxIdle' /\ TxBd'.own
    BY <1>2, <1>3, <2>1 DEF Heard, TxIdle, TxBd
  <2>4. Refusing'
    BY <1>2, <1>3, <1>4, <2>1, <2>2, <2>3
       DEF Refusing, Heard, RxBd, SettledAddress, Undisturbed
  <2> QED
    BY <2>1, <2>4 DEF Phases
<1>7. CASE r.kind = "std" /\ r.dir = "in"
  <2> DEFINE total == Smaller(r.size, r.len)
             len == Smaller(total, MaxPacket)
             b == [d EXCEPT !.ctrl_in = TRUE]
  <2>1. PICK f : /\ Sends(f, b, len, 0, d.tx.tog)
                 /\ f.tx.cb = "none" /\ f.tx.pos = len /\ f.tx.size = total - len
                 /\ f.tx.short = (r.size < r.len /\ total > 0 /\ len = MaxPacket)
                 /\ Receives(dev', f, 0, "done", 1)
                 /\ Rest(dev') = Rest(f) /\ dev'.tx = f.tx
    BY <1>1, <1>2, <1>7, ControlReads DEF Heard
  <2>2. /\ b \in Devices /\ b.rx = d.rx /\ b.tx = d.tx /\ b.rxbd = d.rxbd
        /\ b.txbd = d.txbd /\ b.state = d.state /\ b.addr = d.addr
    BY <1>2 DEF Heard, Devices
  <2> HIDE DEF b
  <2>3. /\ f \in Devices /\ f.rx = d.rx /\ f.rxbd = d.rxbd
        /\ f.state = d.state /\ f.addr = d.addr
    BY <2>1, <2>2 DEF Sends, Rest
  <2>4. dev' \in Devices /\ dev'.txbd = f.txbd
        /\ dev'.state = d.state /\ dev'.addr = d.addr
    BY <2>1, <2>3 DEF Receives, Rest
  <2>5. RxArmed("done", 1)' /\ dev'.rx.size = 0
    BY <1>1, <1>2, <1>3, <2>1, <2>3, ReceivesArms DEF Heard
  <2>6. TxArmed' /\ TxBd'.tog = 1 /\ TxBd'.len = len /\ TxBd'.at = 0
    BY <1>1, <1>2, <1>3, <2>1, <2>2, <2>4, SendsArms DEF Heard
  <2>7. /\ total \in Nat /\ len \in 0..MaxPacket /\ len <= total /\ total > 0
        /\ (len < MaxPacket => total - len = 0) /\ MaxPacket \in Nat
    BY <1>1, <1>7, RequestFacts, PacketSize, UsbAssumption
       DEF Smaller, Directions, UsbAssumption
  <2>8. PacketMatches(TxBd.len)'
    <3>1. /\ TxBd'.len = len /\ dev'.tx.size = total - len
          /\ dev'.tx.short = (r.size < r.len /\ total > 0 /\ len = MaxPacket)
      BY <2>1, <2>6
    <3>2. host'.req = r
      BY <1>3
    <3> HIDE DEF total, len, r
    <3>3. TxBd'.len < MaxPacket => dev'.tx.size = 0
      BY <2>7, <3>1
    <3>4. TxBd'.len < MaxPacket => ~dev'.tx.short
      <4>1. TxBd'.len < MaxPacket => len # MaxPacket
        BY <2>7, <3>1
      <4> QED
        BY <3>1, <4>1, Zenon
    <3>5. TxBd'.len = MaxPacket => (dev'.tx.short <=> r.size < r.len)
      <4>1. total > 0
        BY <2>7
      <4> QED
        BY <3>1, <4>1, Zenon
    <3> QED
      BY <3>2, <3>3, <3>4, <3>5 DEF PacketMatches
  <2>9. ToHost'
    BY <1>1, <1>2, <1>3, <1>7, <2>1, <2>4, <2>5, <2>7
       DEF ToHost, Heard, SettledAddress
  <2>10. TxBd'.at + TxBd'.len = dev'.tx.pos
    BY <2>1, <2>6, <2>7
  <2>11. host'.stage = "data_in" /\ host'.tog = 1 /\ host'.done = 0
    BY <1>1, <1>3, <1>7 DEF FirstStage
  <2>12. DataIn'
    BY <1>3, <2>5, <2>6, <2>8, <2>9, <2>10, <2>11 DEF DataIn
  <2> QED
    BY <2>4, <2>12 DEF Phases
<1>8. CASE r.kind = "class" /\ d.config # 0
  <2>1. /\ Receives(dev', d, r.len, "function", d.rx.tog) /\ ~dev'.ctrl_in
        /\ dev'.state = d.state /\ dev'.addr = d.addr /\ dev'.config = d.config
        /\ dev'.tx = d.tx
    BY <1>1, <1>2, <1>8, ControlWrites DEF Heard
  <2>2. r.dir = "out" /\ r.len \in Nat /\ r.len > 0
    BY <1>1, <1>8, RequestFacts, UsbAssumption DEF UsbAssumption
  <2>3. /\ RxArmed("function", 1)' /\ RxBd'.at = 0
        /\ dev'.rx.size = r.len /\ dev'.rx.pos = 0
    BY <1>1, <1>2, <1>3, <2>1, ReceivesArms DEF Heard
  <2>4. TxIdle' /\ (TxBd.own => host.after)'
    BY <1>2, <1>3, <2>1 DEF Heard, TxIdle, TxBd, Receives
  <2>5. host'.stage = "data_out" /\ host'.tog = 1 /\ host'.done = 0
    BY <1>1, <1>3, <2>2 DEF FirstStage
  <2>6. dev'.rx.tog = 1
    BY <2>3 DEF RxArmed
  <2>7. DataOut'
    BY <1>1, <1>2, <1>3, <1>8, <2>1, <2>2, <2>3, <2>4, <2>5, <2>6
       DEF DataOut, Heard, SettledAddress
  <2> QED
    BY <2>1, <2>7 DEF Phases, Receives
<1>9. CASE r.dir = "none" /\ r.kind # "unknown"
  <2>1. PICK f \in Devices :
              /\ f.rx = d.rx /\ f.tx = d.tx /\ f.rxbd = d.rxbd /\ f.txbd = d.txbd
              /\ f.addr = d.addr /\ (f.state = "setting" <=> r.kind = "address")
              /\ f.state = "setting" => f.address = r.value
              /\ Sends(dev', f, 0, 0, 1)
              /\ dev'.tx.cb = "done" /\ dev'.tx.size = 0 /\ ~dev'.tx.short
    BY <1>1, <1>2, <1>9, ControlActs DEF Heard
  <2>2. TxArmed' /\ TxBd'.tog = 1
    BY <1>1, <1>2, <1>3, <2>1, SendsArms DEF Heard
  <2>3. /\ dev' \in Devices /\ dev'.rx = d.rx /\ dev'.rxbd = d.rxbd
        /\ dev'.addr = d.addr /\ dev'.state = f.state /\ dev'.address = f.address
    BY <2>1 DEF Sends, Rest
  <2>4. RxFree'
    BY <1>2, <1>3, <2>3 DEF RxFree, RxBd, Heard
  <2>5. r.kind \in {"std", "address", "config"} /\ r.ok
    BY <1>1, <1>9, RequestFacts
  <2>6. ~Refused(host.req)'
    BY <1>3, <2>5 DEF Refused
  <2>7. ToStatus'
    BY <1>1, <1>3, <1>9, <2>1, <2>3, <2>4, <2>6 DEF ToStatus
  <2>8. host'.stage = "status_in"
    BY <1>1, <1>3, <1>9 DEF FirstStage
  <2>9. StatusIn'
    BY <1>2, <1>3, <2>2, <2>3, <2>7, <2>8 DEF StatusIn, Heard
  <2> QED
    BY <2>3, <2>9 DEF Phases
<1> QED
  <2>1. Accepts(d.config, r) => r.kind # "unknown" /\ (r.kind = "class" => d.config # 0)
    BY DEF Accepts
  <2>2. \/ r.dir = "in" /\ r.kind \in {"std", "unknown"}
        \/ r.dir = "out" /\ r.kind \in {"class", "unknown"}
        \/ r.dir = "none"
    BY <1>1, RequestFacts DEF Directions
  <2> QED
    BY <1>6, <1>7, <1>8, <1>9, <2>1, <2>2

\* Every other transaction leaves the controller free.
LEMMA HandlerServes ==
    ASSUME TypeOK, ~hw.reset, ~hw.suspend, ~hw.stall \/ ~dev.rxbd[dev.rx.pp].stall,
           NEW pid \in {"in", "out"}, Head(hw.statq) = pid,
           hw.statq # <<>>, USB0_Handler
    PROVE  /\ dev' = IF pid = "in" THEN usb_tx_next(dev)
                     ELSE usb_rx_next(dev, host.req)
           /\ hw' \in Controllers /\ hw'.statq = Tail(hw.statq) /\ Undisturbed'
           /\ hw'.rx = hw.rx /\ hw'.tx = hw.tx /\ UNCHANGED host
           /\ hw'.rx \in 0..1 /\ hw'.tx \in 0..1
<1>1. /\ dev' = usb_handle_transaction(dev, pid, host.req)
      /\ hw' \in Controllers /\ hw'.statq = Tail(hw.statq) /\ Undisturbed'
      /\ hw'.rx = hw.rx /\ hw'.tx = hw.tx /\ UNCHANGED host
  BY HandlerTakes DEF Undisturbed
<1>2. hw'.rx \in 0..1 /\ hw'.tx \in 0..1
  BY <1>1 DEF Controllers
<1> QED
  BY <1>1, <1>2 DEF usb_handle_transaction

LEMMA HandlerReset ==
    ASSUME UsbInv, hw.reset, USB0_Handler
    PROVE  UsbInv'
<1>1. dev' = Restarted /\ hw' = FreshController /\ UNCHANGED host
  BY DEF USB0_Handler
<1>2. host' = FreshHost
  BY <1>1 DEF UsbInv
<1>3. (dev = Restarted /\ hw = FreshController /\ host = FreshHost => UsbInv)'
  BY UsbStart, PTL
<1>4. (dev = Restarted /\ hw = FreshController /\ host = FreshHost)'
  BY <1>1, <1>2
<1> QED
  BY <1>3, <1>4

LEMMA HandlerUnstalls ==
    ASSUME UsbInv, ~hw.reset, Refusing, USB0_Handler
    PROVE  UsbInv'
<1>1. /\ hw.statq = <<>> /\ ~hw.suspend /\ dev \in Devices /\ hw \in Controllers
      /\ dev.rx.pp = hw.rx /\ ~dev.rxbd[1 - hw.rx].own
      /\ dev.rxbd[hw.rx].stall /\ dev.tx.pp = hw.tx
      /\ hw.rx \in 0..1 /\ hw.tx \in 0..1
  BY DEF UsbInv, TypeOK, Refusing, RxBd, TxIdle, Controllers
<1>2. hw.stall /\ host.stage = "idle" /\ host.result = "stall"
  BY <1>1 DEF USB0_Handler, Quiet, Refusing
<1>3. /\ dev' = usb_setup_control(dev) /\ hw' = [hw EXCEPT !.stall = FALSE]
      /\ UNCHANGED host
  BY <1>1, <1>2 DEF USB0_Handler, Unstalled
<1>4. /\ hw' \in Controllers /\ hw'.statq = <<>> /\ Undisturbed'
      /\ hw'.rx = hw.rx /\ hw'.tx = hw.tx
  BY <1>1, <1>3 DEF Controllers, Undisturbed
<1>5. /\ Receives(dev', dev, MaxPacket, "control", 0)
      /\ Rest(dev') = Rest(dev) /\ dev'.tx.pp = dev.tx.pp /\ dev'.tx.tog = 1
  BY <1>1, <1>3, SetupControlFacts
<1>6. RxArmed("control", 0)' /\ dev'.rx.size = MaxPacket
  BY <1>1, <1>4, <1>5, ReceivesArms
<1>7. TxIdle'
  BY <1>1, <1>4, <1>5 DEF Refusing, TxIdle, TxBd, Receives
<1>8. SettledAddress' /\ dev'.received = dev.received /\ dev'.config = dev.config
  BY <1>3, <1>5 DEF Refusing, SettledAddress, Rest
<1>9. Ready'
  BY <1>2, <1>3, <1>4, <1>5, <1>6, <1>7, <1>8 DEF Ready, AwaitsSetup
<1>10. dev' \in Devices
  BY <1>5 DEF Receives
<1>11. /\ TypeOK' /\ DataIntact' /\ VerdictAgrees'
       /\ (host.stage # "idle" => host.result = "none")'
  BY <1>3, <1>4, <1>8, <1>10, HandlerKeeps
<1> QED
  BY <1>4, <1>9, <1>11 DEF UsbInv, Phases, Undisturbed

\* The next packet of a transfer to the host.
LEMMA HandlerDataIn ==
    ASSUME UsbInv, ~hw.reset, DataIn, USB0_Handler
    PROVE  UsbInv'
<1>1. /\ TypeOK /\ dev \in Devices /\ Undisturbed /\ SettledAddress
      /\ RxArmed("done", 1) /\ ToHost /\ host.stage = "data_in"
      /\ host.req \in Requests
  BY DEF UsbInv, TypeOK, DataIn, ToHost
<1>2. /\ hw.statq = <<"in">> /\ TxFree
      /\ host.tog # dev.tx.tog /\ host.done = dev.tx.pos
      /\ PacketMatches(MaxPacket) /\ dev.tx.pos # host.req.len
  BY <1>1 DEF DataIn, USB0_Handler, Quiet, Undisturbed
<1>3. /\ dev' = usb_tx_next(dev)
      /\ hw' \in Controllers /\ hw'.statq = <<>> /\ Undisturbed'
      /\ hw'.rx = hw.rx /\ hw'.tx = hw.tx /\ UNCHANGED host
      /\ hw'.rx \in 0..1 /\ hw'.tx \in 0..1
  BY <1>1, <1>2, HandlerServes, StatusQueue DEF Undisturbed
<1>4. /\ dev.tx.pos + dev.tx.size = Smaller(host.req.size, host.req.len)
      /\ dev.tx.pos \in Nat /\ dev.tx.size \in Nat /\ dev.tx.tog \in 0..1
      /\ dev.tx.short \in BOOLEAN /\ dev.tx.pp = hw.tx
      /\ host.req.size \in Nat /\ host.req.len \in Nat /\ host.tog \in 0..1
  BY <1>1, <1>2, RequestFacts DEF ToHost, Devices, PipeType, TypeOK, Hosts, TxFree, TxIdle
<1>5. dev.tx.short <=> host.req.size < host.req.len
  BY <1>2 DEF PacketMatches
<1>6. dev.tx.size > 0 \/ dev.tx.short
  BY <1>2, <1>4, <1>5 DEF Smaller
<1> DEFINE len == Smaller(dev.tx.size, MaxPacket)
<1>7. /\ Sends(dev', dev, len, dev.tx.pos, 1 - dev.tx.tog)
      /\ dev'.tx.cb = dev.tx.cb
      /\ dev'.tx.pos = dev.tx.pos + len /\ dev'.tx.size = dev.tx.size - len
      /\ dev'.tx.short = (dev.tx.short /\ dev.tx.size > 0 /\ len = MaxPacket)
  BY <1>1, <1>3, <1>6, TxMore DEF Sends
<1>8. /\ len \in 0..MaxPacket /\ len <= dev.tx.size /\ MaxPacket \in Nat /\ MaxPacket > 1
      /\ (len < MaxPacket => len = dev.tx.size)
  BY <1>4, PacketSize DEF Smaller
<1> HIDE DEF len
<1>9. TxArmed' /\ TxBd'.tog = 1 - dev.tx.tog /\ TxBd'.len = len /\ TxBd'.at = dev.tx.pos
  BY <1>1, <1>2, <1>3, <1>4, <1>7, SendsArms DEF TxFree, TxIdle
<1>10. dev' \in Devices /\ dev'.rx = dev.rx /\ dev'.rxbd = dev.rxbd /\ Rest(dev') = Rest(dev)
  BY <1>7 DEF Sends
<1>11. RxArmed("done", 1)'
  BY <1>1, <1>3, <1>10 DEF RxArmed, RxBd
<1>12. PacketMatches(TxBd.len)'
  <2>1. TxBd'.len < MaxPacket => dev'.tx.size = 0
    BY <1>4, <1>7, <1>8, <1>9
  <2>2. TxBd'.len < MaxPacket => ~dev'.tx.short
    <3>1. TxBd'.len < MaxPacket => len # MaxPacket
      BY <1>8, <1>9
    <3> QED
      BY <1>7, <3>1, Zenon
  <2>3. TxBd'.len = MaxPacket => (dev'.tx.short <=> dev.tx.short)
    <3>1. len = MaxPacket => dev.tx.size > 0
      BY <1>4, <1>8
    <3> QED
      BY <1>7, <1>9, <3>1
  <2> QED
    BY <1>3, <1>5, <2>1, <2>2, <2>3 DEF PacketMatches
<1>13. ToHost'
  <2>1. dev'.tx.pos + dev'.tx.size = dev.tx.pos + dev.tx.size
    BY <1>4, <1>7, <1>8
  <2> QED
    BY <1>1, <1>3, <1>7, <1>10, <2>1 DEF ToHost, SettledAddress, Rest
<1>14. DataIn'
  <2>1. TxBd'.at + TxBd'.len = dev'.tx.pos
    BY <1>7, <1>9
  <2>2. host'.tog = TxBd'.tog /\ host'.done = TxBd'.at
    BY <1>2, <1>3, <1>4, <1>9
  <2> QED
    BY <1>1, <1>3, <1>9, <1>11, <1>12, <1>13, <2>1, <2>2 DEF DataIn
<1>15. /\ TypeOK' /\ DataIntact' /\ VerdictAgrees'
       /\ (host.stage # "idle" => host.result = "none")'
  BY <1>1, <1>3, <1>10, HandlerKeeps
<1> QED
  BY <1>3, <1>14, <1>15 DEF UsbInv, Phases, Undisturbed

\* The end of a transfer to the host: its last packet is accounted for, and
\* then its status packet.
LEMMA HandlerStatusOut ==
    ASSUME UsbInv, ~hw.reset, StatusOut \/ StatusOutTaken, USB0_Handler
    PROVE  UsbInv'
<1>1. /\ TypeOK /\ dev \in Devices /\ hw \in Controllers /\ Undisturbed
      /\ SettledAddress /\ ToHost /\ AllSent /\ host.stage \in {"idle", "status_out"}
      /\ hw.rx \in 0..1 /\ hw.tx \in 0..1
      /\ host.req \in Requests /\ host.req.dir = "in" /\ host.req.kind = "std"
  BY DEF UsbInv, TypeOK, StatusOut, StatusOutTaken, ToHost, Controllers
<1>2. hw.statq \in {<<"in">>, <<"in", "out">>, <<"out">>}
  BY <1>1 DEF StatusOut, StatusOutTaken, USB0_Handler, Quiet, Undisturbed
<1>3. CASE hw.statq \in {<<"in">>, <<"in", "out">>}
  <2>1. /\ dev' = usb_tx_next(dev)
        /\ hw' \in Controllers /\ hw'.statq = Tail(hw.statq) /\ Undisturbed'
        /\ hw'.rx = hw.rx /\ hw'.tx = hw.tx /\ UNCHANGED host
    BY <1>1, <1>3, HandlerServes, StatusQueue DEF Undisturbed
  <2>2. dev.tx.size = 0 /\ ~dev.tx.short /\ dev.tx.cb = "none" /\ TxFree
    BY <1>1 DEF AllSent, ToHost
  <2>3. PICK f \in Devices :
              /\ f.tx.pp = dev.tx.pp /\ f.tx.size = 0 /\ ~f.tx.short
              /\ f.tx.cb = dev.tx.cb
              /\ f.rx = dev.rx /\ f.rxbd = dev.rxbd /\ f.txbd = dev.txbd
              /\ Rest(f) = Rest(dev) /\ f.tx.pos = dev.tx.pos
              /\ dev' = IF dev.tx.cb = "done" THEN usb_handle_control_done(f) ELSE f
    BY <1>1, <2>1, <2>2, TxEnd
  <2>4. dev' = f /\ dev' \in Devices
    BY <2>2, <2>3
  <2>5. AllSent'
    BY <2>1, <2>2, <2>3, <2>4 DEF AllSent, TxFree, TxIdle, TxBd
  <2>6. ToHost' /\ dev'.received = dev.received /\ dev'.config = dev.config
    BY <1>1, <2>1, <2>2, <2>3, <2>4 DEF ToHost, SettledAddress, Rest
  <2>7. CASE StatusOut
    <3>1. RxArmed("done", 1)'
      BY <2>1, <2>3, <2>4, <2>7 DEF StatusOut, RxArmed, RxBd
    <3>2. hw.statq = <<"in">>
      BY <1>3, <2>7, StatusQueue DEF StatusOut
    <3>3. StatusOut'
      BY <2>1, <2>5, <2>6, <2>7, <3>1, <3>2, StatusQueue DEF StatusOut
    <3> QED
      BY <1>1, <2>1, <2>4, <2>6, <3>3, HandlerKeeps DEF UsbInv, Phases, Undisturbed
  <2>8. CASE StatusOutTaken
    <3>1. RxTaken("done", 0)'
      BY <2>1, <2>3, <2>4, <2>8 DEF StatusOutTaken, RxTaken, RxBd
    <3>2. hw.statq = <<"in", "out">>
      BY <1>3, <2>8, StatusQueue DEF StatusOutTaken
    <3>3. StatusOutTaken'
      BY <1>1, <2>1, <2>5, <2>6, <3>1, <3>2, StatusQueue DEF StatusOutTaken
    <3> QED
      BY <1>1, <2>1, <2>4, <2>6, <3>3, HandlerKeeps DEF UsbInv, Phases, Undisturbed
  <2> QED
    BY <2>7, <2>8
<1>4. CASE hw.statq = <<"out">>
  <2>1. StatusOutTaken
    BY <1>4, StatusQueue DEF StatusOut
  <2>2. /\ dev.rx.pp = 1 - hw.rx /\ dev.rx.cb = "done" /\ dev.rx.size = 0
        /\ ~dev.rxbd[hw.rx].own /\ ~dev.rxbd[1 - hw.rx].own
        /\ dev.rxbd[1 - hw.rx].len = 0
    BY <2>1 DEF StatusOutTaken, RxTaken, RxBd, ToHost
  <2>3. /\ dev' = usb_rx_next(dev, host.req)
        /\ hw' \in Controllers /\ hw'.statq = <<>> /\ Undisturbed'
        /\ hw'.rx = hw.rx /\ hw'.tx = hw.tx /\ UNCHANGED host
        /\ hw'.rx \in 0..1 /\ hw'.tx \in 0..1
    BY <1>1, <1>4, HandlerServes, StatusQueue DEF Undisturbed
  <2> DEFINE e == [dev EXCEPT !.rx = Taken(dev.rx, 0)]
  <2>4. /\ e \in Devices /\ Rest(e) = Rest(dev) /\ e.tx = dev.tx
        /\ e.rxbd = dev.rxbd /\ e.txbd = dev.txbd
        /\ e.rx.pp = 1 - dev.rx.pp /\ e.rx.cb = dev.rx.cb
    <3>1. 0 \in Nat /\ 0 <= dev.rx.size
      BY <2>2
    <3> QED
      BY <1>1, <3>1, TakenFacts
  <2>5. e.rx = Taken(dev.rx, 0)
    BY <1>1 DEF Devices
  <2>6. dev' = usb_handle_control_done(e)
    BY <2>2, <2>3, <2>4, <2>5, PacketSize DEF usb_rx_next
  <2> HIDE DEF e
  <2>7. /\ Receives(dev', e, MaxPacket, "control", 0)
        /\ dev'.state = IF e.state = "setting" THEN "address" ELSE e.state
        /\ dev'.addr = IF e.state = "setting" THEN e.address ELSE e.addr
        /\ dev'.config = e.config /\ dev'.received = e.received
        /\ dev'.tx.pp = e.tx.pp /\ dev'.tx.tog = 1
    BY <2>4, <2>6, ControlDoneFacts
  <2>8. RxArmed("control", 0)' /\ dev'.rx.size = MaxPacket
    <3>1. e.rx.pp = hw.rx
      BY <1>1, <2>2, <2>4
    <3> QED
      BY <2>2, <2>3, <2>4, <2>7, <3>1, ReceivesArms
  <2>9. TxIdle' /\ ~TxBd'.own
    BY <1>1, <2>3, <2>4, <2>7 DEF AllSent, TxFree, TxIdle, TxBd, Receives
  <2>10. /\ SettledAddress' /\ dev'.received = dev.received
         /\ dev'.config = dev.config
    BY <1>1, <2>3, <2>4, <2>7 DEF SettledAddress, Rest
  <2>11. Ready'
    BY <1>1, <2>3, <2>7, <2>8, <2>9, <2>10 DEF Ready, AwaitsSetup
  <2>12. dev' \in Devices
    BY <2>7 DEF Receives
  <2> QED
    BY <2>3, <2>10, <2>11, <2>12, HandlerKeeps DEF UsbInv, Phases, Undisturbed
<1> QED
  BY <1>2, <1>3, <1>4

\* The end of every other transfer; this is when an address takes effect.
LEMMA HandlerStatusIn ==
    ASSUME UsbInv, ~hw.reset, StatusInTaken, USB0_Handler
    PROVE  UsbInv'
<1>1. /\ TypeOK /\ dev \in Devices /\ hw \in Controllers /\ Undisturbed
      /\ ToStatus /\ host.stage = "idle" /\ hw.statq = <<"in">> /\ TxFree
      /\ host.addr = IF dev.state = "setting" THEN dev.address ELSE dev.addr
      /\ hw.rx \in 0..1 /\ hw.tx \in 0..1
  BY DEF UsbInv, TypeOK, StatusInTaken, ToStatus, Controllers
<1>2. /\ dev' = usb_tx_next(dev)
      /\ hw' \in Controllers /\ hw'.statq = <<>> /\ Undisturbed'
      /\ hw'.rx = hw.rx /\ hw'.tx = hw.tx /\ UNCHANGED host
      /\ hw'.rx \in 0..1 /\ hw'.tx \in 0..1
  BY <1>1, HandlerServes, StatusQueue DEF Undisturbed
<1>3. dev.tx.cb = "done" /\ dev.tx.size = 0 /\ ~dev.tx.short /\ RxFree
  BY <1>1 DEF ToStatus
<1>4. PICK f \in Devices :
            /\ f.tx.pp = dev.tx.pp
            /\ f.rx = dev.rx /\ f.rxbd = dev.rxbd /\ f.txbd = dev.txbd
            /\ Rest(f) = Rest(dev)
            /\ dev' = usb_handle_control_done(f)
  BY <1>1, <1>2, <1>3, TxEnd
<1>5. /\ Receives(dev', f, MaxPacket, "control", 0)
      /\ dev'.state = IF f.state = "setting" THEN "address" ELSE f.state
      /\ dev'.addr = IF f.state = "setting" THEN f.address ELSE f.addr
      /\ dev'.config = f.config /\ dev'.received = f.received
      /\ dev'.tx.pp = f.tx.pp /\ dev'.tx.tog = 1
  BY <1>4, ControlDoneFacts
<1>6. RxArmed("control", 0)' /\ dev'.rx.size = MaxPacket
  BY <1>2, <1>3, <1>4, <1>5, ReceivesArms DEF RxFree
<1>7. TxIdle' /\ ~TxBd'.own
  BY <1>1, <1>2, <1>4, <1>5 DEF TxFree, TxIdle, TxBd, Receives
<1>8. SettledAddress' /\ dev'.received = dev.received /\ dev'.config = dev.config
  BY <1>1, <1>2, <1>4, <1>5 DEF SettledAddress, Rest
<1>9. Ready'
  BY <1>1, <1>2, <1>5, <1>6, <1>7, <1>8 DEF Ready, AwaitsSetup
<1>10. dev' \in Devices
  BY <1>5 DEF Receives
<1> QED
  BY <1>2, <1>8, <1>9, <1>10, HandlerKeeps DEF UsbInv, Phases, Undisturbed

\* e is d with the next packet of a transfer to be received.
LEMMA RxContinues ==
    ASSUME NEW d \in Devices
    PROVE  LET e == [d EXCEPT !.rxbd[d.rx.pp] =
                        Armed(d.rx, Smaller(d.rx.size, MaxPacket), d.rx.pos, d.rx.buf)]
           IN /\ e \in Devices /\ Rest(e) = Rest(d)
              /\ e.rx = d.rx /\ e.tx = d.tx /\ e.txbd = d.txbd
              /\ e.rxbd[d.rx.pp].own /\ ~e.rxbd[d.rx.pp].stall
              /\ e.rxbd[d.rx.pp].tog = d.rx.tog /\ e.rxbd[d.rx.pp].at = d.rx.pos
              /\ e.rxbd[1 - d.rx.pp] = d.rxbd[1 - d.rx.pp]
<1> DEFINE bd == Armed(d.rx, Smaller(d.rx.size, MaxPacket), d.rx.pos, d.rx.buf)
           bds == [d.rxbd EXCEPT ![d.rx.pp] = bd]
           e == [d EXCEPT !.rxbd[d.rx.pp] = bd]
<1>1. /\ d.rx \in PipeType /\ d.rx.pp \in 0..1 /\ d.rxbd \in [0..1 -> BdType]
      /\ d.rx.size \in Nat /\ d.rx.pos \in Nat /\ d.rx.buf \in 0..Elsewhere
  BY DEF Devices, PipeType
<1>2. Smaller(d.rx.size, MaxPacket) \in 0..MaxPacket
  BY <1>1, PacketSize
<1>3. /\ bd \in BdType /\ bd.own /\ ~bd.stall /\ bd.tog = d.rx.tog
      /\ bd.at = d.rx.pos
  BY <1>1, <1>2, ArmedFacts
<1> HIDE DEF bd
<1>4. bds \in [0..1 -> BdType] /\ bds[d.rx.pp] = bd /\ bds[1 - d.rx.pp] = d.rxbd[1 - d.rx.pp]
  BY <1>1, <1>3
<1>5. e = [d EXCEPT !.rxbd = bds]
  BY DEF Devices
<1> HIDE DEF bds, e
<1>6. /\ e.rxbd = bds /\ Rest(e) = Rest(d)
      /\ e.rx = d.rx /\ e.tx = d.tx /\ e.txbd = d.txbd
  BY <1>5 DEF Devices, Rest
<1>7. e \in Devices
  BY <1>4, <1>5 DEF Devices
<1> QED
  BY <1>3, <1>4, <1>6, <1>7 DEF e, bd

LEMMA ReceivedFacts ==
    ASSUME NEW d \in Devices, NEW n \in Nat
    PROVE  LET e == [d EXCEPT !.received = n]
           IN /\ e \in Devices /\ e.received = n /\ e.ctrl_in = d.ctrl_in
              /\ e.rx = d.rx /\ e.tx = d.tx /\ e.rxbd = d.rxbd /\ e.txbd = d.txbd
              /\ e.state = d.state /\ e.address = d.address /\ e.addr = d.addr
              /\ e.config = d.config
  BY DEF Devices

\* What the driver makes of a packet to the device, with a stall signalled or not.
LEMMA OutTaken ==
    ASSUME TypeOK, ~hw.reset, ~hw.suspend, hw.statq = <<"out">>, SettledAddress, TxIdle,
           ~dev.ctrl_in, dev.rx.size > 0,
           RxTaken("function", Smaller(dev.rx.size, MaxPacket)), USB0_Handler
    PROVE  LET n == Smaller(dev.rx.size, MaxPacket)
               d == [dev EXCEPT !.rx = Taken(dev.rx, n)]
           IN /\ hw' \in Controllers /\ hw'.statq = <<>> /\ Undisturbed'
              /\ hw'.rx = hw.rx /\ hw'.tx = hw.tx /\ UNCHANGED host
              /\ d \in Devices /\ Rest(d) = Rest(dev) /\ d.tx = dev.tx
              /\ d.rxbd = dev.rxbd /\ d.txbd = dev.txbd
              /\ d.rx.pp = hw.rx /\ d.rx.tog = 1 - dev.rx.tog
              /\ d.rx.cb = dev.rx.cb
              /\ d.rx.size = dev.rx.size - n /\ d.rx.pos = dev.rx.pos + n
              /\ ~d.rxbd[hw.rx].own /\ ~d.rxbd[1 - hw.rx].own
              /\ d.state # "setting" /\ d.addr = host.addr /\ d.config = dev.config
              /\ ~d.ctrl_in /\ d.tx.pp = hw.tx /\ ~d.txbd[1 - hw.tx].own
              /\ dev' = IF n = dev.rx.size THEN FunctionDone(d, host.req)
                        ELSE [d EXCEPT !.rxbd[d.rx.pp] =
                                  Armed(d.rx, Smaller(d.rx.size, MaxPacket),
                                        d.rx.pos, d.rx.buf)]
<1> DEFINE n == Smaller(dev.rx.size, MaxPacket)
           d == [dev EXCEPT !.rx = Taken(dev.rx, n)]
<1>1. /\ dev \in Devices /\ hw \in Controllers /\ hw.rx \in 0..1 /\ hw.tx \in 0..1
  BY DEF TypeOK, Controllers
<1>2. /\ dev.rx.pp = 1 - hw.rx /\ dev.rx.cb = "function"
      /\ ~dev.rxbd[hw.rx].own /\ ~dev.rxbd[1 - hw.rx].own
      /\ ~dev.rxbd[dev.rx.pp].stall
      /\ dev.rxbd[1 - hw.rx].len = n
  BY DEF RxTaken, RxBd
<1>3. /\ dev' = usb_rx_next(dev, host.req)
      /\ hw' \in Controllers /\ hw'.statq = <<>> /\ Undisturbed'
      /\ hw'.rx = hw.rx /\ hw'.tx = hw.tx /\ UNCHANGED host
  BY <1>2, HandlerServes, StatusQueue
<1>5. /\ dev.rx.size \in Nat /\ dev.rx.pos \in Nat /\ dev.rx.tog \in 0..1
      /\ dev.rx.pp \in 0..1
  BY <1>1 DEF Devices, PipeType
<1>6. /\ n \in 0..MaxPacket /\ n <= dev.rx.size /\ MaxPacket \in Nat /\ MaxPacket > 1
      /\ (n < MaxPacket => n = dev.rx.size)
  BY <1>5, PacketSize DEF Smaller
<1>7. d.rx = Taken(dev.rx, n)
  BY <1>1 DEF Devices
<1>8. /\ d \in Devices /\ Rest(d) = Rest(dev) /\ d.tx = dev.tx
      /\ d.rxbd = dev.rxbd /\ d.txbd = dev.txbd
      /\ d.rx.pp = 1 - dev.rx.pp /\ d.rx.tog = 1 - dev.rx.tog
      /\ d.rx.cb = dev.rx.cb
      /\ d.rx.size = dev.rx.size - n /\ d.rx.pos = dev.rx.pos + n
  <2>1. n \in Nat
    BY <1>6
  <2> HIDE DEF n
  <2> QED
    BY <1>1, <1>6, <2>1, TakenFacts
<1>9. dev' = IF n = dev.rx.size THEN FunctionDone(d, host.req)
             ELSE [d EXCEPT !.rxbd[d.rx.pp] =
                       Armed(d.rx, Smaller(d.rx.size, MaxPacket), d.rx.pos, d.rx.buf)]
  <2>1. dev.rxbd[dev.rx.pp].len = n
    BY <1>2
  <2>2. (n < MaxPacket \/ d.rx.size = 0) <=> n = dev.rx.size
    BY <1>5, <1>6, <1>8
  <2> DEFINE p == Taken(dev.rx, n)
             f == [dev EXCEPT !.rx = p]
  <2>3. d = f /\ d.rx = p
    BY <1>7
  <2>4. p.cb = "function" /\ (n < MaxPacket \/ p.size = 0 <=> n = dev.rx.size)
    BY <1>2, <1>8, <2>2, <2>3
  <2>5. usb_rx_next(dev, host.req) =
          IF n < MaxPacket \/ p.size = 0
          THEN CASE p.cb = "control" -> usb_handle_control(f, host.req)
                 [] p.cb = "done" -> usb_handle_control_done(f)
                 [] p.cb = "function" -> FunctionDone(f, host.req)
                 [] OTHER -> f
          ELSE [f EXCEPT !.rxbd[p.pp] =
                    Armed(p, Smaller(p.size, MaxPacket), p.pos, p.buf)]
    BY <2>1 DEF usb_rx_next
  <2> HIDE DEF n, d, p, f
  <2> QED
    BY <1>3, <2>3, <2>4, <2>5
<1> HIDE DEF n, d
<1>10. /\ d.state # "setting" /\ d.addr = host.addr /\ d.config = dev.config
       /\ ~d.ctrl_in /\ d.rx.pp = hw.rx /\ d.tx.pp = hw.tx
       /\ ~d.txbd[1 - hw.tx].own /\ ~d.rxbd[hw.rx].own /\ ~d.rxbd[1 - hw.rx].own
  BY <1>1, <1>2, <1>8 DEF SettledAddress, Rest, TxIdle
<1> QED
  BY <1>3, <1>8, <1>9, <1>10 DEF n, d

\* The device waits for the status stage of the request,
Accepted ==
    /\ host.req.ok /\ RxFree /\ TxArmed /\ TxBd.tog = 1
    /\ dev.tx.cb = "done" /\ dev.tx.size = 0 /\ ~dev.tx.short

\* or for the stall to be seen.
Rejected ==
    /\ ~host.req.ok
    /\ dev.rx.pp = hw.rx /\ ~dev.rxbd[1 - hw.rx].own
    /\ RxBd.own /\ RxBd.stall /\ TxIdle /\ TxBd.own

\* The verdict on a transfer to the device.
LEMMA LastPacket ==
    ASSUME TypeOK, ~hw.reset, ~hw.suspend, hw.statq = <<"out">>, SettledAddress, TxIdle,
           ~dev.ctrl_in, dev.rx.size > 0, host.req \in Requests,
           RxTaken("function", Smaller(dev.rx.size, MaxPacket)), USB0_Handler,
           dev.rx.size = Smaller(dev.rx.size, MaxPacket)
    PROVE  /\ dev' \in Devices /\ SettledAddress' /\ dev'.state # "setting"
           /\ dev'.config = dev.config /\ dev'.received = dev.rx.pos + dev.rx.size
           /\ Accepted' \/ Rejected'
<1> DEFINE n == Smaller(dev.rx.size, MaxPacket)
           d == [dev EXCEPT !.rx = Taken(dev.rx, n)]
<1>1. /\ hw' \in Controllers /\ hw'.rx = hw.rx /\ hw'.tx = hw.tx /\ UNCHANGED host
      /\ d \in Devices
      /\ d.rx.pp = hw.rx /\ d.rx.pos = dev.rx.pos + n
      /\ ~d.rxbd[hw.rx].own /\ ~d.rxbd[1 - hw.rx].own
      /\ d.state # "setting" /\ d.addr = host.addr /\ d.config = dev.config
      /\ ~d.ctrl_in /\ d.tx.pp = hw.tx /\ ~d.txbd[1 - hw.tx].own
  BY OutTaken
<1>2. dev' = FunctionDone(d, host.req)
  <2>1. dev' = IF n = dev.rx.size THEN FunctionDone(d, host.req)
               ELSE [d EXCEPT !.rxbd[d.rx.pp] =
                         Armed(d.rx, Smaller(d.rx.size, MaxPacket), d.rx.pos, d.rx.buf)]
    BY OutTaken
  <2>2. n = dev.rx.size
    OBVIOUS
  <2> HIDE DEF n, d
  <2> QED
    BY <2>1, <2>2, Zenon
<1>3. n = dev.rx.size
  OBVIOUS
<1> HIDE DEF n, d
<1>4. hw'.rx \in 0..1 /\ hw'.tx \in 0..1
  BY <1>1 DEF Controllers
<1> DEFINE f == [d EXCEPT !.received = d.rx.pos]
<1>5. /\ f \in Devices /\ f.received = d.rx.pos /\ ~f.ctrl_in
      /\ f.rx = d.rx /\ f.tx = d.tx /\ f.rxbd = d.rxbd /\ f.txbd = d.txbd
      /\ f.state = d.state /\ f.addr = d.addr /\ f.config = d.config
  <2>1. d.rx.pos \in Nat
    BY <1>1 DEF Devices, PipeType
  <2> QED
    BY <1>1, <2>1, ReceivedFacts
<1>6. FunctionDone(d, host.req) = IF ~host.req.ok THEN Refuse(f) ELSE StatusStage(f)
  BY DEF FunctionDone, usb_handle_control_status
<1> HIDE DEF f
<1>7. CASE ~host.req.ok
  <2>1. dev' = Refuse(f)
    BY <1>2, <1>6, <1>7, Zenon
  <2>2. /\ dev' \in Devices /\ Rest(dev') = Rest(f) /\ dev'.rx = f.rx /\ dev'.tx = f.tx
        /\ dev'.rxbd[f.rx.pp].own /\ dev'.rxbd[f.rx.pp].stall
        /\ dev'.txbd[f.tx.pp].own /\ dev'.txbd[f.tx.pp].stall
        /\ dev'.rxbd[1 - f.rx.pp] = f.rxbd[1 - f.rx.pp]
        /\ dev'.txbd[1 - f.tx.pp] = f.txbd[1 - f.tx.pp]
    BY <1>5, <2>1, RefuseFacts
  <2>3. Rejected'
    BY <1>1, <1>5, <1>7, <2>2 DEF Rejected, RxBd, TxIdle, TxBd
  <2>4. /\ SettledAddress' /\ dev'.state # "setting" /\ dev'.config = dev.config
        /\ dev'.received = dev.rx.pos + dev.rx.size
    BY <1>1, <1>3, <1>5, <2>2 DEF SettledAddress, Rest
  <2> QED
    BY <2>2, <2>3, <2>4
<1>8. CASE host.req.ok
  <2>1. dev' = StatusStage(f)
    BY <1>2, <1>6, <1>8, Zenon
  <2>2. /\ Sends(dev', f, 0, 0, 1)
        /\ dev'.tx.cb = "done" /\ dev'.tx.size = 0 /\ ~dev'.tx.short
    BY <1>5, <2>1, StatusInFacts
  <2>3. TxArmed' /\ TxBd'.tog = 1
    BY <1>1, <1>4, <1>5, <2>2, SendsArms
  <2>4. /\ dev' \in Devices /\ dev'.rx = d.rx /\ dev'.rxbd = d.rxbd
        /\ dev'.state # "setting" /\ dev'.addr = host.addr
        /\ dev'.config = dev.config /\ dev'.received = dev.rx.pos + dev.rx.size
    BY <1>1, <1>3, <1>5, <2>2 DEF Sends, Rest
  <2>5. RxFree'
    BY <1>1, <2>4 DEF RxFree, RxBd
  <2>6. Accepted'
    BY <1>1, <1>8, <2>2, <2>3, <2>5 DEF Accepted
  <2> QED
    BY <1>1, <2>4, <2>6 DEF SettledAddress
<1> QED
  BY <1>7, <1>8

\* A packet of a transfer to the device: the next one, or the verdict on all.
LEMMA HandlerDataOut ==
    ASSUME UsbInv, ~hw.reset, DataOut, USB0_Handler
    PROVE  UsbInv'
<1> DEFINE n == Smaller(dev.rx.size, MaxPacket)
           d == [dev EXCEPT !.rx = Taken(dev.rx, n)]
<1>1. /\ TypeOK /\ dev \in Devices /\ hw \in Controllers /\ Undisturbed
      /\ SettledAddress /\ TxIdle /\ (TxBd.own => host.after) /\ host \in Hosts
      /\ host.req \in Requests /\ host.req.kind = "class" /\ dev.config # 0
      /\ ~dev.ctrl_in
      /\ dev.rx.size > 0 /\ dev.rx.pos + dev.rx.size = host.req.len
      /\ hw.rx \in 0..1 /\ hw.tx \in 0..1
  BY DEF UsbInv, TypeOK, DataOut, Controllers
<1>2. /\ hw.statq = <<"out">> /\ RxTaken("function", n)
      /\ \/ /\ host.tog # dev.rx.tog /\ host.done = dev.rx.pos + n
            /\ host.stage = IF n = dev.rx.size THEN "status_in" ELSE "data_out"
         \/ /\ host.tog = dev.rx.tog /\ host.done = dev.rx.pos
            /\ host.stage = "data_out" /\ n < dev.rx.size
  BY <1>1 DEF DataOut, USB0_Handler, Quiet, Undisturbed
<1>3. /\ hw' \in Controllers /\ hw'.statq = <<>> /\ Undisturbed'
      /\ hw'.rx = hw.rx /\ hw'.tx = hw.tx /\ UNCHANGED host
  BY <1>1, <1>2, OutTaken DEF Undisturbed
<1>5. /\ dev.rx.size \in Nat /\ dev.rx.pos \in Nat /\ dev.rx.tog \in 0..1
      /\ host.tog \in 0..1 /\ host.done \in Nat
  BY <1>1 DEF Devices, PipeType, Hosts
<1>6. /\ n \in 0..MaxPacket /\ n <= dev.rx.size /\ MaxPacket \in Nat /\ MaxPacket > 1
      /\ (n < MaxPacket => n = dev.rx.size)
  BY <1>5, PacketSize DEF Smaller
<1>11. host.stage \in {"data_out", "status_in"}
  BY <1>2
<1>12. SUFFICES dev' \in Devices /\ Phases'
  BY <1>3, <1>11, HandlerKeeps DEF UsbInv, Undisturbed
<1>13. CASE n # dev.rx.size
  <2>1. /\ d \in Devices /\ Rest(d) = Rest(dev) /\ d.tx = dev.tx
        /\ d.txbd = dev.txbd
        /\ d.rx.pp = hw.rx /\ d.rx.tog = 1 - dev.rx.tog /\ d.rx.cb = dev.rx.cb
        /\ d.rx.size = dev.rx.size - n /\ d.rx.pos = dev.rx.pos + n
        /\ ~d.rxbd[1 - hw.rx].own
        /\ d.state # "setting" /\ d.addr = host.addr /\ d.config = dev.config
        /\ ~d.ctrl_in
    BY <1>1, <1>2, OutTaken DEF Undisturbed
  <2>2. dev' = [d EXCEPT !.rxbd[d.rx.pp] =
                    Armed(d.rx, Smaller(d.rx.size, MaxPacket), d.rx.pos, d.rx.buf)]
    <3>1. dev' = IF n = dev.rx.size THEN FunctionDone(d, host.req)
                 ELSE [d EXCEPT !.rxbd[d.rx.pp] =
                         Armed(d.rx, Smaller(d.rx.size, MaxPacket), d.rx.pos, d.rx.buf)]
      BY <1>1, <1>2, OutTaken DEF Undisturbed
    <3> HIDE DEF n, d
    <3> QED
      BY <1>13, <3>1, Zenon
  <2> HIDE DEF n, d
  <2>3. /\ dev' \in Devices /\ Rest(dev') = Rest(d)
        /\ dev'.rx = d.rx /\ dev'.tx = d.tx /\ dev'.txbd = d.txbd
        /\ dev'.rxbd[d.rx.pp].own /\ ~dev'.rxbd[d.rx.pp].stall
        /\ dev'.rxbd[d.rx.pp].tog = d.rx.tog /\ dev'.rxbd[d.rx.pp].at = d.rx.pos
        /\ dev'.rxbd[1 - d.rx.pp] = d.rxbd[1 - d.rx.pp]
    BY <2>1, <2>2, RxContinues
  <2>4. dev.rx.cb = "function"
    BY <1>2 DEF RxTaken
  <2>5. RxArmed("function", dev.rx.tog)' /\ RxBd'.at = dev'.rx.pos
    BY <1>3, <2>1, <2>3, <2>4 DEF RxArmed, RxBd
  <2>6. TxIdle' /\ (TxBd.own => host.after)'
    BY <1>1, <1>3, <2>1, <2>3 DEF TxIdle, TxBd
  <2>7. SettledAddress' /\ dev'.config = dev.config /\ ~dev'.ctrl_in
    BY <1>3, <2>1, <2>3 DEF SettledAddress, Rest
  <2>8. dev'.rx.size > 0 /\ dev'.rx.pos + dev'.rx.size = host.req.len
    BY <1>1, <1>5, <1>6, <1>13, <2>1, <2>3
  <2>9. n = MaxPacket /\ host.stage = "data_out"
    BY <1>2, <1>6, <1>13
  <2>10. \/ host.tog = dev'.rx.tog /\ host.done = dev'.rx.pos
         \/ host.tog # dev'.rx.tog /\ host.done + MaxPacket = dev'.rx.pos
    BY <1>2, <1>5, <2>1, <2>3, <2>9
  <2>11. DataOut'
    BY <1>1, <1>3, <2>5, <2>6, <2>7, <2>8, <2>9, <2>10 DEF DataOut
  <2> QED
    BY <2>3, <2>11 DEF Phases
<1>14. CASE n = dev.rx.size
  <2>1. /\ dev' \in Devices /\ SettledAddress' /\ dev'.state # "setting"
        /\ dev'.config = dev.config /\ dev'.received = dev.rx.pos + dev.rx.size
        /\ Accepted' \/ Rejected'
    BY <1>1, <1>2, <1>14, LastPacket DEF Undisturbed
  <2>2. host.stage = "status_in"
    <3>1. ~(n < dev.rx.size)
      BY <1>5, <1>14
    <3> QED
      BY <1>2, <1>14, <3>1
  <2> HIDE DEF n, d
  <2>3. CASE Rejected'
    <3>1. Refused(host.req)'
      BY <1>3, <2>3 DEF Refused, Rejected
    <3>2. Refusing'
      BY <1>3, <2>1, <2>2, <2>3, <3>1 DEF Refusing, Rejected, Undisturbed
    <3> QED
      BY <2>1, <3>2 DEF Phases
  <2>4. CASE Accepted'
    <3>1. ~Refused(host.req)'
      BY <1>1, <1>3, <2>1, <2>4 DEF Refused, Accepted
    <3>2. host.req.dir = "out" /\ dev'.received = host.req.len
      BY <1>1, <2>1, UsbAssumption DEF UsbAssumption
    <3>3. ToStatus'
      BY <1>1, <1>3, <2>1, <2>4, <3>1, <3>2 DEF ToStatus, Accepted
    <3>4. StatusIn'
      BY <1>3, <2>1, <2>2, <2>4, <3>3 DEF StatusIn, Accepted, SettledAddress
    <3> QED
      BY <2>1, <3>4 DEF Phases
  <2> QED
    BY <2>1, <2>3, <2>4
<1> QED
  BY <1>13, <1>14

\* The last packet of a transfer whose status stage has met a stale stall.
LEMMA HandlerMetStall ==
    ASSUME UsbInv, ~hw.reset, MetStall, USB0_Handler
    PROVE  UsbInv'
<1>1. /\ TypeOK /\ dev \in Devices /\ host \in Hosts
      /\ hw.statq = <<"out">> /\ ~hw.suspend /\ SettledAddress /\ TxIdle
      /\ host.req \in Requests /\ host.req.kind = "class" /\ dev.config # 0
      /\ host.stage = "idle" /\ host.result = "stall" /\ StaleStall
      /\ ~dev.ctrl_in /\ dev.rx.size > 0 /\ dev.rx.size <= MaxPacket
      /\ RxTaken("function", dev.rx.size) /\ dev.rx.size \in Nat
  BY DEF UsbInv, TypeOK, MetStall, Devices, PipeType
<1>2. dev.rx.size = Smaller(dev.rx.size, MaxPacket)
  BY <1>1, PacketSize DEF Smaller
<1>3. RxTaken("function", Smaller(dev.rx.size, MaxPacket))
  BY <1>1, <1>2
<1>4. /\ hw' \in Controllers /\ hw'.statq = <<>> /\ Undisturbed' /\ UNCHANGED host
  BY <1>1, <1>3, OutTaken
<1>5. /\ dev' \in Devices /\ SettledAddress'
      /\ dev'.config = dev.config
      /\ Accepted' \/ Rejected'
  BY <1>1, <1>2, <1>3, LastPacket
<1>6. StaleStall'
  BY <1>1, <1>4 DEF StaleStall
<1>7. Phases'
  <2>1. CASE Rejected'
    <3>1. Refused(host.req)'
      BY <2>1 DEF Refused, Rejected
    <3>2. Refusing'
      BY <1>1, <1>4, <1>5, <1>6, <2>1, <3>1 DEF Refusing, Rejected, Undisturbed
    <3> QED
      BY <3>2 DEF Phases
  <2>2. CASE Accepted'
    <3>1. Misled'
      BY <1>1, <1>4, <1>5, <1>6, <2>2 DEF Misled, Accepted
    <3> QED
      BY <3>1 DEF Phases
  <2> QED
    BY <1>5, <2>1, <2>2
<1>8. TypeOK' /\ DataIntact' /\ VerdictAgrees' /\ (host.stage # "idle" => host.result = "none")'
  <2>1. TypeOK'
    BY <1>1, <1>4, <1>5 DEF TypeOK
  <2>2. DataIntact'
    BY <1>1, <1>4 DEF UsbInv, DataIntact
  <2>3. VerdictAgrees'
    BY <1>1, <1>4, <1>6 DEF VerdictAgrees
  <2> QED
    BY <1>1, <1>4, <2>1, <2>2, <2>3
<1> QED
  BY <1>4, <1>7, <1>8 DEF UsbInv, Undisturbed

LEMMA HandlerStep ==
    ASSUME UsbInv, USB0_Handler
    PROVE  UsbInv'
<1>1. CASE hw.reset
  BY <1>1, HandlerReset
<1>2. CASE ~hw.reset
  <2>1. ~Quiet /\ Phases
    BY <1>2 DEF USB0_Handler, UsbInv
  <2>2. ~Ready /\ ~StatusIn /\ ~GivenUp /\ ~Misled
    BY <1>2, <2>1 DEF Ready, StatusIn, ToStatus, GivenUp, Misled, Quiet, Undisturbed
  <2> QED
    BY <1>2, <2>1, <2>2, HandlerSetup, HandlerUnstalls, HandlerDataIn,
       HandlerStatusOut, HandlerStatusIn, HandlerDataOut, HandlerMetStall DEF Phases
<1> QED
  BY <1>1, <1>2

-----------------------------------------------------------------------------
(* The bus                                                                 *)

LEMMA TxDoneFacts ==
    ASSUME TypeOK, TxDone
    PROVE  /\ dev' \in Devices /\ Rest(dev') = Rest(dev) /\ dev'.tx = dev.tx
           /\ dev'.rx = dev.rx /\ dev'.rxbd = dev.rxbd
           /\ ~dev'.txbd[hw.tx].own
           /\ dev'.txbd[1 - hw.tx] = dev.txbd[1 - hw.tx]
           /\ hw' \in Controllers /\ hw'.tx = 1 - hw.tx /\ hw'.rx = hw.rx
           /\ hw'.statq = Append(hw.statq, "in") /\ hw'.suspend = hw.suspend
           /\ hw'.stall = hw.stall /\ hw'.reset = hw.reset
           /\ hw.rx \in 0..1 /\ hw.tx \in 0..1
<1> DEFINE bd == [dev.txbd[hw.tx] EXCEPT !.own = FALSE]
           bds == [dev.txbd EXCEPT ![hw.tx] = bd]
           queue == Append(hw.statq, "in")
<1>1. /\ dev \in Devices /\ dev.txbd \in [0..1 -> BdType] /\ hw \in Controllers
      /\ hw.tx \in 0..1 /\ hw.rx \in 0..1 /\ hw.statq \in Seq({"setup", "in", "out"})
  BY DEF TypeOK, Devices, Controllers
<1>2. bd \in BdType /\ ~bd.own
  <2>1. \A b \in BdType : /\ [b EXCEPT !.own = FALSE] \in BdType
                          /\ [b EXCEPT !.own = FALSE].own = FALSE
    BY DEF BdType
  <2> QED
    BY <1>1, <2>1
<1>3. /\ dev' = [dev EXCEPT !.txbd = bds]
      /\ hw' = [hw EXCEPT !.tx = 1 - hw.tx, !.statq = queue]
  BY <1>1 DEF TxDone, Devices
<1> HIDE DEF bd
<1>4. bds \in [0..1 -> BdType] /\ bds[hw.tx] = bd /\ bds[1 - hw.tx] = dev.txbd[1 - hw.tx]
  BY <1>1, <1>2
<1>5. queue \in Seq({"setup", "in", "out"}) /\ 1 - hw.tx \in 0..1
  BY <1>1
<1> HIDE DEF bds, queue
<1>6. /\ dev' \in Devices /\ Rest(dev') = Rest(dev) /\ dev'.tx = dev.tx
      /\ dev'.rx = dev.rx /\ dev'.rxbd = dev.rxbd /\ dev'.txbd = bds
  BY <1>1, <1>3, <1>4 DEF Devices, Rest
<1>7. /\ hw' \in Controllers /\ hw'.tx = 1 - hw.tx /\ hw'.rx = hw.rx
      /\ hw'.statq = queue /\ hw'.suspend = hw.suspend
      /\ hw'.stall = hw.stall /\ hw'.reset = hw.reset
  BY <1>1, <1>3, <1>5 DEF Controllers
<1> QED
  BY <1>1, <1>2, <1>4, <1>6, <1>7 DEF queue

LEMMA RxDoneFacts ==
    ASSUME TypeOK, NEW pid \in {"setup", "out"}, NEW len \in 0..MaxPacket,
           RxDone(pid, len)
    PROVE  /\ dev' \in Devices /\ Rest(dev') = Rest(dev) /\ dev'.tx = dev.tx
           /\ dev'.rx = dev.rx /\ dev'.txbd = dev.txbd
           /\ ~dev'.rxbd[hw.rx].own /\ dev'.rxbd[hw.rx].len = len
           /\ dev'.rxbd[hw.rx].stall = dev.rxbd[hw.rx].stall
           /\ dev'.rxbd[1 - hw.rx] = dev.rxbd[1 - hw.rx]
           /\ hw' \in Controllers /\ hw'.rx = 1 - hw.rx /\ hw'.tx = hw.tx
           /\ hw'.statq = Append(hw.statq, pid) /\ (hw'.suspend <=> pid = "setup")
           /\ hw'.stall = hw.stall /\ hw'.reset = hw.reset
           /\ hw.rx \in 0..1 /\ hw.tx \in 0..1
<1> DEFINE bd == [dev.rxbd[hw.rx] EXCEPT !.own = FALSE, !.len = len]
           bds == [dev.rxbd EXCEPT ![hw.rx] = bd]
           queue == Append(hw.statq, pid)
           held == pid = "setup"
<1>1. /\ dev \in Devices /\ dev.rxbd \in [0..1 -> BdType] /\ hw \in Controllers
      /\ hw.tx \in 0..1 /\ hw.rx \in 0..1 /\ hw.statq \in Seq({"setup", "in", "out"})
  BY DEF TypeOK, Devices, Controllers
<1>2. bd \in BdType /\ ~bd.own /\ bd.len = len /\ bd.stall = dev.rxbd[hw.rx].stall
  <2>1. \A b \in BdType : /\ [b EXCEPT !.own = FALSE, !.len = len] \in BdType
                          /\ [b EXCEPT !.own = FALSE, !.len = len].own = FALSE
                          /\ [b EXCEPT !.own = FALSE, !.len = len].len = len
    BY DEF BdType
  <2>2. \A b \in BdType : [b EXCEPT !.own = FALSE, !.len = len].stall = b.stall
    BY DEF BdType
  <2> QED
    BY <1>1, <2>1, <2>2
<1>3. /\ dev' = [dev EXCEPT !.rxbd = bds]
      /\ hw' = [hw EXCEPT !.rx = 1 - hw.rx, !.suspend = held, !.statq = queue]
  BY <1>1 DEF RxDone, Devices
<1> HIDE DEF bd
<1>4. bds \in [0..1 -> BdType] /\ bds[hw.rx] = bd /\ bds[1 - hw.rx] = dev.rxbd[1 - hw.rx]
  BY <1>1, <1>2
<1>5. /\ queue \in Seq({"setup", "in", "out"}) /\ 1 - hw.rx \in 0..1
      /\ held \in BOOLEAN
  BY <1>1
<1> HIDE DEF bds, queue, held
<1>6. /\ dev' \in Devices /\ Rest(dev') = Rest(dev) /\ dev'.tx = dev.tx
      /\ dev'.rx = dev.rx /\ dev'.txbd = dev.txbd /\ dev'.rxbd = bds
  BY <1>1, <1>3, <1>4 DEF Devices, Rest
<1>7. /\ hw' \in Controllers /\ hw'.tx = hw.tx /\ hw'.rx = 1 - hw.rx
      /\ hw'.statq = queue
      /\ hw'.stall = hw.stall /\ hw'.reset = hw.reset
  BY <1>1, <1>3, <1>5 DEF Controllers
<1>8. hw'.suspend = held
  BY <1>1, <1>3 DEF Controllers
<1> QED
  BY <1>1, <1>2, <1>4, <1>6, <1>7, <1>8 DEF queue, held

LEMMA StallsFacts ==
    ASSUME TypeOK, Stalls
    PROVE  /\ hw' \in Controllers /\ hw'.stall /\ UNCHANGED dev
           /\ hw'.rx = hw.rx /\ hw'.tx = hw.tx /\ hw'.statq = hw.statq
           /\ hw'.suspend = hw.suspend /\ hw'.reset = hw.reset
  BY DEF TypeOK, Stalls, Controllers

LEMMA TxFreed ==
    ASSUME TypeOK, TxDone, TxArmed
    PROVE  TxFree'
<1>1. /\ dev'.tx = dev.tx /\ ~dev'.txbd[hw.tx].own
      /\ dev'.txbd[1 - hw.tx] = dev.txbd[1 - hw.tx]
      /\ hw'.tx = 1 - hw.tx /\ hw.tx \in 0..1
  BY TxDoneFacts
<1>2. dev.tx.pp = 1 - hw.tx /\ ~dev.txbd[1 - hw.tx].own
  BY DEF TxArmed
<1>3. 1 - hw'.tx = hw.tx
  BY <1>1
<1> QED
  BY <1>1, <1>2, <1>3 DEF TxFree, TxIdle, TxBd

LEMMA RxUsed ==
    ASSUME TypeOK, NEW pid \in {"setup", "out"}, NEW len \in 0..MaxPacket,
           RxDone(pid, len), NEW cb, NEW tog, RxArmed(cb, tog)
    PROVE  /\ dev'.rx.pp = 1 - hw'.rx /\ dev'.rx.cb = cb
           /\ ~RxBd'.own /\ ~dev'.rxbd[1 - hw'.rx].own
           /\ ~dev'.rxbd[1 - hw'.rx].stall
           /\ dev'.rxbd[1 - hw'.rx].len = len
<1>1. /\ dev'.rx = dev.rx
      /\ ~dev'.rxbd[hw.rx].own /\ dev'.rxbd[hw.rx].len = len
      /\ dev'.rxbd[hw.rx].stall = dev.rxbd[hw.rx].stall
      /\ dev'.rxbd[1 - hw.rx] = dev.rxbd[1 - hw.rx]
      /\ hw'.rx = 1 - hw.rx /\ hw.rx \in 0..1
  BY RxDoneFacts
<1>2. /\ dev.rx.pp = hw.rx /\ dev.rx.cb = cb /\ ~dev.rxbd[1 - hw.rx].own
      /\ ~dev.rxbd[hw.rx].stall
  BY DEF RxArmed, RxBd
<1>3. 1 - hw'.rx = hw.rx
  BY <1>1
<1> QED
  BY <1>1, <1>2, <1>3 DEF RxBd

\* What the host concludes when the status stage ends well.
LEMMA SucceededFacts ==
    ASSUME host \in Hosts, host.req \in Requests
    PROVE  /\ Succeeded \in Hosts /\ Succeeded.stage = "idle"
           /\ Succeeded.result = "ok" /\ Succeeded.req = host.req
           /\ Succeeded.intact = host.intact /\ Succeeded.tog = host.tog
           /\ Succeeded.done = host.done /\ Succeeded.after = host.after
           /\ Succeeded.addr = IF host.req.kind = "address" THEN host.req.value
                               ELSE host.addr
<1> DEFINE addr == IF host.req.kind = "address" THEN host.req.value ELSE host.addr
           h == [host EXCEPT !.stage = "idle", !.result = "ok", !.addr = addr]
<1>1. addr \in Nat
  BY RequestFacts DEF Hosts
<1>2. Succeeded = h
  BY DEF Succeeded, Hosts
<1> HIDE DEF addr
<1>3. /\ h \in Hosts /\ h.stage = "idle" /\ h.result = "ok" /\ h.req = host.req
      /\ h.tog = host.tog /\ h.done = host.done /\ h.addr = addr
  BY <1>1 DEF Hosts
<1>4. h.intact = host.intact /\ h.after = host.after
  BY DEF Hosts
<1> QED
  BY <1>2, <1>3, <1>4 DEF addr

\* What the host concludes from a STALL.
LEMMA RefusalFacts ==
    ASSUME host \in Hosts, HostRefused
    PROVE  /\ host' \in Hosts /\ host'.stage = "idle" /\ host'.result = "stall"
           /\ host'.req = host.req /\ host'.addr = host.addr
           /\ host'.intact = host.intact /\ host'.after = host.after
           /\ host'.early = (hw.statq # <<>>) /\ Stalls
<1> DEFINE early == hw.statq # <<>>
<1>1. early \in BOOLEAN
  OBVIOUS
<1> HIDE DEF early
<1>2. /\ host' = [host EXCEPT !.stage = "idle", !.result = "stall", !.early = early]
      /\ Stalls
  BY DEF HostRefused, early
<1>3. /\ host' \in Hosts /\ host'.stage = "idle" /\ host'.result = "stall"
      /\ host'.req = host.req /\ host'.addr = host.addr
  BY <1>1, <1>2 DEF Hosts
<1>4. host'.intact = host.intact /\ host'.after = host.after /\ host'.early = early
  BY <1>2 DEF Hosts
<1> QED
  BY <1>2, <1>3, <1>4 DEF early

\* A stall for a refused request.
LEMMA RefusedStep ==
    ASSUME UsbInv, ~hw.reset, Refusing, HostRefused, host.stage # "idle"
    PROVE  UsbInv'
<1>1. TypeOK /\ host \in Hosts /\ HostRefused
  BY DEF UsbInv, TypeOK
<1>2. /\ host' \in Hosts /\ host'.stage = "idle" /\ host'.result = "stall"
      /\ host'.req = host.req /\ host'.addr = host.addr
      /\ host'.intact = host.intact /\ Stalls
  BY <1>1, RefusalFacts
<1>3. /\ hw' \in Controllers /\ hw'.stall /\ UNCHANGED dev
      /\ hw'.rx = hw.rx /\ hw'.tx = hw.tx /\ hw'.statq = hw.statq
      /\ hw'.suspend = hw.suspend /\ hw'.reset = hw.reset
  BY <1>1, <1>2, StallsFacts
<1>4. Refusing'
  BY <1>2, <1>3 DEF Refusing, RxBd, TxBd, TxIdle, SettledAddress, Refused
<1>5. TypeOK' /\ DataIntact'
  BY <1>1, <1>2, <1>3 DEF UsbInv, TypeOK, DataIntact
<1>6. VerdictAgrees'
  BY <1>2, <1>4 DEF VerdictAgrees, Refusing
<1> QED
  BY <1>2, <1>3, <1>4, <1>5, <1>6 DEF UsbInv, Phases

\* The token of the status stage outruns the handler and meets the STALL that
\* the request before has left.
LEMMA MisledStep ==
    ASSUME UsbInv, ~hw.reset, DataOut, HostIn
    PROVE  UsbInv'
<1> DEFINE n == Smaller(dev.rx.size, MaxPacket)
<1>1. /\ TypeOK /\ host \in Hosts /\ Undisturbed /\ SettledAddress /\ TxIdle
      /\ TxBd.own => host.after
      /\ host.req \in Requests /\ host.req.kind = "class" /\ dev.config # 0
      /\ ~dev.ctrl_in /\ dev.rx.size > 0
      /\ TxBd.own /\ host.stage \in {"data_in", "status_in"}
  BY DEF UsbInv, TypeOK, DataOut, HostIn
<1>2. host.stage # "data_out" /\ host.stage # "data_in"
  BY <1>1 DEF DataOut
<1>3. /\ hw.statq = <<"out">> /\ RxTaken("function", n)
      /\ host.stage = IF n = dev.rx.size THEN "status_in" ELSE "data_out"
  BY <1>2 DEF DataOut
<1>4. n = dev.rx.size /\ dev.rx.size <= MaxPacket
  <2>1. n = dev.rx.size
    BY <1>2, <1>3
  <2>2. dev.rx.size \in Nat
    BY <1>1 DEF TypeOK, Devices, PipeType
  <2> QED
    BY <2>1, <2>2, PacketSize DEF Smaller
<1>5. TxBd.stall /\ host.after /\ host.req.dir = "out"
  <2>1. TxBd.stall /\ host.after
    BY <1>1 DEF TxIdle
  <2>2. host.req.dir = "out"
    BY <1>1, UsbAssumption DEF UsbAssumption
  <2> QED
    BY <2>1, <2>2
<1>6. HostRefused
  BY <1>5 DEF HostIn
<1>7. /\ host' \in Hosts /\ host'.stage = "idle" /\ host'.result = "stall"
      /\ host'.req = host.req /\ host'.addr = host.addr
      /\ host'.intact = host.intact /\ host'.after = host.after
      /\ host'.early = (hw.statq # <<>>) /\ Stalls
  BY <1>1, <1>6, RefusalFacts
<1>8. hw.statq # <<>>
  BY <1>3, StatusQueue
<1>9. StaleStall'
  BY <1>5, <1>7, <1>8 DEF StaleStall
<1>10. /\ hw' \in Controllers /\ hw'.stall /\ UNCHANGED dev
       /\ hw'.rx = hw.rx /\ hw'.tx = hw.tx /\ hw'.statq = hw.statq
       /\ hw'.suspend = hw.suspend /\ hw'.reset = hw.reset
  BY <1>1, <1>7, StallsFacts
<1>11. RxTaken("function", dev.rx.size)
  BY <1>3, <1>4
<1>12. RxTaken("function", dev.rx.size)' /\ TxIdle' /\ SettledAddress'
  BY <1>1, <1>7, <1>10, <1>11 DEF RxTaken, RxBd, TxIdle, TxBd, SettledAddress
<1> HIDE DEF n
<1>13. MetStall'
  BY <1>1, <1>3, <1>4, <1>7, <1>9, <1>10, <1>12 DEF MetStall, Undisturbed
<1>14. TypeOK' /\ DataIntact' /\ VerdictAgrees'
  BY <1>1, <1>7, <1>9, <1>10 DEF UsbInv, TypeOK, DataIntact, VerdictAgrees
<1> QED
  BY <1>7, <1>10, <1>13, <1>14 DEF UsbInv, Phases

\* A packet of data to the host, the last one or one of many.
LEMMA HostInData ==
    ASSUME UsbInv, Civil, ~hw.reset, DataIn, HostIn
    PROVE  UsbInv'
<1>1. /\ TypeOK /\ host \in Hosts /\ hw \in Controllers /\ Undisturbed
      /\ ToHost /\ host.stage = "data_in" /\ RxArmed("done", 1)
      /\ host.result = "none" /\ host.intact /\ MaxPacket \in Nat /\ MaxPacket > 1
  BY PacketSize DEF UsbInv, TypeOK, DataIn, ToHost, DataIntact
<1>2. TxBd.own /\ ~TxBd.stall
  BY DEF HostIn, DataIn, TxArmed, TxFree
<1>3. /\ hw.statq = <<>> /\ TxArmed
      /\ TxBd.at + TxBd.len = dev.tx.pos /\ PacketMatches(TxBd.len)
      /\ \/ host.tog = TxBd.tog /\ host.done = TxBd.at
         \/ /\ host.tog # TxBd.tog /\ host.done = dev.tx.pos
            /\ TxBd.len = MaxPacket /\ dev.tx.pos # host.req.len
  BY <1>2 DEF DataIn, TxFree
<1>4. /\ host.req \in Requests /\ host.req.dir = "in" /\ host.req.kind = "std"
      /\ dev.tx.cb = "none" /\ dev.rx.size = 0 /\ SettledAddress
      /\ dev.tx.pos + dev.tx.size = Smaller(host.req.size, host.req.len)
  BY <1>1 DEF ToHost
<1>5. /\ TxBd.len \in 0..MaxPacket /\ TxBd.at \in Nat /\ TxBd.tog \in 0..1
      /\ host.tog \in 0..1 /\ host.done \in Nat
      /\ dev.tx.pos \in Nat /\ dev.tx.size \in Nat /\ dev.tx.tog = TxBd.tog
      /\ host.req.len \in Nat /\ host.req.size \in Nat
  <2>1. TxBd \in BdType /\ dev.tx \in PipeType
    BY <1>1 DEF TypeOK, Devices, Controllers, TxBd
  <2> QED
    BY <1>1, <1>3, <1>4, <2>1, RequestFacts DEF BdType, PipeType, Hosts, TxArmed
<1> DEFINE last == TxBd.len < MaxPacket \/ host.done + TxBd.len = host.req.len
<1>6. host' = Received
  BY <1>1, <1>2 DEF HostIn
<1>7. /\ host' \in Hosts /\ host'.req = host.req /\ host'.addr = host.addr
      /\ host'.result = "none" /\ host'.intact
      /\ \/ host.tog # TxBd.tog /\ host' = host
         \/ /\ host.tog = TxBd.tog /\ host'.tog = 1 - host.tog
            /\ host'.done = dev.tx.pos
            /\ host'.stage = IF last THEN "status_out" ELSE "data_in"
  <2>1. CASE host.tog # TxBd.tog
    BY <1>1, <1>6, <2>1 DEF Received
  <2>2. CASE host.tog = TxBd.tog
    <3> DEFINE done == host.done + TxBd.len
               stage == IF last THEN "status_out" ELSE host.stage
               tog == 1 - host.tog
               intact == host.intact /\ TxBd.at = host.done
               h == [host EXCEPT !.tog = tog, !.done = done,
                                 !.intact = intact, !.stage = stage]
    <3>1. Received = h
      BY <1>1, <2>2 DEF Received, Hosts
    <3>2. /\ done \in Nat /\ done = dev.tx.pos /\ tog \in 0..1
          /\ stage \in {"status_out", "data_in"}
          /\ intact \in BOOLEAN /\ intact
      BY <1>1, <1>3, <1>5, <2>2
    <3> HIDE DEF done, stage, tog, intact
    <3>3. /\ h \in Hosts /\ h.req = host.req /\ h.addr = host.addr
          /\ h.result = host.result /\ h.tog = tog /\ h.done = done /\ h.stage = stage
      BY <1>1, <3>2 DEF Hosts
    <3>4. h.intact = intact
      BY <1>1 DEF Hosts
    <3> HIDE DEF h, last
    <3> QED
      BY <1>1, <1>6, <2>2, <3>1, <3>2, <3>3, <3>4 DEF stage, tog
  <2> QED
    BY <2>1, <2>2
<1>8. VerdictAgrees'
  BY <1>7 DEF VerdictAgrees
<1>9. DataIntact'
  <2>1. last /\ host.tog = TxBd.tog => dev.tx.pos = Smaller(host.req.len, host.req.size)
    BY <1>3, <1>4, <1>5 DEF PacketMatches, Smaller
  <2> HIDE DEF last
  <2>2. host'.stage = "status_out" => host'.done = Smaller(host'.req.len, host'.req.size)
    BY <1>1, <1>7, <2>1
  <2> QED
    BY <1>7, <2>2 DEF DataIntact
<1>10. CASE TxDone
  <2>1. /\ dev' \in Devices /\ Rest(dev') = Rest(dev) /\ dev'.tx = dev.tx
        /\ dev'.rx = dev.rx /\ dev'.rxbd = dev.rxbd
        /\ hw' \in Controllers /\ hw'.rx = hw.rx
        /\ hw'.statq = <<"in">> /\ Undisturbed'
    BY <1>1, <1>3, <1>10, TxDoneFacts, StatusQueue DEF Undisturbed
  <2>2. TxFree'
    BY <1>1, <1>3, <1>10, TxFreed
  <2>3. RxArmed("done", 1)'
    BY <1>1, <2>1 DEF RxArmed, RxBd
  <2>4. ToHost'
    BY <1>4, <1>7, <2>1 DEF ToHost, SettledAddress, Rest
  <2>5. CASE host'.stage = "status_out"
    <3>1. host.tog = TxBd.tog /\ last
      BY <1>1, <1>7, <2>5
    <3>2. dev.tx.size = 0 /\ ~dev.tx.short
      <4>1. CASE TxBd.len < MaxPacket
        BY <1>3, <4>1 DEF PacketMatches
      <4>2. CASE TxBd.len = MaxPacket
        <5>1. dev.tx.pos = host.req.len
          BY <1>1, <1>3, <1>5, <3>1, <4>2
        <5>2. dev.tx.size = 0 /\ ~(host.req.size < host.req.len)
          BY <1>4, <1>5, <5>1 DEF Smaller
        <5> QED
          BY <1>3, <4>2, <5>2 DEF PacketMatches
      <4> QED
        BY <1>1, <1>5, <4>1, <4>2
    <3>3. StatusOut'
      BY <2>1, <2>2, <2>3, <2>4, <2>5, <3>2 DEF StatusOut, AllSent
    <3> QED
      BY <1>7, <1>8, <1>9, <2>1, <3>3 DEF UsbInv, TypeOK, Phases, Undisturbed
  <2>6. CASE host'.stage # "status_out"
    <3>1. /\ host'.tog # TxBd.tog /\ host'.done = dev.tx.pos /\ TxBd.len = MaxPacket
          /\ dev.tx.pos # host.req.len /\ host'.stage = "data_in"
      BY <1>1, <1>3, <1>5, <1>7, <2>6
    <3>2. PacketMatches(MaxPacket)'
      BY <1>3, <1>7, <2>1, <3>1 DEF PacketMatches
    <3>3. DataIn'
      BY <1>5, <1>7, <2>1, <2>2, <2>3, <2>4, <3>1, <3>2 DEF DataIn
    <3> QED
      BY <1>7, <1>8, <1>9, <2>1, <3>3 DEF UsbInv, TypeOK, Phases, Undisturbed
  <2> QED
    BY <2>5, <2>6
<1>11. CASE UNCHANGED <<dev, hw>> /\ host'.stage # "status_out"
  <2>1. CASE host' = host
    BY <1>11, <2>1 DEF UsbInv, TypeOK, DataIntact, VerdictAgrees, Refused, Phases,
       DataIn, ToHost, Undisturbed, SettledAddress, RxArmed, RxBd, TxArmed, TxBd,
       PacketMatches, TxFree, TxIdle
  <2>2. CASE host' # host
    <3>1. /\ host'.tog # TxBd.tog /\ host'.done = dev.tx.pos /\ TxBd.len = MaxPacket
          /\ dev.tx.pos # host.req.len /\ host'.stage = "data_in"
      BY <1>1, <1>3, <1>5, <1>7, <1>11, <2>2
    <3>2. TxBd' = TxBd /\ RxBd' = RxBd
      BY <1>11 DEF TxBd, RxBd
    <3>3. PacketMatches(TxBd.len)'
      BY <1>3, <1>7, <1>11, <3>2 DEF PacketMatches
    <3>4. ToHost' /\ RxArmed("done", 1)' /\ TxArmed'
      BY <1>1, <1>3, <1>7, <1>11, <3>2
         DEF ToHost, RxArmed, TxArmed, SettledAddress, Undisturbed
    <3>5. DataIn'
      BY <1>3, <1>7, <1>11, <3>1, <3>2, <3>3, <3>4 DEF DataIn
    <3> QED
      BY <1>1, <1>7, <1>8, <1>9, <1>11, <3>5 DEF UsbInv, TypeOK, Phases, Undisturbed
  <2> QED
    BY <2>1, <2>2
<1> QED
  <2>1. "last_in" \notin LostAcks
    BY DEF Civil
  <2> QED
    BY <1>1, <1>2, <1>6, <1>10, <1>11, <2>1 DEF HostIn

\* The status packet of a transfer to the device, or of one without data.
LEMMA HostInStatus ==
    ASSUME UsbInv, Civil, ~hw.reset, StatusIn, HostIn
    PROVE  UsbInv'
<1>1. /\ TypeOK /\ host \in Hosts /\ Undisturbed /\ ToStatus
      /\ host.stage = "status_in" /\ hw.statq = <<>>
      /\ TxArmed /\ TxBd.tog = 1 /\ dev.addr = host.addr
      /\ host.req \in Requests /\ host.req.dir # "in" /\ ~Refused(host.req)
      /\ host.req.dir = "out" => dev.received = host.req.len
      /\ host.intact
  BY DEF UsbInv, TypeOK, StatusIn, ToStatus, DataIntact
<1>2. ~TxBd.stall /\ "status_in" \notin LostAcks
  BY <1>1 DEF TxArmed, Civil
<1>3. /\ Succeeded \in Hosts /\ Succeeded.stage = "idle"
      /\ Succeeded.result = "ok" /\ Succeeded.req = host.req
      /\ Succeeded.intact = host.intact
      /\ Succeeded.addr = IF host.req.kind = "address" THEN host.req.value
                          ELSE host.addr
  BY <1>1, SucceededFacts
<1>4. host' = Succeeded /\ TxDone
  BY <1>1, <1>2, <1>3 DEF HostIn
<1>5. /\ dev' \in Devices /\ Rest(dev') = Rest(dev) /\ dev'.tx = dev.tx
      /\ dev'.rx = dev.rx /\ dev'.rxbd = dev.rxbd
      /\ hw' \in Controllers /\ hw'.rx = hw.rx
      /\ hw'.statq = <<"in">> /\ Undisturbed'
  BY <1>1, <1>4, TxDoneFacts, StatusQueue DEF Undisturbed
<1>6. TxFree'
  BY <1>1, <1>4, TxFreed
<1>7. /\ dev'.state = dev.state /\ dev'.address = dev.address /\ dev'.addr = dev.addr
      /\ dev'.config = dev.config /\ dev'.received = dev.received
  BY <1>5 DEF Rest
<1>8. ~Refused(host.req)'
  BY <1>1, <1>3, <1>4, <1>7 DEF Refused
<1>9. RxFree'
  BY <1>1, <1>5 DEF ToStatus, RxFree, RxBd
<1>10. ToStatus'
  BY <1>1, <1>3, <1>4, <1>5, <1>7, <1>8, <1>9 DEF ToStatus
<1>11. StatusInTaken'
  BY <1>1, <1>3, <1>4, <1>5, <1>6, <1>7, <1>10 DEF ToStatus, StatusInTaken
<1>12. DataIntact' /\ VerdictAgrees'
  BY <1>1, <1>3, <1>4, <1>7, <1>8 DEF DataIntact, VerdictAgrees
<1> QED
  BY <1>3, <1>4, <1>5, <1>11, <1>12 DEF UsbInv, TypeOK, Phases, Undisturbed

LEMMA HostInStep ==
    ASSUME UsbInv, Civil, HostIn
    PROVE  UsbInv'
<1>1. /\ ~hw.reset /\ ~hw.suspend /\ TxBd.own
      /\ host.stage \in {"data_in", "status_in"}
      /\ Quiet \/ host.req.dir \in FastRequests
  BY DEF HostIn, CanToken
<1>2. Phases
  BY <1>1 DEF UsbInv
<1>3. /\ ~Ready /\ ~SetupTaken /\ ~StatusOut /\ ~StatusOutTaken /\ ~StatusInTaken
      /\ ~GivenUp /\ ~MetStall /\ ~Misled
  BY <1>1 DEF Ready, SetupTaken, StatusOut, StatusOutTaken, StatusInTaken, GivenUp,
     MetStall, Misled
<1>4. CASE DataOut
  BY <1>1, <1>4, MisledStep
<1>5. CASE Refusing
  <2>1. TxBd.stall
    BY <1>5 DEF Refusing, TxIdle
  <2>2. HostRefused
    BY <2>1 DEF HostIn
  <2> QED
    BY <1>1, <1>5, <2>2, RefusedStep
<1> QED
  BY <1>1, <1>2, <1>3, <1>4, <1>5, HostInData, HostInStatus DEF Phases

\* The empty packet that ends a transfer to the host, or its repetition.
LEMMA HostOutStatus ==
    ASSUME UsbInv, ~hw.reset, Ready \/ StatusOut, HostOut
    PROVE  UsbInv'
<1>1. /\ TypeOK /\ host \in Hosts /\ host.stage \in {"data_out", "status_out"}
      /\ host.intact /\ host.result = "none" /\ MaxPacket \in Nat
  BY PacketSize DEF UsbInv, TypeOK, HostOut, DataIntact
<1>2. /\ host.stage = "status_out" /\ host.req \in Requests
      /\ host.req.dir = "in" /\ host.req.kind = "std" /\ Undisturbed
      /\ SettledAddress
  BY <1>1 DEF Ready, AwaitsSetup, StatusOut, ToHost
<1>3. /\ Succeeded \in Hosts /\ Succeeded.stage = "idle"
      /\ Succeeded.result = "ok" /\ Succeeded.req = host.req
      /\ Succeeded.intact = host.intact
      /\ Succeeded.addr = host.addr
  BY <1>1, <1>2, SucceededFacts
<1>4. Sent(0) = Succeeded
  BY <1>2 DEF Sent
<1>5. host.req.ok
  BY <1>2, RequestFacts
<1>6. CASE Ready
  <2>1. RxBd.tog = 0 /\ ~RxBd.stall
    BY <1>6 DEF Ready, RxArmed
  <2>2. host' = Succeeded /\ UNCHANGED <<dev, hw>>
    BY <1>2, <1>4, <2>1 DEF HostOut
  <2>3. ~TxBd.own
    BY <1>1, <1>6 DEF Ready
  <2>4. Ready'
    BY <1>3, <1>6, <2>2, <2>3 DEF Ready, Undisturbed, AwaitsSetup, TxIdle, TxBd,
       SettledAddress, RxArmed, RxBd
  <2>5. DataIntact' /\ VerdictAgrees'
    BY <1>1, <1>2, <1>3, <1>5, <2>2 DEF DataIntact, VerdictAgrees, Refused
  <2> QED
    BY <1>1, <1>3, <2>2, <2>4, <2>5 DEF UsbInv, TypeOK, Phases
<1>7. CASE StatusOut
  <2>1. RxArmed("done", 1) /\ RxBd.tog = 1 /\ ~RxBd.stall
    BY <1>7 DEF StatusOut, RxArmed
  <2> DEFINE placed == host.intact /\ (0 > 0 => RxBd.at = host.done)
  <2>2. /\ RxDone("out", 0)
        /\ \/ host' = [Succeeded EXCEPT !.intact = placed]
           \/ host' = [host EXCEPT !.intact = placed]
    BY <1>2, <1>4, <2>1 DEF HostOut
  <2>3. placed \in BOOLEAN /\ placed
    BY <1>1
  <2> HIDE DEF placed
  <2>4. /\ host' \in Hosts /\ host'.req = host.req /\ host'.intact
        /\ host'.addr = host.addr /\ host'.stage \in {"idle", "status_out"}
        /\ host'.stage # "idle" => host'.result = "none" /\ host'.done = host.done
        /\ host'.result # "stall"
    <3>1. \A h \in Hosts : LET g == [h EXCEPT !.intact = placed]
                           IN /\ g \in Hosts /\ g.req = h.req
                              /\ g.addr = h.addr /\ g.stage = h.stage
                              /\ g.result = h.result /\ g.done = h.done
      BY <2>3 DEF Hosts
    <3>2. \A h \in Hosts : [h EXCEPT !.intact = placed].intact = placed
      BY DEF Hosts
    <3>3. CASE host' = [host EXCEPT !.intact = placed]
      BY <1>1, <1>2, <2>3, <3>1, <3>2, <3>3
    <3>4. CASE host' = [Succeeded EXCEPT !.intact = placed]
      BY <1>3, <2>3, <3>1, <3>2, <3>4
    <3> QED
      BY <2>2, <3>3, <3>4
  <2>5. 0 \in 0..MaxPacket
    BY <1>1
  <2>6. /\ dev' \in Devices /\ Rest(dev') = Rest(dev) /\ dev'.tx = dev.tx
        /\ dev'.rx = dev.rx /\ dev'.txbd = dev.txbd
        /\ hw' \in Controllers /\ hw'.tx = hw.tx
        /\ hw'.statq = Append(hw.statq, "out") /\ Undisturbed'
    BY <1>1, <1>2, <2>2, <2>5, RxDoneFacts DEF Undisturbed
  <2>7. RxTaken("done", 0)'
    BY <1>1, <2>1, <2>2, <2>5, RxUsed DEF RxTaken
  <2>8. AllSent'
    BY <1>7, <2>6 DEF StatusOut, AllSent, TxFree, TxIdle, TxBd
  <2>9. ToHost'
    BY <1>7, <2>4, <2>6 DEF StatusOut, ToHost, SettledAddress, Rest
  <2>10. hw'.statq \in {<<"out">>, <<"in", "out">>}
    BY <1>7, <2>6, StatusQueue DEF StatusOut
  <2>11. StatusOutTaken'
    BY <2>4, <2>7, <2>8, <2>9, <2>10 DEF StatusOutTaken
  <2>12. DataIntact'
    BY <1>2, <2>4 DEF DataIntact, UsbInv
  <2>13. VerdictAgrees'
    BY <1>2, <1>5, <2>4 DEF VerdictAgrees, Refused
  <2> QED
    BY <2>4, <2>6, <2>11, <2>12, <2>13 DEF UsbInv, TypeOK, Phases, Undisturbed
<1> QED
  BY <1>6, <1>7

\* A packet of data to the device, or the repetition of one whose handshake
\* was lost.
LEMMA HostOutData ==
    ASSUME UsbInv, Civil, ~hw.reset, DataOut, HostOut, hw.statq = <<>>
    PROVE  UsbInv'
<1> DEFINE n == Smaller(dev.rx.size, MaxPacket)
           len == Smaller(host.req.len - host.done, MaxPacket)
<1>1. /\ TypeOK /\ host \in Hosts /\ dev \in Devices /\ Undisturbed /\ SettledAddress
      /\ TxIdle /\ (TxBd.own => host.after)
      /\ host.req \in Requests /\ host.req.kind = "class" /\ dev.config # 0
      /\ ~dev.ctrl_in
      /\ dev.rx.size > 0 /\ dev.rx.pos + dev.rx.size = host.req.len
      /\ RxArmed("function", dev.rx.tog)
      /\ RxBd.at = dev.rx.pos /\ host.stage = "data_out"
      /\ \/ host.tog = dev.rx.tog /\ host.done = dev.rx.pos
         \/ host.tog # dev.rx.tog /\ host.done + MaxPacket = dev.rx.pos
      /\ host.intact /\ host.result = "none"
  BY StatusQueue DEF UsbInv, TypeOK, DataOut, DataIntact
<1>2. /\ dev.rx.size \in Nat /\ dev.rx.pos \in Nat /\ dev.rx.tog \in 0..1
      /\ host.tog \in 0..1 /\ host.done \in Nat /\ host.req.len \in Nat
      /\ MaxPacket \in Nat /\ MaxPacket > 1
  BY <1>1, RequestFacts, PacketSize DEF Devices, PipeType, Hosts
<1>3. RxBd.tog = dev.rx.tog /\ ~RxBd.stall
  BY <1>1 DEF RxArmed
<1>4. /\ n \in 0..MaxPacket /\ n <= dev.rx.size /\ (n < MaxPacket => n = dev.rx.size)
  BY <1>2, PacketSize DEF Smaller
<1> DEFINE done == host.done + len
           stage == IF done = host.req.len THEN "status_in" ELSE host.stage
           tog == 1 - host.tog
<1>5. Sent(len) = [host EXCEPT !.tog = tog, !.done = done, !.stage = stage]
  BY <1>1 DEF Sent, Hosts
<1>6. CASE host.tog # dev.rx.tog
  <2>1. host' = Sent(len) /\ UNCHANGED <<dev, hw>>
    BY <1>1, <1>3, <1>6 DEF HostOut
  <2>2. len = MaxPacket /\ done = dev.rx.pos /\ done # host.req.len
    BY <1>1, <1>2, <1>6 DEF Smaller
  <2>3. done \in Nat /\ tog \in 0..1 /\ tog = dev.rx.tog /\ stage = "data_out"
    BY <1>1, <1>2, <1>6, <2>2
  <2> HIDE DEF len, done, stage, tog
  <2>4. /\ host' \in Hosts /\ host'.stage = "data_out" /\ host'.tog = dev.rx.tog
        /\ host'.done = dev.rx.pos /\ host'.req = host.req
        /\ host'.addr = host.addr /\ host'.result = "none" /\ host'.intact
        /\ host'.after = host.after
    <3> DEFINE h == [host EXCEPT !.tog = tog, !.done = done, !.stage = stage]
    <3>1. /\ h \in Hosts /\ h.stage = stage /\ h.tog = tog /\ h.done = done
          /\ h.req = host.req /\ h.addr = host.addr /\ h.result = host.result
          /\ h.intact = host.intact /\ h.after = host.after
      <4>1. stage \in {"data_out", "status_in"} /\ host \in Hosts
        BY <1>1, <2>3
      <4> QED
        BY <2>3, <4>1 DEF Hosts
    <3> HIDE DEF h
    <3> QED
      BY <1>1, <1>5, <2>1, <2>2, <2>3, <3>1 DEF h
  <2>5. DataOut'
    BY <1>1, <2>1, <2>4
       DEF DataOut, Undisturbed, SettledAddress, TxIdle, TxBd, RxArmed, RxBd
  <2>6. DataIntact' /\ VerdictAgrees'
    BY <2>4 DEF DataIntact, VerdictAgrees
  <2> QED
    BY <1>1, <2>1, <2>4, <2>5, <2>6 DEF UsbInv, TypeOK, Phases, Undisturbed
<1>7. CASE host.tog = dev.rx.tog
  <2>1. /\ len = n /\ done = dev.rx.pos + n /\ len > 0
        /\ (done = host.req.len <=> n = dev.rx.size)
    <3>1. host.req.len - host.done = dev.rx.size
      BY <1>1, <1>2, <1>7
    <3>2. len = n
      BY <3>1
    <3> HIDE DEF len
    <3>3. n > 0
      BY <1>1, <1>2, <1>4
    <3> HIDE DEF n
    <3> QED
      BY <1>1, <1>2, <1>4, <1>7, <3>2, <3>3
  <2> DEFINE placed == host.intact /\ (len > 0 => RxBd.at = host.done)
             packet == IF Sent(len).stage = "status_in" THEN "last_out" ELSE host.stage
  <2>2. /\ RxDone("out", len)
        /\ \/ host' = [Sent(len) EXCEPT !.intact = placed]
           \/ packet \in LostAcks /\ host' = [host EXCEPT !.intact = placed]
    BY <1>1, <1>3, <1>7 DEF HostOut
  <2>3. placed = TRUE
    BY <1>1, <1>2, <1>7
  <2>4. done \in Nat /\ tog \in 0..1 /\ tog # dev.rx.tog
        /\ stage = IF n = dev.rx.size THEN "status_in" ELSE "data_out"
    BY <1>1, <1>2, <1>4, <1>7, <2>1
  <2> HIDE DEF done, stage, tog, placed, len, n
  <2>5. /\ Sent(len) \in Hosts /\ Sent(len).stage = stage /\ Sent(len).tog = tog
        /\ Sent(len).done = done /\ Sent(len).req = host.req
        /\ Sent(len).addr = host.addr /\ Sent(len).result = host.result
        /\ Sent(len).after = host.after
    <3> DEFINE h == [host EXCEPT !.tog = tog, !.done = done, !.stage = stage]
    <3>1. /\ h \in Hosts /\ h.stage = stage /\ h.tog = tog /\ h.done = done
          /\ h.req = host.req /\ h.addr = host.addr /\ h.result = host.result
          /\ h.after = host.after
      <4>1. stage \in {"data_out", "status_in"} /\ host \in Hosts
        BY <1>1, <2>4
      <4> QED
        BY <2>4, <4>1 DEF Hosts
    <3> HIDE DEF h
    <3> QED
      BY <1>5, <3>1 DEF h
  <2>6. /\ host' \in Hosts /\ host'.req = host.req /\ host'.addr = host.addr
        /\ host'.result = "none" /\ host'.intact /\ host'.after = host.after
        /\ \/ /\ host'.tog # dev.rx.tog /\ host'.done = dev.rx.pos + n
              /\ host'.stage = IF n = dev.rx.size THEN "status_in" ELSE "data_out"
           \/ /\ host'.tog = dev.rx.tog /\ host'.done = dev.rx.pos
              /\ host'.stage = "data_out" /\ n < dev.rx.size
    <3>1. \A h \in Hosts : LET g == [h EXCEPT !.intact = TRUE]
                           IN /\ g \in Hosts /\ g.req = h.req /\ g.tog = h.tog
                              /\ g.addr = h.addr /\ g.stage = h.stage
                              /\ g.result = h.result /\ g.done = h.done
      BY DEF Hosts
    <3>2. \A h \in Hosts : LET g == [h EXCEPT !.intact = TRUE]
                           IN g.intact /\ g.after = h.after
      BY DEF Hosts
    <3>3. CASE host' = [Sent(len) EXCEPT !.intact = TRUE]
      BY <1>1, <2>1, <2>4, <2>5, <3>1, <3>2, <3>3
    <3>4. CASE packet \in LostAcks /\ host' = [host EXCEPT !.intact = TRUE]
      <4>1. n # dev.rx.size
        BY <2>4, <2>5, <3>4 DEF Civil
      <4>2. n < dev.rx.size
        BY <1>2, <1>4, <4>1
      <4>3. host.done = dev.rx.pos
        BY <1>1, <1>2, <1>7
      <4> QED
        BY <1>1, <1>7, <3>1, <3>2, <3>4, <4>2, <4>3
    <3> QED
      BY <2>2, <2>3, <3>3, <3>4
  <2>7. len \in 0..MaxPacket
    BY <1>4, <2>1
  <2>8. /\ dev' \in Devices /\ Rest(dev') = Rest(dev) /\ dev'.tx = dev.tx
        /\ dev'.rx = dev.rx /\ dev'.txbd = dev.txbd
        /\ hw' \in Controllers /\ hw'.tx = hw.tx
        /\ hw'.statq = <<"out">> /\ Undisturbed'
    BY <1>1, <2>2, <2>7, RxDoneFacts, StatusQueue DEF Undisturbed
  <2>9. /\ dev'.rx.pp = 1 - hw'.rx /\ dev'.rx.cb = "function"
        /\ ~RxBd'.own /\ ~dev'.rxbd[1 - hw'.rx].own /\ ~dev'.rxbd[1 - hw'.rx].stall
        /\ dev'.rxbd[1 - hw'.rx].len = len
    BY <1>1, <2>2, <2>7, RxUsed
  <2>10. RxTaken("function", Smaller(dev.rx.size, MaxPacket))'
    BY <2>1, <2>8, <2>9 DEF n, RxTaken
  <2>11. TxIdle' /\ SettledAddress' /\ (TxBd'.own => host'.after)
    BY <1>1, <2>6, <2>8 DEF TxIdle, TxBd, SettledAddress, Rest
  <2>12. DataOut'
    BY <1>1, <2>6, <2>8, <2>10, <2>11 DEF DataOut, Rest, n
  <2>13. DataIntact' /\ VerdictAgrees'
    BY <2>6 DEF DataIntact, VerdictAgrees
  <2> QED
    BY <2>6, <2>8, <2>12, <2>13 DEF UsbInv, TypeOK, Phases, Undisturbed
<1> QED
  BY <1>6, <1>7

LEMMA HostOutStep ==
    ASSUME UsbInv, Civil, HostOut
    PROVE  UsbInv'
<1>1. /\ ~hw.reset /\ ~hw.suspend /\ RxBd.own
      /\ host.stage \in {"data_out", "status_out"}
      /\ Quiet \/ host.req.dir \in FastRequests
  BY DEF HostOut, CanToken
<1>2. Phases
  BY <1>1 DEF UsbInv
<1>3. /\ ~SetupTaken /\ ~DataIn /\ ~StatusOutTaken /\ ~StatusIn /\ ~StatusInTaken
      /\ ~GivenUp /\ ~MetStall /\ ~Misled
  BY <1>1 DEF SetupTaken, DataIn, StatusOutTaken, RxTaken, StatusIn, StatusInTaken,
     GivenUp, MetStall, Misled
<1>4. CASE DataOut
  <2>1. hw.statq = <<>>
    BY <1>1, <1>4 DEF DataOut, RxTaken
  <2> QED
    BY <1>1, <1>4, <2>1, HostOutData
<1>5. CASE Refusing
  <2>1. RxBd.stall
    BY <1>5 DEF Refusing
  <2>2. HostRefused
    BY <2>1 DEF HostOut
  <2> QED
    BY <1>1, <1>5, <2>2, RefusedStep
<1> QED
  BY <1>1, <1>2, <1>3, <1>4, <1>5, HostOutStatus DEF Phases

\* A SETUP is taken, or stalled while the stall of the last request stands.
LEMMA HostSetupStep ==
    ASSUME UsbInv, Civil, NEW r \in Requests, HostSetup(r)
    PROVE  UsbInv'
<1>1. /\ ~hw.reset /\ ~hw.suspend /\ RxBd.own /\ host.stage = "idle"
      /\ TypeOK /\ host \in Hosts /\ Phases
  BY DEF HostSetup, CanToken, Civil, UsbInv, TypeOK
<1>2. /\ ~SetupTaken /\ ~DataIn /\ ~StatusOut /\ ~StatusOutTaken /\ ~DataOut
      /\ ~StatusIn /\ ~StatusInTaken /\ ~GivenUp /\ ~MetStall /\ ~Misled
  <2>1. ~DataOut /\ ~MetStall /\ ~Misled
    BY <1>1 DEF DataOut, MetStall, Misled, RxTaken, RxFree
  <2> QED
    BY <1>1, <2>1 DEF SetupTaken, FirstStage, DataIn, StatusOut, StatusOutTaken, RxTaken,
       StatusIn, StatusInTaken, ToStatus, RxFree, GivenUp
<1>3. CASE Refusing
  <2>1. Stalls /\ UNCHANGED host
    BY <1>3 DEF Refusing, HostSetup
  <2>2. /\ hw' \in Controllers /\ hw'.stall /\ UNCHANGED dev
        /\ hw'.rx = hw.rx /\ hw'.tx = hw.tx /\ hw'.statq = hw.statq
        /\ hw'.suspend = hw.suspend /\ hw'.reset = hw.reset
    BY <1>1, <2>1, StallsFacts
  <2>3. Refusing'
    BY <1>1, <1>3, <2>1, <2>2 DEF Refusing, RxBd, TxBd, TxIdle, SettledAddress, Refused, StaleStall
  <2>4. DataIntact' /\ VerdictAgrees' /\ (host.stage # "idle" => host.result = "none")'
    BY <2>1, <2>2 DEF UsbInv, DataIntact, VerdictAgrees, Refused, StaleStall
  <2> QED
    BY <1>1, <2>1, <2>2, <2>3, <2>4 DEF UsbInv, TypeOK, Phases
<1>4. CASE Ready
  <2>1. /\ hw.statq = <<>> /\ Undisturbed /\ AwaitsSetup /\ RxArmed("control", 0)
        /\ ~RxBd.stall
    BY <1>4 DEF Ready, RxArmed
  <2> DEFINE stage == FirstStage(r)
             intact == TRUE
             early == FALSE
             after == host.result = "stall"
             h == [host EXCEPT !.stage = stage, !.req = r, !.tog = 1, !.done = 0,
                               !.intact = intact, !.result = "none",
                               !.early = early, !.after = after]
  <2>2. RxDone("setup", SetupLen) /\ host' = h
    BY <2>1 DEF HostSetup
  <2>3. stage \in {"data_in", "data_out", "status_in"} /\ intact \in BOOLEAN
    BY DEF FirstStage
  <2>12. early \in BOOLEAN /\ after \in BOOLEAN
    OBVIOUS
  <2> HIDE DEF stage, intact, early, after
  <2>4. /\ h \in Hosts /\ h.stage = stage /\ h.req = r /\ h.tog = 1 /\ h.done = 0
        /\ h.result = "none" /\ h.addr = host.addr
    <3>1. 1 \in 0..1 /\ 0 \in Nat /\ r \in Requests \cup {NoRequest}
      OBVIOUS
    <3> HIDE DEF NoRequest
    <3> QED
      BY <1>1, <2>3, <2>12, <3>1 DEF Hosts
  <2>5. h.intact /\ h.after = after
    BY <1>1 DEF Hosts, intact
  <2> HIDE DEF h
  <2>6. SetupLen \in 0..MaxPacket
    BY PacketSize DEF SetupLen
  <2>7. /\ dev' \in Devices /\ Rest(dev') = Rest(dev) /\ dev'.tx = dev.tx
        /\ dev'.rx = dev.rx /\ dev'.txbd = dev.txbd
        /\ hw' \in Controllers /\ hw'.tx = hw.tx
        /\ hw'.statq = <<"setup">> /\ hw'.suspend /\ ~hw'.stall /\ ~hw'.reset
    BY <1>1, <2>1, <2>2, <2>6, RxDoneFacts, StatusQueue DEF Undisturbed
  <2>8. RxTaken("control", SetupLen)'
    <3> HIDE DEF SetupLen
    <3> QED
      BY <1>1, <2>1, <2>2, <2>6, RxUsed DEF RxTaken
  <2>9. AwaitsSetup' /\ dev'.rx.tog = 0
    BY <2>1, <2>2, <2>4, <2>7
       DEF AwaitsSetup, TxIdle, TxBd, SettledAddress, Rest, RxArmed
  <2>10. SetupTaken'
    <3>1. TxBd'.own => host'.after
      BY <1>4, <2>2, <2>5, <2>7 DEF Ready, TxBd, after
    <3> QED
      BY <2>2, <2>4, <2>7, <2>8, <2>9, <3>1 DEF SetupTaken, stage
  <2>11. DataIntact' /\ VerdictAgrees'
    BY <2>2, <2>3, <2>4, <2>5 DEF DataIntact, VerdictAgrees
  <2> QED
    BY <2>2, <2>4, <2>7, <2>10, <2>11 DEF UsbInv, TypeOK, Phases
<1> QED
  BY <1>1, <1>2, <1>3, <1>4 DEF Phases

LEMMA HostAbandonsStep ==
    ASSUME UsbInv, HostAbandons
    PROVE  UsbInv'
<1>1. /\ host.stage \notin {"idle", "given_up"} /\ Quiet
      /\ host' = [host EXCEPT !.stage = "given_up"] /\ UNCHANGED <<dev, hw>>
      /\ host \in Hosts /\ Phases /\ host.result = "none" /\ host.intact
  BY DEF HostAbandons, Quiet, UsbInv, TypeOK, DataIntact
<1>2. hw.statq = <<>> /\ ~hw.stall /\ ~hw.reset
  BY <1>1 DEF Quiet
<1>3. /\ host' \in Hosts /\ host'.stage = "given_up" /\ host'.result = "none"
      /\ host'.addr = host.addr
  BY <1>1 DEF Hosts
<1>4. host'.intact
  BY <1>1 DEF Hosts
<1>5. dev.rx.pp = hw.rx /\ (TxArmed \/ TxIdle) /\ dev.addr = host.addr
  <2>1. /\ ~SetupTaken /\ ~StatusInTaken /\ ~StatusOutTaken /\ ~GivenUp
        /\ ~MetStall /\ ~Misled
    BY <1>1, <1>2, StatusQueue DEF SetupTaken, StatusInTaken, StatusOutTaken, GivenUp,
       MetStall, Misled
  <2>2. CASE Ready
    BY <2>2 DEF Ready, AwaitsSetup, RxArmed, SettledAddress
  <2>3. CASE Refusing
    BY <2>3 DEF Refusing, SettledAddress
  <2>4. CASE DataIn
    BY <2>4 DEF DataIn, ToHost, RxArmed, SettledAddress, TxFree
  <2>5. CASE StatusOut
    BY <2>5 DEF StatusOut, ToHost, RxArmed, SettledAddress, AllSent, TxFree
  <2>6. CASE DataOut
    BY <1>2, <2>6, StatusQueue DEF DataOut, RxArmed, SettledAddress
  <2>7. CASE StatusIn
    BY <2>7 DEF StatusIn, ToStatus, RxFree
  <2> QED
    BY <1>1, <2>1, <2>2, <2>3, <2>4, <2>5, <2>6, <2>7 DEF Phases
<1>6. GivenUp'
  BY <1>1, <1>2, <1>3, <1>5 DEF GivenUp, TxArmed, TxIdle, TxBd
<1>7. DataIntact' /\ VerdictAgrees'
  BY <1>3, <1>4 DEF DataIntact, VerdictAgrees
<1> QED
  BY <1>1, <1>2, <1>3, <1>6, <1>7 DEF UsbInv, TypeOK, Phases

LEMMA BusResetStep ==
    ASSUME UsbInv, BusReset
    PROVE  UsbInv'
<1>1. host' = FreshHost /\ hw' = [hw EXCEPT !.reset = TRUE] /\ UNCHANGED dev
  BY DEF BusReset
<1>2. hw' \in Controllers /\ hw'.reset
  BY <1>1 DEF UsbInv, TypeOK, Controllers
<1>3. DataIntact' /\ VerdictAgrees' /\ TypeOK'
  BY <1>1, <1>2, FreshFacts DEF DataIntact, VerdictAgrees, UsbInv, TypeOK
<1> QED
  BY <1>1, <1>2, <1>3, FreshFacts DEF UsbInv

LEMMA UsbStutter ==
    ASSUME UsbInv, UNCHANGED vars
    PROVE  UsbInv'
<1> USE DEF vars
<1>1. RxBd' = RxBd /\ TxBd' = TxBd
  BY DEF RxBd, TxBd
<1>4. /\ TypeOK' = TypeOK /\ DataIntact' = DataIntact /\ VerdictAgrees' = VerdictAgrees
      /\ Phases' = Phases
  BY DEF TypeOK, DataIntact, VerdictAgrees, Refused, Phases, Ready, SetupTaken, Refusing,
     DataIn, StatusOut, StatusOutTaken, DataOut, MetStall, Misled, StaleStall,
     StatusIn, StatusInTaken, GivenUp, ToHost, ToStatus, AllSent, PacketMatches, AwaitsSetup, SettledAddress, Undisturbed,
     RxArmed, RxTaken, RxFree, TxArmed, TxIdle, TxFree, RxBd, TxBd
<1> QED
  BY <1>4 DEF UsbInv

LEMMA UsbStep == Civil /\ UsbInv /\ [Next]_vars => UsbInv'
<1> SUFFICES ASSUME Civil, UsbInv, [Next]_vars PROVE UsbInv'
  OBVIOUS
<1>1. ASSUME NEW r \in Requests, HostSetup(r) PROVE UsbInv'
  BY <1>1, HostSetupStep
<1>2. CASE HostIn
  BY <1>2, HostInStep
<1>3. CASE HostOut
  BY <1>3, HostOutStep
<1>4. CASE HostAbandons
  BY <1>4, HostAbandonsStep
<1>5. CASE BusReset
  BY <1>5, BusResetStep
<1>6. CASE USB0_Handler
  BY <1>6, HandlerStep
<1>7. CASE UNCHANGED vars
  BY <1>7, UsbStutter
<1> QED
  BY <1>1, <1>2, <1>3, <1>4, <1>5, <1>6, <1>7 DEF Next

LEMMA UsbInvariant == ASSUME Civil PROVE Spec => []UsbInv
<1>1. Init => UsbInv
  BY UsbInit
<1>2. UsbInv /\ [Next]_vars => UsbInv'
  BY UsbStep
<1> QED
  BY <1>1, <1>2, PTL DEF Spec

-----------------------------------------------------------------------------
(* What follows                                                            *)

LEMMA InvSetupGetsThrough == UsbInv => SetupGetsThrough
<1> SUFFICES ASSUME UsbInv, Quiet, host.stage = "idle", ~StaleStall
             PROVE  SetupTakes
  BY DEF SetupGetsThrough
<1>1. hw.statq = <<>> /\ ~hw.stall /\ ~hw.reset /\ Phases
  BY DEF Quiet, UsbInv
<1>2. Ready
  BY <1>1, StatusQueue
     DEF Phases, SetupTaken, FirstStage, Refusing, DataIn, StatusOut, StatusOutTaken,
         DataOut, MetStall, Misled, StatusIn, StatusInTaken, GivenUp
<1> QED
  BY <1>2 DEF Ready, RxArmed, SetupTakes

LEMMA InvAddressAgrees == UsbInv => AddressAgrees
<1> SUFFICES ASSUME UsbInv, Quiet PROVE dev.addr = host.addr
  BY DEF AddressAgrees
<1>1. hw.statq = <<>> /\ ~hw.reset /\ Phases
  BY DEF Quiet, UsbInv
<1> QED
  BY <1>1, StatusQueue
     DEF Phases, Ready, AwaitsSetup, SetupTaken, Refusing, DataIn, StatusOut, ToHost,
         StatusOutTaken, DataOut, MetStall, Misled, StatusIn, StatusInTaken, GivenUp,
         SettledAddress

\* The receive half is ahead by the one packet not yet handled, and the send
\* half by the one not yet sent.
LEMMA InvPingPong == UsbInv => PingPongAgrees
<1> DEFINE received == {i \in 1..Len(hw.statq) : hw.statq[i] # "in"}
<1> SUFFICES ASSUME UsbInv, ~hw.reset
             PROVE  /\ dev.rx.pp = (hw.rx + Cardinality(received)) % 2
                    /\ dev.tx.pp = (hw.tx + (IF TxBd.own /\ ~TxBd.stall THEN 1 ELSE 0)) % 2
  BY DEF PingPongAgrees
<1>1. Phases /\ hw.rx \in 0..1 /\ hw.tx \in 0..1
  BY DEF UsbInv, TypeOK, Controllers
<1>2. dev.tx.pp = (hw.tx + (IF TxBd.own /\ ~TxBd.stall THEN 1 ELSE 0)) % 2
  <2>1. TxArmed \/ TxIdle
    BY <1>1 DEF Phases, Ready, AwaitsSetup, SetupTaken, Refusing, DataIn, StatusOut,
       AllSent, StatusOutTaken, DataOut, MetStall, Misled, StatusIn, StatusInTaken,
       GivenUp, TxFree
  <2>2. CASE TxArmed
    BY <1>1, <2>2 DEF TxArmed
  <2>3. CASE TxIdle
    BY <1>1, <2>3 DEF TxIdle
  <2> QED
    BY <2>1, <2>2, <2>3
<1>3. \/ received = {} /\ dev.rx.pp = hw.rx
      \/ \E i : received = {i} /\ dev.rx.pp = 1 - hw.rx
  <2>1. hw.statq \in {<<>>, <<"in">>} => received = {}
    OBVIOUS
  <2>2. hw.statq \in {<<"setup">>, <<"out">>} => received = {1}
    OBVIOUS
  <2>3. hw.statq = <<"in", "out">> => received = {2}
    OBVIOUS
  <2> HIDE DEF received
  <2>4. \/ hw.statq \in {<<>>, <<"in">>} /\ dev.rx.pp = hw.rx
        \/ /\ hw.statq \in {<<"setup">>, <<"out">>, <<"in", "out">>}
           /\ dev.rx.pp = 1 - hw.rx
    <3>1. CASE \/ Ready \/ Refusing \/ DataIn \/ StatusOut \/ Misled
               \/ StatusIn \/ StatusInTaken \/ GivenUp
      BY <3>1 DEF Ready, Refusing, DataIn, StatusOut, Misled, StatusIn, StatusInTaken,
         ToStatus, GivenUp, RxArmed, RxFree
    <3>2. CASE SetupTaken \/ StatusOutTaken \/ MetStall
      BY <3>2 DEF SetupTaken, StatusOutTaken, MetStall, RxTaken
    <3>3. CASE DataOut
      BY <3>3 DEF DataOut, RxArmed, RxTaken
    <3> QED
      BY <1>1, <3>1, <3>2, <3>3 DEF Phases
  <2> QED
    BY <2>1, <2>2, <2>3, <2>4
<1>4. dev.rx.pp = (hw.rx + Cardinality(received)) % 2
  <2> HIDE DEF received
  <2>1. CASE received = {} /\ dev.rx.pp = hw.rx
    <3>1. Cardinality(received) = 0
      BY <2>1, FS_EmptySet
    <3> QED
      BY <1>1, <2>1, <3>1
  <2>2. ASSUME NEW i, received = {i}, dev.rx.pp = 1 - hw.rx
        PROVE  dev.rx.pp = (hw.rx + Cardinality(received)) % 2
    <3>1. Cardinality(received) = 1
      BY <2>2, FS_Singleton
    <3> QED
      BY <1>1, <2>2, <3>1
  <2> QED
    BY <1>3, <2>1, <2>2
<1> QED
  BY <1>2, <1>4

\* The device, the controller and the host stay within their types.
THEOREM UsbTypeOK == ASSUME Civil PROVE Spec => []TypeOK
<1>1. UsbInv => TypeOK
  BY DEF UsbInv
<1> QED
  BY <1>1, UsbInvariant, PTL

\* Between transfers the next SETUP finds a descriptor that takes it, whatever
\* became of the last request, unless that met a stale STALL.
THEOREM UsbSetupGetsThrough == ASSUME Civil PROVE Spec => []SetupGetsThrough
  BY InvSetupGetsThrough, UsbInvariant, PTL

\* The driver, which is not told which half a packet used, is never wrong
\* about it.
THEOREM UsbPingPongAgrees == ASSUME Civil PROVE Spec => []PingPongAgrees
  BY InvPingPong, UsbInvariant, PTL

\* Transfers of any length arrive whole and in order, in packets of any size.
THEOREM UsbDataIntact == ASSUME Civil PROVE Spec => []DataIntact
<1>1. UsbInv => DataIntact
  BY DEF UsbInv
<1> QED
  BY <1>1, UsbInvariant, PTL

\* An address takes effect after its status stage and not before.
THEOREM UsbAddressAgrees == ASSUME Civil PROVE Spec => []AddressAgrees
  BY InvAddressAgrees, UsbInvariant, PTL

\* A request that ends well is one the device does not refuse, and one that is
\* stalled is refused, whatever tokens outrun the handler: the one exception is
\* data to the device right after a refused request, whose status stage can
\* meet the STALL left from that one.
THEOREM UsbVerdictAgrees == ASSUME Civil PROVE Spec => []VerdictAgrees
<1>1. UsbInv => VerdictAgrees
  BY DEF UsbInv
<1> QED
  BY <1>1, UsbInvariant, PTL
=============================================================================
