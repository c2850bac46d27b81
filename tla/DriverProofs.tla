---------------------------- MODULE DriverProofs ----------------------------
(***************************************************************************)
(* What the drivers promise, for any number of transactions, any lengths   *)
(* and buffers of any size: SpiFlash of the commands the chip is sent, I2c  *)
(* of receptions, Cdc and Stdio of the order of the bytes they pass on.    *)
(***************************************************************************)
EXTENDS SpiFlash, I2c, Cdc, Stdio, QueueLemmas

-----------------------------------------------------------------------------
(* The SPI flash                                                           *)

Steps == {"prelude", "command", "check"}
Links == FlashTrans \cup {NoTrans}
TransTables ==
    [FlashTrans -> [kind : FlashKinds, next : Links, queued : BOOLEAN, running : BOOLEAN]]
Chips == [wel : BOOLEAN, svel : BOOLEAN, busy : BOOLEAN]

FlashTypeOK ==
    /\ flashQueue \in Links
    /\ flashTrans \in TransTables
    /\ flashBus = NoBus \/ flashBus \in [step : Steps, trans : FlashTrans]
    /\ flashCb \in Links
    /\ flashPc \in [FlashThreads -> [at : {"outside", "looks", "tests", "starts"},
                                     trans : Links]]
    /\ \A h \in FlashThreads :
         flashPc[h].at \in {"tests", "starts"} => flashPc[h].trans \in FlashTrans
    /\ flashPast \in [raced : BOOLEAN, blind : BOOLEAN]
    /\ chip \in Chips

\* The queue leads to queued transactions only, and to each of them by one way.
ListSound(queue, trans) ==
    /\ queue # NoTrans => trans[queue].queued
    /\ \A t \in FlashTrans : trans[t].queued /\ trans[t].next # NoTrans =>
         trans[trans[t].next].queued /\ trans[t].next # queue
    /\ \A t, u \in FlashTrans :
         /\ trans[t].queued /\ trans[u].queued
         /\ trans[t].next = trans[u].next /\ trans[t].next # NoTrans
         => t = u

\* The bus works for the first transaction, the only one that is running.
HeadOnBus(queue, trans, bus) ==
    /\ bus # NoBus => bus.trans = queue
    /\ \A t \in FlashTrans : trans[t].running <=> bus # NoBus /\ t = bus.trans

\* Unless a write that nobody waits for has come before, the chip writes only
\* while the driver polls it, and is ready for the command after a prelude.
ChipFollows(trans, bus) ==
    /\ chip.busy => flashPast.blind \/ (bus # NoBus /\ bus.step = "check")
    /\ ~flashPast.blind /\ bus # NoBus /\ bus.step = "command" =>
         LET kind == trans[bus.trans].kind
         IN (kind \in Writes => chip.wel) /\ (kind = "protect" => chip.svel)

FlashSound ==
    /\ ListSound(flashQueue, flashTrans)
    /\ HeadOnBus(flashQueue, flashTrans, flashBus)
    /\ ChipFollows(flashTrans, flashBus)

FlashInv == FlashTypeOK /\ (~flashPast.raced => FlashSound)

LEMMA FlashInvImplies == FlashInv => FlashTakes
BY DEF FlashInv, FlashSound, ChipFollows, FlashTakes

LEMMA FlashInitInv == FlashInit => FlashInv
<1> SUFFICES ASSUME FlashInit PROVE FlashInv
  OBVIOUS
<1>1. FlashTypeOK
  BY DEF FlashInit, FreshTrans, FreshChip, NoBus, Outside, FlashTypeOK, Links, TransTables,
     FlashKinds, Chips
<1>2. /\ flashQueue = NoTrans /\ flashBus = NoBus /\ ~chip.busy
      /\ \A t \in FlashTrans : ~flashTrans[t].queued /\ ~flashTrans[t].running
  BY DEF FlashInit, FreshTrans, FreshChip
<1> QED
  BY <1>1, <1>2 DEF FlashInv, FlashSound, ListSound, HeadOnBus, ChipFollows

-----------------------------------------------------------------------------
(* What the functions of the driver leave                                  *)

\* The transaction that was initialised, and the one it is linked to.
Linked(trans, t, kind, last) ==
    /\ trans \in TransTables
    /\ trans[t].kind = kind /\ trans[t].queued /\ trans[t].next = NoTrans
    /\ trans[t].running = flashTrans[t].running
    /\ \A u \in FlashTrans \ {t} :
         /\ trans[u].kind = flashTrans[u].kind
         /\ trans[u].queued = flashTrans[u].queued
         /\ trans[u].running = flashTrans[u].running
         /\ trans[u].next = IF u = last THEN t ELSE flashTrans[u].next

\* last is NoTrans when t is the first; otherwise it is queued if the list is
\* sound.
LEMMA AppendedFacts ==
    ASSUME FlashTypeOK, NEW t \in FlashTrans, NEW kind \in FlashKinds,
           ~flashTrans[t].queued, NEW trans \in Appended(t, kind)
    PROVE  /\ trans \in TransTables /\ HeadWith(t) \in FlashTrans
           /\ ListSound(flashQueue, flashTrans) =>
                \E last \in Links :
                  /\ Linked(trans, t, kind, last)
                  /\ IF last = NoTrans THEN flashQueue = NoTrans
                     ELSE /\ flashQueue # NoTrans /\ flashTrans[last].queued
                          /\ flashTrans[last].next = NoTrans
<1> DEFINE one == [flashTrans[t] EXCEPT !.kind = kind, !.next = NoTrans, !.queued = TRUE]
           fresh == [flashTrans EXCEPT ![t] = one]
<1>1. NoTrans \notin FlashTrans /\ flashTrans \in TransTables /\ flashQueue \in Links
  BY FlashAssumption DEF FlashTypeOK, NoTrans
<1>2. /\ fresh \in TransTables /\ fresh[t] = one
      /\ \A u \in FlashTrans \ {t} : fresh[u] = flashTrans[u]
      /\ one.kind = kind /\ one.next = NoTrans /\ one.queued
      /\ one.running = flashTrans[t].running
  BY <1>1 DEF TransTables, Links
<1>3. Appended(t, kind) = IF flashQueue = NoTrans THEN {fresh}
                          ELSE {[fresh EXCEPT ![last].next = t] : last \in Ends(fresh)}
  BY DEF Appended
<1> HIDE DEF one, fresh
<1>4. HeadWith(t) \in FlashTrans
  BY <1>1 DEF HeadWith, Links
<1>5. CASE flashQueue = NoTrans
  <2>1. trans = fresh
    BY <1>3, <1>5
  <2>2. Linked(trans, t, kind, NoTrans)
    BY <1>1, <1>2, <2>1 DEF Linked
  <2> QED
    BY <1>2, <1>4, <1>5, <2>1, <2>2 DEF Links
<1>6. CASE flashQueue # NoTrans
  <2>1. PICK last \in Ends(fresh) : trans = [fresh EXCEPT ![last].next = t]
    BY <1>3, <1>6
  <2>2. last \in FlashTrans /\ fresh[last].next = NoTrans
    BY <2>1 DEF Ends
  <2>3. trans \in TransTables
    BY <1>2, <2>1, <2>2 DEF TransTables, Links
  <2>4. ASSUME ListSound(flashQueue, flashTrans)
        PROVE  /\ Linked(trans, t, kind, last) /\ flashTrans[last].queued
               /\ flashTrans[last].next = NoTrans
    <3> DEFINE S == {u \in FlashTrans : flashTrans[u].queued}
    <3>1. flashQueue \in S
      BY <1>1, <1>6, <2>4 DEF Links, ListSound
    <3>2. ASSUME NEW u \in S PROVE fresh[u].next \in S \cup {NoTrans}
      <4>1. u \in FlashTrans \ {t}
        OBVIOUS
      <4>2. flashTrans[u].next \in Links /\ flashTrans[u].queued
        BY <1>1, <4>1 DEF TransTables
      <4> QED
        BY <1>2, <2>4, <4>1, <4>2 DEF ListSound, Links
    <3>3. last \in S
      BY <2>1, <3>1, <3>2 DEF Ends
    <3>4. last \in FlashTrans \ {t} /\ flashTrans[last].queued
      BY <3>3
    <3>5. \A u \in FlashTrans :
            /\ trans[u].kind = fresh[u].kind /\ trans[u].queued = fresh[u].queued
            /\ trans[u].running = fresh[u].running
            /\ trans[u].next = IF u = last THEN t ELSE fresh[u].next
      BY <1>2, <2>1, <2>2 DEF TransTables
    <3> QED
      BY <1>2, <2>2, <2>3, <3>4, <3>5 DEF Linked
  <2> QED
    BY <1>1, <1>4, <1>6, <2>2, <2>3, <2>4 DEF Links
<1> QED
  BY <1>5, <1>6

\* Appending keeps the list sound, and changes neither the first transaction
\* nor what is running.
LEMMA AppendedSound ==
    ASSUME FlashTypeOK, FlashSound, NEW t \in FlashTrans, NEW kind \in FlashKinds,
           ~flashTrans[t].queued, NEW trans \in Appended(t, kind)
    PROVE  /\ ListSound(HeadWith(t), trans)
           /\ HeadOnBus(HeadWith(t), trans, flashBus)
           /\ ChipFollows(trans, flashBus)
<1>1. PICK last \in Links :
        /\ Linked(trans, t, kind, last)
        /\ IF last = NoTrans THEN flashQueue = NoTrans
           ELSE /\ flashQueue # NoTrans /\ flashTrans[last].queued
                /\ flashTrans[last].next = NoTrans
  BY AppendedFacts DEF FlashSound
<1>2. /\ NoTrans \notin FlashTrans /\ flashTrans \in TransTables /\ flashQueue \in Links
      /\ last # NoTrans => last \in FlashTrans \ {t}
  BY <1>1, FlashAssumption DEF FlashTypeOK, NoTrans, Links
<1>3. /\ flashQueue # NoTrans => flashQueue \in FlashTrans /\ flashTrans[flashQueue].queued
      /\ \A u \in FlashTrans : flashTrans[u].queued /\ flashTrans[u].next # NoTrans =>
           /\ flashTrans[u].next \in FlashTrans \ {t}
           /\ flashTrans[flashTrans[u].next].queued /\ flashTrans[u].next # flashQueue
  BY <1>2 DEF FlashSound, ListSound, TransTables, Links
<1>4. /\ HeadWith(t) \in FlashTrans
      /\ HeadWith(t) = IF last = NoTrans THEN t ELSE flashQueue
  BY <1>1, <1>2, <1>3 DEF HeadWith
<1>5. /\ \A u \in FlashTrans : trans[u].queued <=> u = t \/ flashTrans[u].queued
      /\ \A u \in FlashTrans :
           trans[u].next = IF u = t THEN NoTrans
                           ELSE IF u = last THEN t ELSE flashTrans[u].next
  BY <1>1 DEF Linked
<1>6. ListSound(HeadWith(t), trans)
  <2>1. trans[HeadWith(t)].queued
    BY <1>2, <1>3, <1>4, <1>5
  <2>2. ASSUME NEW u \in FlashTrans, trans[u].queued, trans[u].next # NoTrans
        PROVE  trans[trans[u].next].queued /\ trans[u].next # HeadWith(t)
    BY <1>1, <1>2, <1>3, <1>4, <1>5, <2>2
  <2>3. ASSUME NEW u \in FlashTrans, NEW v \in FlashTrans, trans[u].queued,
               trans[v].queued, trans[u].next = trans[v].next, trans[u].next # NoTrans
        PROVE  u = v
    <3>1. u # t /\ v # t
      BY <1>5, <2>3
    <3>2. flashTrans[u].queued /\ flashTrans[v].queued
      BY <1>5, <2>3, <3>1
    <3>3. CASE u = last \/ v = last
      BY <1>3, <1>5, <2>3, <3>1, <3>2, <3>3
    <3>4. CASE u # last /\ v # last
      BY <1>5, <2>3, <3>1, <3>2, <3>4 DEF FlashSound, ListSound
    <3> QED
      BY <3>3, <3>4
  <2> QED
    BY <2>1, <2>2, <2>3 DEF ListSound
<1>7. flashBus # NoBus => /\ flashBus.trans = HeadWith(t) /\ flashBus.trans \in FlashTrans
                          /\ flashBus.trans # t
  BY <1>1, <1>2, <1>3, <1>4 DEF FlashSound, HeadOnBus, FlashTypeOK, NoBus
<1>8. HeadOnBus(HeadWith(t), trans, flashBus)
  <2>1. \A u \in FlashTrans : trans[u].running = flashTrans[u].running
    BY <1>1 DEF Linked
  <2> QED
    BY <1>7, <2>1 DEF FlashSound, HeadOnBus
<1>9. ChipFollows(trans, flashBus)
  <2>1. flashBus # NoBus => trans[flashBus.trans].kind = flashTrans[flashBus.trans].kind
    BY <1>1, <1>7 DEF Linked
  <2> QED
    BY <2>1 DEF FlashSound, ChipFollows
<1> QED
  BY <1>6, <1>8, <1>9

LEMMA StartedType ==
    ASSUME FlashTypeOK, NEW t \in FlashTrans, NEW trans \in TransTables, Started(t, trans)
    PROVE  /\ flashTrans' \in TransTables
           /\ flashBus' = NoBus \/ flashBus' \in [step : Steps, trans : FlashTrans]
<1>1. FirstStep(trans[t].kind) \in Steps
  BY DEF FirstStep, Steps
<1>2. flashTrans' \in TransTables
  BY DEF Started, TransTables
<1>3. flashBus' = NoBus \/ flashBus' \in [step : Steps, trans : FlashTrans]
  BY <1>1 DEF Started, FlashTypeOK
<1> QED
  BY <1>2, <1>3

\* Starting the first transaction, once more or for the first time.
LEMMA StartedSound ==
    ASSUME FlashTypeOK, NEW t \in FlashTrans, NEW trans \in TransTables, Started(t, trans),
           ListSound(t, trans), HeadOnBus(t, trans, flashBus), ChipFollows(trans, flashBus),
           flashQueue' = t, flashPast'.blind = flashPast.blind, chip' = chip
    PROVE  FlashSound'
<1>1. \A u \in FlashTrans :
        /\ flashTrans'[u].kind = trans[u].kind /\ flashTrans'[u].next = trans[u].next
        /\ flashTrans'[u].queued = trans[u].queued
        /\ flashTrans'[u].running <=> u = t \/ trans[u].running
  BY DEF Started, TransTables
<1>2. trans[t].queued /\ \A u \in FlashTrans : trans[u].next \in Links
  BY FlashAssumption DEF ListSound, TransTables, NoTrans
<1>3. ListSound(t, flashTrans')
  BY <1>1, <1>2 DEF ListSound, Links
<1>4. CASE flashBus # NoBus
  <2>1. flashBus' = flashBus
    BY <1>4 DEF Started
  <2> QED
    BY <1>1, <1>3, <1>4, <2>1 DEF FlashSound, HeadOnBus, ChipFollows
<1>5. CASE flashBus = NoBus
  <2>1. /\ flashBus' = [step |-> FirstStep(trans[t].kind), trans |-> t]
        /\ flashBus' # NoBus
    BY <1>5, FlashAssumption DEF Started, NoBus, NoTrans
  <2>2. HeadOnBus(t, flashTrans', flashBus')
    BY <1>1, <1>5, <2>1 DEF HeadOnBus
  <2>3. flashBus'.step = "command" => ~HasPrelude(trans[t].kind)
    BY <2>1 DEF FirstStep
  <2>4. ChipFollows(flashTrans, flashBus)'
    BY <1>1, <1>5, <2>1, <2>3 DEF ChipFollows, HasPrelude, Writes
  <2> QED
    BY <1>3, <2>2, <2>4 DEF FlashSound
<1> QED
  BY <1>4, <1>5

LEMMA ScheduledType ==
    ASSUME FlashTypeOK, NEW queue \in Links, NEW trans \in TransTables,
           Scheduled(queue, trans)
    PROVE  /\ flashQueue' \in Links /\ flashTrans' \in TransTables
           /\ flashBus' = NoBus \/ flashBus' \in [step : Steps, trans : FlashTrans]
<1>1. CASE queue = NoTrans \/ trans[queue].running
  BY <1>1 DEF Scheduled, FlashTypeOK
<1>2. CASE ~(queue = NoTrans \/ trans[queue].running)
  <2>1. queue \in FlashTrans
    BY <1>2 DEF Links
  <2>2. Started(queue, trans) /\ flashQueue' = queue
    BY <1>2 DEF Scheduled
  <2> QED
    BY <2>1, <2>2, StartedType
<1> QED
  BY <1>1, <1>2

LEMMA ScheduledSound ==
    ASSUME FlashTypeOK, NEW queue \in Links, NEW trans \in TransTables,
           Scheduled(queue, trans), ListSound(queue, trans),
           HeadOnBus(queue, trans, flashBus), ChipFollows(trans, flashBus),
           flashPast' = flashPast, chip' = chip
    PROVE  FlashSound'
<1>1. CASE queue = NoTrans \/ trans[queue].running
  <2>1. flashQueue' = queue /\ flashTrans' = trans /\ flashBus' = flashBus
    BY <1>1 DEF Scheduled
  <2> QED
    BY <2>1 DEF FlashSound, ListSound, HeadOnBus, ChipFollows
<1>2. CASE ~(queue = NoTrans \/ trans[queue].running)
  <2>1. queue \in FlashTrans
    BY <1>2 DEF Links
  <2>2. Started(queue, trans) /\ flashQueue' = queue
    BY <1>2 DEF Scheduled
  <2> QED
    BY <2>1, <2>2, StartedSound
<1> QED
  BY <1>1, <1>2

-----------------------------------------------------------------------------
(* The steps                                                               *)

\* A thread goes on, and the SPI side stands still.
LEMMA GoesType ==
    ASSUME FlashTypeOK, NEW h \in FlashThreads,
           NEW at \in {"outside", "looks", "tests", "starts"}, NEW t \in Links,
           at \in {"tests", "starts"} => t \in FlashTrans, Goes(h, at, t)
    PROVE  /\ flashPc' \in [FlashThreads -> [at : {"outside", "looks", "tests", "starts"},
                                             trans : Links]]
           /\ \A g \in FlashThreads :
                flashPc'[g].at \in {"tests", "starts"} => flashPc'[g].trans \in FlashTrans
<1>1. \A g \in FlashThreads :
        flashPc'[g] = IF g = h THEN [at |-> at, trans |-> t] ELSE flashPc[g]
  BY DEF Goes, FlashTypeOK
<1>2. flashPc' \in [FlashThreads -> [at : {"outside", "looks", "tests", "starts"},
                                     trans : Links]]
  BY DEF Goes, FlashTypeOK
<1> QED
  BY <1>1, <1>2 DEF FlashTypeOK

LEMMA FlashQueueStep ==
    ASSUME FlashInv, NEW h \in FlashThreads, NEW t \in FlashTrans,
           NEW kind \in FlashKinds, FlashQueue(h, t, kind)
    PROVE  FlashInv'
<1>1. /\ FlashTypeOK /\ ~flashTrans[t].queued /\ flashTrans' \in Appended(t, kind)
      /\ flashQueue' = HeadWith(t) /\ Goes(h, "looks", NoTrans)
      /\ UNCHANGED <<flashBus, flashCb, flashPast, chip>>
  BY DEF FlashInv, FlashQueue
<1>2. PICK trans \in Appended(t, kind) : flashTrans' = trans
  BY <1>1
<1>3. trans \in TransTables /\ HeadWith(t) \in FlashTrans
  BY <1>1, <1>2, AppendedFacts
<1>4. NoTrans \in Links
  BY DEF Links
<1>5. FlashTypeOK'
  BY <1>1, <1>2, <1>3, <1>4, GoesType DEF FlashTypeOK, Links
<1>6. ASSUME ~flashPast.raced PROVE FlashSound'
  <2>1. /\ ListSound(HeadWith(t), trans) /\ HeadOnBus(HeadWith(t), trans, flashBus)
        /\ ChipFollows(trans, flashBus)
    BY <1>1, <1>2, <1>6, AppendedSound DEF FlashInv
  <2> QED
    BY <1>1, <1>2, <2>1 DEF FlashSound, ListSound, HeadOnBus, ChipFollows
<1> QED
  BY <1>1, <1>5, <1>6 DEF FlashInv

LEMMA FlashSchedulesStep ==
    ASSUME FlashInv, NEW h \in FlashThreads, FlashSchedules(h)
    PROVE  FlashInv'
<1>1. FlashTypeOK /\ NoTrans \in Links
  BY DEF FlashInv, Links
<1>2. CASE FlashLooks(h) \/ FlashTests(h)
  <2>1. UNCHANGED <<flashQueue, flashTrans, flashBus, flashCb, flashPast, chip>>
    BY <1>2 DEF FlashLooks, FlashTests
  <2>2. PICK at \in {"outside", "looks", "tests", "starts"}, t \in Links :
             Goes(h, at, t) /\ (at \in {"tests", "starts"} => t \in FlashTrans)
    <3>1. CASE FlashLooks(h)
      BY <1>1, <3>1 DEF FlashLooks, FlashTypeOK, Links
    <3>2. CASE FlashTests(h)
      <4>1. flashPc[h].trans \in FlashTrans
        BY <1>1, <3>2 DEF FlashTests, At, FlashTypeOK
      <4> QED
        BY <1>1, <3>2, <4>1 DEF FlashTests, Links
    <3> QED
      BY <1>2, <3>1, <3>2
  <2>3. FlashTypeOK'
    BY <1>1, <2>1, <2>2, GoesType DEF FlashTypeOK
  <2> QED
    BY <2>1, <2>3 DEF FlashInv, FlashSound, ListSound, HeadOnBus, ChipFollows
<1>3. CASE FlashStarts(h)
  <2> DEFINE t == flashPc[h].trans
  <2>1. /\ t \in FlashTrans /\ Started(t, flashTrans) /\ Goes(h, "outside", NoTrans)
        /\ flashPast' = [flashPast EXCEPT !.raced = @ \/ t # flashQueue]
        /\ UNCHANGED <<flashQueue, flashCb, chip>>
    BY <1>1, <1>3 DEF FlashStarts, At, Overtaken, FlashTypeOK
  <2> HIDE DEF t
  <2>2. /\ flashPast' \in [raced : BOOLEAN, blind : BOOLEAN]
        /\ flashPast'.blind = flashPast.blind
        /\ flashPast'.raced <=> flashPast.raced \/ t # flashQueue
    BY <1>1, <2>1 DEF FlashTypeOK
  <2>3. flashTrans \in TransTables
    BY <1>1 DEF FlashTypeOK
  <2>4. FlashTypeOK'
    BY <1>1, <2>1, <2>2, <2>3, StartedType, GoesType DEF FlashTypeOK
  <2>5. ASSUME ~flashPast'.raced PROVE FlashSound'
    <3>1. t = flashQueue /\ FlashSound
      BY <2>2, <2>5 DEF FlashInv
    <3> QED
      BY <1>1, <2>1, <2>2, <2>3, <3>1, StartedSound DEF FlashSound
  <2> QED
    BY <2>4, <2>5 DEF FlashInv
<1> QED
  BY <1>2, <1>3 DEF FlashSchedules

LEMMA FlashCbQueuesStep ==
    ASSUME FlashInv, NEW t \in FlashTrans, NEW kind \in FlashKinds, FlashCbQueues(t, kind)
    PROVE  FlashInv'
<1>1. FlashTypeOK /\ ~flashTrans[t].queued /\ UNCHANGED <<flashCb, flashPc, flashPast, chip>>
  BY DEF FlashInv, FlashCbQueues
<1>2. PICK trans \in Appended(t, kind) : Scheduled(HeadWith(t), trans)
  BY DEF FlashCbQueues
<1>3. trans \in TransTables /\ HeadWith(t) \in Links
  BY <1>1, <1>2, AppendedFacts DEF Links
<1>4. FlashTypeOK'
  BY <1>1, <1>2, <1>3, ScheduledType DEF FlashTypeOK
<1>5. ASSUME ~flashPast.raced PROVE FlashSound'
  <2>1. /\ ListSound(HeadWith(t), trans) /\ HeadOnBus(HeadWith(t), trans, flashBus)
        /\ ChipFollows(trans, flashBus)
    BY <1>1, <1>2, <1>5, AppendedSound DEF FlashInv
  <2> QED
    BY <1>1, <1>2, <1>3, <2>1, ScheduledSound
<1> QED
  BY <1>1, <1>4, <1>5 DEF FlashInv

LEMMA CallbackReturnsStep ==
    ASSUME FlashInv, FlashCallbackReturns
    PROVE  FlashInv'
<1>1. /\ FlashTypeOK /\ Scheduled(flashQueue, flashTrans) /\ flashCb' = NoTrans
      /\ UNCHANGED <<flashPc, flashPast, chip>>
  BY DEF FlashInv, FlashCallbackReturns
<1>2. flashQueue \in Links /\ flashTrans \in TransTables /\ NoTrans \in Links
  BY <1>1 DEF FlashTypeOK, Links
<1>3. FlashTypeOK'
  BY <1>1, <1>2, ScheduledType DEF FlashTypeOK
<1>4. ASSUME ~flashPast.raced PROVE FlashSound'
  BY <1>1, <1>2, <1>4, ScheduledSound DEF FlashInv, FlashSound
<1> QED
  BY <1>1, <1>3, <1>4 DEF FlashInv

\* The transaction on the bus is done, and the chip is not writing.
LEMMA DoneStep ==
    ASSUME FlashInv, flashBus # NoBus, FlashDone(flashBus.trans), UNCHANGED flashPc,
           flashPast' \in [raced : BOOLEAN, blind : BOOLEAN], chip' \in Chips,
           flashPast'.raced = flashPast.raced,
           chip'.busy /\ ~flashPast.raced => flashPast'.blind
    PROVE  FlashInv'
<1> DEFINE t == flashBus.trans
<1>1. /\ FlashTypeOK /\ t \in FlashTrans /\ flashTrans \in TransTables
      /\ NoTrans \notin FlashTrans
  BY FlashAssumption DEF FlashInv, FlashTypeOK, NoTrans
<1> HIDE DEF t
<1>2. /\ flashTrans' \in TransTables /\ flashBus' = NoBus
      /\ flashQueue' = flashTrans[t].next
      /\ \A u \in FlashTrans :
           /\ flashTrans'[u].next = flashTrans[u].next
           /\ flashTrans'[u].queued <=> u # t /\ flashTrans[u].queued
           /\ flashTrans'[u].running <=> u # t /\ flashTrans[u].running
  BY <1>1 DEF FlashDone, TransTables, t
<1>3. FlashTypeOK'
  BY <1>1, <1>2 DEF FlashTypeOK, FlashDone, TransTables, Links, t
<1>4. ASSUME ~flashPast.raced PROVE FlashSound'
  <2>1. /\ flashQueue = t /\ flashTrans[t].queued
        /\ \A u \in FlashTrans : flashTrans[u].running <=> u = t
    BY <1>1, <1>4 DEF FlashInv, FlashSound, ListSound, HeadOnBus, t
  <2>2. \A u \in FlashTrans : flashTrans[u].queued /\ flashTrans[u].next # NoTrans =>
          /\ flashTrans[u].next \in FlashTrans /\ flashTrans[flashTrans[u].next].queued
          /\ flashTrans[u].next # t
    BY <1>1, <1>4, <2>1 DEF FlashInv, FlashSound, ListSound, TransTables, Links
  <2>3. \A u, v \in FlashTrans :
          /\ flashTrans[u].queued /\ flashTrans[v].queued
          /\ flashTrans[u].next = flashTrans[v].next /\ flashTrans[u].next # NoTrans
          => u = v
    BY <1>4 DEF FlashInv, FlashSound, ListSound
  <2>4. ListSound(flashQueue', flashTrans')
    BY <1>1, <1>2, <2>1, <2>2, <2>3 DEF ListSound
  <2>5. chip'.busy => flashPast'.blind
    BY <1>4
  <2> QED
    BY <1>2, <2>1, <2>4, <2>5 DEF FlashSound, HeadOnBus, ChipFollows
<1> QED
  BY <1>3, <1>4 DEF FlashInv

\* The next transfer of the chain is queued.
LEMMA ContinueStep ==
    ASSUME FlashInv, flashBus # NoBus, NEW step \in {"command", "check"},
           FlashContinue(step, flashBus.trans), UNCHANGED flashPc,
           flashPast' \in [raced : BOOLEAN, blind : BOOLEAN], chip' \in Chips,
           flashPast'.raced = flashPast.raced,
           chip'.busy /\ ~flashPast.raced => flashPast'.blind \/ step = "check",
           ~flashPast.raced /\ ~flashPast'.blind /\ step = "command" =>
             LET kind == flashTrans[flashBus.trans].kind
             IN (kind \in Writes => chip'.wel) /\ (kind = "protect" => chip'.svel)
    PROVE  FlashInv'
<1>1. /\ flashBus' = [step |-> step, trans |-> flashBus.trans]
      /\ flashBus' # NoBus
      /\ UNCHANGED <<flashQueue, flashTrans, flashCb>>
  BY DEF FlashContinue, NoBus
<1>2. FlashTypeOK'
  BY <1>1 DEF FlashInv, FlashTypeOK, Steps
<1>3. ASSUME ~flashPast.raced PROVE FlashSound'
  BY <1>1, <1>3 DEF FlashInv, FlashSound, ListSound, HeadOnBus, ChipFollows
<1> QED
  BY <1>2, <1>3 DEF FlashInv

LEMMA TransferEndsStep ==
    ASSUME FlashInv, FlashTransferEnds
    PROVE  FlashInv'
<1> DEFINE t == flashBus.trans
           kind == flashTrans[t].kind
           blind == ChipLeft(flashBus.step, kind)
<1>1. /\ flashBus # NoBus /\ chip' = ChipTakes(flashBus.step, kind)
      /\ flashPast' = [flashPast EXCEPT !.blind = blind] /\ UNCHANGED flashPc
      /\ FlashTypeOK
  BY DEF FlashTransferEnds, FlashInv
<1>2. /\ t \in FlashTrans /\ flashBus.step \in Steps /\ kind \in FlashKinds
      /\ flashBus.step # "none" /\ chip \in Chips
  BY <1>1 DEF FlashTypeOK, TransTables, NoBus, Steps
<1>3. chip' \in Chips
  BY <1>1, <1>2 DEF ChipTakes, Chips
<1>4. blind \in BOOLEAN
  BY <1>1 DEF ChipLeft, FlashTypeOK
<1> HIDE DEF blind
<1>5. /\ flashPast' \in [raced : BOOLEAN, blind : BOOLEAN]
      /\ flashPast'.raced = flashPast.raced /\ flashPast'.blind = blind
  BY <1>1, <1>4 DEF FlashTypeOK
<1>6. ~flashPast.raced =>
        /\ chip.busy => flashPast.blind \/ flashBus.step = "check"
        /\ ~flashPast.blind /\ flashBus.step = "command" =>
             (kind \in Writes => chip.wel) /\ (kind = "protect" => chip.svel)
  BY <1>1 DEF FlashInv, FlashSound, ChipFollows
<1>7. CASE flashBus.step = "prelude"
  <2>1. FlashContinue("command", t)
    BY <1>7 DEF FlashTransferEnds, WriteEnabled
  <2>2. blind <=> flashPast.blind /\ (chip.busy \/ ~HasPrelude(kind))
    BY <1>1, <1>7 DEF blind, ChipLeft, FirstStep, FlashTypeOK
  <2>3. kind \in Writes \/ kind = "protect" => HasPrelude(kind)
    BY DEF Writes, HasPrelude
  <2>4. chip'.busy => chip.busy
    BY <1>1, <1>2, <1>7 DEF ChipTakes, Chips
  <2>5. ~chip.busy => (kind \in Writes => chip'.wel) /\ (kind = "protect" => chip'.svel)
    BY <1>1, <1>2, <1>7 DEF ChipTakes, Chips, Writes
  <2>6. ~flashPast.raced /\ chip.busy => flashPast.blind
    BY <1>6, <1>7
  <2>7. ~flashPast.raced /\ chip'.busy => blind
    BY <2>2, <2>4, <2>6
  <2>8. ~flashPast.raced /\ ~blind =>
          (kind \in Writes => chip'.wel) /\ (kind = "protect" => chip'.svel)
    BY <2>2, <2>3, <2>5, <2>6
  <2> HIDE DEF kind
  <2> QED
    BY <1>1, <1>3, <1>5, <2>1, <2>7, <2>8, ContinueStep DEF kind
<1>8. CASE flashBus.step = "command"
  <2>1. Dispatched(t)
    BY <1>8 DEF FlashTransferEnds
  <2>2. CASE kind = "write"
    BY <1>1, <1>3, <1>5, <2>1, <2>2, ContinueStep DEF Dispatched, WaitsBusy
  <2>3. CASE kind # "write"
    <3>1. chip.busy /\ ~flashPast.raced => blind
      <4>1. chip.busy /\ ~flashPast.raced => flashPast.blind
        BY <1>6, <1>8
      <4> QED
        BY <1>1, <4>1 DEF blind, ChipLeft, FlashTypeOK, Chips
    <3>2. ~chip.busy => ~chip'.busy \/ blind
      <4>1. CASE kind = "blind" /\ chip.wel /\ ~chip.busy
        BY <1>8, <4>1 DEF blind, ChipLeft
      <4>2. CASE ~chip.busy /\ ~(kind = "blind" /\ chip.wel)
        BY <1>1, <1>2, <1>8, <2>3, <4>2 DEF ChipTakes, Chips, Writes
      <4> QED
        BY <4>1, <4>2
    <3>3. chip'.busy /\ ~flashPast.raced => blind
      BY <3>1, <3>2
    <3> QED
      BY <1>1, <1>3, <1>5, <2>1, <2>3, <3>3, DoneStep DEF Dispatched, WaitsBusy
  <2> QED
    BY <2>2, <2>3
<1>9. CASE flashBus.step = "check"
  <2>1. CheckWriteCompleted(t) /\ chip' = chip
    BY <1>1, <1>2, <1>9 DEF FlashTransferEnds, ChipTakes
  <2> QED
    BY <1>1, <1>3, <1>5, <2>1, DoneStep, ContinueStep DEF CheckWriteCompleted
<1> QED
  BY <1>2, <1>7, <1>8, <1>9 DEF Steps

LEMMA FlashStepInv == FlashInv /\ [FlashNext]_flashVars => FlashInv'
<1> SUFFICES ASSUME FlashInv, [FlashNext]_flashVars PROVE FlashInv'
  OBVIOUS
<1>1. CASE ChipDone
  <2>1. /\ UNCHANGED <<flashQueue, flashTrans, flashBus, flashCb, flashPc, flashPast>>
        /\ chip.busy /\ chip' \in Chips /\ ~chip'.busy
        /\ chip'.svel = chip.svel
    BY <1>1 DEF ChipDone, FlashInv, FlashTypeOK, Chips
  <2>2. FlashTypeOK'
    BY <2>1 DEF FlashInv, FlashTypeOK
  <2> QED
    BY <2>1, <2>2 DEF FlashInv, FlashSound, ListSound, HeadOnBus, ChipFollows
<1>2. CASE UNCHANGED flashVars
  BY <1>2 DEF FlashInv, FlashTypeOK, FlashSound, ListSound, HeadOnBus, ChipFollows, flashVars
<1> QED
  BY <1>1, <1>2, FlashQueueStep, FlashSchedulesStep, FlashCbQueuesStep,
     CallbackReturnsStep, TransferEndsStep DEF FlashNext

\* Whatever is queued behind whatever, by whichever threads and callbacks, the
\* chip is sent nothing it would ignore (spiflash.c:85 and spiflash.c:114), but
\* for what follows a write without a callback (spiflash.c:223), and after a
\* thread was overtaken between spiflash.c:117 and spiflash.c:123.
THEOREM ChipTakesCommands == FlashSpec => []FlashTakes
BY FlashInitInv, FlashStepInv, FlashInvImplies, PTL DEF FlashSpec

-----------------------------------------------------------------------------
(* I2C                                                                     *)

Requests == [read : BOOLEAN, length : Nat, stop : BOOLEAN]

I2cTypeOK ==
    /\ i2cQueue \in Seq(I2cTrans)
    /\ i2cReq \in [I2cTrans -> Requests]
    /\ i2c \in [state : {"idle", "tx", "rx", "rx_start"}, index : Nat]
    /\ i2cPc \in {"run", "callback", "start"}
    /\ i2cHw \in [mst : BOOLEAN, busy : BOOLEAN, txak : BOOLEAN,
                  wire : {"none", "send", "receive"}, int : BOOLEAN, rxak : BOOLEAN]

\* The first transaction is the one the state is about; while the processor
\* waits for the bus to start it, the state is that of the transaction before.
Busy ==
    /\ i2cQueue = <<>> => i2c.state = "idle" /\ i2cHw.wire = "none" /\ ~i2cHw.int
    /\ i2cPc = "start" => i2cQueue # <<>> /\ i2cHw.wire = "none" /\ ~i2cHw.int
    /\ i2cHw.wire # "none" => ~i2cHw.int
    /\ i2cHw.wire = "receive" => i2c.state = "rx"

\* No read asks for nothing.
ReadsSomething ==
    \A k \in 1..Len(i2cQueue) : i2cReq[i2cQueue[k]].read => i2cReq[i2cQueue[k]].length > 0

\* In a read, the acknowledge is off from the moment on when one byte is left.
Reception ==
    i2cPc # "start" =>
        /\ i2c.state = "rx_start" =>
             Cur.read /\ i2c.index = 0 /\ (i2cHw.txak <=> Cur.length = 1)
        /\ i2c.state = "rx" =>
             /\ Cur.read /\ i2c.index < Cur.length
             /\ i2cHw.txak <=> i2c.index + 1 = Cur.length

I2cInv == I2cTypeOK /\ Busy /\ ReadsSomething /\ Reception

LEMMA I2cInvImplies == I2cInv => I2cNackLast
BY DEF I2cInv, Busy, Reception, I2cNackLast

LEMMA I2cInitInv == I2cInit => I2cInv
BY EmptySeq DEF I2cInit, FreshI2c, I2cInv, I2cTypeOK, Requests, Busy, ReadsSomething, Reception

-----------------------------------------------------------------------------
(* The steps                                                               *)

LEMMA QueueStep ==
    ASSUME I2cInv, NEW t \in I2cTrans, NEW r \in I2cRequests, I2cQueue(t, r)
    PROVE  I2cInv'
<1> USE DEF I2cInv
<1>1. r \in Requests /\ (r.read => r.length > 0)
  BY I2cAssumption DEF Requests
<1>2. /\ i2cQueue' \in Seq(I2cTrans)
      /\ Len(i2cQueue') = Len(i2cQueue) + 1
      /\ \A k \in 1..Len(i2cQueue) : i2cQueue'[k] = i2cQueue[k] /\ i2cQueue[k] # t
      /\ i2cQueue'[Len(i2cQueue) + 1] = t
  BY AppendProperties DEF I2cTypeOK, I2cQueue, I2cHas
<1>3. \A u \in I2cTrans : i2cReq'[u] = IF u = t THEN r ELSE i2cReq[u]
  BY DEF I2cTypeOK, I2cQueue
<1>4. I2cTypeOK'
  BY <1>1, <1>2 DEF I2cTypeOK, I2cQueue
<1>5. Busy'
  BY <1>2 DEF I2cTypeOK, Busy, I2cQueue
<1>6. ReadsSomething'
  <2> SUFFICES ASSUME NEW k \in 1..Len(i2cQueue'), i2cReq'[i2cQueue'[k]].read
               PROVE  i2cReq'[i2cQueue'[k]].length > 0
    BY DEF ReadsSomething
  <2>1. CASE k = Len(i2cQueue) + 1
    BY <1>1, <1>2, <1>3, <2>1
  <2>2. CASE k \in 1..Len(i2cQueue)
    <3>1. i2cQueue[k] \in I2cTrans
      BY <2>2 DEF I2cTypeOK
    <3> QED
      BY <1>2, <1>3, <2>2, <3>1 DEF ReadsSomething
  <2> QED
    BY <1>2, <2>1, <2>2 DEF I2cTypeOK
<1>7. Reception'
  <2>1. CASE i2cQueue = <<>>
    BY <2>1 DEF Reception, I2cQueue
  <2>2. CASE i2cQueue # <<>>
    <3>1. Head(i2cQueue') = Head(i2cQueue) /\ Head(i2cQueue) \in I2cTrans
          /\ Head(i2cQueue) # t
      BY <1>2, <2>2 DEF I2cTypeOK, I2cQueue
    <3>2. Cur' = Cur
      BY <1>3, <3>1 DEF Cur
    <3> QED
      BY <2>2, <3>2 DEF Reception, I2cQueue
  <2> QED
    BY <2>1, <2>2
<1> QED
  BY <1>4, <1>5, <1>6, <1>7

LEMMA StartStep ==
    ASSUME I2cInv, I2cStart
    PROVE  I2cInv'
<1> USE DEF I2cInv
<1>1. i2cQueue # <<>> /\ Head(i2cQueue) \in I2cTrans /\ Head(i2cQueue) = i2cQueue[1]
  BY DEF I2cTypeOK, Busy, I2cStart
<1>2. Cur \in Requests /\ Cur' = Cur /\ (Cur.read => Cur.length > 0)
  BY <1>1 DEF I2cTypeOK, ReadsSomething, I2cStart, Cur
<1>3. I2cTypeOK'
  BY <1>2 DEF I2cTypeOK, I2cStart, Requests
<1>4. Busy'
  BY <1>1 DEF I2cTypeOK, Busy, I2cStart
<1>5. ReadsSomething'
  BY DEF ReadsSomething, I2cStart
<1>6. Reception'
  BY <1>2 DEF I2cTypeOK, Reception, I2cStart, Requests
<1> QED
  BY <1>3, <1>4, <1>5, <1>6

\* The transaction after the one that ends is started, or there is none.
LEMMA EndStep ==
    ASSUME I2cInv, EndTransaction, i2cReq' = i2cReq, i2cPc = "run", i2cHw.int,
           i2cQueue # <<>>
    PROVE  I2cInv'
<1> USE DEF I2cInv
<1>1. /\ i2cQueue' \in Seq(I2cTrans)
      /\ Len(i2cQueue') = Len(i2cQueue) - 1
      /\ \A k \in 1..Len(i2cQueue') : i2cQueue'[k] = i2cQueue[k + 1]
  BY HeadTailProperties DEF I2cTypeOK, EndTransaction
<1>2. i2cHw' = [i2cHw EXCEPT !.int = FALSE, !.mst = i2cHw'.mst] /\ i2cHw'.mst \in BOOLEAN
  BY DEF I2cTypeOK, EndTransaction, Released
<1>3. I2cTypeOK'
  BY <1>1, <1>2 DEF I2cTypeOK, EndTransaction
<1>4. Busy'
  BY <1>2 DEF I2cTypeOK, Busy, EndTransaction
<1>5. ReadsSomething'
  BY <1>1 DEF I2cTypeOK, ReadsSomething
<1>6. Reception'
  BY DEF I2cTypeOK, Reception, EndTransaction
<1> QED
  BY <1>3, <1>4, <1>5, <1>6

LEMMA TxStep ==
    ASSUME I2cInv, I2cTx
    PROVE  I2cInv'
<1> USE DEF I2cInv
<1>1. i2cQueue # <<>> /\ i2c.state = "tx"
  BY DEF I2cTx, I2cInterrupt, Busy
<1>2. CASE i2c.index = Cur.length \/ i2cHw.rxak
  BY <1>1, <1>2, EndStep DEF I2cTx, I2cInterrupt
<1>3. CASE ~(i2c.index = Cur.length \/ i2cHw.rxak)
  <2>1. /\ i2c' = [i2c EXCEPT !.index = @ + 1]
        /\ i2cHw' = [i2cHw EXCEPT !.int = FALSE, !.wire = "send"]
        /\ UNCHANGED <<i2cQueue, i2cReq, i2cPc, i2cPrev>>
    BY <1>3 DEF I2cTx
  <2>2. I2cTypeOK' /\ i2c'.state = "tx"
    <3>1. /\ i2c' \in [state : {"idle", "tx", "rx", "rx_start"}, index : Nat]
          /\ i2c'.state = "tx"
      BY <1>1, <2>1 DEF I2cTypeOK
    <3> QED
      BY <2>1, <3>1 DEF I2cTypeOK
  <2>3. Busy'
    BY <1>1, <2>1, <2>2 DEF I2cTypeOK, Busy, I2cTx, I2cInterrupt
  <2>4. ReadsSomething' /\ Reception'
    BY <2>1, <2>2 DEF ReadsSomething, Reception
  <2> QED
    BY <2>2, <2>3, <2>4
<1> QED
  BY <1>2, <1>3

LEMMA RxStartStep ==
    ASSUME I2cInv, I2cRxStart
    PROVE  I2cInv'
<1> USE DEF I2cInv
<1>1. i2cQueue # <<>> /\ i2c.state = "rx_start" /\ i2cPc = "run"
  BY DEF I2cRxStart, I2cInterrupt, Busy
<1>2. CASE i2cHw.rxak
  BY <1>1, <1>2, EndStep DEF I2cRxStart, I2cInterrupt
<1>3. CASE ~i2cHw.rxak
  <2>1. /\ i2c' = [i2c EXCEPT !.state = "rx"]
        /\ i2cHw' = [i2cHw EXCEPT !.int = FALSE, !.wire = "receive"]
        /\ UNCHANGED <<i2cQueue, i2cReq, i2cPc, i2cPrev>>
    BY <1>3 DEF I2cRxStart
  <2>2. I2cTypeOK' /\ i2c'.state = "rx" /\ i2c'.index = i2c.index
        /\ i2cHw'.txak = i2cHw.txak
    BY <2>1 DEF I2cTypeOK
  <2>3. Busy'
    BY <1>1, <2>1, <2>2 DEF I2cTypeOK, Busy
  <2>4. Cur' = Cur /\ Cur.read /\ i2c.index = 0 /\ (i2cHw.txak <=> Cur.length = 1)
    BY <1>1, <2>1 DEF Cur, Reception
  <2>5. Head(i2cQueue) = i2cQueue[1] /\ Head(i2cQueue) \in I2cTrans
        /\ 1 \in 1..Len(i2cQueue)
    BY <1>1 DEF I2cTypeOK
  <2>6. Cur.length \in Nat /\ Cur.length > 0
    BY <2>4, <2>5 DEF I2cTypeOK, ReadsSomething, Cur, Requests
  <2>7. ReadsSomething'
    BY <2>1 DEF ReadsSomething
  <2>8. Reception'
    BY <2>2, <2>4, <2>6 DEF Reception
  <2> QED
    BY <2>2, <2>3, <2>7, <2>8
<1> QED
  BY <1>2, <1>3

LEMMA RxStep ==
    ASSUME I2cInv, I2cRx
    PROVE  I2cInv'
<1> USE DEF I2cInv
<1>1. i2cQueue # <<>> /\ i2c.state = "rx" /\ i2cPc = "run"
  BY DEF I2cRx, I2cInterrupt, Busy
<1>2. Head(i2cQueue) \in I2cTrans /\ i2c.index \in Nat
  BY <1>1 DEF I2cTypeOK
<1>3. /\ Cur.length \in Nat /\ Cur.read /\ i2c.index < Cur.length
      /\ i2cHw.txak <=> i2c.index + 1 = Cur.length
  BY <1>1, <1>2 DEF I2cTypeOK, Cur, Requests, Reception
<1>4. CASE i2c.index = Cur.length - 1
  BY <1>1, <1>4, EndStep DEF I2cRx, I2cInterrupt
<1>5. CASE i2c.index # Cur.length - 1
  <2>1. /\ i2c' = [i2c EXCEPT !.index = @ + 1]
        /\ i2cHw' = [i2cHw EXCEPT !.int = FALSE, !.wire = "receive",
                                  !.txak = @ \/ LastButOne(i2c.index, Cur.length)]
        /\ UNCHANGED <<i2cQueue, i2cReq, i2cPc, i2cPrev>>
    BY <1>5 DEF I2cRx
  <2>2. ~i2cHw.txak /\ i2c.index + 1 < Cur.length
    BY <1>2, <1>3, <1>5
  <2>3. /\ i2c'.state = "rx" /\ i2c'.index = i2c.index + 1
        /\ i2cHw'.txak <=> i2c.index + 2 = Cur.length
    BY <1>1, <2>1, <2>2 DEF I2cTypeOK, LastButOne
  <2>4. I2cTypeOK'
    <3>1. i2c' \in [state : {"idle", "tx", "rx", "rx_start"}, index : Nat]
      BY <2>1 DEF I2cTypeOK
    <3>2. (i2cHw.txak \/ LastButOne(i2c.index, Cur.length)) \in BOOLEAN
      BY DEF I2cTypeOK, LastButOne
    <3> QED
      BY <2>1, <3>1, <3>2 DEF I2cTypeOK
  <2>5. Busy'
    BY <1>1, <2>1, <2>3 DEF I2cTypeOK, Busy
  <2>6. ReadsSomething' /\ Cur' = Cur
    BY <2>1 DEF ReadsSomething, Cur
  <2>7. Reception'
    BY <1>2, <1>3, <2>2, <2>3, <2>6 DEF Reception
  <2> QED
    BY <2>4, <2>5, <2>6, <2>7
<1> QED
  BY <1>4, <1>5

LEMMA I2cStepInv == I2cInv /\ [I2cNext]_i2cVars => I2cInv'
<1> SUFFICES ASSUME I2cInv, [I2cNext]_i2cVars PROVE I2cInv'
  OBVIOUS
<1>1. CASE I2cCallbackReturns
  BY <1>1 DEF I2cInv, I2cTypeOK, Busy, ReadsSomething, Reception, Cur, I2cCallbackReturns
<1>2. CASE I2cByte
  <2>1. PICK nack \in BOOLEAN :
          i2cHw' = [i2cHw EXCEPT !.wire = "none", !.int = TRUE,
                                 !.rxak = IF i2cHw.wire = "send" THEN nack ELSE @]
    BY <1>2 DEF I2cByte
  <2> QED
    BY <1>2, <2>1 DEF I2cByte, I2cInv, I2cTypeOK, Busy, ReadsSomething, Reception, Cur
<1>3. CASE I2cStopped
  BY <1>3 DEF I2cInv, I2cTypeOK, Busy, ReadsSomething, Reception, Cur, I2cStopped
<1>4. CASE UNCHANGED i2cVars
  BY <1>4 DEF I2cInv, I2cTypeOK, Busy, ReadsSomething, Reception, Cur, i2cVars
<1> QED
  BY <1>1, <1>2, <1>3, <1>4, QueueStep, StartStep, TxStep, RxStartStep, RxStep
  DEF I2cNext, I2cHandler

\* The controller refuses a byte exactly when it is the last one asked for
\* (i2c.c:32 and i2c.c:114), for any number of transactions of any length.
THEOREM LastByteIsRefused == I2cSpec => []I2cNackLast
BY I2cInitInv, I2cStepInv, I2cInvImplies, PTL DEF I2cSpec

-----------------------------------------------------------------------------
(* Numbered bytes                                                          *)

\* The bytes of s are numbered from b on, modulo P, and w comes next.
Numbered(P, b, s, w) ==
    /\ s \in Seq(Nat)
    /\ \A i \in 1..Len(s) : s[i] = (b + (i - 1)) % P
    /\ w = (b + Len(s)) % P

LEMMA NumberedShift ==
    ASSUME NEW P \in Nat \ {0}, NEW b \in Nat, NEW c \in Nat, b % P = c % P,
           NEW s, NEW w, Numbered(P, b, s, w)
    PROVE  Numbered(P, c, s, w)
<1>1. ASSUME NEW x \in Nat PROVE (b + x) % P = (c + x) % P
  <2>1. ((b % P) + x) % P = (b + x) % P /\ ((c % P) + x) % P = (c + x) % P
    BY ModAdd
  <2> QED
    BY <2>1
<1>2. s \in Seq(Nat) /\ Len(s) \in Nat
  BY DEF Numbered
<1>3. ASSUME NEW i \in 1..Len(s) PROVE i - 1 \in Nat
  BY <1>2
<1> QED
  BY <1>1, <1>2, <1>3 DEF Numbered

LEMMA NumberedDrop ==
    ASSUME NEW P \in Nat \ {0}, NEW b \in Nat, NEW s, NEW w,
           Numbered(P, b, s, w), NEW k \in 0..Len(s)
    PROVE  Numbered(P, b + k, SubSeq(s, k + 1, Len(s)), w)
<1> DEFINE r == SubSeq(s, k + 1, Len(s))
<1>1. s \in Seq(Nat) /\ Len(s) \in Nat
  BY DEF Numbered
<1>2. /\ r \in Seq(Nat) /\ Len(r) = Len(s) - k
      /\ \A i \in 1..Len(r) : r[i] = s[k + i]
  BY <1>1
<1> HIDE DEF r
<1>3. ASSUME NEW i \in 1..Len(r) PROVE r[i] = (b + k + (i - 1)) % P
  <2>1. k + i \in 1..Len(s) /\ b + ((k + i) - 1) = b + k + (i - 1)
    BY <1>1, <1>2
  <2>2. r[i] = s[k + i]
    BY <1>2
  <2>3. s[k + i] = (b + ((k + i) - 1)) % P
    BY <2>1 DEF Numbered
  <2> QED
    BY <2>1, <2>2, <2>3
<1>4. w = (b + k + Len(r)) % P
  <2>1. b + k + Len(r) = b + Len(s)
    BY <1>1, <1>2
  <2> QED
    BY <2>1 DEF Numbered
<1> QED
  BY <1>2, <1>3, <1>4 DEF Numbered, r

LEMMA NumberedAppend ==
    ASSUME NEW P \in Nat \ {0}, NEW b \in Nat, NEW s, NEW w,
           Numbered(P, b, s, w), NEW t, NEW v, Numbered(P, w, t, v)
    PROVE  Numbered(P, b, s \o t, v)
<1> DEFINE r == s \o t
<1>1. s \in Seq(Nat) /\ Len(s) \in Nat /\ t \in Seq(Nat) /\ Len(t) \in Nat
  BY DEF Numbered
<1>2. /\ r \in Seq(Nat) /\ Len(r) = Len(s) + Len(t)
      /\ \A i \in 1..Len(r) : r[i] = IF i <= Len(s) THEN s[i] ELSE t[i - Len(s)]
  BY <1>1
<1> HIDE DEF r
<1>3. ASSUME NEW x \in Nat PROVE (w + x) % P = (b + Len(s) + x) % P
  <2>1. w = (b + Len(s)) % P /\ b + Len(s) \in Nat
    BY <1>1 DEF Numbered
  <2> QED
    BY <2>1, ModAdd
<1>4. ASSUME NEW i \in 1..Len(r) PROVE r[i] = (b + (i - 1)) % P
  <2>1. CASE i <= Len(s)
    <3>1. i \in 1..Len(s) /\ r[i] = s[i]
      BY <1>1, <1>2, <2>1
    <3> QED
      BY <3>1 DEF Numbered
  <2>2. CASE ~(i <= Len(s))
    <3>1. i - Len(s) \in 1..Len(t) /\ (i - Len(s)) - 1 \in Nat
      BY <1>1, <1>2, <2>2
    <3>2. r[i] = (w + ((i - Len(s)) - 1)) % P
      BY <1>2, <2>2, <3>1 DEF Numbered
    <3>3. b + Len(s) + ((i - Len(s)) - 1) = b + (i - 1)
      BY <1>1
    <3> QED
      BY <1>3, <3>1, <3>2, <3>3
  <2> QED
    BY <2>1, <2>2
<1>5. v = (b + Len(r)) % P
  <2>1. v = (w + Len(t)) % P /\ b + Len(s) + Len(t) = b + Len(r)
    BY <1>1, <1>2 DEF Numbered
  <2> QED
    BY <1>1, <1>3, <2>1
<1> QED
  BY <1>2, <1>4, <1>5 DEF Numbered, r

-----------------------------------------------------------------------------
(* The USB serial port                                                     *)

\* What the host has and cdc_tx_done has not yet taken off.
Had == IF cdcUsb.taken THEN cdcUsb.len ELSE 0

\* The number of the first byte of outbuf, not reduced.
First == cdcExpected + CdcNumbers - Had

CdcTypeOK ==
    /\ outbuf \in Seq(Nat) /\ Len(outbuf) <= CdcSize
    /\ cdcUsb \in [len : Nat, taken : BOOLEAN] /\ cdcUsb.len <= Len(outbuf)
    /\ cdcExpected \in Nat /\ out_queued \in BOOLEAN

\* Without a transfer queued the controller has none.
CdcQueued == ~out_queued => cdcUsb = NoPacket

CdcInv == CdcTypeOK /\ CdcQueued /\ Numbered(CdcNumbers, First, outbuf, cdcWritten)

Packets == [len : Nat, taken : BOOLEAN]

LEMMA PacketFacts ==
    /\ NoPacket \in Packets /\ NoPacket.len = 0 /\ NoPacket.taken = FALSE
    /\ \A n \in Nat : LET p == [NoPacket EXCEPT !.len = n]
                     IN p \in Packets /\ p.len = n /\ p.taken = FALSE
  BY DEF NoPacket, Packets

LEMMA CdcFirst ==
    ASSUME CdcTypeOK
    PROVE  /\ CdcNumbers \in Nat \ {0} /\ CdcSize \in Nat /\ CdcSize < CdcNumbers
           /\ Len(outbuf) \in Nat /\ Had \in 0..Len(outbuf) /\ First \in Nat
           /\ cdcUsb.len \in Nat
<1>1. CdcNumbers \in Nat \ {0} /\ CdcSize \in Nat /\ CdcSize < CdcNumbers
  BY CdcAssumption DEF CdcAssumption
<1>2. Len(outbuf) \in Nat /\ cdcUsb.len \in Nat /\ Had \in 0..Len(outbuf)
  BY DEF CdcTypeOK, Had
<1> QED
  BY <1>1, <1>2 DEF CdcTypeOK, First

LEMMA CdcInvImplies == CdcInv => CdcStream
<1> SUFFICES ASSUME CdcInv PROVE CdcStream
  OBVIOUS
<1>1. CdcTypeOK /\ Numbered(CdcNumbers, First, outbuf, cdcWritten)
  BY DEF CdcInv
<1>2. /\ CdcNumbers \in Nat \ {0} /\ Len(outbuf) \in Nat
      /\ Had \in 0..Len(outbuf) /\ First \in Nat
  BY <1>1, CdcFirst
<1>3. outbuf = CdcBytes(First % CdcNumbers, Len(outbuf))
  <2> DEFINE bytes == [i \in 1..Len(outbuf) |->
                         ((First % CdcNumbers) + i - 1) % CdcNumbers]
  <2>1. ASSUME NEW i \in 1..Len(outbuf)
        PROVE  outbuf[i] = ((First % CdcNumbers) + i - 1) % CdcNumbers
    <3>1. i - 1 \in Nat /\ (First % CdcNumbers) + i - 1 = (First % CdcNumbers) + (i - 1)
      BY <1>2
    <3>2. ((First % CdcNumbers) + (i - 1)) % CdcNumbers = (First + (i - 1)) % CdcNumbers
      BY <1>2, <3>1, ModAdd
    <3> QED
      BY <1>1, <3>1, <3>2 DEF Numbered
  <2>2. outbuf = [i \in 1..Len(outbuf) |-> outbuf[i]]
    BY <1>1 DEF CdcTypeOK
  <2>3. outbuf = bytes
    BY <2>1, <2>2
  <2> QED
    BY <2>3 DEF CdcBytes
<1>4. (cdcExpected + Len(outbuf) - Had) % CdcNumbers = cdcWritten
  <2> DEFINE x == cdcExpected + Len(outbuf) - Had
  <2>1. x \in Nat /\ First + Len(outbuf) = x + CdcNumbers
    BY <1>1, <1>2 DEF CdcTypeOK, First
  <2>2. cdcWritten = (First + Len(outbuf)) % CdcNumbers
    BY <1>1 DEF Numbered
  <2> HIDE DEF x
  <2>3. (x + CdcNumbers) % CdcNumbers = x % CdcNumbers
    BY <1>2, <2>1, ModPeriod
  <2> QED
    BY <2>1, <2>2, <2>3 DEF x
<1> QED
  BY <1>1, <1>3, <1>4 DEF CdcStream, CdcTypeOK, First, Had

LEMMA CdcInitInv == CdcInit => CdcInv
<1> SUFFICES ASSUME CdcInit PROVE CdcInv
  OBVIOUS
<1>1. CdcNumbers \in Nat \ {0} /\ CdcSize \in Nat
  BY CdcAssumption DEF CdcAssumption
<1>2. outbuf = <<>> /\ Len(outbuf) = 0 /\ outbuf \in Seq(Nat) /\ cdcUsb = NoPacket
  BY DEF CdcInit
<1>5. CdcTypeOK /\ CdcQueued
  <2>1. cdcUsb \in [len : Nat, taken : BOOLEAN] /\ cdcUsb.len = 0
    BY <1>2, PacketFacts DEF Packets
  <2>2. out_queued \in BOOLEAN /\ CdcQueued
    BY <1>2 DEF CdcInit, CdcQueued
  <2> QED
    BY <1>1, <1>2, <2>1, <2>2 DEF CdcInit, CdcTypeOK
<1>6. First = CdcNumbers
  BY <1>1, <1>2 DEF CdcInit, First, Had, NoPacket
<1>3. (0 + CdcNumbers) % CdcNumbers = 0
  BY <1>1, ModPeriod, ModFacts
<1>4. cdcWritten = (First + Len(outbuf)) % CdcNumbers
  BY <1>1, <1>2, <1>3, <1>6 DEF CdcInit
<1> QED
  BY <1>2, <1>4, <1>5 DEF CdcInv, Numbered

\* The label queue sends nothing that has been sent.
LEMMA CdcQueueStep ==
    ASSUME NEW buf \in Seq(Nat), Len(buf) <= CdcSize,
           NEW queued \in BOOLEAN, NEW usb \in [len : Nat, taken : BOOLEAN],
           usb.len <= Len(buf), ~queued => usb = NoPacket,
           CdcQueue(buf, queued, usb), cdcExpected' = cdcExpected,
           cdcExpected \in Nat
    PROVE  /\ CdcTypeOK' /\ CdcQueued' /\ outbuf' = buf
           /\ Had' = IF usb.taken THEN usb.len ELSE 0
<1>1. Len(buf) \in Nat /\ (buf # <<>> => Len(buf) > 0)
  OBVIOUS
<1>2. CASE buf # <<>> /\ ~queued
  <2>1. /\ cdcUsb' = [NoPacket EXCEPT !.len = Len(buf)]
        /\ out_queued' = TRUE /\ outbuf' = buf /\ usb = NoPacket
    BY <1>1, <1>2 DEF CdcQueue
  <2>2. /\ cdcUsb' \in Packets /\ cdcUsb'.len = Len(buf) /\ cdcUsb'.taken = FALSE
        /\ usb.taken = FALSE
    BY <1>1, <2>1, PacketFacts
  <2> QED
    BY <1>1, <2>1, <2>2 DEF CdcTypeOK, CdcQueued, Had, Packets
<1>3. CASE queued
  BY <1>3 DEF CdcQueue, CdcTypeOK, CdcQueued, Had
<1>4. CASE buf = <<>> /\ ~queued
  BY <1>4 DEF CdcQueue, CdcTypeOK, CdcQueued, Had
<1> QED
  BY <1>2, <1>3, <1>4

LEMMA CdcWriteStep ==
    ASSUME CdcInv, NEW len \in Nat, CdcWrite(len)
    PROVE  CdcInv'
<1>1. CdcTypeOK /\ CdcQueued /\ Numbered(CdcNumbers, First, outbuf, cdcWritten)
  BY DEF CdcInv
<1>2. /\ CdcNumbers \in Nat \ {0} /\ CdcSize \in Nat /\ Len(outbuf) \in Nat
      /\ Had \in 0..Len(outbuf) /\ First \in Nat
  BY <1>1, CdcFirst
<1> DEFINE n == CdcMin(len, CdcSize - Len(outbuf))
           more == CdcBytes(cdcWritten, n)
<1>3. n \in Nat /\ n <= CdcSize - Len(outbuf)
  BY <1>1, <1>2 DEF CdcTypeOK, CdcMin
<1>4. cdcWritten \in Nat /\ cdcWritten = (First + Len(outbuf)) % CdcNumbers
  BY <1>1, <1>2 DEF Numbered
<1>5. Numbered(CdcNumbers, cdcWritten, more, (cdcWritten + n) % CdcNumbers)
  <2>1. \A i \in 1..n : (cdcWritten + i - 1) % CdcNumbers \in Nat
                        /\ cdcWritten + i - 1 = cdcWritten + (i - 1)
    BY <1>2, <1>3, <1>4
  <2> HIDE DEF n
  <2>2. more \in Seq(Nat) /\ Len(more) = n
    BY <1>3, <2>1 DEF CdcBytes
  <2>3. \A i \in 1..n : more[i] = (cdcWritten + (i - 1)) % CdcNumbers
    BY <2>1 DEF CdcBytes
  <2> QED
    BY <2>2, <2>3 DEF Numbered
<1>6. /\ CdcQueue(outbuf \o more, out_queued, cdcUsb)
      /\ cdcWritten' = (cdcWritten + n) % CdcNumbers
      /\ UNCHANGED cdcExpected
  BY DEF CdcWrite
<1>7. Len(more) = n /\ more \in Seq(Nat)
  BY <1>3, <1>5 DEF CdcBytes, Numbered
<1> HIDE DEF n, more
<1>8. Numbered(CdcNumbers, First, outbuf \o more, cdcWritten')
  BY <1>1, <1>2, <1>5, <1>6, NumberedAppend
<1>9. /\ outbuf \o more \in Seq(Nat) /\ Len(outbuf \o more) = Len(outbuf) + n
  <2>1. outbuf \in Seq(Nat)
    BY <1>1 DEF CdcTypeOK
  <2> QED
    BY <1>7, <2>1
<1>10. /\ CdcTypeOK' /\ CdcQueued' /\ outbuf' = outbuf \o more /\ Had' = Had
  <2>1. Len(outbuf \o more) <= CdcSize /\ cdcUsb.len <= Len(outbuf \o more)
    BY <1>1, <1>2, <1>3, <1>9 DEF CdcTypeOK
  <2>2. /\ cdcUsb \in [len : Nat, taken : BOOLEAN] /\ out_queued \in BOOLEAN
        /\ ~out_queued => cdcUsb = NoPacket
        /\ cdcExpected' = cdcExpected /\ cdcExpected \in Nat
    BY <1>1, <1>6 DEF CdcTypeOK, CdcQueued
  <2>3. /\ CdcTypeOK' /\ CdcQueued' /\ outbuf' = outbuf \o more
        /\ Had' = IF cdcUsb.taken THEN cdcUsb.len ELSE 0
    BY <1>6, <1>9, <2>1, <2>2, CdcQueueStep
  <2> QED
    BY <2>3 DEF Had
<1> QED
  BY <1>6, <1>8, <1>10 DEF CdcInv, First

LEMMA CdcTxDoneStep ==
    ASSUME CdcInv, CdcTxDone
    PROVE  CdcInv'
<1>1. CdcTypeOK /\ Numbered(CdcNumbers, First, outbuf, cdcWritten)
  BY DEF CdcInv
<1>2. /\ CdcNumbers \in Nat \ {0} /\ CdcSize \in Nat /\ Len(outbuf) \in Nat
      /\ Had \in 0..Len(outbuf) /\ First \in Nat
  BY <1>1, CdcFirst
<1>3. /\ outbuf' = SubSeq(outbuf, Had + 1, Len(outbuf))
      /\ cdcUsb' = NoPacket /\ out_queued' = FALSE
      /\ cdcWritten' = cdcWritten /\ cdcExpected' = cdcExpected
  BY DEF CdcTxDone, SentOff, Had
<1>4. Numbered(CdcNumbers, First + Had, outbuf', cdcWritten)
  BY <1>1, <1>2, <1>3, NumberedDrop
<1>5. First' = First + Had
  BY <1>1, <1>2, <1>3 DEF First, Had, NoPacket, CdcTypeOK
<1>6. outbuf' \in Seq(Nat) /\ Len(outbuf') <= CdcSize
  BY <1>1, <1>2, <1>3 DEF CdcTypeOK
<1>7. CdcTypeOK' /\ CdcQueued'
  <2>1. cdcUsb' \in [len : Nat, taken : BOOLEAN] /\ cdcUsb'.len = 0
    BY <1>3, PacketFacts DEF Packets
  <2>2. Len(outbuf') \in Nat
    BY <1>6
  <2>3. out_queued' \in BOOLEAN /\ CdcQueued'
    BY <1>3 DEF CdcQueued
  <2> QED
    BY <1>1, <1>3, <1>6, <2>1, <2>2, <2>3 DEF CdcTypeOK
<1> QED
  BY <1>3, <1>4, <1>5, <1>7 DEF CdcInv

LEMMA CdcHostReadsStep ==
    ASSUME CdcInv, CdcHostReads
    PROVE  CdcInv'
<1>1. CdcTypeOK /\ CdcQueued /\ Numbered(CdcNumbers, First, outbuf, cdcWritten)
  BY DEF CdcInv
<1>2. /\ CdcNumbers \in Nat \ {0} /\ CdcSize \in Nat /\ CdcSize < CdcNumbers
      /\ Len(outbuf) \in Nat /\ First \in Nat /\ cdcUsb.len \in Nat
  BY <1>1, CdcFirst
<1> DEFINE len == cdcUsb.len
<1>3. /\ len > 0 /\ len <= Len(outbuf) /\ Had = 0 /\ Had' = len
      /\ cdcExpected' = (cdcExpected + len) % CdcNumbers
      /\ cdcUsb' = [len |-> len, taken |-> TRUE]
      /\ UNCHANGED <<outbuf, out_queued, cdcWritten>>
  BY <1>1, <1>2 DEF CdcHostReads, CdcTypeOK, Had
<1>4. len <= CdcSize /\ CdcNumbers - len \in Nat
  BY <1>1, <1>2, <1>3 DEF CdcTypeOK
<1>5. cdcExpected \in Nat /\ cdcExpected' \in Nat
  BY <1>1, <1>2, <1>3 DEF CdcTypeOK
<1> HIDE DEF len
<1>6. First' % CdcNumbers = First % CdcNumbers
  <2>1. First' = ((cdcExpected + len) % CdcNumbers) + (CdcNumbers - len)
    BY <1>2, <1>3, <1>4, <1>5 DEF First
  <2>2. First = (cdcExpected + len) + (CdcNumbers - len)
    BY <1>2, <1>3, <1>4, <1>5 DEF First, len
  <2>3. cdcExpected + len \in Nat
    BY <1>2, <1>5 DEF len
  <2> QED
    BY <1>2, <1>4, <2>1, <2>2, <2>3, ModAdd
<1>7. First' \in Nat
  BY <1>2, <1>3, <1>4, <1>5 DEF First
<1>8. Numbered(CdcNumbers, First', outbuf, cdcWritten)
  BY <1>1, <1>2, <1>6, <1>7, NumberedShift
<1>9. CdcTypeOK' /\ CdcQueued'
  BY <1>1, <1>2, <1>3, <1>5 DEF CdcTypeOK, CdcQueued, NoPacket, len
<1> QED
  BY <1>3, <1>8, <1>9 DEF CdcInv

LEMMA CdcResetStep ==
    ASSUME CdcInv, CdcReset
    PROVE  CdcInv'
<1>1. CdcTypeOK /\ Numbered(CdcNumbers, First, outbuf, cdcWritten)
  BY DEF CdcInv
<1>2. /\ CdcNumbers \in Nat \ {0} /\ Len(outbuf) \in Nat /\ First \in Nat
      /\ cdcExpected \in Nat
  BY <1>1, CdcFirst DEF CdcTypeOK
<1>3. /\ out_queued' = FALSE /\ cdcUsb' = NoPacket
      /\ UNCHANGED <<outbuf, cdcWritten>>
      /\ cdcExpected' = IF cdcUsb.taken THEN First % CdcNumbers ELSE cdcExpected
  BY DEF CdcReset, First, Had
<1>4. cdcExpected' \in Nat
  BY <1>2, <1>3
<1>5. First' = cdcExpected' + CdcNumbers
  BY <1>2, <1>3, <1>4 DEF First, Had, NoPacket
<1>6. First' \in Nat /\ First' % CdcNumbers = First % CdcNumbers
  <2>1. CASE cdcUsb.taken
    <3>1. ((First % CdcNumbers) + CdcNumbers) % CdcNumbers = (First + CdcNumbers) % CdcNumbers
      BY <1>2, ModAdd
    <3>2. (First + CdcNumbers) % CdcNumbers = First % CdcNumbers
      BY <1>2, ModPeriod
    <3> QED
      BY <1>2, <1>3, <1>4, <1>5, <2>1, <3>1, <3>2
  <2>2. CASE ~cdcUsb.taken
    BY <1>2, <1>3, <1>5, <2>2 DEF First, Had
  <2> QED
    BY <2>1, <2>2
<1>7. Numbered(CdcNumbers, First', outbuf, cdcWritten)
  BY <1>1, <1>2, <1>6, NumberedShift
<1>8. CdcTypeOK' /\ CdcQueued'
  <2>1. cdcUsb' \in [len : Nat, taken : BOOLEAN] /\ cdcUsb'.len = 0
    BY <1>3, PacketFacts DEF Packets
  <2>2. out_queued' \in BOOLEAN /\ CdcQueued'
    BY <1>3 DEF CdcQueued
  <2> QED
    BY <1>1, <1>2, <1>3, <1>5, <2>1, <2>2 DEF CdcTypeOK
<1> QED
  BY <1>3, <1>7, <1>8 DEF CdcInv

LEMMA CdcStepInv == CdcInv /\ [CdcNext]_cdcVars => CdcInv'
<1> SUFFICES ASSUME CdcInv, [CdcNext]_cdcVars PROVE CdcInv'
  OBVIOUS
<1>1. ASSUME NEW len \in 1..CdcSize + 1, CdcWrite(len) PROVE CdcInv'
  <2>1. len \in Nat
    BY CdcAssumption DEF CdcAssumption
  <2> QED
    BY <1>1, <2>1, CdcWriteStep
<1>2. CASE CdcTxDone
  BY <1>2, CdcTxDoneStep
<1>3. CASE CdcSentReturns
  <2>1. CdcTypeOK /\ CdcQueued /\ Numbered(CdcNumbers, First, outbuf, cdcWritten)
    BY DEF CdcInv
  <2>2. CdcTypeOK' /\ CdcQueued' /\ outbuf' = outbuf /\ Had' = Had
    BY <1>3, <2>1, CdcQueueStep
    DEF CdcTypeOK, CdcQueued, Had, CdcSentReturns
  <2> QED
    BY <1>3, <2>1, <2>2 DEF CdcInv, First, CdcSentReturns, CdcQueue
<1>4. CASE CdcHostReads
  BY <1>4, CdcHostReadsStep
<1>5. CASE CdcReset
  BY <1>5, CdcResetStep
<1>6. CASE UNCHANGED cdcVars
  BY <1>6 DEF cdcVars, CdcInv, CdcTypeOK, CdcQueued, First, Had
<1> QED
  BY <1>1, <1>2, <1>3, <1>4, <1>5, <1>6 DEF CdcNext

\* The host gets every byte cdc_write accepted, once and in order, whatever the
\* size of the buffer (cdc_tx_done); only a packet it has when the bus is reset
\* comes twice (cdc_init keeps out_pos).
THEOREM BytesStayInOrder == CdcSpec => []CdcStream
  BY CdcInitInv, CdcStepInv, CdcInvImplies, PTL DEF CdcSpec

-----------------------------------------------------------------------------
(* stdout                                                                  *)

\* The ring buf from tail up to head holds the characters from front on, and
\* next comes after them.
RingHolds(front, buf, head, tail, next) ==
    /\ \A i \in 1..Buffered(head, tail) :
          buf[(tail + i - 1) % StdioSize] = (front + (i - 1)) % StdioNumbers
    /\ next = (front + Buffered(head, tail)) % StdioNumbers

Leading == due + Len(wr_buf) + lost * StdioSize

StdioTypeOK ==
    /\ stdout_buf \in [0..StdioSize - 1 -> Nat]
    /\ outbuf_head \in 0..StdioSize - 1 /\ outbuf_tail \in 0..StdioSize - 1
    /\ wr_buf \in Seq(Nat)
    /\ printed \in Nat /\ due \in Nat /\ lost \in Nat

\* The piece the UART sends, and the ring behind it.
PieceHolds ==
    \A i \in 1..Len(wr_buf) : wr_buf[i] = (due + (i - 1)) % StdioNumbers

StdioInv ==
    /\ StdioTypeOK /\ PieceHolds
    /\ RingHolds(Leading, stdout_buf, outbuf_head, outbuf_tail, printed)

LEMMA StdioConstants ==
    /\ StdioSize \in Nat \ {0, 1} /\ StdioChunk \in Nat \ {0}
    /\ StdioNumbers \in Nat \ {0}
<1>1. /\ StdioSize \in Nat \ {0, 1} /\ StdioChunk \in Nat \ {0}
      /\ StdioLosses \in Nat /\ StdioNumbers \in Nat
      /\ StdioNumbers > StdioSize * (StdioLosses + 1) + StdioChunk
  BY StdioAssumption DEF StdioAssumption
<1>2. StdioSize * (StdioLosses + 1) \in Nat
  BY <1>1
<1> QED
  BY <1>1, <1>2

\* Indices of the ring and numbers of characters.
LEMMA RingMod ==
    ASSUME NEW w \in Nat, w < 2 * StdioSize
    PROVE  /\ w % StdioSize \in 0..StdioSize - 1
           /\ w % StdioSize = IF w < StdioSize THEN w ELSE w - StdioSize
<1>1. StdioSize \in Nat \ {0}
  BY StdioConstants
<1>2. w % StdioSize = IF w < StdioSize THEN w ELSE w - StdioSize
  BY <1>1, ModOnce
<1>3. (IF w < StdioSize THEN w ELSE w - StdioSize) \in 0..StdioSize - 1
  BY <1>1
<1> QED
  BY <1>2, <1>3

LEMMA NumberMod ==
    ASSUME NEW x \in Nat, NEW y \in Nat, NEW z, z = x % StdioNumbers
    PROVE  (z + y) % StdioNumbers = (x + y) % StdioNumbers
<1>1. StdioNumbers \in Nat \ {0}
  BY StdioConstants
<1> QED
  BY <1>1, ModAdd

\* The ring without div and mod.
LEMMA BufferedFacts ==
    ASSUME NEW head \in 0..StdioSize - 1, NEW tail \in 0..StdioSize - 1
    PROVE  /\ Buffered(head, tail) \in 0..StdioSize - 1
           /\ Buffered(head, tail) = IF head >= tail THEN head - tail
                                     ELSE head + StdioSize - tail
<1>1. StdioSize \in Nat \ {0}
  BY StdioConstants
<1> DEFINE w == head + StdioSize - tail
<1>2. w \in Nat /\ w < 2 * StdioSize /\ Buffered(head, tail) = w % StdioSize
  BY <1>1 DEF Buffered
<1> HIDE DEF w
<1>3. w % StdioSize = IF w < StdioSize THEN w ELSE w - StdioSize
  BY <1>2, RingMod
<1> QED
  BY <1>1, <1>2, <1>3 DEF w

LEMMA PlaceFacts ==
    ASSUME NEW tail \in 0..StdioSize - 1, NEW i \in 1..StdioSize
    PROVE  /\ (tail + i - 1) % StdioSize \in 0..StdioSize - 1
           /\ (tail + i - 1) % StdioSize = IF tail + i - 1 < StdioSize THEN tail + i - 1
                                           ELSE tail + i - 1 - StdioSize
<1>1. StdioSize \in Nat \ {0}
  BY StdioConstants
<1> DEFINE w == tail + i - 1
<1>2. w \in Nat /\ w < 2 * StdioSize
  BY <1>1
<1> HIDE DEF w
<1>3. /\ w % StdioSize \in 0..StdioSize - 1
      /\ w % StdioSize = IF w < StdioSize THEN w ELSE w - StdioSize
  BY <1>2, RingMod
<1> QED
  BY <1>1, <1>2, <1>3 DEF w

LEMMA StdioInvImplies == StdioInv => StdioStream
<1> SUFFICES ASSUME StdioInv PROVE StdioStream
  OBVIOUS
<1> DEFINE n == Buffered(outbuf_head, outbuf_tail)
<1>1. /\ StdioTypeOK /\ PieceHolds
      /\ RingHolds(Leading, stdout_buf, outbuf_head, outbuf_tail, printed)
  BY DEF StdioInv
<1>2. StdioSize \in Nat \ {0} /\ StdioNumbers \in Nat \ {0}
  BY StdioConstants
<1>3. n \in 0..StdioSize - 1
  BY <1>1, BufferedFacts DEF StdioTypeOK
<1>4. wr_buf = Numbers(due, Len(wr_buf))
  <2>1. wr_buf = [i \in 1..Len(wr_buf) |-> wr_buf[i]] /\ Len(wr_buf) \in Nat
    BY <1>1 DEF StdioTypeOK
  <2>2. \A i \in 1..Len(wr_buf) : wr_buf[i] = (due + i - 1) % StdioNumbers
    <3>1. \A i \in 1..Len(wr_buf) : due + i - 1 = due + (i - 1)
      BY <1>1, <2>1 DEF StdioTypeOK
    <3> QED
      BY <1>1, <3>1 DEF PieceHolds
  <2>3. wr_buf = [i \in 1..Len(wr_buf) |-> (due + i - 1) % StdioNumbers]
    BY <2>1, <2>2
  <2> QED
    BY <2>3 DEF Numbers
<1>5. Leading \in Nat
  <2>1. Len(wr_buf) \in Nat /\ lost * StdioSize \in Nat
    BY <1>1, <1>2 DEF StdioTypeOK
  <2> QED
    BY <1>1, <2>1 DEF Leading, StdioTypeOK
<1>6. /\ \A i \in 1..n : stdout_buf[(outbuf_tail + i - 1) % StdioSize]
                           = (Leading + i - 1) % StdioNumbers
      /\ (Leading + n) % StdioNumbers = printed
  <2>1. \A i \in 1..n : Leading + i - 1 = Leading + (i - 1)
    BY <1>3, <1>5
  <2> QED
    BY <1>1, <2>1 DEF RingHolds
<1>7. Ring = Numbers(Leading, n)
  BY <1>6 DEF Ring, Numbers
<1>8. Len(Ring) = n
  <2>1. \A i \in 1..n : stdout_buf[(outbuf_tail + i - 1) % StdioSize] \in Nat
    <3> SUFFICES ASSUME NEW i \in 1..n
                 PROVE  stdout_buf[(outbuf_tail + i - 1) % StdioSize] \in Nat
      OBVIOUS
    <3>1. i \in 1..StdioSize
      BY <1>2, <1>3
    <3>2. (outbuf_tail + i - 1) % StdioSize \in 0..StdioSize - 1
      BY <1>1, <3>1, PlaceFacts DEF StdioTypeOK
    <3> QED
      BY <1>1, <3>2 DEF StdioTypeOK
  <2> HIDE DEF n
  <2>2. Ring = [i \in 1..n |-> stdout_buf[(outbuf_tail + i - 1) % StdioSize]]
    BY DEF Ring, n
  <2> QED
    BY <1>3, <2>1, <2>2
<1> HIDE DEF n
<1> QED
  BY <1>4, <1>6, <1>7, <1>8 DEF StdioStream, Leading

LEMMA StdioInitInv == StdioInit => StdioInv
<1> SUFFICES ASSUME StdioInit PROVE StdioInv
  OBVIOUS
<1>1. StdioSize \in Nat \ {0} /\ StdioNumbers \in Nat \ {0}
  BY StdioConstants
<1>2. StdioTypeOK /\ PieceHolds /\ Len(wr_buf) = 0
  BY <1>1 DEF StdioInit, StdioTypeOK, PieceHolds
<1>3. Leading = 0 /\ printed = 0
  BY <1>1, <1>2 DEF StdioInit, Leading
<1>4. Buffered(outbuf_head, outbuf_tail) = 0
  BY <1>2, BufferedFacts DEF StdioInit, StdioTypeOK
<1>5. (0 + 0) % StdioNumbers = 0
  BY <1>1, ModFacts
<1> QED
  BY <1>2, <1>3, <1>4, <1>5 DEF StdioInv, RingHolds

\* Only the remainder of the first number matters.
LEMMA RingShift ==
    ASSUME NEW a \in Nat, NEW b \in Nat, a % StdioNumbers = b % StdioNumbers,
           NEW buf, NEW head \in 0..StdioSize - 1, NEW tail \in 0..StdioSize - 1,
           NEW next, RingHolds(a, buf, head, tail, next)
    PROVE  RingHolds(b, buf, head, tail, next)
<1>1. StdioNumbers \in Nat \ {0}
  BY StdioConstants
<1>2. ASSUME NEW x \in Nat PROVE (a + x) % StdioNumbers = (b + x) % StdioNumbers
  <2>1. /\ ((a % StdioNumbers) + x) % StdioNumbers = (a + x) % StdioNumbers
        /\ ((b % StdioNumbers) + x) % StdioNumbers = (b + x) % StdioNumbers
    BY <1>1, ModAdd
  <2> QED
    BY <2>1
<1>3. Buffered(head, tail) \in Nat
  BY StdioConstants, BufferedFacts
<1>4. ASSUME NEW i \in 1..Buffered(head, tail) PROVE i - 1 \in Nat
  BY <1>3
<1> QED
  BY <1>2, <1>3, <1>4 DEF RingHolds

\* A character more; the ring that runs full is empty, and all of it lost.
LEMMA PutStep ==
    ASSUME NEW front \in Nat, NEW buf \in [0..StdioSize - 1 -> Nat],
           NEW head \in 0..StdioSize - 1, NEW tail \in 0..StdioSize - 1,
           NEW next \in Nat, RingHolds(front, buf, head, tail, next),
           NEW to, to = (head + 1) % StdioSize
    PROVE  /\ to \in 0..StdioSize - 1
           /\ RingHolds(IF to = tail THEN front + StdioSize ELSE front,
                        [buf EXCEPT ![head] = next], to, tail,
                        (next + 1) % StdioNumbers)
<1> DEFINE n == Buffered(head, tail)
           put == [buf EXCEPT ![head] = next]
<1>1. StdioSize \in Nat \ {0, 1} /\ StdioNumbers \in Nat \ {0}
  BY StdioConstants
<1>2. to \in 0..StdioSize - 1 /\ to = IF head + 1 < StdioSize THEN head + 1 ELSE 0
  <2> DEFINE w == head + 1
  <2>1. w \in Nat /\ w < 2 * StdioSize /\ to = w % StdioSize
    BY <1>1
  <2> HIDE DEF w
  <2>2. to = IF w < StdioSize THEN w ELSE w - StdioSize
    BY <2>1, RingMod
  <2> QED
    BY <1>1, <2>2 DEF w
<1>3. /\ n \in 0..StdioSize - 1
      /\ n = IF head >= tail THEN head - tail ELSE head + StdioSize - tail
  BY BufferedFacts
<1>4. Buffered(to, tail) = IF to >= tail THEN to - tail ELSE to + StdioSize - tail
  BY <1>2, BufferedFacts
<1>5. /\ \A i \in 1..n : buf[(tail + i - 1) % StdioSize] = (front + (i - 1)) % StdioNumbers
      /\ next = (front + n) % StdioNumbers
  BY DEF RingHolds
<1> HIDE DEF n
<1>6. (next + 1) % StdioNumbers = (front + (n + 1)) % StdioNumbers
  <2> DEFINE x == front + n
  <2>1. x \in Nat /\ x + 1 = front + (n + 1) /\ next = x % StdioNumbers
    BY <1>3, <1>5
  <2> HIDE DEF x
  <2>2. (next + 1) % StdioNumbers = (x + 1) % StdioNumbers
    BY <2>1, NumberMod
  <2> QED
    BY <2>1, <2>2
<1>7. CASE to = tail
  <2>1. n = StdioSize - 1 /\ Buffered(to, tail) = 0
    BY <1>1, <1>2, <1>3, <1>4, <1>7
  <2>2. front + (n + 1) = front + StdioSize + 0
    BY <1>1, <2>1
  <2> QED
    BY <1>2, <1>6, <1>7, <2>1, <2>2 DEF RingHolds
<1>8. CASE to # tail
  <2>1. n + 1 = IF to >= tail THEN to - tail ELSE to + StdioSize - tail
    <3>1. CASE head + 1 < StdioSize
      <4>1. to = head + 1
        BY <1>2, <3>1
      <4>2. CASE head >= tail
        BY <1>3, <4>1, <4>2
      <4>3. CASE ~(head >= tail)
        <5>1. head < tail /\ n = head + StdioSize - tail
          BY <1>1, <1>3, <4>3
        <5>2. ~(to >= tail)
          BY <1>1, <1>8, <4>1, <5>1
        <5>3. n + 1 = to + StdioSize - tail
          <6>1. head + StdioSize - tail + 1 = head + 1 + StdioSize - tail
            BY <1>1
          <6> QED
            BY <4>1, <5>1, <6>1
        <5> QED
          BY <5>2, <5>3
      <4> QED
        BY <4>2, <4>3
    <3>2. CASE ~(head + 1 < StdioSize)
      BY <1>1, <1>2, <1>3, <1>8, <3>2
    <3> QED
      BY <3>1, <3>2
  <2>2. n + 1 \in 1..StdioSize - 1 /\ Buffered(to, tail) = n + 1
    BY <1>1, <1>2, <1>3, <1>4, <1>8, <2>1
  <2>3. ASSUME NEW i \in 1..n + 1
        PROVE  put[(tail + i - 1) % StdioSize] = (front + (i - 1)) % StdioNumbers
    <3> DEFINE p == (tail + i - 1) % StdioSize
    <3>1. i \in 1..StdioSize
      BY <1>1, <1>3, <2>2
    <3>2. /\ p \in 0..StdioSize - 1
          /\ p = IF tail + i - 1 < StdioSize THEN tail + i - 1
                 ELSE tail + i - 1 - StdioSize
      BY <3>1, PlaceFacts
    <3> HIDE DEF p
    <3>3. CASE i = n + 1
      <4>1. p = head
        BY <1>1, <1>3, <2>2, <3>2, <3>3
      <4>2. put[p] = next /\ i - 1 = n
        BY <1>3, <3>3, <4>1
      <4> QED
        BY <1>5, <4>2 DEF p
    <3>4. CASE i # n + 1
      <4>1. i \in 1..n /\ p # head
        BY <1>1, <1>3, <2>2, <3>2, <3>4
      <4>2. put[p] = buf[p]
        BY <3>2, <4>1
      <4> QED
        BY <1>5, <4>1, <4>2 DEF p
    <3> QED
      BY <3>3, <3>4
  <2> QED
    BY <1>2, <1>6, <1>8, <2>2, <2>3 DEF RingHolds
<1> QED
  BY <1>2, <1>7, <1>8

\* A flush hands the first characters of the ring to the UART, if it has none.
LEMMA FlushStep ==
    ASSUME StdioTypeOK, PieceHolds, NEW buf \in [0..StdioSize - 1 -> Nat],
           NEW head \in 0..StdioSize - 1, NEW next, NEW skipped \in Nat,
           RingHolds(due + Len(wr_buf) + skipped * StdioSize, buf, head,
                     outbuf_tail, next),
           FlushFrom(buf, head)
           \/ (outbuf_tail' = outbuf_tail /\ wr_buf' = wr_buf),
           lost' = IF wr_buf' # wr_buf THEN 0 ELSE skipped,
           due' = IF wr_buf' # wr_buf
                  THEN (due + skipped * StdioSize) % StdioNumbers ELSE due
    PROVE  /\ outbuf_tail' \in 0..StdioSize - 1 /\ wr_buf' \in Seq(Nat)
           /\ lost' \in Nat /\ due' \in Nat
           /\ PieceHolds' /\ RingHolds(Leading', buf, head, outbuf_tail', next)
<1> DEFINE front == due + Len(wr_buf) + skipped * StdioSize
           n == Buffered(head, outbuf_tail)
           k == StdioTaken(Piece(head, outbuf_tail))
<1>1. /\ StdioSize \in Nat \ {0} /\ StdioNumbers \in Nat \ {0}
      /\ StdioChunk \in Nat \ {0}
  BY StdioConstants
<1>2. /\ outbuf_tail \in 0..StdioSize - 1 /\ wr_buf \in Seq(Nat)
      /\ due \in Nat /\ Len(wr_buf) \in Nat
  BY DEF StdioTypeOK
<1>3. skipped * StdioSize \in Nat /\ front \in Nat
  <2>1. skipped * StdioSize \in Nat
    BY <1>1
  <2> QED
    BY <1>2, <2>1
<1>4. CASE outbuf_tail' = outbuf_tail /\ wr_buf' = wr_buf
  <2>1. lost' = skipped /\ due' = due
    BY <1>4
  <2> QED
    BY <1>2, <1>4, <2>1 DEF PieceHolds, Leading
<1>5. CASE FlushFrom(buf, head) /\ ~(outbuf_tail' = outbuf_tail /\ wr_buf' = wr_buf)
  <2>1. /\ outbuf_tail' = (outbuf_tail + k) % StdioSize
        /\ wr_buf' = IF k = 0 THEN wr_buf
                     ELSE [i \in 1..k |-> buf[outbuf_tail + i - 1]]
    BY <1>5 DEF FlushFrom
  <2>2. /\ n \in 0..StdioSize - 1
        /\ n = IF head >= outbuf_tail THEN head - outbuf_tail
               ELSE head + StdioSize - outbuf_tail
    BY <1>2, BufferedFacts
  <2>3. /\ Piece(head, outbuf_tail) \in Nat /\ Piece(head, outbuf_tail) <= n
        /\ outbuf_tail + Piece(head, outbuf_tail) <= StdioSize
    BY <1>1, <1>2, <2>2 DEF Piece
  <2>4. /\ k \in Nat /\ k <= Piece(head, outbuf_tail)
        /\ wr_buf # <<>> => k = 0
    BY <1>1, <2>3 DEF StdioTaken, StdioMin
  <2> HIDE DEF n, k
  <2>5. k # 0
    <3> SUFFICES ASSUME k = 0 PROVE FALSE
      OBVIOUS
    <3>1. outbuf_tail + k = outbuf_tail /\ outbuf_tail \in Nat /\ outbuf_tail < StdioSize
      BY <1>1, <1>2
    <3>2. outbuf_tail % StdioSize = outbuf_tail
      BY <1>1, <3>1, ModFacts
    <3> QED
      BY <1>5, <2>1, <3>1, <3>2
  <2>6. /\ wr_buf = <<>> /\ Len(wr_buf) = 0 /\ k \in 1..n
        /\ outbuf_tail + k <= StdioSize
    <3>1. wr_buf = <<>> /\ Len(wr_buf) = 0
      BY <2>4, <2>5
    <3>2. k <= n /\ outbuf_tail + k <= StdioSize
      <4> DEFINE m == Piece(head, outbuf_tail)
      <4>1. m \in Nat /\ m <= n /\ outbuf_tail + m <= StdioSize /\ k <= m
        BY <2>3, <2>4
      <4> HIDE DEF m
      <4>2. k <= n
        BY <2>2, <2>4, <4>1
      <4>3. outbuf_tail + k <= StdioSize
        BY <1>1, <1>2, <2>4, <4>1
      <4> QED
        BY <4>2, <4>3
    <3>3. k \in 1..n
      BY <2>2, <2>4, <2>5, <3>2
    <3> QED
      BY <3>1, <3>2, <3>3
  <2>7. /\ outbuf_tail' \in 0..StdioSize - 1
        /\ outbuf_tail' = IF outbuf_tail + k < StdioSize THEN outbuf_tail + k ELSE 0
    <3> DEFINE w == outbuf_tail + k
    <3>1. /\ w \in Nat /\ w < 2 * StdioSize /\ w <= StdioSize
          /\ outbuf_tail' = w % StdioSize
      BY <1>1, <1>2, <2>1, <2>4, <2>6
    <3> HIDE DEF w
    <3>2. outbuf_tail' = IF w < StdioSize THEN w ELSE w - StdioSize
      BY <3>1, RingMod
    <3>3. outbuf_tail' = IF w < StdioSize THEN w ELSE 0
      BY <1>1, <3>1, <3>2
    <3> QED
      BY <1>1, <3>1, <3>3 DEF w
  <2>8. wr_buf' = [i \in 1..k |-> buf[outbuf_tail + i - 1]]
    BY <2>1, <2>5
  <2>9. \A i \in 1..k : outbuf_tail + i - 1 \in 0..StdioSize - 1
    BY <1>1, <1>2, <2>6
  <2>10. wr_buf' \in Seq(Nat) /\ Len(wr_buf') = k
    BY <2>4, <2>8, <2>9
  <2>11. wr_buf' # wr_buf
    BY <2>4, <2>5, <2>6, <2>10
  <2>12. /\ lost' = 0 /\ due' = (due + skipped * StdioSize) % StdioNumbers
         /\ front = due + skipped * StdioSize
    BY <1>2, <1>3, <2>6, <2>11
  <2>13. due' \in Nat /\ due' = front % StdioNumbers
    BY <1>1, <1>3, <2>12
  <2> HIDE DEF front
  <2>14. ASSUME NEW x \in Nat
         PROVE  (due' + x) % StdioNumbers = (front + x) % StdioNumbers
    BY <1>3, <2>13, NumberMod
  <2>15. \A i \in 1..n : buf[(outbuf_tail + i - 1) % StdioSize]
                           = (front + (i - 1)) % StdioNumbers
    BY DEF RingHolds, front, n
  <2>16. PieceHolds'
    <3> SUFFICES ASSUME NEW i \in 1..k
                 PROVE  wr_buf'[i] = (due' + (i - 1)) % StdioNumbers
      BY <2>10 DEF PieceHolds
    <3>1. i \in 1..StdioSize /\ i \in 1..n /\ i - 1 \in Nat
      BY <1>1, <2>2, <2>6
    <3>2. (outbuf_tail + i - 1) % StdioSize = outbuf_tail + i - 1
      <4>1. outbuf_tail + i - 1 < StdioSize
        BY <1>1, <1>2, <2>9
      <4>2. (outbuf_tail + i - 1) % StdioSize
              = IF outbuf_tail + i - 1 < StdioSize THEN outbuf_tail + i - 1
                ELSE outbuf_tail + i - 1 - StdioSize
        BY <1>2, <3>1, PlaceFacts
      <4> QED
        BY <4>1, <4>2
    <3> QED
      BY <2>8, <2>14, <2>15, <3>1, <3>2
  <2>17. /\ Buffered(head, outbuf_tail') = n - k
    <3>1. Buffered(head, outbuf_tail') = IF head >= outbuf_tail' THEN head - outbuf_tail'
                                         ELSE head + StdioSize - outbuf_tail'
      BY <2>7, BufferedFacts
    <3>2. k <= IF head >= outbuf_tail THEN head - outbuf_tail ELSE StdioSize - outbuf_tail
      BY <2>4 DEF Piece
    <3>3. CASE head >= outbuf_tail
      <4>1. k <= head - outbuf_tail /\ outbuf_tail' = outbuf_tail + k
        BY <1>1, <1>2, <2>6, <2>7, <3>2, <3>3
      <4> QED
        BY <1>1, <1>2, <2>2, <2>6, <3>1, <3>3, <4>1
    <3>4. CASE ~(head >= outbuf_tail) /\ outbuf_tail + k < StdioSize
      BY <1>1, <1>2, <2>2, <2>6, <2>7, <3>1, <3>4
    <3>5. CASE ~(head >= outbuf_tail) /\ ~(outbuf_tail + k < StdioSize)
      <4>1. outbuf_tail + k = StdioSize /\ outbuf_tail' = 0
        BY <1>1, <1>2, <2>6, <2>7, <3>5
      <4> QED
        BY <1>1, <1>2, <2>2, <2>6, <3>1, <3>5, <4>1
    <3> QED
      BY <3>3, <3>4, <3>5
  <2>18. RingHolds(front + k, buf, head, outbuf_tail', next)
    <3>1. ASSUME NEW i \in 1..n - k
          PROVE  buf[(outbuf_tail' + i - 1) % StdioSize]
                   = (front + k + (i - 1)) % StdioNumbers
      <4>1. /\ k + i \in 1..n /\ i \in 1..StdioSize /\ k + i \in 1..StdioSize
            /\ front + ((k + i) - 1) = front + k + (i - 1)
        BY <1>1, <1>3, <2>2, <2>6
      <4>2. (outbuf_tail' + i - 1) % StdioSize
              = IF outbuf_tail' + i - 1 < StdioSize THEN outbuf_tail' + i - 1
                ELSE outbuf_tail' + i - 1 - StdioSize
        BY <2>7, <4>1, PlaceFacts
      <4>3. (outbuf_tail + (k + i) - 1) % StdioSize
              = IF outbuf_tail + (k + i) - 1 < StdioSize THEN outbuf_tail + (k + i) - 1
                ELSE outbuf_tail + (k + i) - 1 - StdioSize
        BY <1>2, <4>1, PlaceFacts
      <4>4. (outbuf_tail' + i - 1) % StdioSize = (outbuf_tail + (k + i) - 1) % StdioSize
        <5>1. CASE outbuf_tail + k < StdioSize
          BY <1>1, <1>2, <2>6, <2>7, <4>1, <4>2, <4>3, <5>1
        <5>2. CASE ~(outbuf_tail + k < StdioSize)
          <6>1. outbuf_tail + k = StdioSize /\ outbuf_tail' = 0
            BY <1>1, <1>2, <2>6, <2>7, <5>2
          <6> QED
            BY <1>1, <1>2, <2>2, <2>6, <4>1, <4>2, <4>3, <6>1
        <5> QED
          BY <5>1, <5>2
      <4>5. buf[(outbuf_tail + (k + i) - 1) % StdioSize]
              = (front + ((k + i) - 1)) % StdioNumbers
        BY <2>15, <4>1
      <4> QED
        BY <4>1, <4>4, <4>5
    <3>2. next = (front + n) % StdioNumbers
      BY DEF RingHolds, front, n
    <3>3. front + k + (n - k) = front + n
      BY <1>3, <2>2, <2>4
    <3> QED
      BY <2>17, <3>1, <3>2, <3>3 DEF RingHolds
  <2>19. RingHolds(Leading', buf, head, outbuf_tail', next)
    <3>1. Leading' = due' + k
      <4>1. lost' * StdioSize = 0
        BY <1>1, <2>12
      <4>2. Leading' = due' + Len(wr_buf') + lost' * StdioSize
        BY DEF Leading
      <4> QED
        BY <2>4, <2>10, <2>13, <4>1, <4>2
    <3>2. (due' + k) % StdioNumbers = (front + k) % StdioNumbers
      BY <2>4, <2>14
    <3>3. due' + k \in Nat /\ front + k \in Nat
      BY <1>3, <2>4, <2>13
    <3> QED
      BY <2>7, <2>18, <3>1, <3>2, <3>3, RingShift
  <2> QED
    BY <2>7, <2>10, <2>12, <2>13, <2>16, <2>19
<1> QED
  BY <1>4, <1>5

LEMMA StdioFacts ==
    ASSUME StdioTypeOK
    PROVE  /\ StdioSize \in Nat \ {0} /\ StdioNumbers \in Nat \ {0}
           /\ lost * StdioSize \in Nat /\ Len(wr_buf) \in Nat /\ Leading \in Nat
<1>1. /\ StdioSize \in Nat \ {0} /\ StdioNumbers \in Nat \ {0}
      /\ lost \in Nat /\ due \in Nat /\ Len(wr_buf) \in Nat
  BY StdioConstants DEF StdioTypeOK
<1>2. lost * StdioSize \in Nat
  BY <1>1
<1> QED
  BY <1>1, <1>2 DEF Leading

LEMMA FputcStep ==
    ASSUME StdioInv, NEW nl \in BOOLEAN, fputc(nl)
    PROVE  StdioInv'
<1> DEFINE to == (outbuf_head + 1) % StdioSize
           skipped == lost + (IF to = outbuf_tail THEN 1 ELSE 0)
<1>1. /\ StdioTypeOK /\ PieceHolds
      /\ RingHolds(Leading, stdout_buf, outbuf_head, outbuf_tail, printed)
  BY DEF StdioInv
<1>2. /\ StdioSize \in Nat \ {0} /\ StdioNumbers \in Nat \ {0}
      /\ lost * StdioSize \in Nat /\ Len(wr_buf) \in Nat /\ Leading \in Nat
  BY <1>1, StdioFacts
<1>3. /\ stdout_buf' = [stdout_buf EXCEPT ![outbuf_head] = printed]
      /\ outbuf_head' = to /\ printed' = (printed + 1) % StdioNumbers
      /\ \/ FlushFrom(stdout_buf', to)
         \/ outbuf_tail' = outbuf_tail /\ wr_buf' = wr_buf
      /\ lost' = IF wr_buf' # wr_buf THEN 0 ELSE skipped
      /\ due' = IF wr_buf' # wr_buf
                THEN (due + skipped * StdioSize) % StdioNumbers ELSE due
  BY DEF fputc
<1>4. /\ to \in 0..StdioSize - 1
      /\ RingHolds(IF to = outbuf_tail THEN Leading + StdioSize ELSE Leading,
                   stdout_buf', to, outbuf_tail, printed')
  BY <1>1, <1>2, <1>3, PutStep DEF StdioTypeOK
<1>5. stdout_buf' \in [0..StdioSize - 1 -> Nat] /\ printed' \in Nat
  BY <1>1, <1>2, <1>3 DEF StdioTypeOK
<1>6. skipped \in Nat
  BY <1>1 DEF StdioTypeOK
<1>7. due + Len(wr_buf) + skipped * StdioSize
        = IF to = outbuf_tail THEN Leading + StdioSize ELSE Leading
  <2>1. (lost + 1) * StdioSize = lost * StdioSize + StdioSize /\ lost + 0 = lost
    BY <1>1, <1>2 DEF StdioTypeOK
  <2>2. due \in Nat /\ Leading = due + Len(wr_buf) + lost * StdioSize
    BY <1>1 DEF Leading, StdioTypeOK
  <2>3. CASE to = outbuf_tail
    <3>1. skipped * StdioSize = lost * StdioSize + StdioSize
      BY <2>1, <2>3
    <3> HIDE DEF to, skipped
    <3> QED
      BY <1>2, <2>2, <2>3, <3>1
  <2>4. CASE to # outbuf_tail
    <3>1. skipped * StdioSize = lost * StdioSize
      BY <2>1, <2>4
    <3> HIDE DEF to, skipped
    <3> QED
      BY <1>2, <2>2, <2>4, <3>1
  <2> QED
    BY <2>3, <2>4
<1> HIDE DEF to, skipped
<1>8. /\ outbuf_tail' \in 0..StdioSize - 1 /\ wr_buf' \in Seq(Nat)
      /\ lost' \in Nat /\ due' \in Nat
      /\ PieceHolds' /\ RingHolds(Leading', stdout_buf', to, outbuf_tail', printed')
  BY <1>1, <1>3, <1>4, <1>5, <1>6, <1>7, FlushStep
<1> QED
  BY <1>3, <1>4, <1>5, <1>8 DEF StdioInv, StdioTypeOK

LEMMA FflushStep ==
    ASSUME StdioInv, fflush
    PROVE  StdioInv'
<1>1. /\ StdioTypeOK /\ PieceHolds
      /\ RingHolds(Leading, stdout_buf, outbuf_head, outbuf_tail, printed)
  BY DEF StdioInv
<1>2. /\ FlushFrom(stdout_buf, outbuf_head)
      /\ lost' = IF wr_buf' # wr_buf THEN 0 ELSE lost
      /\ due' = IF wr_buf' # wr_buf
                THEN (due + lost * StdioSize) % StdioNumbers ELSE due
      /\ UNCHANGED <<stdout_buf, outbuf_head, printed>>
  BY DEF fflush
<1>3. RingHolds(due + Len(wr_buf) + lost * StdioSize, stdout_buf, outbuf_head,
                outbuf_tail, printed)
  BY <1>1 DEF Leading
<1>4. /\ outbuf_tail' \in 0..StdioSize - 1 /\ wr_buf' \in Seq(Nat)
      /\ lost' \in Nat /\ due' \in Nat
      /\ PieceHolds'
      /\ RingHolds(Leading', stdout_buf, outbuf_head, outbuf_tail', printed)
  <2>1. /\ stdout_buf \in [0..StdioSize - 1 -> Nat]
        /\ outbuf_head \in 0..StdioSize - 1 /\ lost \in Nat
    BY <1>1 DEF StdioTypeOK
  <2> QED
    BY <1>1, <1>2, <1>3, <2>1, FlushStep
<1> QED
  BY <1>1, <1>2, <1>4 DEF StdioInv, StdioTypeOK

LEMMA LineSendsStep ==
    ASSUME StdioInv, LineSends
    PROVE  StdioInv'
<1>1. /\ StdioTypeOK /\ PieceHolds
      /\ RingHolds(Leading, stdout_buf, outbuf_head, outbuf_tail, printed)
  BY DEF StdioInv
<1>2. /\ StdioSize \in Nat \ {0} /\ StdioNumbers \in Nat \ {0}
      /\ lost * StdioSize \in Nat /\ Len(wr_buf) \in Nat /\ Leading \in Nat
  BY <1>1, StdioFacts
<1>3. /\ wr_buf # <<>> /\ wr_buf' = Tail(wr_buf)
      /\ due' = (due + 1) % StdioNumbers
      /\ UNCHANGED <<stdout_buf, outbuf_head, outbuf_tail, printed, lost>>
  BY DEF LineSends
<1>4. wr_buf \in Seq(Nat) /\ due \in Nat
  BY <1>1 DEF StdioTypeOK
<1>5. /\ wr_buf' \in Seq(Nat) /\ Len(wr_buf') = Len(wr_buf) - 1 /\ Len(wr_buf) > 0
      /\ \A i \in 1..Len(wr_buf') : wr_buf'[i] = wr_buf[i + 1]
  BY <1>3, <1>4
<1>6. ASSUME NEW x \in Nat
      PROVE  (due' + x) % StdioNumbers = (due + 1 + x) % StdioNumbers
  <2>1. due + 1 \in Nat
    BY <1>4
  <2> QED
    BY <1>2, <1>3, <2>1, ModAdd
<1>7. PieceHolds'
  <2> SUFFICES ASSUME NEW i \in 1..Len(wr_buf')
               PROVE  wr_buf'[i] = (due' + (i - 1)) % StdioNumbers
    BY DEF PieceHolds
  <2>1. /\ i + 1 \in 1..Len(wr_buf) /\ i - 1 \in Nat
        /\ due + ((i + 1) - 1) = due + 1 + (i - 1)
    BY <1>2, <1>4, <1>5
  <2>2. wr_buf[i + 1] = (due + ((i + 1) - 1)) % StdioNumbers
    BY <1>1, <2>1 DEF PieceHolds
  <2> QED
    BY <1>5, <1>6, <2>1, <2>2
<1>8. due' \in Nat
  BY <1>2, <1>3, <1>4
<1>9. Leading' \in Nat /\ Leading' % StdioNumbers = Leading % StdioNumbers
  <2> DEFINE all == lost * StdioSize
             rest == Len(wr_buf) - 1 + all
  <2>1. /\ all \in Nat /\ rest \in Nat /\ due + 1 + rest = due + Len(wr_buf) + all
        /\ Len(wr_buf') + all = rest
    BY <1>2, <1>4, <1>5
  <2>2. Leading = due + 1 + rest
    BY <2>1 DEF Leading
  <2>3. Leading' = due' + rest
    <3>1. Leading' = due' + Len(wr_buf') + all
      BY <1>3 DEF Leading
    <3>2. Len(wr_buf') \in Nat
      BY <1>5
    <3> HIDE DEF rest, all
    <3> QED
      BY <1>8, <2>1, <3>1, <3>2
  <2> HIDE DEF rest, all
  <2>4. (due' + rest) % StdioNumbers = (due + 1 + rest) % StdioNumbers
    BY <1>6, <2>1
  <2>5. due' + rest \in Nat
    <3>1. \A m \in Nat, i \in Nat : m + i \in Nat
      OBVIOUS
    <3> QED
      BY <1>8, <2>1, <3>1, Zenon
  <2> QED
    BY <2>2, <2>3, <2>4, <2>5, Zenon
<1>10. RingHolds(Leading', stdout_buf, outbuf_head, outbuf_tail, printed)
  BY <1>1, <1>2, <1>9, RingShift DEF StdioTypeOK
<1> QED
  BY <1>1, <1>3, <1>5, <1>7, <1>8, <1>10 DEF StdioInv, StdioTypeOK

LEMMA StdioStepInv == StdioInv /\ [StdioNext]_stdioVars => StdioInv'
<1> SUFFICES ASSUME StdioInv, [StdioNext]_stdioVars PROVE StdioInv'
  OBVIOUS
<1>1. ASSUME NEW nl \in BOOLEAN, fputc(nl) PROVE StdioInv'
  BY <1>1, FputcStep
<1>2. CASE fflush
  BY <1>2, FflushStep
<1>3. CASE LineSends
  BY <1>3, LineSendsStep
<1>4. CASE UNCHANGED stdioVars
  BY <1>4 DEF stdioVars, StdioInv, StdioTypeOK, PieceHolds, Leading
<1> QED
  BY <1>1, <1>2, <1>3, <1>4 DEF StdioNext

\* Characters reach the line once and in order, and are lost a full ring at a
\* time, for a ring and pieces of any size (stdio.c:22 and uart-stdio.c:7).
THEOREM CharactersStayInOrder == StdioSpec => []StdioStream
  BY StdioInitInv, StdioStepInv, StdioInvImplies, PTL DEF StdioSpec

=============================================================================
