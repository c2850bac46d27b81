----------------------------- MODULE MCDrivers -----------------------------
(* Instances of the drivers for TLC.  They share nothing, so one of them     *)
(* runs at a time, the others stand still in their initial states.           *)
EXTENDS Spi, SpiFlash, Uart, Cdc, Stdio, I2c, Nrf, MCUsb, MCDfu

VARIABLE driver     \* the one that runs

Length(tx, rx) == [tx |-> tx, rx |-> rx]

\* Nothing to receive, as much as is sent, more, and less; more frames than
\* the FIFOs hold.
SomeLengths == {Length(1, 0), Length(2, 2), Length(1, 3), Length(4, 1)}

\* All directions and the short lengths with cases of their own, with STOP.
WithStop == [read : BOOLEAN, length : 1..3, stop : {TRUE}]

\* The radio runs three times: with every setting; with addresses used both ways
\* and packets left behind; with power saving.
OwnAddresses == nrf'.way = "send" => nrf'.addr \notin NrfRxAddrs
FirstSettings ==
    /\ nrf'.rate # Kbps250 /\ nrf'.ard = 0
    /\ nrf'.dirty \cap {"rate", "retr", "channel"} = {}
NothingLeft == Len(radio'.rx) <= 1

Settings == OwnAddresses /\ NothingLeft /\ ~nrf'.save
Addresses == FirstSettings /\ ~nrf'.save
PowerSaving == OwnAddresses /\ NothingLeft /\ FirstSettings

Radios == {"radio settings", "radio addresses", "radio saving"}
Drivers == {"spi", "flash", "uart", "cdc", "stdio", "i2c", "usb", "dfu"} \cup Radios

allVars == <<spiVars, flashVars, uartVars, cdcVars, stdioVars, i2cVars, nrfVars,
             vars, dfuVars, driver>>

AllInit ==
    /\ SpiInit /\ FlashInit /\ UartInit /\ CdcInit /\ StdioInit /\ I2cInit /\ NrfInit
    /\ Init /\ DfuInit
    /\ driver \in Drivers
    /\ driver # "dfu" => flash = [i \in DOMAIN flash |-> Erased]

AllNext ==
    /\ UNCHANGED driver
    /\ IF driver = "spi" THEN SpiNext ELSE UNCHANGED spiVars
    /\ IF driver = "flash" THEN FlashNext ELSE UNCHANGED flashVars
    /\ IF driver = "uart" THEN UartNext ELSE UNCHANGED uartVars
    /\ IF driver = "cdc" THEN CdcNext ELSE UNCHANGED cdcVars
    /\ IF driver = "stdio" THEN StdioNext ELSE UNCHANGED stdioVars
    /\ IF driver = "i2c" THEN I2cNext ELSE UNCHANGED i2cVars
    /\ IF driver \in Radios THEN NrfNext ELSE UNCHANGED nrfVars
    /\ driver = "radio settings" => Settings
    /\ driver = "radio addresses" => Addresses
    /\ driver = "radio saving" => PowerSaving
    /\ IF driver = "usb" THEN Next ELSE UNCHANGED vars
    /\ IF driver = "dfu" THEN DfuNext ELSE UNCHANGED dfuVars

\* A driver that stands still has nothing to do that it would be held to.
AllFairness ==
    /\ SpiFairness /\ FlashFairness /\ UartFairness /\ I2cFairness /\ NrfFairness
    /\ Fairness /\ DfuFairness

AllSpec == AllInit /\ [][AllNext]_allVars /\ AllFairness

\* Of the flash nothing is claimed once a thread was overtaken.
NotRaced == ~flashPast.raced
=============================================================================
