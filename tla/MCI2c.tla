------------------------------- MODULE MCI2c -------------------------------
(* An instance of I2c for TLC with transactions that ask for no STOP.        *)
EXTENDS I2c

WithoutStop == [read : BOOLEAN, length : 1..2, stop : BOOLEAN]
=============================================================================
