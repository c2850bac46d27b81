\* Transactions with and without STOP.
CONSTANTS
    I2cTrans = {t1, t2}
    I2cRequests <- WithoutStop
SPECIFICATION I2cSpec
INVARIANT I2cRestarts
