------------------------- MODULE MCFirmwareForward -------------------------
\* FirmwareForward over both channels, each with a line whose losses the second
\* sending mends and with one that loses frames for good and answers late.
EXTENDS FirmwareForward
MCLines ==
  {[channel |-> c, delay |-> d[1], losses |-> d[2]] :
     c \in {"fpga", "modbus"}, d \in {<<2, 1>>, <<4, 2>>}}
=============================================================================
