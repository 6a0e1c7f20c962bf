--------------------------- MODULE MCModbusMaster ---------------------------
\* ModbusMaster with answers that may be late or setters that may be
\* interrupted, and with the two ways of setting a factor: alone (FGIPv2) and
\* with all the others (BSIP).
EXTENDS ModbusMaster
OneByOne == {{f} : f \in Factors}
AllAtOnce == {Factors}
OneOfBoth ==
  {[late |-> TRUE, interrupted |-> FALSE], [late |-> FALSE, interrupted |-> TRUE]}
=============================================================================
