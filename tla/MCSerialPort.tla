----------------------------- MODULE MCSerialPort -----------------------------
\* SerialPort with short frames in both directions; those that come in contain
\* octets to be escaped.
EXTENDS SerialPort
MCSizes == <<3, 2>>
MCContents == << <<"7E">>, <<"b">>, <<"7D">> >>

\* The proofs suppose it of the frames.
ASSUME MCReadable == Contents = MCContents => \A g \in R!Frames : R!Readable(g)

\* The four messages of the parameters: parts, user, internal and Modbus
\* parameters, without escapes.
ParamSizes == <<153, 31, 140, 55>>

\* A frame in which every octet is to be escaped.
LongContents == << <<"7E", "7D">> >>
=============================================================================
