-------------------------- MODULE MCSerialSettings --------------------------
(* Instances of SerialSettings for TLC.                                    *)
EXTENDS SerialSettings

(* A console at 9600 baud, and a line at two speeds with even parity and   *)
(* software flow control in one direction.                                 *)
Console ==
    [bits |-> 8, stop2 |-> FALSE, parenb |-> FALSE, parodd |-> FALSE,
     rtscts |-> FALSE, xonxoff |-> {}, ispeed |-> Speed(9600), ospeed |-> Speed(9600)]

Line ==
    [bits |-> 7, stop2 |-> TRUE, parenb |-> TRUE, parodd |-> FALSE,
     rtscts |-> FALSE, xonxoff |-> {"IXOFF"}, ispeed |-> Speed(460800), ospeed |-> Speed(4800)]

MCConfigs == {Console, Line}
=============================================================================
