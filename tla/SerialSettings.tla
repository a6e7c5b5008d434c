--------------------------- MODULE SerialSettings ---------------------------
(***************************************************************************)
(* The settings of one open Serial.Port (serial/serial/serial.fec) and its *)
(* output.  The object keeps a termios structure (PORTTI) that the setters *)
(* change and then hand to tcsetattr, a saved one (PORTSI), and the device *)
(* has settings of its own.  Setters, restoreSettings and waitForOutput    *)
(* wait until the output is sent; the script waits with them.              *)
(*                                                                         *)
(* A port setting is a field of Config; flags no function of the module    *)
(* reads back are left out.  The errors of tcflush, tcsendbreak, tcgetattr *)
(* and of sendXOFF and sendXON change nothing and are left out too.        *)
(***************************************************************************)
EXTENDS Integers

CONSTANTS
    DataBits, StopBits, Parities, FlowControls, Speeds,   \* arguments to try
    FirstConfigs,   \* the settings the device may have when it is opened
    MaxCalls        \* bound: calls that change settings

VARIABLES
    shadow,     \* PORTTI
    saved,      \* PORTSI
    device,     \* what the driver uses
    mark,       \* the device's settings when they were last saved
    drift,      \* why shadow and device may differ
    job,        \* the call that waits for the output to drain, or NoJob
    answer,     \* what the last call that may fail returned
    unsent,     \* there is output that is not sent yet
    tx,         \* our transmission: "on" or "off" (tcflow TCOOFF, TCOON)
    asked,      \* what the last call about our transmission to succeed asked
    held,       \* the peer holds our output, if flow control lets it
    peer,       \* the remote device's transmission, by XON and XOFF
    calls

settingsVars == <<shadow, saved, device, mark, drift, job, answer, unsent, tx, asked, held, peer, calls>>

-----------------------------------------------------------------------------
(* util.c: the table of speeds.  A constant that is not in it becomes      *)
(* (speed_t)-1, here -1.                                                   *)
Bauds == {0, 50, 75, 110, 134, 150, 200, 300, 600, 1200, 1800, 2400, 4800,
          9600, 19200, 38400, 57600, 115200, 230400}

Speed(b) == <<"B", b>>

consttobaud(c) == IF \E b \in Bauds : c = Speed(b) THEN c[2] ELSE -1

Known(b) == b \in Bauds

-----------------------------------------------------------------------------
Ops == {"initSettings", "setDataBits", "setStopBits", "setParity",
        "setFlowControl", "setSpeed", "restoreSettings", "waitForOutput"}

Setters == Ops \ {"restoreSettings", "waitForOutput"}

NoJob == [op |-> "none"]

(* The settings the functions of the module look at.                       *)
Config ==
    [bits : 5..8, stop2 : BOOLEAN, parenb : BOOLEAN, parodd : BOOLEAN,
     rtscts : BOOLEAN, xonxoff : SUBSET {"IXON", "IXOFF"},
     ispeed : {"B"} \X Nat, ospeed : {"B"} \X Nat]

ASSUME SettingsAssumption == FirstConfigs \subseteq Config /\ MaxCalls \in Nat

SettingsTypeOK ==
    /\ {shadow, saved, device, mark} \subseteq Config
    /\ drift \subseteq Setters \cup {"restored", "partial", "outside"}
    /\ job \in {NoJob, [op |-> "waitForOutput"]}
                \cup [op : Ops \ {"waitForOutput"}, target : Config]
    /\ {answer, unsent, held} \subseteq BOOLEAN
    /\ {tx, asked, peer} \subseteq {"on", "off"}
    /\ calls \in 0..MaxCalls

(* The constructor: tcgetattr, and a copy of what it read is saved.        *)
SettingsInit ==
    /\ device \in FirstConfigs
    /\ shadow = device /\ saved = device /\ mark = device
    /\ drift = {} /\ job = NoJob /\ answer = TRUE
    /\ unsent = FALSE /\ tx = "on" /\ asked = "on" /\ held = FALSE /\ peer = "on"
    /\ calls = 0

NoCall == job = NoJob

-----------------------------------------------------------------------------
(* Setters.                                                                *)

(* Mutant: the changes are made in a copy of PORTTI.                       *)
StartCopy(op, new) ==
    /\ NoCall /\ calls < MaxCalls /\ calls' = calls + 1
    /\ job' = [op |-> op, target |-> new]
    /\ UNCHANGED <<shadow, saved, device, mark, drift, answer, unsent, tx, asked, held, peer>>

(* A setter has changed PORTTI and calls tcsetattr(TCSADRAIN).             *)
Start(op, new) ==
    /\ NoCall /\ calls < MaxCalls /\ calls' = calls + 1
    /\ shadow' = new
    /\ job' = [op |-> op, target |-> new]
    /\ UNCHANGED <<saved, device, mark, drift, answer, unsent, tx, asked, held, peer>>

(* A setter returns false before tcsetattr, with PORTTI as it is then.     *)
Refuse(op, new) ==
    /\ NoCall /\ calls < MaxCalls /\ calls' = calls + 1
    /\ shadow' = new
    /\ drift' = IF new = shadow THEN drift ELSE drift \cup {op}
    /\ answer' = FALSE
    /\ UNCHANGED <<saved, device, mark, job, unsent, tx, asked, held, peer>>

(* 8N1, 9600 baud, no flow control.                                        *)
Defaults(c) ==
    [c EXCEPT !.bits = 8, !.stop2 = FALSE, !.parenb = FALSE, !.rtscts = FALSE,
              !.xonxoff = {}, !.ispeed = Speed(9600), !.ospeed = Speed(9600)]

initSettings == Start("initSettings", Defaults(shadow))

setDataBits(bits) ==
    IF bits \in 5..8
      THEN Start("setDataBits", [shadow EXCEPT !.bits = bits])
      ELSE Refuse("setDataBits", shadow)

setStopBits(n) ==
    IF n \in {1, 2}
      THEN Start("setStopBits", [shadow EXCEPT !.stop2 = (n = 2)])
      ELSE Refuse("setStopBits", shadow)

(* Mutant: no parity clears the stop bit flag with the parity flag.        *)
ParityClearsStop(c, type) ==
    [c EXCEPT !.parenb = (type # 0), !.stop2 = @ /\ type # 0,
              !.parodd = IF type = 0 THEN @ ELSE type = 2]

(* PARITY_NONE is 0, PARITY_EVEN 1, PARITY_ODD 2.                          *)
WithParity(c, type) ==
    [c EXCEPT !.parenb = (type # 0),
              !.parodd = IF type = 0 THEN @ ELSE type = 2]

setParity(type) ==
    IF type \in 0..2
      THEN Start("setParity", WithParity(shadow, type))
      ELSE Refuse("setParity", shadow)

(* FC_NONE is 0, FC_XONXOFF 1, FC_RTSCTS 2, FC_BOTH 3.                     *)
WithFlow(c, type) ==
    [c EXCEPT !.rtscts = type \in {2, 3},
              !.xonxoff = IF type \in {1, 3} THEN {"IXON", "IXOFF"} ELSE {}]

setFlowControl(type) ==
    IF type \in 0..3
      THEN Start("setFlowControl", WithFlow(shadow, type))
      ELSE Refuse("setFlowControl", shadow)

WithSpeeds(c, in, out) == [c EXCEPT !.ispeed = Speed(in), !.ospeed = Speed(out)]

(* The input speed is set before the output speed is looked at.            *)
setSpeed(in, out) ==
    CASE ~Known(in)               -> Refuse("setSpeed", shadow)
      [] Known(in) /\ ~Known(out) -> Refuse("setSpeed", [shadow EXCEPT !.ispeed = Speed(in)])
      [] OTHER -> Start("setSpeed", WithSpeeds(shadow, in, out))

restoreSettings ==
    /\ NoCall /\ calls < MaxCalls /\ calls' = calls + 1
    /\ job' = [op |-> "restoreSettings", target |-> saved]
    /\ UNCHANGED <<shadow, saved, device, mark, drift, answer, unsent, tx, asked, held, peer>>

waitForOutput ==
    /\ NoCall /\ calls < MaxCalls /\ calls' = calls + 1
    /\ job' = [op |-> "waitForOutput"]
    /\ UNCHANGED <<shadow, saved, device, mark, drift, answer, unsent, tx, asked, held, peer>>

-----------------------------------------------------------------------------
(* The call that waits: it is over when the output is sent.                *)

Answer(ok) ==
    /\ answer' = ok
    /\ job' = NoJob
    /\ UNCHANGED <<shadow, saved, mark, unsent, tx, asked, held, peer, calls>>

(* tcsetattr puts the settings into place.                                 *)
Applied ==
    /\ ~NoCall /\ job.op # "waitForOutput" /\ ~unsent
    /\ device' = job.target
    /\ drift' = IF job.op = "restoreSettings" /\ saved # shadow
                  THEN {"restored"} ELSE {}
    /\ Answer(TRUE)

(* tcsetattr returns 0 when it could make any one of the changes: the      *)
(* driver may not support a speed or a number of bits.                     *)
AppliedInPart ==
    /\ ~NoCall /\ job.op # "waitForOutput" /\ ~unsent
    /\ \E f \in DOMAIN device :
          /\ job.target[f] # device[f]
          /\ device' = [job.target EXCEPT ![f] = device[f]]
    /\ drift' = drift \cup {"partial"}
    /\ Answer(TRUE)

(* A signal interrupts the wait, or the device is gone.                    *)
Fails ==
    /\ ~NoCall
    /\ drift' = IF job.op \in {"waitForOutput", "restoreSettings"}
                  THEN drift ELSE drift \cup {job.op}
    /\ UNCHANGED device
    /\ Answer(FALSE)

Drained ==
    /\ ~NoCall /\ job.op = "waitForOutput" /\ ~unsent
    /\ UNCHANGED <<device, drift>>
    /\ Answer(TRUE)

-----------------------------------------------------------------------------
(* Mutant: the object's own settings are saved, not the device's.          *)
saveShadow ==
    /\ NoCall
    /\ saved' = shadow /\ mark' = device
    /\ UNCHANGED <<shadow, device, drift, job, answer, unsent, tx, asked, held, peer, calls>>

(* saveSettings: tcgetattr into PORTSI.                                    *)
saveSettings ==
    /\ NoCall
    /\ saved' = device /\ mark' = device
    /\ UNCHANGED <<shadow, device, drift, job, answer, unsent, tx, asked, held, peer, calls>>

(* write or pwrite: output waits to be sent.                               *)
write ==
    /\ NoCall /\ unsent' = TRUE
    /\ UNCHANGED <<shadow, saved, device, mark, drift, job, answer, tx, asked, held, peer, calls>>

(* flushOutput, flushIO.                                                   *)
flushOutput ==
    /\ NoCall /\ unsent' = FALSE
    /\ UNCHANGED <<shadow, saved, device, mark, drift, job, answer, tx, asked, held, peer, calls>>

(* A tcflow that fails changes nothing and is told to the script.          *)
TcflowFails ==
    /\ NoCall /\ answer' = FALSE
    /\ UNCHANGED <<shadow, saved, device, mark, drift, job, unsent, tx, asked, held, peer, calls>>

pauseTransmission ==
    \/ /\ NoCall /\ tx' = "off" /\ asked' = "off"
       /\ answer' = TRUE
       /\ UNCHANGED <<shadow, saved, device, mark, drift, job, unsent, held, peer, calls>>
    \/ TcflowFails

(* Mutant: TCION is passed where TCOON is meant.                           *)
resumeOfInput ==
    \/ /\ NoCall /\ peer' = "on" /\ asked' = "on"
       /\ answer' = TRUE
       /\ UNCHANGED <<shadow, saved, device, mark, drift, job, unsent, tx, held, calls>>
    \/ TcflowFails

resumeTransmission ==
    \/ /\ NoCall /\ tx' = "on" /\ asked' = "on"
       /\ answer' = TRUE
       /\ UNCHANGED <<shadow, saved, device, mark, drift, job, unsent, held, peer, calls>>
    \/ TcflowFails

(* tcflow: TCION sends a START character, TCIOFF would send a STOP.        *)
Tcflow(action) ==
    /\ NoCall
    /\ peer' = CASE action = "TCION" -> "on" [] action = "TCIOFF" -> "off"
    /\ UNCHANGED <<shadow, saved, device, mark, drift, job, answer, unsent, tx, asked, held, calls>>

(* The remote device is never paused: both send a START character.         *)
sendXOFF == Tcflow("TCION")

sendXON == Tcflow("TCION")

(* The peer sends an XOFF or drops CTS, and later an XON or raises it; the *)
(* driver heeds it while the device's settings say so (setFlowControl).    *)
PeerHolds ==
    /\ held' = ~held
    /\ UNCHANGED <<shadow, saved, device, mark, drift, job, answer, unsent, tx, asked, peer, calls>>

Blocked == held /\ (device.rtscts \/ "IXON" \in device.xonxoff)

(* The device sends what is written, unless transmission is paused by us   *)
(* or held by the peer.                                                    *)
Transmit ==
    /\ unsent /\ tx = "on" /\ ~Blocked /\ unsent' = FALSE
    /\ UNCHANGED <<shadow, saved, device, mark, drift, job, answer, tx, asked, held, peer, calls>>

(* Another program changes the settings (the module's text suggests it).   *)
Outside ==
    /\ device' \in FirstConfigs \ {device}
    /\ drift' = drift \cup {"outside"}
    /\ UNCHANGED <<shadow, saved, mark, job, answer, unsent, tx, asked, held, peer, calls>>

SettingsNext ==
    \/ initSettings
    \/ \E n \in DataBits : setDataBits(n)
    \/ \E n \in StopBits : setStopBits(n)
    \/ \E type \in Parities : setParity(type)
    \/ \E type \in FlowControls : setFlowControl(type)
    \/ \E in, out \in Speeds : setSpeed(in, out)
    \/ restoreSettings \/ waitForOutput
    \/ Applied \/ AppliedInPart \/ Fails \/ Drained
    \/ saveSettings \/ write \/ flushOutput
    \/ pauseTransmission \/ resumeTransmission \/ sendXOFF \/ sendXON
    \/ PeerHolds \/ Transmit \/ Outside

SettingsSpec == SettingsInit /\ [][SettingsNext]_settingsVars

(* The device sends whenever it may: what waits is finite, since a script  *)
(* that waits writes nothing, and some of it goes out each time the peer   *)
(* lets go.  A drained call returns.                                       *)
SettingsFairness ==
    /\ SF_settingsVars(Transmit)
    /\ WF_settingsVars(Applied) /\ WF_settingsVars(Drained)

SettingsLiveSpec == SettingsSpec /\ SettingsFairness

-----------------------------------------------------------------------------
(* The getters.                                                            *)
getDataBits(c) == c.bits

getStopBits(c) == IF c.stop2 THEN 2 ELSE 1

getParity(c) == CASE ~c.parenb -> 0 [] c.parenb /\ c.parodd -> 2 [] OTHER -> 1

getFlowControl(c) ==
    (IF c.rtscts THEN 2 ELSE 0) + (IF c.xonxoff # {} THEN 1 ELSE 0)

getInputSpeed(c) == consttobaud(IF c.ispeed = Speed(0) THEN c.ospeed ELSE c.ispeed)

getOutputSpeed(c) == consttobaud(c.ispeed)

-----------------------------------------------------------------------------
Fields == {"bits", "stop2", "parenb", "parodd", "rtscts", "xonxoff", "ispeed", "ospeed"}

(* The settings each call is named for.                                    *)
Own ==
    [op \in Ops |->
       CASE op = "setDataBits"     -> {"bits"}
         [] op = "setStopBits"     -> {"stop2"}
         [] op = "setParity"       -> {"parenb", "parodd"}
         [] op = "setFlowControl"  -> {"rtscts", "xonxoff"}
         [] op = "setSpeed"        -> {"ispeed", "ospeed"}
         [] op = "waitForOutput"   -> {}
         [] OTHER                  -> Fields]

(* A setter that failed before leaves its mark on f.                       *)
LeftBehind(f) == \E op \in drift : f \in Own[op]

(* What the setters, which write all of PORTTI back, and the getters, which *)
(* read it, rely on.  PORTTI differs from the device in settings of calls  *)
(* that failed only, unless the driver took settings in part, another      *)
(* program changed them, or restoreSettings did: then the device uses what *)
(* was saved.  A getter answers with what its setter put into PORTTI; of   *)
(* getOutputSpeed nothing is said (serial.fec:448-695).                    *)
ShadowTrue ==
    NoCall =>
      /\ drift \subseteq Setters =>
           \A f \in Fields : shadow[f] # device[f] => LeftBehind(f)
      /\ "restored" \in drift /\ drift \cap {"partial", "outside"} = {} => device = saved
      /\ getStopBits(shadow) = 2 <=> shadow.stop2
      /\ \A type \in 0..2 : getParity(WithParity(shadow, type)) = type
      /\ \A type \in 0..3 : getFlowControl(WithFlow(shadow, type)) = type
      /\ \A in \in Speeds \cap Bauds, out \in Speeds \cap Bauds :
           getInputSpeed(WithSpeeds(shadow, in, out)) = (IF in = 0 THEN out ELSE in)

(* A call changes the settings it is named for, those that calls which     *)
(* failed before it were named for, and no other, although it hands the    *)
(* whole structure to the device.                                          *)
ChangesOwn ==
    [][~NoCall /\ NoCall' /\ drift \subseteq Setters =>
         \A f \in Fields \ Own[job.op] :
            device'[f] # device[f] => LeftBehind(f)]_settingsVars

(* restoreSettings gives the device back the settings it had when they     *)
(* were last saved, whatever failed, in part or as a whole, since then.    *)
RestoresMark ==
    [][~NoCall /\ NoCall' /\ job.op = "restoreSettings" /\ answer'
         /\ "partial" \notin drift' => device' = mark]_settingsVars

(* If the peer never holds the line for good, a call that waits for output *)
(* returns when the last thing the script asked for, and was told it got,  *)
(* is that output be sent.                                                 *)
DrainReturns ==
    []<>~Blocked => ((~NoCall /\ asked = "on") ~> NoCall)
=============================================================================
