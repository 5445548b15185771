------------------------------ MODULE StcFlash ------------------------------
(***************************************************************************)
(* flashStc12, the ISP programmer, against the boot ROM of the mock it is  *)
(* tested with, over a line that loses and garbles bytes and delays them   *)
(* past the timeout of a read.  The host pulses until a status packet      *)
(* comes, then sends each command once and gives up at the first reply     *)
(* that is missing, damaged or not the one it expects.                     *)
(*                                                                         *)
(* A packet to the host is what readPacket reads in turn: the two start    *)
(* bytes, the direction, and the rest under its length and checksum.  A    *)
(* packet to the boot ROM, which acts on whole ones only and checks        *)
(* neither their checksum nor their end, is one message: garbled, it is    *)
(* another command, or a write of something else or elsewhere.             *)
(***************************************************************************)
EXTENDS Integers, Sequences, FiniteSets, SequencesExt, FiniteSetsExt

CONSTANTS
  Hex,        \* Intel HEX files: sequences of records [type, addr, data, sound]
  Segment,    \* bytes of a segment unit: 16
  Linear,     \* bytes of a linear unit: 65536
  Block,      \* bytes of a write: 128
  EraseUnit,  \* bytes of an erase block: 512
  FlashSize,  \* of the part on the line
  Erased,     \* an erased byte: 16_FF
  Stray,      \* the writes the boot ROM may take a garbled command for
  MaxPulses,  \* pulses until the handshake deadline
  MaxFaults   \* bound on what the line does

ASSUME FlashAssumption ==
  /\ {Segment, Linear, Block, EraseUnit, FlashSize, MaxPulses} \subseteq Nat \ {0}
  /\ EraseUnit % Block = 0 /\ FlashSize % EraseUnit = 0
  /\ MaxFaults \in Nat
  /\ \A write \in Stray : write.command = "write"

VARIABLES
  file,      \* the HEX file to program
  transport, \* "serial", whose read waits for data, or "timed", whose read gives up
  host,      \* [phase, reading, pulses, offset, magic]
  toMcu,     \* messages under way to the boot ROM
  toHost,    \* bytes under way to the host
  mcu,       \* [state, magic, flash, again]: again if it greets at each pulse, as a
             \* boot ROM may and the mock does not
  faults,    \* what the line did so far
  doubt      \* history: the addresses a garbled write was for or went to

vars == <<file, transport, host, toMcu, toHost, mcu, faults, doubt>>

Address == 0 .. FlashSize - 1
Magic == {"stc12", "stc15", "unknown"}

-----------------------------------------------------------------------------
(* parseIntelHex.  Records up to the end record; a bad one before it       *)
(* refuses the file.                                                       *)
Used(hex) ==
  LET ends == {i \in DOMAIN hex : hex[i].type = "end"}
  IN  IF ends = {} THEN DOMAIN hex ELSE 1 .. Min(ends)
Unit == [segment |-> Segment, linear |-> Linear]
Base(hex, i) ==
  LET before == {j \in 1 .. i - 1 : hex[j].type \in DOMAIN Unit}
  IN  IF before = {} THEN 0 ELSE hex[Max(before)].addr * Unit[hex[Max(before)].type]
Bytes(hex) == [i \in {j \in Used(hex) : hex[j].type = "data"} |->
                 [k \in DOMAIN hex[i].data |-> Base(hex, i) + hex[i].addr + k - 1]]
Written(hex) == UNION {Range(Bytes(hex)[i]) : i \in DOMAIN Bytes(hex)}
(* The last record that writes an address is the one that counts.          *)
ValueAt(hex, a) ==
  LET i == Max({j \in DOMAIN Bytes(hex) : a \in Range(Bytes(hex)[j])})
  IN  hex[i].data[CHOOSE k \in DOMAIN hex[i].data : Bytes(hex)[i][k] = a]
Parses(hex) == (\A i \in Used(hex) : hex[i].sound) /\ Written(hex) # {}
Lowest(hex) == Min(Written(hex))

(* The image from its lowest address, padded to whole erase units.         *)
Padded(hex) ==
  LET size == Max(Written(hex)) - Lowest(hex) + 1
      units == (size + EraseUnit - 1) \div EraseUnit
  IN  [n \in 0 .. units * EraseUnit - 1 |->
         IF n + Lowest(hex) \in Written(hex) THEN ValueAt(hex, n + Lowest(hex)) ELSE Erased]
PaddedSize(hex) == Cardinality(DOMAIN Padded(hex))

-----------------------------------------------------------------------------
(* The boot ROM: each command in its state, and the reply.                 *)
Byte(part) == [part |-> part, code |-> "none", magic |-> "none"]
Packet(code, magic) ==
  <<Byte("F1"), Byte("F2"), Byte("DIR"), [part |-> "rest", code |-> code, magic |-> magic]>>
Reply(code) == Packet(code, "none")

Init == /\ file \in Hex
        /\ transport \in {"serial", "timed"}
        /\ host = [phase |-> IF Parses(file) THEN "greeting" ELSE "failed", reading |-> "none",
                   pulses |-> 0, offset |-> 0, magic |-> "none"]
        /\ toMcu = <<>> /\ toHost = <<>>
        /\ mcu \in [state : {"idle"}, magic : Magic, again : BOOLEAN,
                    flash : {[a \in Address |-> Erased - 1]}]
        /\ faults = 0 /\ doubt = {}

End(phase) == host' = [host EXCEPT !.phase = phase, !.reading = "none"]

Answer(state, packet) ==
  /\ mcu' = [mcu EXCEPT !.state = state]
  /\ toHost' = toHost \o packet

(* A block may reach past the flash: the boot ROM drops what does.         *)
Programmed(flash, message) ==
  [a \in Address |-> IF a - message.offset \in DOMAIN message.chunk
                     THEN message.chunk[a - message.offset] ELSE flash[a]]

Pulsed == /\ Head(toMcu).command = "pulse"
          /\ IF mcu.state = "idle" \/ (mcu.state = "detected" /\ mcu.again)
             THEN Answer("detected", Packet("00", mcu.magic))
             ELSE UNCHANGED <<mcu, toHost>>
Negotiated ==
  /\ mcu.state = "detected"
  /\ \/ Head(toMcu).command = "handshake" /\ Answer("detected", Reply("8F"))
     \/ Head(toMcu).command = "baud test" /\ Answer("detected", Reply("8F"))
     \/ Head(toMcu).command = "baud switch" /\ Answer("negotiated", Reply("84"))
EraseAll ==
  /\ mcu.state = "negotiated" /\ Head(toMcu).command = "erase"
  /\ mcu' = [mcu EXCEPT !.state = "programming", !.flash = [a \in Address |-> Erased]]
  /\ toHost' = toHost \o Reply("00")
Program ==
  /\ mcu.state = "programming" /\ Head(toMcu).command = "write"
  /\ mcu' = [mcu EXCEPT !.flash = Programmed(@, Head(toMcu))]
  /\ toHost' = toHost \o Reply("00")
Finished ==
  \/ mcu.state = "programming" /\ Head(toMcu).command = "finish" /\ Answer("done", Reply("8D"))
  \/ mcu.state = "done" /\ Head(toMcu).command = "reset" /\ UNCHANGED <<mcu, toHost>>

(* Any other command is consumed.  The boot ROM is silent, but the mock    *)
(* throws, and does so out of the host's read.                             *)
Takes(state, command) ==
  \/ command = "pulse"
  \/ state = "detected" /\ command \in {"handshake", "baud test", "baud switch"}
  \/ state = "negotiated" /\ command = "erase"
  \/ state = "programming" /\ command \in {"write", "finish"}
  \/ state = "done" /\ command = "reset"
Refused == /\ ~Takes(mcu.state, Head(toMcu).command)
           /\ \/ UNCHANGED host
              \/ transport = "timed" /\ host.reading # "none" /\ End("failed")
           /\ UNCHANGED <<mcu, toHost>>

McuStep == /\ toMcu # <<>>
           /\ \/ (Pulsed \/ Negotiated \/ EraseAll \/ Program \/ Finished) /\ UNCHANGED host
              \/ Refused
           /\ toMcu' = Tail(toMcu)
           /\ UNCHANGED <<file, transport, faults, doubt>>

-----------------------------------------------------------------------------
(* The host.  A command, and what readPacket is to bring for it.           *)
Expected == [handshake |-> "8F", baudtest |-> "8F", baudswitch |-> "84",
             erase |-> "00", write |-> "00", finish |-> "8D"]

Message(command) == [command |-> command, offset |-> 0, chunk |-> <<>>]
WriteAt(offset) ==
  [command |-> "write", offset |-> offset,
   chunk |-> [k \in 0 .. Block - 1 |-> Padded(file)[offset + k]]]

(* To the next phase, with its command sent and its reply to be read.      *)
Send(phase, message) ==
  /\ host' = [host EXCEPT !.phase = phase, !.reading = "head", !.offset = message.offset]
  /\ toMcu' = Append(toMcu, message)

(* Mutant: pulses on for ever.                                             *)
OverdueNever(pulses) == FALSE
Overdue(pulses) == pulses >= MaxPulses

Pulse ==
  /\ host.phase = "greeting" /\ host.reading = "none" /\ ~Overdue(host.pulses)
  /\ host' = [host EXCEPT !.reading = "head", !.pulses = Min({@ + 1, MaxPulses})]
  /\ toMcu' = Append(toMcu, Message("pulse"))
  /\ UNCHANGED <<toHost>>
GiveUp ==
  /\ host.phase = "greeting" /\ host.reading = "none" /\ Overdue(host.pulses)
  /\ End("failed")
  /\ UNCHANGED <<toMcu, toHost>>

(* An error while reading: caught in the greeting, the end elsewhere.      *)
ReadFails == /\ End(IF host.phase = "greeting" THEN "greeting" ELSE "failed")
             /\ UNCHANGED toMcu

(* A timed read gives up on an empty line.  The serial one looks at its    *)
(* deadline only when something came, which may be part of what it wants.  *)
Timeout ==
  /\ host.reading # "none"
  /\ \/ transport = "timed" /\ toHost = <<>>
     \/ transport = "serial" /\ toHost # <<>> /\ host.reading = "rest"
  /\ ReadFails
  /\ UNCHANGED toHost

(* readPacket up to the rest; the start bytes may be left out.             *)
Follows(reading, part) ==
  CASE reading = "head" /\ part = "F1" -> "second"
    [] reading = "head" /\ part = "DIR" -> "rest"
    [] reading = "second" /\ part = "F2" -> "direction"
    [] reading = "direction" /\ part = "DIR" -> "rest"
    [] OTHER -> "bad"
ReadFraming ==
  /\ toHost # <<>>
  /\ host.reading \in {"head", "second", "direction"}
  /\ LET follows == Follows(host.reading, Head(toHost).part)
     IN  IF follows = "bad" THEN ReadFails
         ELSE host' = [host EXCEPT !.reading = follows] /\ UNCHANGED toMcu
  /\ toHost' = Tail(toHost)

(* Mutants: any reply will do; the last block is left out.                 *)
AcceptsAny(phase, payload) == TRUE
Accepts(phase, payload) ==
  IF phase = "greeting" THEN payload.magic # "none" ELSE payload.code = Expected[phase]
MoreButLast(offset) == offset + 2 * Block < PaddedSize(file)
More(offset) == offset + Block < PaddedSize(file)

(* The part is known from the status, and looked at after the baud switch. *)
(* Mutant: a part that speaks another protocol is programmed all the same. *)
SpeaksAny(magic) == TRUE
Speaks(magic) == magic # "stc15"

Proceed(payload) ==
  \/ /\ host.phase = "greeting"
     /\ host' = [host EXCEPT !.phase = "handshake", !.reading = "head", !.magic = payload.magic]
     /\ toMcu' = Append(toMcu, Message("handshake"))
  \/ host.phase = "handshake" /\ Send("baudtest", Message("baud test"))
  \/ host.phase = "baudtest" /\ Send("baudswitch", Message("baud switch"))
  \/ /\ host.phase = "baudswitch"
     /\ IF Speaks(host.magic) THEN Send("erase", Message("erase"))
        ELSE End("failed") /\ UNCHANGED toMcu
  \/ host.phase = "erase" /\ Send("write", WriteAt(0))
  \/ host.phase = "write" /\ More(host.offset) /\ Send("write", WriteAt(host.offset + Block))
  \/ host.phase = "write" /\ ~More(host.offset) /\ Send("finish", Message("finish"))
  \/ /\ host.phase = "finish"
     /\ End("done")
     /\ toMcu' = Append(toMcu, Message("reset"))

(* After the baud switch the port is opened anew: what was read and not    *)
(* used is gone.                                                           *)
Left == IF host.phase = "baudswitch" /\ transport = "serial" THEN <<>> ELSE Tail(toHost)

ReadRest ==
  /\ toHost # <<>> /\ host.reading = "rest"
  /\ IF Head(toHost).part = "rest"
     THEN IF Accepts(host.phase, Head(toHost))
          THEN Proceed(Head(toHost))
          ELSE End("failed") /\ UNCHANGED toMcu
     ELSE ReadFails
  /\ toHost' = Left

HostStep == /\ Pulse \/ GiveUp \/ Timeout \/ ReadFraming \/ ReadRest
            /\ UNCHANGED <<file, transport, mcu, faults, doubt>>

-----------------------------------------------------------------------------
(* The line.  A pulse or a start byte garbled is one lost; of the rest of  *)
(* a command, what the boot ROM makes of it is one command, or none.       *)
Command == {"handshake", "baud test", "baud switch", "erase", "finish", "reset"}
Damaged == {Message(command) : command \in Command} \cup Stray
Reach(message) == {a \in Address : a - message.offset \in DOMAIN message.chunk}

LoseToMcu == /\ \E i \in DOMAIN toMcu : toMcu' = RemoveAt(toMcu, i)
             /\ UNCHANGED <<toHost, doubt>>
GarbleToMcu == /\ \E i \in DOMAIN toMcu, message \in Damaged :
                    /\ toMcu[i].command # "pulse"
                    /\ toMcu' = [toMcu EXCEPT ![i] = message]
                    /\ doubt' = doubt \cup Reach(toMcu[i]) \cup Reach(message)
               /\ UNCHANGED toHost
LoseToHost == /\ \E i \in DOMAIN toHost : toHost' = RemoveAt(toHost, i)
              /\ UNCHANGED <<toMcu, doubt>>
GarbleToHost == /\ \E i \in DOMAIN toHost :
                     toHost' = [toHost EXCEPT ![i] = Byte("noise")]
                /\ UNCHANGED <<toMcu, doubt>>

Line == /\ faults < MaxFaults
        /\ LoseToMcu \/ GarbleToMcu \/ LoseToHost \/ GarbleToHost
        /\ faults' = faults + 1
        /\ UNCHANGED <<file, transport, host, mcu>>

Next == HostStep \/ McuStep \/ Line

(* The host's script runs on; the boot ROM and the line may take for ever. *)
Spec == Init /\ [][Next]_vars /\ WF_vars(HostStep)

-----------------------------------------------------------------------------
(* When the programmer reports success, every byte of the file is in the   *)
(* flash at its address and the rest of it is erased, whatever the line    *)
(* lost, garbled or held back, but at the addresses a garbled write was    *)
(* for or went to: the boot ROM checks nothing, so its reply tells nothing *)
(* of them.  A garbled command costs no other address, and a part whose    *)
(* boot ROM speaks another protocol keeps what it had.  The file starts at *)
(* 0, since flashStc12 drops parseIntelHex's lowest address, and fits the  *)
(* part, since it does not look.                                           *)
Unharmed == mcu.flash = [a \in Address |-> Erased - 1]
FlashedIsImage ==
  /\ host.phase = "done" /\ Lowest(file) = 0 /\ Written(file) \subseteq Address =>
       \A a \in Address \ doubt :
         mcu.flash[a] = IF a \in Written(file) THEN ValueAt(file, a) ELSE Erased
  /\ mcu.magic = "stc15" => Unharmed

(* Over reads that time out the programmer comes to an end, however silent *)
(* the boot ROM or lossy the line.                                         *)
EndsWhenTimed == transport = "timed" ~> host.phase \in {"done", "failed"}
=============================================================================
