------------------------------ MODULE WireProps ------------------------------
(***************************************************************************)
(* What a sketch may rely on when it talks through Wire.                   *)
(***************************************************************************)
EXTENDS Wire

\* endTransmission() == 0 means the device acknowledged exactly the bytes that
\* write() accepted since beginTransmission(), in that order.
SentAsWritten == at = "tx" /\ InSketch /\ op = "W" /\ ret = 0 => wire = <<SlaW>> \o said

\* The check of write() before it stores a byte ("don't bother if buffer is
\* full") lets it through only if txBufferIndex is inside the buffer.
RoomMeansSlot == at = "idle" /\ transmitting /\ RoomToWrite => txBufferIndex < BUF

\* What requestFrom() announced and the sketch has not read yet are the bytes
\* the device sent: "don't bother if rx buffer is in use by a master
\* requestFrom() op" keeps another master's message out of it.
RequestStands ==
    owner = "request" /\ at # "rx" =>
       \A x \in rxBufferIndex .. rxBufferLength - 1 : in[x] = -(x + 1)

\* A message stays in rxBuffer, whatever arrives, until it is read: the bytes
\* between index and length change only by a call of the sketch ("they may not
\* have read all the master requestFrom() data yet").
UnreadKept ==
    [][at' = at /\ rxBufferIndex < rxBufferLength /\ rxBufferLength' > 0 =>
          /\ UNCHANGED wire_rx
          /\ \A x \in rxBufferIndex .. rxBufferLength - 1 : in'[x] = in[x]]_allVars

\* The first byte another master reads is the first the request callback wrote
\* ("in slave send mode", "reply to master").
ReplyReachesMaster ==
    link = "st" /\ state = STX /\ ~twint /\ status \in {"ST_SLA_ACK", "ST_ARB_LOST_SLA_ACK"} /\ reply > 0 =>
       twdr = 1

\* Each side gets what the other one sent: the sketch reads the device's bytes, another
\* master those of the request callback.
RepliesTrue == RequestStands /\ ReplyReachesMaster
=============================================================================
