------------------------------- MODULE Waits --------------------------------
(***************************************************************************)
(* What a sketch waits for: the clock of Timer0, a finite tone of Timer2,  *)
(* the bytes of an SPI transfer, those of a stream and the strings that    *)
(* they are gathered in, and a pulse on a pin.  The parts share no state:  *)
(* each behaviour shows the steps of one.                                  *)
(***************************************************************************)
EXTENDS Timer0, Tone, SpiFifo, TextStream, WString, PulseIn

CONSTANT Parts   \* those that a behaviour may show

VARIABLE awaited   \* the part whose steps this behaviour shows

waitVars == <<awaited, clockVars, toneVars, fifoVars, streamVars, stringVars, pulseVars>>

WaitsInit ==
    /\ awaited \in Parts
    /\ ClockInit /\ ToneInit /\ FifoInit /\ StreamInit /\ StringInit /\ PulseInit

WaitsNext ==
    /\ UNCHANGED awaited
    /\ \/ awaited = "clock" /\ ClockNext
          /\ UNCHANGED <<toneVars, fifoVars, streamVars, stringVars, pulseVars>>
       \/ awaited = "tone" /\ ToneNext
          /\ UNCHANGED <<clockVars, fifoVars, streamVars, stringVars, pulseVars>>
       \/ awaited = "transfer" /\ FifoNext
          /\ UNCHANGED <<clockVars, toneVars, streamVars, stringVars, pulseVars>>
       \/ awaited = "stream" /\ StreamNext
          /\ UNCHANGED <<clockVars, toneVars, fifoVars, stringVars, pulseVars>>
       \/ awaited = "string" /\ StringNext
          /\ UNCHANGED <<clockVars, toneVars, fifoVars, streamVars, pulseVars>>
       \/ awaited = "pulse" /\ PulseNext
          /\ UNCHANGED <<clockVars, toneVars, fifoVars, streamVars, stringVars>>

Awaits(part) == awaited = part

\* The hardware runs on, and a sketch in a call runs on.
WaitsSpec ==
    /\ WaitsInit /\ [][WaitsNext]_waitVars
    /\ WF_clockVars(Awaits("clock") /\ Tick) /\ WF_clockVars(Awaits("clock") /\ InCall)
    /\ SF_clockVars(Awaits("clock") /\ TIMER0_OVF)
    /\ WF_toneVars(Awaits("tone") /\ InTone) /\ WF_toneVars(Awaits("tone") /\ (ToggleOutput \/ EndTone))
    /\ WF_fifoVars(Awaits("transfer") /\ InTransfer) /\ WF_fifoVars(Awaits("transfer") /\ Shift)
    /\ WF_streamVars(Awaits("stream") /\ InStream) /\ WF_streamVars(Awaits("stream") /\ TickStream)
    /\ WF_pulseVars(Awaits("pulse") /\ InPulse) /\ WF_pulseVars(Awaits("pulse") /\ TickPin)
=============================================================================
