------------------------------ MODULE Handlers ------------------------------
(***************************************************************************)
(* What a sketch shares with interrupt handlers of the core and libraries: *)
(* the external interrupts and SPI, the registers of the pins, the uDSC    *)
(* coprocessor, and the pin-change vectors, which two libraries define     *)
(* (arduino_ext.cpp, SoftwareSerial.cpp), so that a sketch links one of    *)
(* them.  The parts share no state: each behaviour shows the steps of one. *)
(***************************************************************************)
EXTENDS Masks, PinChange, SoftSerial, Pins, Dsp

VARIABLE linked   \* the part whose steps this behaviour shows

handlerVars == <<linked, maskVars, pinVars, softVars, levelVars, dspVars>>

HandlersInit ==
    /\ linked \in {"interrupts", "pinChange", "softwareSerial", "pins", "dsp"}
    /\ MaskInit /\ PinInit /\ SoftInit /\ LevelInit /\ DspInit

HandlersNext ==
    /\ UNCHANGED linked
    /\ \/ linked = "interrupts" /\ MaskNext /\ UNCHANGED <<pinVars, softVars, levelVars, dspVars>>
       \/ linked = "pinChange" /\ PinNext /\ UNCHANGED <<maskVars, softVars, levelVars, dspVars>>
       \/ linked = "softwareSerial" /\ SoftNext /\ UNCHANGED <<maskVars, pinVars, levelVars, dspVars>>
       \/ linked = "pins" /\ LevelNext /\ UNCHANGED <<maskVars, pinVars, softVars, dspVars>>
       \/ linked = "dsp" /\ DspNext /\ UNCHANGED <<maskVars, pinVars, softVars, levelVars>>

HandlersSpec == HandlersInit /\ [][HandlersNext]_handlerVars
=============================================================================
