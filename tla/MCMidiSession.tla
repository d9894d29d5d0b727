--------------------------- MODULE MCMidiSession ---------------------------
EXTENDS MidiSessionProps

\* The first configuration, and the device's.
CONSTANTS pod, pocket

MCConfigs == {pod, pocket}
MCQuirky  == {pocket}
BothLines == {"midi", "usb"}
BothUsers == {"patient", "hasty"}
=============================================================================
