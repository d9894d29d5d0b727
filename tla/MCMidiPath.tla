----------------------------- MODULE MCMidiPath -----------------------------
EXTENDS MidiPathProps

M(type, args) == Message(type, args)

MCIncoming == {
    M("UniversalDeviceInquiryResponse", <<127, 1, 768, <<48, 51, 48, 52>>>>),
    M("ProgramPatchDump", <<127, 0, <<165>>>>),
    M("ProgramEditBufferDump", <<0, <<15>>>>),
    M("AllProgramsDump", <<0, <<0, 165, 255>>>>),
    M("XtInstalledPacks", <<3>>),
    M("XtBufferDump", <<5, <<>>>>), M("XtBufferDump", <<5, <<0, 127>>>>),
    M("XtPatchDump", <<64, 5, <<1>>>>), M("XtPatchDump", <<639, 5, <<>>>>),
    M("XtPatchDumpEnd", <<>>),
    M("XtSaved", <<0>>), M("XtSaved", <<639>>),
    M("XtStoreStatus", <<TRUE>>), M("XtStoreStatus", <<FALSE>>),
    M("XtTunerNote", <<65535>>), M("XtTunerOffset", <<4660>>),
    M("XtProgramNumber", <<255>>),
    M("XtProgramEditState", <<TRUE>>), M("XtProgramEditState", <<FALSE>>) }

\* A PODxt's commands say channel 2, which its framer corrects to 0.
MCChanges == { M("ControlChange", <<0, 64, 127>>), M("ProgramChange", <<0, 32>>) }

MCOutgoing == MCChanges \cup {
    M("UniversalDeviceInquiry", <<127>>),
    M("ProgramPatchDumpRequest", <<7>>), M("ProgramEditBufferDumpRequest", <<>>),
    M("ProgramEditBufferDump", <<0, <<15>>>>),
    M("AllProgramsDumpRequest", <<>>), M("XtInstalledPacksRequest", <<>>),
    M("XtEditBufferDumpRequest", <<>>), M("XtPatchDumpRequest", <<319>>),
    M("XtPatchDumpRequest", <<63>>), M("XtTunerNoteRequest", <<>>),
    M("XtTunerOffsetRequest", <<>>), M("XtProgramNumberRequest", <<>>),
    M("XtProgramEditStateRequest", <<>>) }

MCBoth == MCIncoming \cup MCChanges
=============================================================================
