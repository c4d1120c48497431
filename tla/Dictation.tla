----------------------------- MODULE Dictation -----------------------------
(***************************************************************************)
(* The dictation controller of the Ask and Chat pages: microphone          *)
(* permission, recording, transcription and their cancellation.  A start   *)
(* stands for its recordingGeneration; events of earlier starts may arrive *)
(* at any later time.                                                      *)
(***************************************************************************)
EXTENDS Naturals, FiniteSets

CONSTANT MaxStarts      \* bound: recordings begun

StartsAssumption == MaxStarts \in Nat

Starts == 1 .. MaxStarts

VARIABLES
    started,        \* starts so far
    generation,     \* the start recordingGeneration stands for, 0 after a cancel
    state,          \* the published state
    asking,         \* starts waiting for the microphone
    live,           \* starts whose microphone tracks are on
    stream,         \* mediaStream, 0 for null
    recorder,       \* mediaRecorder, 0 for null
    option,         \* mediaRecorderOption # null
    recording,      \* the recorders in state "recording"
    stopping,       \* recorders whose stop event has not been handled
    chunks,         \* the starts whose audio mediaRecorderChunks holds
    clock,          \* the timer that ends a recording
    sending,        \* transcriptions under way: start, audio and aborted
    controller,     \* transcriptionAbortController, 0 for null
    draft           \* the starts whose audio is in the draft

vars == <<started, generation, state, asking, live, stream, recorder, option, recording, stopping,
          chunks, clock, sending, controller, draft>>
device == <<live, stream, recorder, option, recording, stopping, chunks, clock>>
request == <<sending, controller>>

Init ==
    /\ started = 0 /\ generation = 0 /\ state = "idle" /\ asking = {} /\ live = {}
    /\ stream = 0 /\ recorder = 0 /\ option = FALSE /\ recording = {} /\ stopping = {} /\ chunks = {}
    /\ clock = FALSE /\ sending = {} /\ controller = 0 /\ draft = {}
-----------------------------------------------------------------------------
\* A recorder whose tracks all end stops by itself.
Ends(tracks) == recording \ tracks

\* releaseMediaStream, for whichever stream is held.
LiveKept == live
ReleasedStream == live \ {stream}

Aborted == {IF t.start = controller THEN [t EXCEPT !.aborted = TRUE] ELSE t : t \in sending}

\* resetResources: the transcription, the clock, the recorder and the stream.
ResetResources ==
    /\ sending' = Aborted /\ controller' = 0 /\ clock' = FALSE
    /\ recording' = recording \ {recorder}
    /\ stopping' = stopping \cup (recording \cap {recorder})
    /\ recorder' = 0 /\ chunks' = {} /\ option' = FALSE
    /\ live' = ReleasedStream /\ stream' = 0

\* cancel, also called by destroy and when speech input is switched off.
Cancel ==
    /\ ResetResources /\ generation' = 0 /\ state' = "idle"
    /\ UNCHANGED <<started, asking, draft>>

\* start cancels what is under way and waits for the microphone.
Start ==
    /\ started < MaxStarts /\ started' = started + 1
    /\ ResetResources /\ draft' = {}
    /\ generation' = started + 1 /\ state' = "requesting" /\ asking' = asking \cup {started + 1}

\* getUserMedia resolves.
GrantedLate(s) ==
    /\ s \in asking /\ asking' = asking \ {s}
    /\ live' = live \cup {s} /\ stream' = s
    /\ recorder' = s /\ option' = TRUE /\ chunks' = {} /\ recording' = recording \cup {s}
    /\ clock' = TRUE /\ state' = "recording" /\ stopping' = stopping
    /\ UNCHANGED <<started, generation, request, draft>>
Granted(s) ==
    /\ s \in asking /\ asking' = asking \ {s}
    /\ IF generation # s THEN UNCHANGED <<device, state>>
       ELSE /\ live' = live \cup {s} /\ stream' = s
            /\ recorder' = s /\ option' = TRUE /\ chunks' = {} /\ recording' = recording \cup {s}
            /\ clock' = TRUE /\ state' = "recording" /\ stopping' = stopping
    /\ UNCHANGED <<started, generation, request, draft>>

\* It rejects, or the recorder cannot be made: whichever stream is held is
\* released and the error is published without a look at the generation.
DeniedState(s) ==
    /\ s \in asking /\ asking' = asking \ {s}
    /\ live' = ReleasedStream /\ stream' = 0 /\ state' = "denied"
    /\ recording' = Ends({stream}) /\ stopping' = stopping \cup (recording \cap {stream})
    /\ UNCHANGED <<started, generation, recorder, option, chunks, clock, request, draft>>
Denied(s) ==
    /\ s \in asking /\ asking' = asking \ {s}
    /\ live' = ReleasedStream /\ stream' = 0 /\ state' = "error"
    /\ recording' = Ends({stream}) /\ stopping' = stopping \cup (recording \cap {stream})
    /\ UNCHANGED <<started, generation, recorder, option, chunks, clock, request, draft>>

\* dataavailable: audio of any recorder that is still running or was just
\* stopped goes to the current list.
DataAvailable(s) ==
    /\ s \in recording \cup stopping /\ chunks' = chunks \cup {s}
    /\ UNCHANGED <<started, generation, state, asking, live, stream, recorder, option, recording,
                   stopping, clock, request, draft>>

\* stop, by the user or by the clock.
Stop ==
    /\ recorder \in recording
    /\ clock' = FALSE /\ state' = "transcribing"
    /\ recording' = recording \ {recorder} /\ stopping' = stopping \cup {recorder}
    /\ UNCHANGED <<started, generation, asking, live, stream, recorder, option, chunks, request, draft>>

\* The stop event: the devices are let go before the generation is compared.
Transcribe(s) ==
    /\ s \in stopping
    /\ clock' = FALSE /\ live' = ReleasedStream /\ stream' = 0
    /\ recorder' = 0 /\ chunks' = {} /\ option' = FALSE
    /\ recording' = Ends({stream})
    /\ stopping' = (stopping \ {s}) \cup (recording \cap {stream})
    /\ IF generation # s \/ ~option THEN UNCHANGED request
       ELSE /\ sending' = sending \cup {[start |-> s, audio |-> chunks, aborted |-> FALSE]}
            /\ controller' = s
    /\ UNCHANGED <<started, generation, state, asking, draft>>

Over(t) == sending' = sending \ {t} /\ controller' = IF controller = t.start THEN 0 ELSE controller
AnyTranscript(t) == TRUE
Wanted(t) == ~t.aborted /\ generation = t.start

Transcribed(t) ==
    /\ t \in sending /\ Over(t)
    /\ IF Wanted(t) THEN draft' = t.audio /\ state' = "idle" ELSE UNCHANGED <<draft, state>>
    /\ UNCHANGED <<started, generation, asking, device>>
TranscriptionFails(t) ==
    /\ t \in sending /\ Over(t)
    /\ state' = IF Wanted(t) THEN "error" ELSE state
    /\ UNCHANGED <<started, generation, asking, device, draft>>
-----------------------------------------------------------------------------
Next ==
    \/ Cancel \/ Start \/ Stop
    \/ \E s \in Starts : Granted(s) \/ Denied(s) \/ DataAvailable(s) \/ Transcribe(s)
    \/ \E t \in sending : Transcribed(t) \/ TranscriptionFails(t)

Spec == Init /\ [][Next]_vars
-----------------------------------------------------------------------------
\* The variables hold values of the expected sets.
TypeOK ==
    /\ {started, generation, stream, recorder, controller} \subseteq 0 .. MaxStarts
    /\ state \in {"idle", "requesting", "recording", "transcribing", "error"}
    /\ asking \cup live \cup recording \cup stopping \cup chunks \cup draft \subseteq Starts
    /\ option \in BOOLEAN /\ clock \in BOOLEAN

\* The microphone is never left on: tracks are only live while the page says
\* that it records or transcribes, whatever permission answers, stop events and
\* cancellations arrive late, and no track is live that cancel cannot reach.
MicrophoneIsOff ==
    /\ state \in {"idle", "requesting", "error"} => live = {}
    /\ live \subseteq {stream}

\* The draft never receives a transcript after a cancel or another start, nor
\* from a request that was aborted.
TranscriptIsWanted ==
    \A t \in sending : draft' # draft /\ t \notin sending' /\ sending # sending'
      => generation = t.start /\ ~t.aborted

\* No recording goes on without a limit: whatever records has its microphone
\* and is the recorder that the running clock stops.
RecordingIsLimited == recording # {} => clock /\ recording = {recorder} /\ recording = live
=============================================================================
