------------------------------- MODULE Detect -------------------------------
(***************************************************************************)
(* Finding the device: autodetect_with_ports() inquires all outputs at     *)
(* once to find the input, halves the outputs until one is left, and       *)
(* inquires every MIDI channel; autodetect() and run_autodetect() give it  *)
(* the MIDI ports, then each USB device; test_with_ports() inquires one    *)
(* pair of ports.                                                          *)
(*                                                                         *)
(* The bench is what is attached: the devices, the input each is heard on, *)
(* the outputs it hears, its channel, what its reply identifies it as, and *)
(* how many inquiries it ignores at first.  A reply travels, is queued by  *)
(* its input port, and is read when a probe reads that port; the queue     *)
(* outlives the probe.                                                     *)
(***************************************************************************)
EXTENDS Integers, Sequences, FiniteSets

CONSTANTS
    Configs,        \* the known configurations
    Unknown, Junk,  \* a device nobody knows; a broken driver's bytes
    Own,            \* a port of the program itself, in a listing
    Channels, All,  \* the MIDI channels; Channel::all()
    NoChannel, NoPort,
    Benches,        \* what may be attached
    Jobs,           \* what is asked for
    Punctual,       \* TRUE: every reply comes before the end of its probe
    MaxReplies      \* bound: replies of one device that wait

ASSUME DetectAssumption ==
    /\ All \notin Channels /\ NoChannel \notin Channels \cup {All}
    /\ {Unknown, Junk} \cap Configs = {}
    /\ Punctual \subseteq BOOLEAN /\ MaxReplies \in Nat \ {0}

\* A device that is slow to wake is on USB, and has its port for itself.
ASSUME BenchAssumption ==
    \A b \in Benches : \A d, e \in DOMAIN b.devices :
        /\ b.devices[d].deaf \in Nat
        /\ d # e /\ b.devices[d].in = b.devices[e].in => b.devices[d].deaf = 0

\* A list of attempts, each with a listing of outputs; a test is of one output
\* and says the channel.
ASSUME JobAssumption ==
    \A j \in Jobs :
        /\ Len(j.attempts) \in Nat \ {0} /\ DOMAIN j.attempts = 1 .. Len(j.attempts)
        /\ \A n \in DOMAIN j.attempts :
              LET listing == j.attempts[n].listing
              IN /\ Len(listing) \in Nat /\ DOMAIN listing = 1 .. Len(listing)
                 /\ j.type = "test" => Len(listing) = 1 /\ j.attempts[n].channel # NoChannel

VARIABLES
    bench, job, punctual,   \* fixed
    attempt,    \* the ports of job.attempts that are tried
    phase,      \* "open", "input", "output", "channel", "test", "found", "failed"
    ins, outs,  \* the input ports read, the output ports that remain
    chunk,      \* the part of outs that is probed, from 0
    retries,    \* probes without a reply that are repeated
    probing,    \* the inquiries are sent, their replies awaited
    replied,    \* the replies of this probe: <<input, configuration>>
    error,      \* bytes of a broken driver were read
    config, channel,
    deaf, travels, queue    \* of the devices, and of the input ports

jobVars    == <<bench, job, punctual>>
searchVars == <<attempt, phase, ins, outs, chunk, retries, config, channel>>
probeVars  == <<probing, replied, error>>
wireVars   == <<deaf, travels, queue>>
detectVars == <<jobVars, searchVars, probeVars, wireVars>>

Devices == DOMAIN bench.devices
Dev(d)  == bench.devices[d]
This    == job.attempts[attempt]
Ports   == DOMAIN queue

-----------------------------------------------------------------------------
(* Opening the ports.                                                      *)

Listed(name) == name # Own
Opens(port)  == port \notin bench.shut

\* The ports that open, of as many as are listed without our own, by their
\* index among all.
Opened(listing) ==
    LET others == {i \in DOMAIN listing : Listed(listing[i])}
        open   == {i \in 1 .. Cardinality(others) : Opens(listing[i])}
        Nth(k) == CHOOSE i \in open : Cardinality({j \in open : j <= i}) = k
    IN [k \in 1 .. Cardinality(open) |-> listing[Nth(k)]]

\* The ports of this attempt are given up; what their queues hold is lost.
Fails ==
    /\ phase' = IF attempt = Len(job.attempts) THEN "failed" ELSE "open"
    /\ attempt' = IF attempt = Len(job.attempts) THEN attempt ELSE attempt + 1
    /\ queue' = [p \in Ports |-> <<>>]
    /\ ins' = {} /\ outs' = <<>> /\ chunk' = 0 /\ retries' = 0
    /\ probing' = FALSE /\ replied' = <<>> /\ error' = FALSE
    /\ config' = Unknown /\ channel' = NoChannel
    /\ UNCHANGED <<jobVars, deaf, travels>>

\* Mutant: a probe without a reply is never repeated.
OpenPortsNoRetry ==
    /\ phase = "open"
    /\ LET in  == {p \in This.ins : Opens(p)}
           out == Opened(This.listing)
       IN IF in = {} \/ out = <<>>
          THEN Fails
          ELSE /\ ins' = in /\ outs' = out
               /\ phase' = IF job.type = "test" THEN "test" ELSE "input"
               /\ retries' = 0
               /\ UNCHANGED <<jobVars, probeVars, wireVars, attempt, chunk, config, channel>>

OpenPorts ==
    /\ phase = "open"
    /\ LET in  == {p \in This.ins : Opens(p)}
           out == Opened(This.listing)
       IN IF in = {} \/ out = <<>>
          THEN Fails
          ELSE /\ ins' = in /\ outs' = out
               /\ phase' = IF job.type = "test" THEN "test" ELSE "input"
               /\ retries' = This.retry
               /\ UNCHANGED <<jobVars, probeVars, wireVars, attempt, chunk, config, channel>>

-----------------------------------------------------------------------------
(* A probe: detect_with_channel(), detect_channel().                       *)

Smaller(a, b) == IF a < b THEN a ELSE b

\* The outputs that are inquired: all of them, or one half of them.
Slice == (Len(outs) + 1) \div 2
Probed == IF phase = "output"
          THEN SubSeq(outs, chunk * Slice + 1, Smaller((chunk + 1) * Slice, Len(outs)))
          ELSE outs

\* The channels that are inquired.
Inquired == IF phase = "channel" THEN Channels \cup {All}
            ELSE IF phase = "test" THEN {This.channel} ELSE {All}

\* The inquiries a device hears, of those sent to the first n ports.
Hears(d, n) ==
    Cardinality({i \in 1 .. n : Probed[i] \in Dev(d).outs})
        * Cardinality(Inquired \cap {All, Dev(d).channel})

\* They are sent, up to the port that fails.
Sent == Cardinality({n \in DOMAIN Probed : \A i \in 1 .. n : Probed[i] \notin bench.broken})

Queued(d) == LET in == Dev(d).in
             IN IF in \in Ports
                THEN Cardinality({n \in DOMAIN queue[in] : queue[in][n] = d}) ELSE 0

Heard ==
    /\ travels' = [d \in Devices |->
           IF Hears(d, Sent) > deaf[d]
           THEN Smaller(travels[d] + Hears(d, Sent) - deaf[d], MaxReplies - Queued(d))
           ELSE travels[d]]
    /\ deaf' = [d \in Devices |->
           IF Hears(d, Sent) > deaf[d] THEN 0 ELSE deaf[d] - Hears(d, Sent)]

Probe ==
    /\ phase \in {"input", "output", "channel", "test"} /\ ~probing
    /\ Sent = Len(Probed)
    /\ Heard
    /\ probing' = TRUE /\ replied' = <<>> /\ error' = FALSE
    /\ UNCHANGED <<jobVars, searchVars, queue>>

\* A failing send is the end of a test and of the channel's search.
ProbeFails ==
    /\ phase \in {"channel", "test"} /\ ~probing
    /\ Sent < Len(Probed)
    /\ Fails

\* detect() tries anew, at once and for as long as the port fails.
ProbeAgain ==
    /\ phase \in {"input", "output"} /\ ~probing
    /\ Sent < Len(Probed)
    /\ Heard
    /\ UNCHANGED <<jobVars, searchVars, probeVars, queue>>

\* A reply arrives at the input port, open or not.
Arrive(d) ==
    /\ travels[d] > 0
    /\ travels' = [travels EXCEPT ![d] = @ - 1]
    /\ queue' = IF Dev(d).in \in ins
                THEN [queue EXCEPT ![Dev(d).in] = Append(@, d)] ELSE queue
    /\ UNCHANGED <<jobVars, searchVars, probeVars, deaf>>

\* What is read of one port; a device nobody knows is skipped.
Read(p) ==
    /\ probing /\ phase # "channel" /\ queue[p] # <<>>
    /\ LET answer == Dev(Head(queue[p])).config
       IN /\ replied' = IF answer \in Configs THEN Append(replied, <<p, answer>>) ELSE replied
          /\ error' = (error \/ answer = Junk)
    /\ queue' = [queue EXCEPT ![p] = Tail(@)]
    /\ UNCHANGED <<jobVars, searchVars, probing, deaf, travels>>

\* The delay has passed.  A punctual bench has replied by then.
Elapsed ==
    /\ probing
    /\ punctual => /\ \A d \in Devices : travels[d] = 0
                   /\ \A p \in Ports : queue[p] = <<>>

\* Mutant: the retries are not counted.
RetryForever ==
    /\ Elapsed /\ phase \in {"input", "output", "test"}
    /\ replied = <<>> /\ ~error /\ retries > 0
    /\ probing' = FALSE
    /\ UNCHANGED <<jobVars, searchVars, replied, error, wireVars>>

Retry ==
    /\ Elapsed /\ phase \in {"input", "output", "test"}
    /\ replied = <<>> /\ ~error /\ retries > 0
    /\ retries' = retries - 1 /\ probing' = FALSE
    /\ UNCHANGED <<jobVars, attempt, phase, ins, outs, chunk, config, channel, replied,
                   error, wireVars>>

Answered == Elapsed /\ (replied # <<>> \/ error \/ retries = 0)

-----------------------------------------------------------------------------
(* The steps of the search.                                                *)

\* 1. One reply, on the port that is kept.
InputFound ==
    /\ phase = "input" /\ Answered /\ Len(replied) = 1
    /\ ins' = {replied[1][1]} /\ config' = replied[1][2]
    /\ queue' = [p \in Ports |-> IF p = replied[1][1] THEN queue[p] ELSE <<>>]
    /\ phase' = "output" /\ chunk' = 0 /\ retries' = This.retry /\ probing' = FALSE
    /\ UNCHANGED <<jobVars, attempt, outs, channel, replied, error, deaf, travels>>

InputFails == phase = "input" /\ Answered /\ Len(replied) # 1 /\ Fails

Good == \E i \in DOMAIN replied : replied[i][2] = config

\* Mutant: the position of the part is not counted, the first one is kept.
OutputFoundFirst ==
    /\ phase = "output" /\ Answered /\ Good
    /\ outs' = SubSeq(outs, 1, Len(Probed))
    /\ probing' = FALSE /\ chunk' = 0
    /\ IF Len(outs') > 1
       THEN phase' = phase /\ retries' = This.retry /\ UNCHANGED channel
       ELSE IF This.channel = NoChannel
            THEN phase' = "channel" /\ retries' = 0 /\ UNCHANGED channel
            ELSE phase' = "found" /\ retries' = 0 /\ channel' = This.channel
    /\ UNCHANGED <<jobVars, attempt, ins, config, replied, error, wireVars>>

\* 2. A part of the outputs the device replied to: it is searched next.
OutputFound ==
    /\ phase = "output" /\ Answered /\ Good
    /\ outs' = Probed
    /\ probing' = FALSE /\ chunk' = 0
    /\ IF Len(outs') > 1
       THEN phase' = phase /\ retries' = This.retry /\ UNCHANGED channel
       ELSE IF This.channel = NoChannel
            THEN phase' = "channel" /\ retries' = 0 /\ UNCHANGED channel
            ELSE phase' = "found" /\ retries' = 0 /\ channel' = This.channel
    /\ UNCHANGED <<jobVars, attempt, ins, config, replied, error, wireVars>>

LastChunk == (chunk + 1) * Slice >= Len(outs)

OutputNext ==
    /\ phase = "output" /\ Answered /\ ~Good /\ ~LastChunk
    /\ chunk' = chunk + 1 /\ retries' = This.retry /\ probing' = FALSE
    /\ UNCHANGED <<jobVars, attempt, phase, ins, outs, config, channel, replied, error,
                   wireVars>>

OutputFails == phase = "output" /\ Answered /\ ~Good /\ LastChunk /\ Fails

\* Mutant: a device nobody knows tells the channel.
ChannelReadAny(p) ==
    /\ probing /\ phase = "channel" /\ queue[p] # <<>>
    /\ phase' = "found" /\ channel' = Dev(Head(queue[p])).channel /\ probing' = FALSE
    /\ queue' = [queue EXCEPT ![p] = Tail(@)]
    /\ UNCHANGED <<jobVars, attempt, ins, outs, chunk, retries, config, replied, error,
                   deaf, travels>>

\* 3. The channel of the first reply of a known device.
ChannelRead(p) ==
    /\ probing /\ phase = "channel" /\ queue[p] # <<>>
    /\ LET d == Head(queue[p])
       IN IF Dev(d).config \in Configs
          THEN phase' = "found" /\ channel' = Dev(d).channel /\ probing' = FALSE
          ELSE UNCHANGED <<phase, channel, probing>>
    /\ queue' = [queue EXCEPT ![p] = Tail(@)]
    /\ UNCHANGED <<jobVars, attempt, ins, outs, chunk, retries, config, replied, error,
                   deaf, travels>>

ChannelFails == phase = "channel" /\ Elapsed /\ Fails

\* The test: the first reply counts.
Passed == replied # <<>> /\ replied[1][2] = job.config

TestPasses ==
    /\ phase = "test" /\ Answered /\ Passed
    /\ phase' = "found" /\ probing' = FALSE
    /\ config' = job.config /\ channel' = This.channel
    /\ UNCHANGED <<jobVars, attempt, ins, outs, chunk, retries, replied, error, wireVars>>

TestFails == phase = "test" /\ Answered /\ ~Passed /\ Fails

-----------------------------------------------------------------------------
Init ==
    /\ bench \in Benches /\ job \in Jobs /\ punctual \in Punctual
    /\ attempt = 1 /\ phase = "open"
    /\ ins = {} /\ outs = <<>> /\ chunk = 0 /\ retries = 0
    /\ probing = FALSE /\ replied = <<>> /\ error = FALSE
    /\ config = Unknown /\ channel = NoChannel
    /\ deaf = [d \in Devices |-> Dev(d).deaf] /\ travels = [d \in Devices |-> 0]
    /\ queue = [p \in UNION {job.attempts[n].ins : n \in DOMAIN job.attempts} |-> <<>>]

Steps == OpenPorts \/ Probe \/ ProbeFails \/ ProbeAgain \/ Retry
         \/ InputFound \/ InputFails \/ OutputFound \/ OutputNext \/ OutputFails
         \/ ChannelFails \/ TestPasses \/ TestFails
Reads == \E p \in Ports : Read(p) \/ ChannelRead(p)
Next  == Steps \/ Reads \/ \E d \in Devices : Arrive(d)

\* The task is scheduled, and what is sent arrives; a port with replies is
\* read before the delay has passed again and again.
Fairness == /\ WF_detectVars(Steps) /\ WF_detectVars(Reads)
            /\ WF_detectVars(\E d \in Devices : Arrive(d))

Spec     == Init /\ [][Next]_detectVars
FairSpec == Spec /\ Fairness
=============================================================================
