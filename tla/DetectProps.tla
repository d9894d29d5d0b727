----------------------------- MODULE DetectProps -----------------------------
(***************************************************************************)
(* What the search for the device promises.                                *)
(***************************************************************************)
EXTENDS Detect

\* A device that is heard on the input, identifies as the configuration, and
\* hears the output.
Answers(d, out) == /\ Dev(d).in \in ins /\ Dev(d).config = config
                   /\ out \in Dev(d).outs

\* What is found is one device, where replies come in time: it is heard on the
\* input, hears the output, is of the configuration, and its channel is the one
\* found, or the one that was asked for.  However late replies come, the input
\* and the configuration are those of a device: only the output is told by the
\* time of the reply.
FoundIsRight ==
    /\ phase \in {"output", "channel", "found"} =>
           \E d \in Devices : Dev(d).in \in ins /\ Dev(d).config = config
    /\ punctual /\ phase = "found" =>
           \E d \in Devices :
               /\ Answers(d, outs[1])
               /\ This.channel = NoChannel => channel = Dev(d).channel
               /\ This.channel # NoChannel => channel = This.channel
               /\ job.type = "test" => channel \in {All, Dev(d).channel}

\* The binary search does not pass the device by: from the first half on,
\* one of those not yet ruled out reaches it.
SearchKeepsDevice ==
    punctual /\ phase \in {"output", "channel", "found"} =>
        \E d \in Devices : \E i \in chunk * Slice + 1 .. Len(outs) : Answers(d, outs[i])

\* The only device, of a known kind, on one output of an attempt that listed it
\* and repeats its probes as often as the device ignores them.
Attached(d) ==
    /\ bench.broken = {} /\ bench.shut = {} /\ punctual /\ job.type = "auto"
    /\ \A e \in Devices \ {d} : Dev(e).outs = {}
    /\ Dev(d).config \in Configs /\ Cardinality(Dev(d).outs) = 1
    /\ \E n \in DOMAIN job.attempts :
           /\ Dev(d).in \in job.attempts[n].ins
           /\ \E i \in DOMAIN Opened(job.attempts[n].listing) :
                  Opened(job.attempts[n].listing)[i] \in Dev(d).outs
           /\ Dev(d).deaf <= job.attempts[n].retry

\* It is found.
AttachedIsFound == (\E d \in Devices : Attached(d)) ~> phase = "found"

\* The search ends, when no port fails to send.
SearchEnds == bench.broken = {} ~> phase \in {"found", "failed"}

=============================================================================
