----------------------------- MODULE DetectProofs -----------------------------
(***************************************************************************)
(* Detect for every bench and every job: whatever is found is one device,  *)
(* and the binary search keeps it, however many devices and ports there    *)
(* are and whatever the others reply.                                      *)
(***************************************************************************)
EXTENDS DetectProps, FiniteSetTheorems, SequenceTheorems, TLAPS

IsSeq(s) == \E S : s \in Seq(S)

\* The types the arguments need.
TypeInv ==
    /\ bench \in Benches /\ job \in Jobs /\ punctual \in BOOLEAN
    /\ attempt \in DOMAIN job.attempts
    /\ phase \in {"open", "input", "output", "channel", "test", "found", "failed"}
    /\ ins \subseteq Ports /\ IsSeq(outs) /\ chunk \in Nat
    /\ replied \in Seq(Ports \X Configs)
    /\ deaf \in [Devices -> Nat] /\ travels \in [Devices -> Int]
    /\ \A d \in Devices : Dev(d).deaf = 0 => deaf[d] = 0
    /\ \A p \in Ports : queue[p] \in Seq(Devices)
    /\ \A n \in DOMAIN job.attempts : job.attempts[n].ins \subseteq Ports
    /\ phase # "output" => chunk = 0
    /\ job.type = "test" => phase \in {"open", "test", "found", "failed"} /\ Len(outs) <= 1
    /\ phase = "test" => job.type = "test"

\* No port is read before it is open, or after the search.
PhaseInv ==
    /\ phase = "open" => ins = {} /\ ~probing
    /\ phase \in {"found", "failed"} => ~probing

\* What waits at an input is of a device heard there, and only open inputs are
\* waited at; so every reply that was read is of a device.
QueueInv ==
    /\ \A p \in Ports : \A k \in DOMAIN queue[p] : Dev(queue[p][k]).in = p
    /\ \A p \in Ports : queue[p] # <<>> => p \in ins /\ phase # "open"

Replier(d, r) == Dev(d).in = r[1] /\ Dev(d).config = r[2]

RepliesInv ==
    probing => \A k \in DOMAIN replied :
        /\ replied[k][1] \in ins
        /\ \E d \in Devices : Replier(d, replied[k])

SourceInv ==
    phase \in {"output", "channel", "found"} =>
        /\ config \in Configs
        /\ \E d \in Devices : Dev(d).in \in ins /\ Dev(d).config = config

\* A device that never ignored anything; one with a reply under way or unread.
Awake(d)    == Dev(d).deaf = 0
Pending(d)  == travels[d] > 0 \/ \E p \in Ports : \E k \in DOMAIN queue[p] : queue[p][k] = d
Clear       == /\ \A d \in Devices : travels[d] = 0
               /\ \A p \in Ports : queue[p] = <<>>
Known(d)    == Dev(d).in \in ins /\ Dev(d).config \in Configs
Probes(d)   == /\ \E i \in DOMAIN Probed : Probed[i] \in Dev(d).outs
               /\ Inquired \cap {All, Dev(d).channel} # {}
Reaches(d)  == \E i \in DOMAIN outs : outs[i] \in Dev(d).outs

\* Where every reply comes in time: between the probes nothing is under way,
\* unless a port fails, which is the last that happens to these ports.
ClearInv ==
    ~probing /\ phase \in {"open", "input", "output", "channel", "test"} =>
        Clear \/ (phase \in {"input", "output"} /\ Sent # Len(Probed))

\* What is under way was caused by this probe.
ProbeInv ==
    probing =>
        /\ \A d \in Devices : Pending(d) => deaf[d] = 0 /\ Probes(d)
        /\ \A k \in DOMAIN replied : \E d \in Devices :
               Replier(d, replied[k]) /\ deaf[d] = 0 /\ Probes(d)

\* Every device that hears the first probe will have replied.
InputInv ==
    probing /\ phase = "input" =>
        /\ \A d \in Devices : Awake(d) /\ Known(d) /\ Probes(d)
               => Pending(d) \/ Len(replied) >= 1
        /\ \A d, e \in Devices :
               d # e /\ Awake(d) /\ Awake(e) /\ Known(d) /\ Known(e) /\ Probes(d) /\ Probes(e)
               => Pending(d) \/ Pending(e) \/ Len(replied) >= 2

\* From then on there is one device it can be, ...
OnlyInv ==
    phase \in {"output", "channel"} =>
        \A d, e \in Devices : Known(d) /\ Known(e) /\ Reaches(d) /\ Reaches(e) => d = e

\* ... it is awake, and reached by an output that is not ruled out.
Target(d) == Known(d) /\ Dev(d).config = config /\ deaf[d] = 0

Heading(d) ==
    /\ Target(d)
    /\ \E i \in chunk * Slice + 1 .. Len(outs) : outs[i] \in Dev(d).outs
    /\ probing /\ Probes(d) => Pending(d) \/ \E k \in DOMAIN replied : replied[k][2] = config

OutputInv  == phase = "output" => \E d \in Devices : Heading(d)

ChannelInv ==
    phase = "channel" =>
        /\ Len(outs) = 1 /\ This.channel = NoChannel
        /\ \E d \in Devices : Target(d) /\ outs[1] \in Dev(d).outs

FoundInv ==
    phase = "found" =>
        /\ Len(outs) = 1
        /\ \E d \in Devices :
               /\ Answers(d, outs[1])
               /\ This.channel = NoChannel => channel = Dev(d).channel
               /\ This.channel # NoChannel => channel = This.channel
               /\ job.type = "test" => channel \in {All, Dev(d).channel}

TimelyInv == /\ ClearInv /\ ProbeInv /\ InputInv /\ OnlyInv
             /\ OutputInv /\ ChannelInv /\ FoundInv

PunctualInv == punctual => TimelyInv

DetectInv == TypeInv /\ PhaseInv /\ QueueInv /\ RepliesInv /\ SourceInv /\ PunctualInv

-----------------------------------------------------------------------------
(* Opening, probing and hearing.                                           *)

\* Some of the numbers up to n are no more than n.
LEMMA SomeOf ==
    ASSUME NEW n \in Nat, NEW T \in SUBSET (1 .. n)
    PROVE  /\ IsFiniteSet(T) /\ Cardinality(T) \in 0 .. n
           /\ Cardinality(T) = 0 <=> T = {}
<1>1. IsFiniteSet(1 .. n) /\ Cardinality(1 .. n) = n
  <2>1. 1 \in Int /\ n \in Int
    OBVIOUS
  <2>2. IsFiniteSet(1 .. n) /\ Cardinality(1 .. n) = IF 1 > n THEN 0 ELSE n - 1 + 1
    BY <2>1, FS_Interval, Zenon
  <2>3. QED
    BY <2>2
<1>2. IsFiniteSet(T) /\ Cardinality(T) <= n
  BY <1>1, FS_Subset
<1>3. Cardinality(T) \in Nat
  BY <1>2, FS_CardinalityType
<1>4. Cardinality(T) = 0 <=> T = {}
  BY <1>2, FS_EmptySet
<1>5. QED
  BY <1>2, <1>3, <1>4

\* What opens is a sequence, and one output at most for a test.
LEMMA OpenedType ==
    ASSUME NEW listing, Len(listing) \in Nat, DOMAIN listing = 1 .. Len(listing)
    PROVE  /\ IsSeq(Opened(listing))
           /\ Len(listing) = 1 => Len(Opened(listing)) <= 1
<1> DEFINE others == {i \in DOMAIN listing : Listed(listing[i])}
           open   == {i \in 1 .. Cardinality(others) : Opens(listing[i])}
           Nth(k) == CHOOSE i \in open : Cardinality({j \in open : j <= i}) = k
           n      == Cardinality(open)
           Port(k) == listing[Nth(k)]
           out    == [k \in 1 .. n |-> Port(k)]
<1>1. Cardinality(others) \in 0 .. Len(listing)
  <2>1. others \subseteq 1 .. Len(listing)
    OBVIOUS
  <2>2. QED
    BY <2>1, SomeOf
<1>2. n \in 0 .. Cardinality(others)
  <2> DEFINE m == Cardinality(others)
  <2>1. m \in Nat /\ open \subseteq 1 .. m
    BY <1>1
  <2> HIDE DEF open, m
  <2>2. QED
    BY <2>1, SomeOf DEF m
<1>3. out = Opened(listing)
  BY DEF Opened
<1>4. n \in Nat /\ n <= Len(listing)
  BY <1>1, <1>2
<1> HIDE DEF n, Port
<1>5. out \in Seq({Port(k) : k \in 1 .. n}) /\ Len(out) = n
  BY <1>4
<1> HIDE DEF out
<1>6. QED
  BY <1>3, <1>4, <1>5 DEF IsSeq

\* A part of a sequence.
LEMMA PartType ==
    ASSUME NEW s, IsSeq(s), NEW m \in Nat \ {0}, NEW n \in Nat, n <= Len(s)
    PROVE  /\ IsSeq(SubSeq(s, m, n))
           /\ Len(SubSeq(s, m, n)) = IF m <= n THEN n - m + 1 ELSE 0
           /\ \A i \in 1 .. Len(SubSeq(s, m, n)) :
                 m + i - 1 \in 1 .. Len(s) /\ SubSeq(s, m, n)[i] = s[m + i - 1]
  BY DEF IsSeq

LEMMA SeqType ==
    ASSUME NEW s, IsSeq(s)
    PROVE  Len(s) \in Nat /\ DOMAIN s = 1 .. Len(s)
  BY DEF IsSeq

LEMMA NoneOf == ASSUME NEW n \in Nat PROVE 0 * n + 1 = 1
  OBVIOUS

\* The outputs that are probed are those from one index to another.
From  == IF phase = "output" THEN chunk * Slice ELSE 0
UpTo  == IF phase = "output" THEN Smaller((chunk + 1) * Slice, Len(outs)) ELSE Len(outs)

LEMMA Bounds ==
    ASSUME IsSeq(outs), chunk \in Nat
    PROVE  /\ Slice \in Nat /\ Slice <= Len(outs)
           /\ chunk * Slice \in Nat /\ (chunk + 1) * Slice = chunk * Slice + Slice
           /\ From \in Nat /\ UpTo \in Nat /\ UpTo <= Len(outs)
<1>1. Len(outs) \in Nat
  BY SeqType
<1>2. Slice \in Nat /\ Slice <= Len(outs)
  BY <1>1 DEF Slice
<1> HIDE DEF Slice
<1>3. chunk * Slice \in Nat /\ (chunk + 1) * Slice = chunk * Slice + Slice
  BY <1>2
<1>4. QED
  BY <1>1, <1>2, <1>3 DEF From, UpTo, Smaller

LEMMA ProbedType ==
    ASSUME IsSeq(outs), chunk \in Nat
    PROVE  /\ IsSeq(Probed)
           /\ Len(Probed) = IF From < UpTo THEN UpTo - From ELSE 0
           /\ \A i \in DOMAIN Probed :
                 From + i \in From + 1 .. UpTo /\ Probed[i] = outs[From + i]
<1>1. CASE phase = "output"
  <2>1. Probed = SubSeq(outs, From + 1, UpTo)
    BY <1>1 DEF Probed, From, UpTo
  <2> DEFINE s == SubSeq(outs, From + 1, UpTo)
  <2>2. From \in Nat /\ UpTo \in Nat /\ UpTo <= Len(outs)
    BY Bounds
  <2>3. From + 1 \in Nat \ {0}
    BY <2>2
  <2>4. /\ IsSeq(s)
        /\ Len(s) = IF From + 1 <= UpTo THEN UpTo - (From + 1) + 1 ELSE 0
        /\ \A i \in 1 .. Len(s) : s[i] = outs[From + 1 + i - 1]
    BY <2>2, <2>3, PartType
  <2>5. DOMAIN s = 1 .. Len(s)
    BY <2>4, SeqType
  <2> HIDE DEF s
  <2>6. QED
    BY <2>1, <2>2, <2>4, <2>5 DEF s
<1>2. CASE phase # "output"
  BY <1>2, SeqType DEF Probed, From, UpTo
<1>3. QED
  BY <1>1, <1>2

\* Some probed output is one of S.
LEMMA ProbedIn ==
    ASSUME IsSeq(outs), chunk \in Nat, NEW S
    PROVE  (\E i \in DOMAIN Probed : Probed[i] \in S)
           <=> (\E i \in From + 1 .. UpTo : outs[i] \in S)
<1>1. /\ DOMAIN Probed = 1 .. Len(Probed)
      /\ Len(Probed) = IF From < UpTo THEN UpTo - From ELSE 0
      /\ \A i \in DOMAIN Probed :
            From + i \in From + 1 .. UpTo /\ Probed[i] = outs[From + i]
  BY ProbedType, SeqType
<1>2. From \in Nat /\ UpTo \in Nat
  BY Bounds
<1>3. ASSUME NEW i \in From + 1 .. UpTo
      PROVE  i - From \in DOMAIN Probed /\ Probed[i - From] = outs[i]
  BY <1>1, <1>2
<1>4. QED
  BY <1>1, <1>3

-----------------------------------------------------------------------------
\* Inquiries are heard if the device hears one of the outputs, and its channel.
LEMMA HearsType ==
    ASSUME NEW d, NEW n \in Nat
    PROVE  /\ Hears(d, n) \in Nat
           /\ Hears(d, n) = 0 <=> \/ ~ \E i \in 1 .. n : Probed[i] \in Dev(d).outs
                                  \/ Inquired \cap {All, Dev(d).channel} = {}
<1> DEFINE I == {i \in 1 .. n : Probed[i] \in Dev(d).outs}
           C == Inquired \cap {All, Dev(d).channel}
           a == Cardinality(I)
           b == Cardinality(C)
<1>1. a \in Nat /\ (a = 0 <=> I = {})
  <2>1. I \in SUBSET (1 .. n)
    OBVIOUS
  <2>2. QED
    BY <2>1, SomeOf
<1>2. b \in Nat /\ (b = 0 <=> C = {})
  <2>1. IsFiniteSet({All, Dev(d).channel})
    <3>1. IsFiniteSet({All} \cup {Dev(d).channel})
      BY FS_Singleton, FS_Union
    <3>2. {All} \cup {Dev(d).channel} = {All, Dev(d).channel}
      OBVIOUS
    <3>3. QED
      BY <3>1, <3>2
  <2>2. C \in SUBSET {All, Dev(d).channel}
    OBVIOUS
  <2>3. IsFiniteSet(C)
    BY <2>1, <2>2, FS_Subset
  <2>4. QED
    BY <2>3, FS_CardinalityType, FS_EmptySet
<1>3. I = {} <=> ~ \E i \in 1 .. n : Probed[i] \in Dev(d).outs
  OBVIOUS
<1>4. Hears(d, n) = a * b
  BY DEF Hears
<1> HIDE DEF a, b
<1>5. a * b \in Nat /\ (a * b = 0 <=> a = 0 \/ b = 0)
  BY <1>1, <1>2
<1>6. QED
  BY <1>1, <1>2, <1>3, <1>4, <1>5

LEMMA SentType == ASSUME IsSeq(outs), chunk \in Nat PROVE Sent \in Nat
<1> DEFINE n == Len(Probed)
           T == {k \in DOMAIN Probed : \A i \in 1 .. k : Probed[i] \notin bench.broken}
<1>1. n \in Nat /\ T \in SUBSET (1 .. n)
  BY ProbedType, SeqType
<1>2. Sent = Cardinality(T)
  BY DEF Sent
<1> HIDE DEF T, n
<1>3. QED
  BY <1>1, <1>2, SomeOf

LEMMA QueuedType ==
    ASSUME TypeInv, NEW d \in Devices
    PROVE  Queued(d) \in Nat /\ (Clear => Queued(d) = 0)
<1> DEFINE p == Dev(d).in
           T == {k \in DOMAIN queue[p] : queue[p][k] = d}
<1>1. CASE p \in Ports
  <2>1. queue[p] \in Seq(Devices)
    BY <1>1 DEF TypeInv
  <2> DEFINE n == Len(queue[p])
  <2>2. n \in Nat /\ T \in SUBSET (1 .. n)
    BY <2>1
  <2>3. Clear => n = 0 /\ T = {}
    BY <1>1, <2>1 DEF Clear
  <2>4. Queued(d) = Cardinality(T)
    BY <1>1 DEF Queued
  <2> HIDE DEF T, n
  <2>5. QED
    BY <2>2, <2>3, <2>4, SomeOf
<1>2. CASE p \notin Ports
  BY <1>2 DEF Queued
<1>3. QED
  BY <1>1, <1>2

\* The devices go on ignoring inquiries until they have ignored enough.
LEMMA HeardType ==
    ASSUME TypeInv, Heard, bench' = bench
    PROVE  /\ deaf' \in [Devices -> Nat] /\ travels' \in [Devices -> Int]
           /\ \A d \in Devices : deaf[d] = 0 => deaf'[d] = 0
<1>1. Sent \in Nat
  BY SentType DEF TypeInv
<1>2. \A d \in Devices : Hears(d, Sent) \in Nat /\ Queued(d) \in Nat
  BY <1>1, HearsType, QueuedType
<1>3. deaf \in [Devices -> Nat] /\ travels \in [Devices -> Int] /\ MaxReplies \in Nat
  BY DetectAssumption DEF TypeInv
<1>4. deaf' \in [Devices -> Nat] /\ \A d \in Devices : deaf[d] = 0 => deaf'[d] = 0
  BY <1>2, <1>3 DEF Heard
<1>5. travels' \in [Devices -> Int]
  BY <1>2, <1>3 DEF Heard, Smaller
<1>6. QED
  BY <1>4, <1>5

\* A probe when nothing is under way: those that reply are awake by then and hear
\* it, and those that were awake and hear it reply.
LEMMA HeardInTime ==
    ASSUME TypeInv, Heard, Clear, Sent = Len(Probed), NEW d \in Devices
    PROVE  /\ travels'[d] > 0 => deaf'[d] = 0 /\ Probes(d)
           /\ deaf[d] = 0 /\ Probes(d) => travels'[d] > 0
<1> DEFINE n == Len(Probed)
           h == Hears(d, n)
<1>1. n \in Nat /\ DOMAIN Probed = 1 .. n
  BY ProbedType, SeqType DEF TypeInv
<1>2. h \in Nat /\ (h > 0 <=> Probes(d))
  BY <1>1, HearsType DEF Probes
<1>3. Queued(d) = 0 /\ travels[d] = 0
  BY QueuedType DEF Clear
<1>4. deaf[d] \in Nat /\ MaxReplies \in Nat \ {0}
  BY DetectAssumption DEF TypeInv
<1>5. /\ travels'[d] = IF h > deaf[d] THEN Smaller(travels[d] + h - deaf[d], MaxReplies - Queued(d))
                                      ELSE travels[d]
      /\ deaf'[d] = IF h > deaf[d] THEN 0 ELSE deaf[d] - h
  BY DEF Heard
<1> HIDE DEF h
<1>6. QED
  BY <1>2, <1>3, <1>4, <1>5 DEF Smaller

\* What one step leaves alone.
LEMMA SameProbe ==
    ASSUME UNCHANGED <<bench, job, attempt, phase, outs, chunk>>
    PROVE  /\ Probed' = Probed /\ Inquired' = Inquired /\ Slice' = Slice /\ Sent' = Sent
           /\ \A d : Probes(d)' <=> Probes(d)
  BY DEF Probed, Inquired, Slice, Sent, Probes, This, Dev

-----------------------------------------------------------------------------
(* Types.                                                                  *)

LEMMA TypeInit == Init => TypeInv
<1> SUFFICES ASSUME Init PROVE TypeInv
  OBVIOUS
<1>1. punctual \in BOOLEAN
  BY DetectAssumption DEF Init
<1>2. attempt \in DOMAIN job.attempts
  BY JobAssumption DEF Init
<1>3. IsSeq(outs) /\ Len(outs) = 0
  <2>1. outs \in Seq({})
    BY DEF Init
  <2>2. QED
    BY <2>1 DEF IsSeq, Init
<1>4. /\ deaf \in [Devices -> Nat] /\ travels \in [Devices -> Int]
      /\ \A d \in Devices : Dev(d).deaf = 0 => deaf[d] = 0
  BY BenchAssumption DEF Init, Devices, Dev
<1>5. /\ Ports = UNION {job.attempts[n].ins : n \in DOMAIN job.attempts}
      /\ \A p \in Ports : queue[p] = <<>>
  BY DEF Init, Ports
<1>6. /\ \A p \in Ports : queue[p] \in Seq(Devices)
      /\ \A n \in DOMAIN job.attempts : job.attempts[n].ins \subseteq Ports
  <2>1. \A S : <<>> \in Seq(S)
    BY EmptySeq
  <2>2. \A p \in Ports : queue[p] \in Seq(Devices)
    BY <1>5, <2>1
  <2>3. \A n \in DOMAIN job.attempts : job.attempts[n].ins \subseteq Ports
    BY <1>5
  <2>4. QED
    BY <2>2, <2>3
<1>7. replied \in Seq(Ports \X Configs) /\ ins \subseteq Ports
  BY DEF Init
<1>8. /\ bench \in Benches /\ job \in Jobs /\ phase = "open" /\ chunk = 0
  BY DEF Init
<1>9. QED
  BY <1>1, <1>2, <1>3, <1>4, <1>6, <1>7, <1>8 DEF TypeInv

LEMMA FailsType == TypeInv /\ Fails => TypeInv'
<1> SUFFICES ASSUME TypeInv, Fails PROVE TypeInv'
  OBVIOUS
<1>1. /\ UNCHANGED <<bench, job, punctual, deaf, travels>>
      /\ phase' \in {"open", "failed"} /\ chunk' = 0 /\ ins' = {} /\ outs' = <<>> /\ replied' = <<>>
  BY DEF Fails, jobVars
<1>2. Devices' = Devices /\ \A d : Dev(d)' = Dev(d)
  BY <1>1 DEF Devices, Dev
<1>3. attempt' \in DOMAIN job'.attempts
  BY <1>1, JobAssumption DEF Fails, TypeInv
<1>4. Ports' = Ports /\ \A p \in Ports : queue'[p] = <<>>
  BY DEF Fails, Ports
<1>5. IsSeq(outs') /\ Len(outs') = 0
  <2>1. outs' \in Seq({})
    BY <1>1
  <2>2. QED
    BY <1>1, <2>1 DEF IsSeq
<1>6. /\ bench' \in Benches /\ job' \in Jobs /\ punctual' \in BOOLEAN
      /\ deaf' \in [Devices' -> Nat] /\ travels' \in [Devices' -> Int]
      /\ \A d \in Devices' : Dev(d).deaf' = 0 => deaf'[d] = 0
      /\ \A n \in DOMAIN job'.attempts : job'.attempts[n].ins \subseteq Ports'
  BY <1>1, <1>2, <1>4 DEF TypeInv
<1>7. /\ ins' \subseteq Ports' /\ replied' \in Seq(Ports' \X Configs)
      /\ \A p \in Ports' : queue'[p] \in Seq(Devices')
  <2>1. \A S : <<>> \in Seq(S)
    BY EmptySeq
  <2>2. QED
    BY <1>1, <1>4, <2>1
<1>8. QED
  BY <1>1, <1>3, <1>5, <1>6, <1>7 DEF TypeInv

\* A step that leaves the devices as they are, or lets them hear a probe.
LEMMA WireKept ==
    ASSUME TypeInv, UNCHANGED <<jobVars, attempt>>, UNCHANGED <<deaf, travels>> \/ Heard,
           queue' = queue
    PROVE  /\ bench' \in Benches /\ job' \in Jobs /\ punctual' \in BOOLEAN
           /\ attempt' \in DOMAIN job'.attempts
           /\ deaf' \in [Devices' -> Nat] /\ travels' \in [Devices' -> Int]
           /\ \A d \in Devices' : Dev(d)'.deaf = 0 => deaf'[d] = 0
           /\ \A p \in Ports' : queue'[p] \in Seq(Devices')
           /\ \A n \in DOMAIN job'.attempts : job'.attempts[n].ins \subseteq Ports'
           /\ Ports' = Ports /\ Devices' = Devices
<1>1. Ports' = Ports /\ Devices' = Devices /\ \A d : Dev(d)' = Dev(d)
  BY DEF jobVars, Ports, Devices, Dev
<1>2. /\ deaf' \in [Devices -> Nat] /\ travels' \in [Devices -> Int]
      /\ \A d \in Devices : deaf[d] = 0 => deaf'[d] = 0
  <2>1. CASE UNCHANGED <<deaf, travels>>
    BY <2>1 DEF TypeInv
  <2>2. CASE Heard
    BY <2>2, HeardType DEF jobVars
  <2>3. QED
    BY <2>1, <2>2
<1>3. QED
  BY <1>1, <1>2 DEF TypeInv, jobVars

LEMMA ReadType ==
    ASSUME TypeInv, NEW p \in Ports, Read(p) \/ ChannelRead(p)
    PROVE  TypeInv'
<1>1. queue[p] \in Seq(Devices) /\ queue[p] # <<>>
  BY DEF TypeInv, Read, ChannelRead
<1>2. /\ Ports' = Ports /\ Devices' = Devices /\ \A d : Dev(d)' = Dev(d)
      /\ UNCHANGED <<bench, job, punctual, attempt, ins, outs, chunk, deaf, travels>>
      /\ phase' \in {phase, "found"}
  BY DEF Read, ChannelRead, jobVars, searchVars, Ports, Devices, Dev
<1>3. queue' = [queue EXCEPT ![p] = Tail(@)]
  BY DEF Read, ChannelRead
<1>4. \A q \in Ports : queue'[q] \in Seq(Devices)
  <2>1. Tail(queue[p]) \in Seq(Devices)
    BY <1>1
  <2>2. QED
    BY <1>3, <2>1 DEF TypeInv, Ports
<1>5. replied' \in Seq(Ports \X Configs)
  <2>1. replied \in Seq(Ports \X Configs)
    BY DEF TypeInv
  <2>2. CASE Read(p)
    BY <2>1, <2>2 DEF Read
  <2>3. CASE ChannelRead(p)
    BY <2>1, <2>3 DEF ChannelRead
  <2>4. QED
    BY <2>2, <2>3
<1>6. phase' # "output" => chunk' = 0
  BY <1>2 DEF TypeInv, ChannelRead, Read, searchVars
<1>7. QED
  BY <1>2, <1>4, <1>5, <1>6 DEF TypeInv

LEMMA ArriveType == ASSUME TypeInv, NEW d \in Devices, Arrive(d) PROVE TypeInv'
<1>1. /\ Ports' = Ports /\ Devices' = Devices /\ \A e : Dev(e)' = Dev(e)
      /\ UNCHANGED <<bench, job, punctual, attempt, phase, ins, outs, chunk, replied, deaf>>
  BY DEF Arrive, jobVars, searchVars, probeVars, Ports, Devices, Dev
<1>2. travels' \in [Devices -> Int]
  BY DEF Arrive, TypeInv
<1>3. \A q \in Ports : queue'[q] \in Seq(Devices)
  BY DEF Arrive, TypeInv, Ports
<1>4. QED
  BY <1>1, <1>2, <1>3 DEF TypeInv

LEMMA TypeStep == TypeInv /\ [Next]_detectVars => TypeInv'
<1> SUFFICES ASSUME TypeInv, [Next]_detectVars PROVE TypeInv'
  OBVIOUS
<1>1. CASE Fails
  BY <1>1, FailsType
<1>2. CASE OpenPorts /\ ~Fails
  <2>1. /\ UNCHANGED <<jobVars, attempt, deaf, travels, queue, chunk, replied>>
        /\ phase' = IF job.type = "test" THEN "test" ELSE "input"
        /\ ins' \subseteq This.ins /\ outs' = Opened(This.listing)
    BY <1>2 DEF OpenPorts, probeVars, wireVars
  <2>2. IsSeq(outs') /\ (job.type = "test" => Len(outs') <= 1)
    BY <2>1, OpenedType, JobAssumption DEF TypeInv, This
  <2>3. ins' \subseteq Ports
    BY <2>1 DEF TypeInv, This
  <2>4. chunk' = 0
    BY <1>2, <2>1 DEF OpenPorts, TypeInv
  <2>5. job' = job
    BY <2>1 DEF jobVars
  <2>6. QED
    BY <2>1, <2>2, <2>3, <2>4, <2>5, WireKept DEF TypeInv
<1>3. CASE Probe \/ ProbeAgain
  <2>1. /\ UNCHANGED <<jobVars, attempt, queue, phase, ins, outs, chunk>> /\ Heard
        /\ replied' = <<>> \/ replied' = replied
    BY <1>3 DEF Probe, ProbeAgain, searchVars, probeVars
  <2>2. replied' \in Seq(Ports \X Configs)
    BY <2>1, EmptySeq DEF TypeInv
  <2>3. job' = job
    BY <2>1 DEF jobVars
  <2>4. QED
    BY <2>1, <2>2, <2>3, WireKept DEF TypeInv
<1>4. CASE Retry \/ TestPasses \/ OutputNext
  <2>1. /\ UNCHANGED <<jobVars, attempt, queue, ins, outs, deaf, travels, replied>>
        /\ phase' \in {phase, "found"} /\ chunk' \in {chunk, chunk + 1}
        /\ phase' # "output" => chunk' = chunk /\ phase # "output"
    BY <1>4 DEF Retry, TestPasses, OutputNext, searchVars, wireVars
  <2>2. job' = job
    BY <2>1 DEF jobVars
  <2>3. QED
    BY <2>1, <2>2, WireKept DEF TypeInv
<1>5. CASE InputFound
  <2>1. /\ UNCHANGED <<bench, job, punctual, attempt, outs, deaf, travels, replied>>
        /\ phase' = "output" /\ phase = "input" /\ chunk' = 0 /\ ins' = {replied[1][1]} /\ Len(replied) = 1
        /\ queue' = [p \in Ports |-> IF p = replied[1][1] THEN queue[p] ELSE <<>>]
    BY <1>5 DEF InputFound, jobVars
  <2>2. Ports' = Ports /\ Devices' = Devices /\ \A d : Dev(d)' = Dev(d)
    BY <2>1 DEF Ports, Devices, Dev
  <2>3. ins' \subseteq Ports
    <3>1. replied \in Seq(Ports \X Configs) /\ Len(replied) = 1
      BY <2>1 DEF TypeInv
    <3>2. replied[1] \in Ports \X Configs
      BY <3>1
    <3>3. QED
      BY <2>1, <3>2
  <2>4. \A q \in Ports : queue'[q] \in Seq(Devices)
    <3>1. \A S : <<>> \in Seq(S)
      BY EmptySeq
    <3>2. QED
      BY <2>1, <3>1 DEF TypeInv
  <2>5. job.type # "test"
    BY <2>1 DEF TypeInv
  <2>6. QED
    BY <2>1, <2>2, <2>3, <2>4, <2>5 DEF TypeInv
<1>6. CASE OutputFound
  <2>1. /\ UNCHANGED <<jobVars, attempt, queue, ins, deaf, travels, replied>>
        /\ phase' \in {"output", "channel", "found"} /\ chunk' = 0 /\ outs' = Probed
        /\ phase = "output"
    BY <1>6 DEF OutputFound, wireVars
  <2>2. IsSeq(outs')
    BY <2>1, ProbedType DEF TypeInv
  <2>3. job.type # "test" /\ job' = job
    BY <2>1 DEF TypeInv, jobVars
  <2>4. QED
    BY <2>1, <2>2, <2>3, WireKept DEF TypeInv
<1>7. CASE UNCHANGED detectVars
  BY <1>7 DEF TypeInv, detectVars, jobVars, searchVars, probeVars, wireVars, IsSeq, Ports,
              Devices, Dev
<1>8. QED
  BY <1>1, <1>2, <1>3, <1>4, <1>5, <1>6, <1>7, ReadType, ArriveType
     DEF Next, Steps, Reads, ProbeFails, InputFails, OutputFails, ChannelFails, TestFails

-----------------------------------------------------------------------------
(* Queues and replies.                                                     *)

\* The last of a queue is appended, the first is taken.
LEMMA AppendIn ==
    ASSUME NEW S, NEW s \in Seq(S), NEW x
    PROVE  /\ \A k \in DOMAIN Append(s, x) :
                  \/ k \in DOMAIN s /\ Append(s, x)[k] = s[k]
                  \/ Append(s, x)[k] = x
           /\ \A k \in DOMAIN s : k \in DOMAIN Append(s, x) /\ Append(s, x)[k] = s[k]
           /\ \E k \in DOMAIN Append(s, x) : Append(s, x)[k] = x
           /\ Len(Append(s, x)) = Len(s) + 1
<1>1. /\ Len(Append(s, x)) = Len(s) + 1 /\ Len(s) \in Nat
      /\ DOMAIN s = 1 .. Len(s) /\ DOMAIN Append(s, x) = 1 .. Len(s) + 1
      /\ \A k \in 1 .. Len(s) : Append(s, x)[k] = s[k]
      /\ Append(s, x)[Len(s) + 1] = x
  <2>1. s \in Seq(S \cup {x}) /\ x \in S \cup {x}
    OBVIOUS
  <2>2. QED
    BY <2>1
<1>2. QED
  BY <1>1

LEMMA TailIn ==
    ASSUME NEW S, NEW s \in Seq(S), s # <<>>
    PROVE  /\ \A k \in DOMAIN Tail(s) : \E j \in DOMAIN s : Tail(s)[k] = s[j]
           /\ \A j \in DOMAIN s : s[j] = Head(s) \/ \E k \in DOMAIN Tail(s) : Tail(s)[k] = s[j]
           /\ \E j \in DOMAIN s : s[j] = Head(s)
<1>1. /\ Len(s) \in Nat \ {0} /\ DOMAIN s = 1 .. Len(s) /\ Head(s) = s[1]
      /\ Tail(s) \in Seq(S) /\ Len(Tail(s)) = Len(s) - 1
      /\ \A k \in 1 .. Len(s) - 1 : Tail(s)[k] = s[k + 1]
  OBVIOUS
<1>2. DOMAIN Tail(s) = 1 .. Len(s) - 1
  BY <1>1
<1>3. ASSUME NEW j \in DOMAIN s PROVE s[j] = Head(s) \/ \E k \in DOMAIN Tail(s) : Tail(s)[k] = s[j]
  <2>1. j = 1 \/ (j - 1 \in DOMAIN Tail(s) /\ Tail(s)[j - 1] = s[j])
    BY <1>1, <1>2
  <2>2. QED
    BY <1>1, <2>1
<1>4. ASSUME NEW k \in DOMAIN Tail(s) PROVE \E j \in DOMAIN s : Tail(s)[k] = s[j]
  <2>1. k + 1 \in DOMAIN s /\ Tail(s)[k] = s[k + 1]
    BY <1>1, <1>2
  <2>2. QED
    BY <2>1
<1>5. QED
  BY <1>1, <1>3, <1>4

\* What the reading of a port does to the queues.
LEMMA ReadQueue ==
    ASSUME TypeInv, QueueInv, NEW p \in Ports, Read(p) \/ ChannelRead(p)
    PROVE  /\ Head(queue[p]) \in Devices /\ Dev(Head(queue[p])).in = p /\ p \in ins
           /\ Pending(Head(queue[p]))
           /\ \A q \in Ports : q # p => queue'[q] = queue[q]
           /\ \A q \in Ports : \A k \in DOMAIN queue'[q] :
                  \E j \in DOMAIN queue[q] : queue'[q][k] = queue[q][j]
           /\ \A q \in Ports : \A j \in DOMAIN queue[q] :
                  \/ q = p /\ queue[q][j] = Head(queue[p])
                  \/ \E k \in DOMAIN queue'[q] : queue'[q][k] = queue[q][j]
           /\ \A q \in Ports : queue'[q] # <<>> => queue[q] # <<>>
           /\ UNCHANGED <<bench, job, punctual, attempt, ins, outs, chunk, deaf, travels>>
           /\ Ports' = Ports /\ Devices' = Devices /\ \A d : Dev(d)' = Dev(d)
<1>1. queue[p] \in Seq(Devices) /\ queue[p] # <<>>
  BY DEF TypeInv, Read, ChannelRead
<1>2. queue' = [queue EXCEPT ![p] = Tail(queue[p])]
  BY DEF Read, ChannelRead
<1>3. queue'[p] = Tail(queue[p]) /\ \A q \in Ports : q # p => queue'[q] = queue[q]
  BY <1>2 DEF Ports
<1>4. \E j \in DOMAIN queue[p] : queue[p][j] = Head(queue[p])
  BY <1>1, TailIn
<1>5. Head(queue[p]) \in Devices
  BY <1>1
<1>6. Dev(Head(queue[p])).in = p /\ p \in ins
  BY <1>1, <1>4 DEF QueueInv
<1>7. Pending(Head(queue[p]))
  BY <1>4 DEF Pending
<1>8. /\ UNCHANGED <<bench, job, punctual, attempt, ins, outs, chunk, deaf, travels>>
      /\ Ports' = Ports /\ Devices' = Devices /\ \A d : Dev(d)' = Dev(d)
  BY <1>2 DEF Read, ChannelRead, jobVars, searchVars, Ports, Devices, Dev
<1>9. /\ \A q \in Ports : \A k \in DOMAIN queue'[q] :
             \E j \in DOMAIN queue[q] : queue'[q][k] = queue[q][j]
      /\ \A q \in Ports : \A j \in DOMAIN queue[q] :
             \/ q = p /\ queue[q][j] = Head(queue[p])
             \/ \E k \in DOMAIN queue'[q] : queue'[q][k] = queue[q][j]
  <2>1. ASSUME NEW q \in Ports, q # p PROVE queue'[q] = queue[q]
    BY <1>3, <2>1
  <2>2. \A k \in DOMAIN queue'[p] : \E j \in DOMAIN queue[p] : queue'[p][k] = queue[p][j]
    BY <1>1, <1>3, TailIn
  <2>3. \A j \in DOMAIN queue[p] :
            queue[p][j] = Head(queue[p]) \/ \E k \in DOMAIN queue'[p] : queue'[p][k] = queue[p][j]
    BY <1>1, <1>3, TailIn
  <2>4. QED
    BY <2>1, <2>2, <2>3
<1>10. \A q \in Ports : queue'[q] # <<>> => queue[q] # <<>>
  BY <1>1, <1>3
<1>11. QED
  BY <1>3, <1>5, <1>6, <1>7, <1>8, <1>9, <1>10

\* What the arrival of a reply does to them.
LEMMA ArriveQueue ==
    ASSUME TypeInv, NEW d \in Devices, Arrive(d)
    PROVE  /\ \A q \in Ports : \A k \in DOMAIN queue'[q] :
                  \/ \E j \in DOMAIN queue[q] : queue'[q][k] = queue[q][j]
                  \/ q = Dev(d).in /\ q \in ins /\ queue'[q][k] = d
           /\ \A q \in Ports : \A j \in DOMAIN queue[q] :
                  \E k \in DOMAIN queue'[q] : queue'[q][k] = queue[q][j]
           /\ Dev(d).in \in ins =>
                  Dev(d).in \in Ports /\ \E k \in DOMAIN queue'[Dev(d).in] : queue'[Dev(d).in][k] = d
           /\ \A q \in Ports : queue'[q] # <<>> => queue[q] # <<>> \/ q \in ins
           /\ travels[d] > 0 /\ \A e \in Devices : e # d => travels'[e] = travels[e]
           /\ travels'[d] = travels[d] - 1
           /\ UNCHANGED <<jobVars, searchVars, probeVars, deaf>>
           /\ Ports' = Ports /\ Devices' = Devices /\ \A e : Dev(e)' = Dev(e)
<1>1. /\ travels[d] > 0 /\ \A e \in Devices : e # d => travels'[e] = travels[e]
      /\ travels'[d] = travels[d] - 1
  BY DEF Arrive, TypeInv
<1>2. /\ UNCHANGED <<jobVars, searchVars, probeVars, deaf>>
      /\ Ports' = Ports /\ Devices' = Devices /\ \A e : Dev(e)' = Dev(e)
  BY DEF Arrive, jobVars, Ports, Devices, Dev
<1>3. \A q \in Ports :
          queue'[q] = IF q = Dev(d).in /\ Dev(d).in \in ins THEN Append(queue[q], d) ELSE queue[q]
  BY DEF Arrive, Ports
<1>4. \A q \in Ports : queue[q] \in Seq(Devices)
  BY DEF TypeInv
<1>5. ASSUME NEW q \in Ports, q = Dev(d).in, q \in ins
      PROVE  /\ \A k \in DOMAIN queue'[q] :
                    (\E j \in DOMAIN queue[q] : queue'[q][k] = queue[q][j]) \/ queue'[q][k] = d
             /\ \A j \in DOMAIN queue[q] : \E k \in DOMAIN queue'[q] : queue'[q][k] = queue[q][j]
             /\ \E k \in DOMAIN queue'[q] : queue'[q][k] = d
  <2>1. queue'[q] = Append(queue[q], d) /\ queue[q] \in Seq(Devices)
    BY <1>3, <1>4, <1>5
  <2>2. QED
    BY <2>1, AppendIn
<1>6. Dev(d).in \in ins => Dev(d).in \in Ports
  BY DEF TypeInv
<1>7. \A q \in Ports : ~(q = Dev(d).in /\ q \in ins) => queue'[q] = queue[q]
  BY <1>3
<1>8. QED
  BY <1>1, <1>2, <1>5, <1>6, <1>7

\* A reply that was read is of the device at the head of the queue.
LEMMA ReadReplied ==
    ASSUME TypeInv, QueueInv, NEW p \in Ports, Read(p)
    PROVE  LET d == Head(queue[p]) IN
           /\ Dev(d).config \notin Configs => replied' = replied
           /\ Dev(d).config \in Configs =>
                 /\ Len(replied') = Len(replied) + 1
                 /\ \E k \in DOMAIN replied' : replied'[k][2] = Dev(d).config
           /\ \A k \in DOMAIN replied' :
                 \/ k \in DOMAIN replied /\ replied'[k] = replied[k]
                 \/ replied'[k][1] = p /\ Replier(d, replied'[k])
           /\ \A k \in DOMAIN replied : k \in DOMAIN replied' /\ replied'[k] = replied[k]
           /\ Len(replied') >= Len(replied) /\ Len(replied) \in Nat
           /\ probing /\ UNCHANGED <<searchVars, probing>>
<1> DEFINE d == Head(queue[p])
           r == <<p, Dev(d).config>>
<1>1. replied \in Seq(Ports \X Configs) /\ Len(replied) \in Nat
  BY DEF TypeInv
<1>2. Dev(d).in = p
  BY ReadQueue
<1>3. /\ replied' = IF Dev(d).config \in Configs THEN Append(replied, r) ELSE replied
      /\ probing /\ UNCHANGED <<searchVars, probing>>
  BY DEF Read
<1>4. r[1] = p /\ r[2] = Dev(d).config /\ Replier(d, r)
  BY <1>2 DEF Replier
<1> HIDE DEF r, d
<1>5. /\ \A k \in DOMAIN Append(replied, r) :
             (k \in DOMAIN replied /\ Append(replied, r)[k] = replied[k]) \/ Append(replied, r)[k] = r
      /\ \A k \in DOMAIN replied : k \in DOMAIN Append(replied, r) /\ Append(replied, r)[k] = replied[k]
      /\ \E k \in DOMAIN Append(replied, r) : Append(replied, r)[k] = r
      /\ Len(Append(replied, r)) = Len(replied) + 1
  BY <1>1, AppendIn
<1>6. CASE Dev(d).config \in Configs
  <2>1. replied' = Append(replied, r)
    BY <1>3, <1>6
  <2>2. QED
    BY <1>1, <1>3, <1>4, <1>5, <1>6, <2>1 DEF d
<1>7. CASE Dev(d).config \notin Configs
  BY <1>1, <1>3, <1>7 DEF d
<1>8. QED
  BY <1>6, <1>7

Sound == TypeInv /\ PhaseInv /\ QueueInv /\ RepliesInv /\ SourceInv

LEMMA PhaseStep == TypeInv /\ PhaseInv /\ [Next]_detectVars => PhaseInv'
<1> SUFFICES ASSUME TypeInv, PhaseInv, [Next]_detectVars PROVE PhaseInv'
  OBVIOUS
<1>1. CASE Fails
  BY <1>1 DEF Fails, PhaseInv
<1>2. ASSUME NEW p \in Ports, Read(p) \/ ChannelRead(p) PROVE PhaseInv'
  BY <1>2 DEF PhaseInv, Read, ChannelRead, searchVars
<1>3. ASSUME NEW d \in Devices, Arrive(d) PROVE PhaseInv'
  BY <1>3 DEF PhaseInv, Arrive, searchVars, probeVars
<1>4. CASE (OpenPorts /\ ~Fails) \/ UNCHANGED detectVars
  BY <1>4 DEF PhaseInv, OpenPorts, detectVars, searchVars, probeVars
<1>5. CASE Probe \/ ProbeAgain \/ Retry
  BY <1>5 DEF PhaseInv, Probe, ProbeAgain, Retry, searchVars, probeVars
<1>6. CASE InputFound \/ OutputFound \/ OutputNext \/ TestPasses
  BY <1>6 DEF PhaseInv, InputFound, OutputFound, OutputNext, TestPasses
<1>7. QED
  BY <1>1, <1>2, <1>3, <1>4, <1>5, <1>6
     DEF Next, Steps, Reads, ProbeFails, InputFails, OutputFails, ChannelFails, TestFails

LEMMA FailsSound ==
    ASSUME Sound, Fails
    PROVE  QueueInv' /\ RepliesInv' /\ SourceInv'
<1>1. /\ Ports' = Ports /\ \A p \in Ports : queue'[p] = <<>>
      /\ probing' = FALSE /\ phase' \in {"open", "failed"}
  BY DEF Fails, Ports
<1>2. QED
  BY <1>1 DEF QueueInv, RepliesInv, SourceInv

LEMMA ReadSound ==
    ASSUME Sound, NEW p \in Ports, Read(p) \/ ChannelRead(p)
    PROVE  QueueInv' /\ RepliesInv' /\ SourceInv'
<1> USE DEF Sound
<1>1. /\ UNCHANGED <<ins, outs>> /\ p \in ins /\ Head(queue[p]) \in Devices
      /\ Ports' = Ports /\ Devices' = Devices /\ \A d : Dev(d)' = Dev(d)
      /\ \A q \in Ports : queue'[q] # <<>> => queue[q] # <<>>
      /\ \A q \in Ports : \A k \in DOMAIN queue'[q] :
                  \E j \in DOMAIN queue[q] : queue'[q][k] = queue[q][j]
  BY ReadQueue
<1>2. /\ phase' = phase \/ (phase' = "found" /\ phase = "channel")
      /\ config' = config
      /\ probing' => probing
  BY DEF Read, ChannelRead, searchVars
<1>3. QueueInv'
  BY <1>1, <1>2 DEF QueueInv
<1>4. SourceInv'
  BY <1>1, <1>2 DEF SourceInv, Read, searchVars, ChannelRead
<1>5. RepliesInv'
  <2>1. CASE Read(p)
    <3>1. \A k \in DOMAIN replied' :
              \/ k \in DOMAIN replied /\ replied'[k] = replied[k]
              \/ replied'[k][1] = p /\ Replier(Head(queue[p]), replied'[k])
      BY <2>1, ReadReplied
    <3>2. \A d : \A r : Replier(d, r)' <=> Replier(d, r')
      BY <1>1 DEF Replier
    <3>3. QED
      BY <1>1, <1>2, <3>1 DEF RepliesInv, Replier
  <2>2. CASE ChannelRead(p)
    <3>1. replied' = replied
      BY <2>2 DEF ChannelRead
    <3>2. QED
      BY <1>1, <1>2, <3>1 DEF RepliesInv, Replier
  <2>3. QED
    BY <2>1, <2>2
<1>6. QED
  BY <1>3, <1>4, <1>5

LEMMA ArriveSound ==
    ASSUME Sound, NEW d \in Devices, Arrive(d)
    PROVE  QueueInv' /\ RepliesInv' /\ SourceInv'
<1> USE DEF Sound
<1>1. /\ \A q \in Ports : \A k \in DOMAIN queue'[q] :
                  \/ \E j \in DOMAIN queue[q] : queue'[q][k] = queue[q][j]
                  \/ q = Dev(d).in /\ q \in ins /\ queue'[q][k] = d
      /\ \A q \in Ports : queue'[q] # <<>> => queue[q] # <<>> \/ q \in ins
      /\ UNCHANGED <<phase, ins, config, probing, replied>>
      /\ Ports' = Ports /\ Devices' = Devices /\ \A e : Dev(e)' = Dev(e)
  BY ArriveQueue DEF searchVars, probeVars
<1>2. phase = "open" => ins = {}
  BY DEF PhaseInv
<1>3. QueueInv'
  BY <1>1, <1>2 DEF QueueInv
<1>4. QED
  BY <1>1, <1>3 DEF RepliesInv, SourceInv, Replier

LEMMA SoundStep == Sound /\ [Next]_detectVars => Sound'
<1> SUFFICES ASSUME Sound, [Next]_detectVars PROVE Sound'
  OBVIOUS
<1> USE DEF Sound
<1>1. TypeInv' /\ PhaseInv'
  BY TypeStep, PhaseStep
<1>2. CASE Fails
  BY <1>1, <1>2, FailsSound
<1>3. CASE OpenPorts /\ ~Fails
  <2>1. /\ UNCHANGED <<bench, queue, probing, replied>> /\ phase = "open"
        /\ phase' \in {"test", "input"}
    BY <1>3 DEF OpenPorts, jobVars, probeVars, wireVars
  <2>2. \A p \in Ports : queue[p] = <<>>
    BY <2>1 DEF QueueInv
  <2>3. QueueInv'
    BY <2>1, <2>2 DEF QueueInv, Ports
  <2>4. ~probing
    BY <2>1 DEF PhaseInv
  <2>5. QED
    BY <1>1, <2>1, <2>3, <2>4 DEF RepliesInv, SourceInv
<1>4. CASE Probe \/ ProbeAgain \/ Retry \/ OutputFound \/ OutputNext
  <2>1. /\ UNCHANGED <<bench, queue, ins, config>>
        /\ probing' => replied' = <<>> \/ (probing /\ replied' = replied)
        /\ phase' = phase \/ (phase = "output" /\ phase' \in {"channel", "found"})
    BY <1>4 DEF Probe, ProbeAgain, Retry, OutputFound, OutputNext, jobVars, searchVars,
                probeVars, wireVars
  <2>2. QED
    BY <1>1, <2>1 DEF QueueInv, RepliesInv, SourceInv, Ports, Dev, Devices, Replier
<1>5. CASE InputFound
  <2>1. /\ UNCHANGED bench /\ phase' = "output" /\ phase = "input" /\ probing' = FALSE
        /\ ins' = {replied[1][1]} /\ config' = replied[1][2] /\ Len(replied) = 1 /\ probing
        /\ queue' = [p \in Ports |-> IF p = replied[1][1] THEN queue[p] ELSE <<>>]
    BY <1>5 DEF InputFound, jobVars, Answered, Elapsed
  <2>2. /\ replied \in Seq(Ports \X Configs) /\ 1 \in DOMAIN replied
        /\ replied[1] \in Ports \X Configs
    <3>1. replied \in Seq(Ports \X Configs)
      BY DEF TypeInv
    <3>2. 1 \in DOMAIN replied
      BY <2>1, <3>1
    <3>3. QED
      BY <3>1, <3>2
  <2>3. PICK d \in Devices : Replier(d, replied[1])
    BY <2>1, <2>2 DEF RepliesInv
  <2>4. Devices' = Devices /\ Ports' = Ports /\ \A e : Dev(e)' = Dev(e)
    BY <2>1 DEF Devices, Ports, Dev
  <2>5. QueueInv'
    BY <2>1, <2>4 DEF QueueInv
  <2>6. SourceInv'
    BY <2>1, <2>2, <2>3, <2>4 DEF SourceInv, Replier
  <2>7. QED
    BY <1>1, <2>1, <2>5, <2>6 DEF RepliesInv
<1>6. CASE TestPasses
  <2>1. /\ UNCHANGED <<bench, queue, ins>> /\ probing' = FALSE /\ probing
        /\ phase' = "found" /\ replied # <<>> /\ config' = replied[1][2]
    BY <1>6 DEF TestPasses, jobVars, wireVars, Passed, Answered, Elapsed
  <2>2. /\ replied \in Seq(Ports \X Configs) /\ 1 \in DOMAIN replied
        /\ replied[1] \in Ports \X Configs
    <3>1. replied \in Seq(Ports \X Configs)
      BY DEF TypeInv
    <3>2. 1 \in DOMAIN replied
      BY <2>1, <3>1
    <3>3. QED
      BY <3>1, <3>2
  <2>3. PICK d \in Devices : Replier(d, replied[1]) /\ replied[1][1] \in ins
    BY <2>1, <2>2 DEF RepliesInv
  <2>4. Devices' = Devices /\ Ports' = Ports /\ \A e : Dev(e)' = Dev(e)
    BY <2>1 DEF Devices, Ports, Dev
  <2>5. SourceInv'
    BY <2>1, <2>2, <2>3, <2>4 DEF SourceInv, Replier
  <2>6. QED
    BY <1>1, <2>1, <2>4, <2>5 DEF RepliesInv, QueueInv
<1>7. CASE UNCHANGED detectVars
  BY <1>1, <1>7 DEF QueueInv, RepliesInv, SourceInv, detectVars, jobVars, searchVars, probeVars,
                    wireVars, Ports, Devices, Dev, Replier
<1>8. QED
  BY <1>1, <1>2, <1>3, <1>4, <1>5, <1>6, <1>7, ReadSound, ArriveSound
     DEF Next, Steps, Reads, ProbeFails, InputFails, OutputFails, ChannelFails, TestFails

-----------------------------------------------------------------------------
(* Where every reply comes in time.                                        *)

\* After the delay of a probe nothing is under way or unread.
LEMMA ElapsedClear ==
    ASSUME TypeInv, Elapsed, punctual
    PROVE  Clear /\ \A d \in Devices : ~Pending(d)
<1>1. Clear
  BY DEF Elapsed, Clear
<1>2. \A d \in Devices : ~Pending(d)
  <2>1. \A p \in Ports : DOMAIN queue[p] = {}
    BY <1>1 DEF Clear
  <2>2. QED
    BY <1>1, <2>1 DEF Pending, Clear
<1>3. QED
  BY <1>1, <1>2

\* A step that leaves what is under way alone.
LEMMA ClearKept ==
    ASSUME Clear, UNCHANGED <<bench, travels>>, Ports' = Ports,
           \A p \in Ports : queue'[p] = queue[p] \/ queue'[p] = <<>>
    PROVE  Clear'
  BY DEF Clear, Devices

\* The attempt is given up.
LEMMA FailsTimely ==
    ASSUME TypeInv, Fails, Clear PROVE TimelyInv'
<1>1. /\ Ports' = Ports /\ \A p \in Ports : queue'[p] = <<>>
      /\ UNCHANGED <<bench, travels>> /\ phase' \in {"open", "failed"} /\ probing' = FALSE
  BY DEF Fails, Ports, jobVars
<1>2. Clear'
  BY <1>1, ClearKept
<1>3. QED
  BY <1>1, <1>2 DEF TimelyInv, ClearInv, ProbeInv, InputInv, OnlyInv, OutputInv, ChannelInv, FoundInv

LEMMA OpenTimely ==
    ASSUME Sound, TimelyInv, OpenPorts, ~Fails PROVE TimelyInv'
<1>1. /\ Ports' = Ports /\ UNCHANGED <<bench, travels, queue, probing>>
      /\ phase = "open" /\ phase' \in {"test", "input"}
  BY DEF OpenPorts, Ports, jobVars, probeVars, wireVars
<1>2. ~probing
  BY <1>1 DEF Sound, PhaseInv
<1>3. Clear
  BY <1>1, <1>2 DEF TimelyInv, ClearInv
<1>4. Clear'
  BY <1>1, <1>3, ClearKept
<1>5. QED
  BY <1>1, <1>2, <1>4 DEF TimelyInv, ClearInv, ProbeInv, InputInv, OnlyInv, OutputInv, ChannelInv, FoundInv

\* The probe sees every device that hears it, and no other.
LEMMA ProbeTimely ==
    ASSUME Sound, TimelyInv, Probe PROVE TimelyInv'
<1> USE DEF Sound
<1>1. /\ UNCHANGED <<jobVars, searchVars, queue>> /\ probing' = TRUE /\ replied' = <<>> /\ ~probing
      /\ phase \in {"input", "output", "channel", "test"} /\ Sent = Len(Probed) /\ Heard
  BY DEF Probe
<1>2. /\ UNCHANGED <<bench, job, attempt, phase, ins, outs, chunk, config, channel>>
      /\ Ports' = Ports /\ Devices' = Devices /\ \A d : Dev(d)' = Dev(d)
  BY <1>1 DEF jobVars, searchVars, Ports, Devices, Dev
<1>3. /\ Probed' = Probed /\ Slice' = Slice /\ \A d : Probes(d)' <=> Probes(d)
  BY <1>2, SameProbe
<1>4. Clear
  BY <1>1 DEF TimelyInv, ClearInv
<1>5. \A d \in Devices : /\ travels'[d] > 0 => deaf'[d] = 0 /\ Probes(d)
                         /\ deaf[d] = 0 /\ Probes(d) => travels'[d] > 0
                         /\ deaf[d] = 0 => deaf'[d] = 0
  BY <1>1, <1>2, <1>4, HeardInTime, HeardType
<1>6. \A d \in Devices : Pending(d)' <=> travels'[d] > 0
  <2>1. \A p \in Ports : DOMAIN queue'[p] = {}
    BY <1>1, <1>4 DEF Clear
  <2>2. QED
    BY <1>2, <2>1 DEF Pending
<1>7. ClearInv'
  BY <1>1 DEF ClearInv
<1>8. ProbeInv'
  <2>1. DOMAIN replied' = {}
    BY <1>1
  <2>2. QED
    BY <1>2, <1>3, <1>5, <1>6, <2>1 DEF ProbeInv
<1>9. InputInv'
  <2>1. \A d \in Devices : Awake(d)' /\ Probes(d)' => Pending(d)'
    BY <1>2, <1>3, <1>5, <1>6 DEF Awake, TypeInv
  <2>2. QED
    BY <1>2, <2>1 DEF InputInv
<1>10. OnlyInv'
  BY <1>2 DEF TimelyInv, OnlyInv, Known, Reaches
<1>11. OutputInv'
  <2>1. SUFFICES ASSUME phase = "output" PROVE \E d \in Devices : Heading(d)'
    BY <1>2 DEF OutputInv
  <2>2. PICK d \in Devices : Heading(d)
    BY <2>1 DEF TimelyInv, OutputInv
  <2>3. Target(d)' /\ (Probes(d)' => Pending(d)')
    BY <1>2, <1>3, <1>5, <1>6, <2>2 DEF Heading, Target, Known
  <2>4. Heading(d)'
    BY <1>2, <1>3, <2>2, <2>3 DEF Heading
  <2>5. QED
    BY <2>4
<1>12. ChannelInv'
  BY <1>2, <1>5 DEF TimelyInv, ChannelInv, Target, Known, This
<1>13. FoundInv'
  BY <1>1, <1>2 DEF FoundInv
<1>14. QED
  BY <1>7, <1>8, <1>9, <1>10, <1>11, <1>12, <1>13 DEF TimelyInv

\* The port fails to send: no more than that the others hear it.
LEMMA AgainTimely ==
    ASSUME Sound, TimelyInv, ProbeAgain PROVE TimelyInv'
<1>1. /\ UNCHANGED <<bench, job, attempt, phase, ins, outs, chunk, config, channel>> /\ Heard
      /\ UNCHANGED <<probing, replied, queue>> /\ ~probing /\ Sent < Len(Probed)
      /\ phase \in {"input", "output"}
  BY DEF ProbeAgain, jobVars, searchVars, probeVars
<1>2. \A d : Dev(d)' = Dev(d)
  BY <1>1 DEF Dev
<1>3. Devices' = Devices
  BY <1>1 DEF Devices
<1>4. Probed' = Probed /\ Slice' = Slice /\ Sent' = Sent /\ \A d : Probes(d)' <=> Probes(d)
  BY <1>1, SameProbe
<1>5. \A d \in Devices : deaf[d] = 0 => deaf'[d] = 0
  BY <1>1, HeardType DEF Sound
<1>6. Sent \in Nat /\ Sent # Len(Probed)
  BY <1>1, SentType, ProbedType, SeqType DEF Sound, TypeInv
<1>7. ClearInv'
  BY <1>1, <1>4, <1>6 DEF ClearInv
<1>8. OnlyInv'
  BY <1>1, <1>2, <1>3 DEF TimelyInv, OnlyInv, Known, Reaches
<1>9. OutputInv'
  <2>1. SUFFICES ASSUME phase = "output" PROVE \E d \in Devices : Heading(d)'
    BY <1>1, <1>3 DEF OutputInv
  <2>2. PICK d \in Devices : Heading(d)
    BY <2>1 DEF TimelyInv, OutputInv
  <2>3. Heading(d)'
    BY <1>1, <1>2, <1>4, <1>5, <2>2 DEF Heading, Target, Known
  <2>4. QED
    BY <2>3
<1>10. QED
  BY <1>1, <1>7, <1>8, <1>9 DEF TimelyInv, ProbeInv, InputInv, ChannelInv, FoundInv

LEMMA RetryTimely ==
    ASSUME Sound, TimelyInv, punctual, Retry PROVE TimelyInv'
<1>1. /\ UNCHANGED <<bench, job, attempt, phase, ins, outs, chunk, config, channel>>
      /\ UNCHANGED <<deaf, travels, queue>> /\ probing' = FALSE /\ Elapsed
      /\ phase \in {"input", "output", "test"}
  BY DEF Retry, jobVars, wireVars
<1>2. Ports' = Ports /\ Devices' = Devices /\ \A d : Dev(d)' = Dev(d)
  BY <1>1 DEF Dev, Ports, Devices
<1>3. Probed' = Probed /\ Slice' = Slice
  BY <1>1, SameProbe
<1>4. Clear'
  BY <1>1, <1>2, ElapsedClear, ClearKept DEF Sound
<1>5. OnlyInv'
  BY <1>1, <1>2 DEF TimelyInv, OnlyInv, Known, Reaches
<1>6. OutputInv'
  BY <1>1, <1>2, <1>3 DEF TimelyInv, OutputInv, Heading, Target, Known
<1>7. QED
  BY <1>1, <1>4, <1>5, <1>6 DEF TimelyInv, ClearInv, ProbeInv, InputInv, ChannelInv, FoundInv

\* One reply to the first probe: no other device was reached by it.
LEMMA InputFoundTimely ==
    ASSUME Sound, TimelyInv, punctual, InputFound PROVE TimelyInv'
<1> DEFINE r == replied[1]
<1>1. /\ UNCHANGED <<bench, job, attempt, outs, deaf, travels, replied>> /\ probing /\ probing' = FALSE
      /\ phase = "input" /\ phase' = "output" /\ chunk' = 0 /\ ins' = {r[1]} /\ config' = r[2]
      /\ Len(replied) = 1 /\ Elapsed
      /\ queue' = [p \in Ports |-> IF p = r[1] THEN queue[p] ELSE <<>>]
  BY DEF InputFound, jobVars, Answered, Elapsed
<1>2. Ports' = Ports /\ Devices' = Devices /\ \A d : Dev(d)' = Dev(d)
  BY <1>1 DEF Dev, Ports, Devices
<1>3. Clear' /\ \A d \in Devices : ~Pending(d)
  BY <1>1, <1>2, ElapsedClear, ClearKept DEF Sound
<1>4. 1 \in DOMAIN replied /\ r \in Ports \X Configs
  <2>1. replied \in Seq(Ports \X Configs)
    BY DEF Sound, TypeInv
  <2>2. 1 \in DOMAIN replied
    BY <1>1, <2>1
  <2>3. QED
    BY <2>1, <2>2
<1>5. PICK d \in Devices : Replier(d, r) /\ deaf[d] = 0 /\ Probes(d)
  BY <1>1, <1>4 DEF TimelyInv, ProbeInv
<1>6. r[1] \in ins
  BY <1>1, <1>4 DEF Sound, RepliesInv
<1>7. Probed = outs /\ Inquired = {All} /\ chunk = 0
  BY <1>1 DEF Probed, Inquired, Sound, TypeInv
<1>8. \A e : Probes(e) <=> Reaches(e)
  BY <1>7 DEF Probes, Reaches
<1>9. OnlyInv'
  <2>1. SUFFICES ASSUME NEW e \in Devices, NEW f \in Devices, Known(e)', Known(f)',
                        Reaches(e), Reaches(f), e # f
                 PROVE  FALSE
    BY <1>1, <1>2 DEF OnlyInv, Reaches
  <2>2. /\ Dev(e).in = r[1] /\ Dev(f).in = r[1]
        /\ Dev(e).config \in Configs /\ Dev(f).config \in Configs
    BY <1>1, <1>2, <2>1 DEF Known
  <2>3. Awake(e) /\ Awake(f)
    <3>1. bench \in Benches
      BY DEF Sound, TypeInv
    <3>2. QED
      BY <2>1, <2>2, <3>1, BenchAssumption DEF Awake, Dev, Devices
  <2>4. Known(e) /\ Known(f) /\ Probes(e) /\ Probes(f)
    BY <1>6, <1>8, <2>1, <2>2 DEF Known
  <2>5. Len(replied) >= 2
    BY <1>1, <1>3, <2>1, <2>3, <2>4 DEF TimelyInv, InputInv
  <2>6. QED
    BY <1>1, <2>5
<1>10. OutputInv'
  <2>1. Target(d)'
    BY <1>1, <1>2, <1>4, <1>5 DEF Target, Known, Replier
  <2>2. PICK i \in DOMAIN outs : outs[i] \in Dev(d).outs
    BY <1>5, <1>8 DEF Reaches
  <2>3. chunk' * Slice' + 1 = 1 /\ DOMAIN outs = 1 .. Len(outs)
    <3>1. IsSeq(outs)' /\ chunk' \in Nat /\ IsSeq(outs)
      BY <1>1 DEF Sound, TypeInv, IsSeq
    <3>2. Len(outs) \in Nat /\ DOMAIN outs = 1 .. Len(outs)
      BY <3>1, SeqType
    <3>3. Slice' \in Nat
      BY <1>1, <3>2 DEF Slice
    <3>4. QED
      BY <1>1, <3>2, <3>3, NoneOf
  <2>4. Heading(d)'
    BY <1>1, <1>2, <2>1, <2>2, <2>3 DEF Heading
  <2>5. QED
    BY <1>2, <2>4 DEF OutputInv
<1>11. QED
  BY <1>1, <1>3, <1>9, <1>10 DEF TimelyInv, ClearInv, ProbeInv, InputInv, ChannelInv, FoundInv

\* Whoever replied to the part of the outputs is reached by one of them.
LEMMA OutputFoundTimely ==
    ASSUME Sound, TimelyInv, punctual, OutputFound PROVE TimelyInv'
<1>1. /\ UNCHANGED <<bench, job, attempt, ins, config, deaf, travels, queue>>
      /\ probing /\ probing' = FALSE /\ phase = "output" /\ outs' = Probed /\ chunk' = 0
      /\ Elapsed /\ Good
  BY DEF OutputFound, jobVars, Answered, Elapsed, wireVars
<1>2. \/ Len(outs') > 1 /\ phase' = "output"
      \/ ~(Len(outs') > 1) /\ This.channel = NoChannel /\ phase' = "channel"
      \/ ~(Len(outs') > 1) /\ This.channel # NoChannel /\ phase' = "found" /\ channel' = This.channel
  BY <1>1 DEF OutputFound
<1>3. Ports' = Ports /\ Devices' = Devices /\ This' = This /\ \A d : Dev(d)' = Dev(d)
  BY <1>1 DEF Dev, Ports, Devices, This
<1>4. Clear'
  BY <1>1, <1>3, ElapsedClear, ClearKept DEF Sound
<1>5. PICK k \in DOMAIN replied : replied[k][2] = config
  BY <1>1 DEF Good
<1>6. PICK d \in Devices : Replier(d, replied[k]) /\ deaf[d] = 0 /\ Probes(d)
  BY <1>1, <1>5 DEF TimelyInv, ProbeInv
<1>7. replied[k][1] \in ins /\ config \in Configs
  BY <1>1, <1>5 DEF Sound, RepliesInv, SourceInv
<1>8. Target(d)' /\ Target(d)
  BY <1>1, <1>3, <1>5, <1>6, <1>7 DEF Target, Known, Replier
<1>9. PICK i \in DOMAIN outs' : outs'[i] \in Dev(d).outs
  BY <1>1, <1>6 DEF Probes
<1>10. IsSeq(outs') /\ Len(outs') \in Nat /\ DOMAIN outs' = 1 .. Len(outs')
  <2>1. IsSeq(outs')
    BY <1>1, ProbedType DEF Sound, TypeInv
  <2>2. QED
    BY <2>1, SeqType
<1>11. OnlyInv'
  <2>1. \A e \in Devices : Reaches(e)' => Reaches(e)
    <3>1. \A j \in DOMAIN Probed : \E n \in DOMAIN outs : Probed[j] = outs[n]
      <4>1. \A j \in DOMAIN Probed : From + j \in From + 1 .. UpTo /\ Probed[j] = outs[From + j]
        BY ProbedType DEF Sound, TypeInv
      <4>2. From \in Nat /\ UpTo \in Nat /\ UpTo <= Len(outs)
        BY Bounds DEF Sound, TypeInv
      <4>3. DOMAIN outs = 1 .. Len(outs) /\ Len(outs) \in Nat
        BY SeqType DEF Sound, TypeInv
      <4>4. From + 1 .. UpTo \subseteq DOMAIN outs
        BY <4>2, <4>3
      <4>5. QED
        BY <4>1, <4>4
    <3>2. QED
      BY <1>1, <1>3, <3>1 DEF Reaches
  <2>2. QED
    BY <1>1, <1>3, <2>1 DEF TimelyInv, OnlyInv, Known
<1>12. OutputInv'
  <2>1. chunk' * Slice' + 1 = 1
    <3>1. Slice' \in Nat
      BY <1>10 DEF Slice
    <3>2. QED
      BY <1>1, <3>1, NoneOf
  <2>2. Heading(d)'
    BY <1>1, <1>3, <1>8, <1>9, <1>10, <2>1 DEF Heading
  <2>3. QED
    BY <1>3, <2>2 DEF OutputInv
<1>13. ~(Len(outs') > 1) => Len(outs') = 1 /\ outs'[1] \in Dev(d).outs
  BY <1>9, <1>10
<1>14. ChannelInv'
  BY <1>2, <1>3, <1>8, <1>13 DEF ChannelInv
<1>15. FoundInv'
  <2>1. job.type # "test"
    BY <1>1 DEF Sound, TypeInv
  <2>2. QED
    BY <1>1, <1>2, <1>3, <1>8, <1>13, <2>1 DEF FoundInv, Answers, Target, Known
<1>16. QED
  BY <1>1, <1>2, <1>4, <1>11, <1>12, <1>14, <1>15 DEF TimelyInv, ClearInv, ProbeInv, InputInv

\* The device did not reply to this part: it is reached by a later one.
LEMMA OutputNextTimely ==
    ASSUME Sound, TimelyInv, punctual, OutputNext PROVE TimelyInv'
<1>1. /\ UNCHANGED <<bench, job, attempt, phase, ins, outs, config, deaf, travels, queue>>
      /\ probing /\ probing' = FALSE /\ phase = "output" /\ chunk' = chunk + 1
      /\ Elapsed /\ ~Good /\ ~LastChunk
  BY DEF OutputNext, jobVars, Answered, Elapsed, wireVars
<1>2. Ports' = Ports /\ Devices' = Devices /\ Slice' = Slice /\ \A d : Dev(d)' = Dev(d)
  BY <1>1 DEF Dev, Ports, Devices, Slice
<1>3. Clear' /\ \A d \in Devices : ~Pending(d)
  BY <1>1, <1>2, ElapsedClear, ClearKept DEF Sound
<1>4. PICK d \in Devices : Heading(d)
  BY <1>1 DEF TimelyInv, OutputInv
<1>5. ~Probes(d)
  BY <1>1, <1>3, <1>4 DEF Heading, Good
<1>6. ~ \E i \in DOMAIN Probed : Probed[i] \in Dev(d).outs
  BY <1>1, <1>5 DEF Probes, Inquired
<1>7. ~ \E i \in From + 1 .. UpTo : outs[i] \in Dev(d).outs
  BY <1>6, ProbedIn DEF Sound, TypeInv
<1>8. PICK i \in chunk * Slice + 1 .. Len(outs) : outs[i] \in Dev(d).outs
  BY <1>4 DEF Heading
<1>9. i \in chunk' * Slice' + 1 .. Len(outs')
  <2>1. /\ chunk * Slice \in Nat /\ (chunk + 1) * Slice = chunk * Slice + Slice
        /\ Slice \in Nat /\ Len(outs) \in Nat
    BY Bounds, SeqType DEF Sound, TypeInv
  <2>2. (chunk + 1) * Slice < Len(outs)
    BY <1>1, <2>1 DEF LastChunk
  <2>3. From = chunk * Slice /\ UpTo = (chunk + 1) * Slice
    BY <1>1, <2>1, <2>2 DEF From, UpTo, Smaller
  <2>4. i \notin chunk * Slice + 1 .. (chunk + 1) * Slice
    BY <1>7, <1>8, <2>3
  <2>5. i \in (chunk + 1) * Slice + 1 .. Len(outs)
    BY <2>1, <2>4
  <2>6. QED
    BY <1>1, <1>2, <2>5
<1>10. Heading(d)'
  BY <1>1, <1>2, <1>4, <1>8, <1>9 DEF Heading, Target, Known
<1>11. OutputInv'
  BY <1>2, <1>10 DEF OutputInv
<1>12. OnlyInv'
  BY <1>1, <1>2 DEF TimelyInv, OnlyInv, Known, Reaches
<1>13. QED
  BY <1>1, <1>3, <1>11, <1>12 DEF TimelyInv, ClearInv, ProbeInv, InputInv, ChannelInv, FoundInv

\* The test: the one output was heard, on the channel of the inquiry.
LEMMA TestPassesTimely ==
    ASSUME Sound, TimelyInv, TestPasses PROVE TimelyInv'
<1>1. /\ UNCHANGED <<bench, job, attempt, ins, outs, replied>> /\ probing /\ probing' = FALSE
      /\ phase = "test" /\ phase' = "found" /\ replied # <<>> /\ replied[1][2] = config'
      /\ channel' = This.channel
  BY DEF TestPasses, jobVars, Passed, Answered, Elapsed
<1>2. Devices' = Devices /\ This' = This /\ \A d : Dev(d)' = Dev(d)
  BY <1>1 DEF Dev, Devices, This
<1>3. 1 \in DOMAIN replied
  <2>1. replied \in Seq(Ports \X Configs)
    BY DEF Sound, TypeInv
  <2>2. QED
    BY <1>1, <2>1
<1>4. PICK d \in Devices : Replier(d, replied[1]) /\ Probes(d)
  BY <1>1, <1>3 DEF TimelyInv, ProbeInv
<1>5. replied[1][1] \in ins
  BY <1>1, <1>3 DEF Sound, RepliesInv
<1>6. Len(outs) = 1 /\ outs[1] \in Dev(d).outs
  <2>1. job.type = "test" /\ Len(outs) <= 1 /\ IsSeq(outs)
    BY <1>1 DEF Sound, TypeInv
  <2>2. Len(outs) \in Nat /\ DOMAIN outs = 1 .. Len(outs)
    BY <2>1, SeqType
  <2>3. \E i \in DOMAIN outs : outs[i] \in Dev(d).outs
    BY <1>1, <1>4 DEF Probes, Probed
  <2>4. QED
    BY <2>1, <2>2, <2>3
<1>7. This.channel \in {All, Dev(d).channel} /\ This.channel # NoChannel
  <2>1. This.channel \in {All, Dev(d).channel}
    BY <1>1, <1>4 DEF Probes, Inquired
  <2>2. job \in Jobs /\ attempt \in DOMAIN job.attempts /\ job.type = "test"
    BY <1>1 DEF Sound, TypeInv
  <2>3. QED
    BY <2>1, <2>2, JobAssumption DEF This
<1>8. Answers(d, outs[1])'
  BY <1>1, <1>2, <1>4, <1>5, <1>6 DEF Answers, Replier
<1>9. FoundInv'
  BY <1>1, <1>2, <1>6, <1>7, <1>8 DEF FoundInv
<1>10. QED
  BY <1>1, <1>9 DEF TimelyInv, ClearInv, ProbeInv, InputInv, OnlyInv, OutputInv, ChannelInv

\* A reply arrives: only where nobody listens is it lost.
LEMMA ArriveTimely ==
    ASSUME Sound, TimelyInv, NEW d \in Devices, Arrive(d) PROVE TimelyInv'
<1>1. /\ UNCHANGED <<bench, job, attempt, phase, ins, outs, chunk, config, channel>>
      /\ UNCHANGED <<probing, replied, deaf>> /\ travels[d] > 0
      /\ Ports' = Ports /\ Devices' = Devices /\ \A e : Dev(e)' = Dev(e)
  BY ArriveQueue DEF Sound, jobVars, searchVars, probeVars
<1>2. Probed' = Probed /\ Slice' = Slice /\ Sent' = Sent /\ \A e : Probes(e)' <=> Probes(e)
  BY <1>1, SameProbe
<1>3. ASSUME NEW e \in Devices, Pending(e)' PROVE Pending(e)
  <2>1. \A q \in Ports : \A k \in DOMAIN queue'[q] :
            (\E j \in DOMAIN queue[q] : queue'[q][k] = queue[q][j]) \/ queue'[q][k] = d
    BY ArriveQueue DEF Sound
  <2>2. travels'[e] > 0 => travels[e] > 0
    <3>1. travels \in [Devices -> Int]
      BY DEF Sound, TypeInv
    <3>2. e # d => travels'[e] = travels[e]
      BY ArriveQueue DEF Sound
    <3>3. QED
      BY <1>1, <3>1, <3>2
  <2>3. Pending(d)
    BY <1>1 DEF Pending
  <2>4. QED
    BY <1>1, <1>3, <2>1, <2>2, <2>3 DEF Pending
<1>4. ASSUME NEW e \in Devices, Pending(e), Dev(e).in \in ins PROVE Pending(e)'
  <2>1. CASE e = d
    BY <1>1, <1>4, <2>1, ArriveQueue DEF Sound, Pending
  <2>2. CASE e # d /\ travels[e] > 0
    BY <2>2, ArriveQueue DEF Sound, Pending
  <2>3. CASE \E q \in Ports : \E j \in DOMAIN queue[q] : queue[q][j] = e
    BY <1>1, <2>3, ArriveQueue DEF Sound, Pending
  <2>4. QED
    BY <1>4, <2>1, <2>2, <2>3 DEF Pending
<1>5. ClearInv'
  <2>1. ~Clear
    BY <1>1 DEF Clear
  <2>2. QED
    BY <1>1, <1>2, <2>1 DEF TimelyInv, ClearInv
<1>6. ProbeInv'
  BY <1>1, <1>2, <1>3 DEF TimelyInv, ProbeInv, Replier
<1>7. InputInv'
  <2>1. \A e \in Devices : Known(e)' => Known(e) /\ (Pending(e) => Pending(e)')
    BY <1>1, <1>4 DEF Known
  <2>2. QED
    BY <1>1, <1>2, <2>1 DEF TimelyInv, InputInv, Awake
<1>8. OnlyInv'
  BY <1>1 DEF TimelyInv, OnlyInv, Known, Reaches
<1>9. OutputInv'
  <2>1. \A e \in Devices : Heading(e) => Heading(e)'
    BY <1>1, <1>2, <1>4 DEF Heading, Target, Known
  <2>2. QED
    BY <1>1, <2>1 DEF TimelyInv, OutputInv
<1>10. ChannelInv' /\ FoundInv'
  BY <1>1 DEF TimelyInv, ChannelInv, FoundInv, Target, Known, This, Answers
<1>11. QED
  BY <1>5, <1>6, <1>7, <1>8, <1>9, <1>10 DEF TimelyInv

\* A reply is read: whoever's it was, it counts if its configuration is known.
LEMMA ReadTimely ==
    ASSUME Sound, TimelyInv, NEW p \in Ports, Read(p) PROVE TimelyInv'
<1> DEFINE d == Head(queue[p])
<1>1. /\ UNCHANGED <<bench, job, attempt, phase, ins, outs, chunk, config, channel, probing>>
      /\ UNCHANGED <<deaf, travels>> /\ probing
      /\ Ports' = Ports /\ Devices' = Devices /\ \A e : Dev(e)' = Dev(e)
      /\ d \in Devices /\ Dev(d).in = p /\ p \in ins /\ Pending(d)
  BY ReadQueue, ReadReplied DEF Sound, searchVars
<1>2. Probed' = Probed /\ Slice' = Slice /\ Sent' = Sent /\ \A e : Probes(e)' <=> Probes(e)
  BY <1>1, SameProbe
<1>3. \A e \in Devices : Pending(e)' => Pending(e)
  <2>1. \A q \in Ports : \A k \in DOMAIN queue'[q] :
            \E j \in DOMAIN queue[q] : queue'[q][k] = queue[q][j]
    BY ReadQueue DEF Sound
  <2>2. QED
    BY <1>1, <2>1 DEF Pending
<1>4. \A e \in Devices : Pending(e) => Pending(e)' \/ e = d
  <2>1. \A q \in Ports : \A j \in DOMAIN queue[q] :
            queue[q][j] = d \/ \E k \in DOMAIN queue'[q] : queue'[q][k] = queue[q][j]
    BY ReadQueue DEF Sound
  <2>2. QED
    BY <1>1, <2>1 DEF Pending
<1>5. /\ Dev(d).config \in Configs =>
            /\ Len(replied') = Len(replied) + 1
            /\ \E k \in DOMAIN replied' : replied'[k][2] = Dev(d).config
      /\ \A k \in DOMAIN replied' :
            \/ k \in DOMAIN replied /\ replied'[k] = replied[k]
            \/ Replier(d, replied'[k])
      /\ \A k \in DOMAIN replied : k \in DOMAIN replied' /\ replied'[k] = replied[k]
      /\ Len(replied') >= Len(replied) /\ Len(replied) \in Nat /\ Len(replied') \in Nat
  <2>1. Len(replied') \in Nat
    BY ReadType DEF Sound, TypeInv
  <2>2. QED
    BY <2>1, ReadReplied DEF Sound
<1> HIDE DEF d
<1>6. ProbeInv'
  <2>1. deaf[d] = 0 /\ Probes(d)
    BY <1>1 DEF TimelyInv, ProbeInv
  <2>2. ASSUME NEW k \in DOMAIN replied'
        PROVE  \E e \in Devices : Replier(e, replied'[k]) /\ deaf[e] = 0 /\ Probes(e)
    BY <1>1, <1>5, <2>1 DEF TimelyInv, ProbeInv
  <2>3. \A e \in Devices : Pending(e)' => deaf[e] = 0 /\ Probes(e)
    BY <1>1, <1>3 DEF TimelyInv, ProbeInv
  <2>4. QED
    BY <1>1, <1>2, <2>2, <2>3 DEF ProbeInv, Replier
<1>7. InputInv'
  <2>1. SUFFICES ASSUME phase = "input" PROVE InputInv'
    BY <1>1 DEF InputInv
  <2>2. \A e \in Devices : Known(e)' <=> Known(e)
    BY <1>1 DEF Known
  <2>3. ASSUME NEW e \in Devices, Awake(e), Known(e), Probes(e)
        PROVE  /\ Pending(e) \/ Len(replied) >= 1
               /\ Pending(e)' \/ Len(replied') >= 1
               /\ Pending(e) => Pending(e)' \/ (e = d /\ Len(replied') = Len(replied) + 1)
    <3>1. Pending(e) \/ Len(replied) >= 1
      BY <1>1, <2>1, <2>3 DEF TimelyInv, InputInv
    <3>2. e = d => Dev(d).config \in Configs
      BY <2>3 DEF Known
    <3>3. Pending(e) => Pending(e)' \/ (e = d /\ Len(replied') = Len(replied) + 1)
      BY <1>4, <1>5, <3>2
    <3>4. QED
      BY <1>5, <3>1, <3>3
  <2>4. ASSUME NEW e \in Devices, NEW f \in Devices, e # f, Awake(e), Awake(f), Known(e), Known(f),
               Probes(e), Probes(f)
        PROVE  Pending(e)' \/ Pending(f)' \/ Len(replied') >= 2
    <3>1. Pending(e) \/ Pending(f) \/ Len(replied) >= 2
      BY <1>1, <2>1, <2>4 DEF TimelyInv, InputInv
    <3>2. CASE Len(replied) >= 2
      BY <1>5, <3>2
    <3>3. CASE Pending(e)
      BY <1>5, <2>3, <2>4, <3>3
    <3>4. CASE Pending(f)
      BY <1>5, <2>3, <2>4, <3>4
    <3>5. QED
      BY <3>1, <3>2, <3>3, <3>4
  <2>5. QED
    BY <1>1, <1>2, <2>2, <2>3, <2>4 DEF InputInv, Awake
<1>8. OutputInv'
  <2>1. SUFFICES ASSUME phase = "output" PROVE \E e \in Devices : Heading(e)'
    BY <1>1 DEF OutputInv
  <2>2. PICK e \in Devices : Heading(e)
    BY <2>1 DEF TimelyInv, OutputInv
  <2>3. Target(e)' /\ \E i \in chunk * Slice + 1 .. Len(outs) : outs[i] \in Dev(e).outs
    BY <1>1, <2>2 DEF Heading, Target, Known
  <2>4. Probes(e) => Pending(e)' \/ \E k \in DOMAIN replied' : replied'[k][2] = config
    <3>1. Target(e) /\ (Probes(e) => Pending(e) \/ \E k \in DOMAIN replied : replied[k][2] = config)
      BY <1>1, <2>2 DEF Heading
    <3>2. e = d => Dev(d).config \in Configs /\ Dev(d).config = config
      BY <3>1 DEF Target, Known
    <3>3. QED
      BY <1>4, <1>5, <3>1, <3>2
  <2>5. Heading(e)'
    BY <1>1, <1>2, <2>3, <2>4 DEF Heading
  <2>6. QED
    BY <2>5
<1>9. OnlyInv' /\ ChannelInv' /\ FoundInv' /\ ClearInv'
  BY <1>1 DEF TimelyInv, OnlyInv, ChannelInv, FoundInv, ClearInv, Target, Known, Reaches, This, Answers
<1>10. QED
  BY <1>6, <1>7, <1>8, <1>9 DEF TimelyInv

\* The channel is that of the one device that is reached.
LEMMA ChannelReadTimely ==
    ASSUME Sound, TimelyInv, NEW p \in Ports, ChannelRead(p) PROVE TimelyInv'
<1> DEFINE d == Head(queue[p])
<1>1. /\ UNCHANGED <<bench, job, attempt, ins, outs, chunk, config, deaf, travels, replied>>
      /\ probing /\ phase = "channel"
      /\ Ports' = Ports /\ Devices' = Devices /\ \A e : Dev(e)' = Dev(e)
      /\ d \in Devices /\ Dev(d).in = p /\ p \in ins /\ Pending(d)
      /\ \/ Dev(d).config \in Configs /\ phase' = "found" /\ channel' = Dev(d).channel /\ ~probing'
         \/ UNCHANGED <<phase, channel, probing>>
  BY ReadQueue DEF Sound, ChannelRead
<1>2. \A e \in Devices : Pending(e)' => Pending(e)
  <2>1. \A q \in Ports : \A k \in DOMAIN queue'[q] :
            \E j \in DOMAIN queue[q] : queue'[q][k] = queue[q][j]
    BY ReadQueue DEF Sound
  <2>2. QED
    BY <1>1, <2>1 DEF Pending
<1> HIDE DEF d
<1>3. CASE UNCHANGED <<phase, channel, probing>>
  <2>1. \A e : Probes(e)' <=> Probes(e)
    BY <1>1, <1>3, SameProbe
  <2>2. ProbeInv'
    BY <1>1, <1>2, <1>3, <2>1 DEF TimelyInv, ProbeInv, Replier
  <2>3. OnlyInv' /\ ChannelInv'
    BY <1>1, <1>3 DEF TimelyInv, OnlyInv, ChannelInv, Known, Reaches, Target, This
  <2>4. QED
    BY <1>1, <1>3, <2>2, <2>3 DEF TimelyInv, ClearInv, InputInv, OutputInv, FoundInv
<1>4. CASE Dev(d).config \in Configs /\ phase' = "found" /\ channel' = Dev(d).channel /\ ~probing'
  <2>1. Len(outs) = 1 /\ This.channel = NoChannel
    BY <1>1 DEF TimelyInv, ChannelInv
  <2>2. PICK e \in Devices : Target(e) /\ outs[1] \in Dev(e).outs
    BY <1>1 DEF TimelyInv, ChannelInv
  <2>3. IsSeq(outs) /\ DOMAIN outs = {1}
    BY <2>1, SeqType DEF Sound, TypeInv
  <2>4. Probed = outs
    BY <1>1 DEF Probed
  <2>5. Reaches(d) /\ Reaches(e)
    <3>1. Probes(d)
      BY <1>1 DEF TimelyInv, ProbeInv
    <3>2. QED
      BY <2>2, <2>3, <2>4, <3>1 DEF Probes, Reaches
  <2>6. d = e
    BY <1>1, <1>4, <2>2, <2>5 DEF TimelyInv, OnlyInv, Known, Target
  <2>7. job.type # "test"
    BY <1>1 DEF Sound, TypeInv
  <2>8. FoundInv'
    BY <1>1, <1>4, <2>1, <2>2, <2>6, <2>7 DEF FoundInv, Answers, Target, Known, This
  <2>9. QED
    BY <1>4, <2>8 DEF TimelyInv, ClearInv, ProbeInv, InputInv, OnlyInv, OutputInv, ChannelInv
<1>5. QED
  BY <1>1, <1>3, <1>4

-----------------------------------------------------------------------------
(* The invariant.                                                          *)

LEMMA StartsSound == Init => DetectInv
<1> SUFFICES ASSUME Init PROVE DetectInv
  OBVIOUS
<1>1. /\ phase = "open" /\ ins = {} /\ ~probing /\ \A p \in Ports : queue[p] = <<>>
      /\ \A d \in Devices : travels[d] = 0
  BY DEF Init, Ports
<1>2. PhaseInv /\ QueueInv /\ RepliesInv /\ SourceInv
  BY <1>1 DEF PhaseInv, QueueInv, RepliesInv, SourceInv
<1>3. TimelyInv
  BY <1>1 DEF TimelyInv, Clear, ClearInv, ProbeInv, InputInv, OnlyInv, OutputInv, ChannelInv, FoundInv
<1>4. QED
  BY <1>2, <1>3, TypeInit DEF DetectInv, PunctualInv

LEMMA StaysTimely == Sound /\ punctual /\ TimelyInv /\ [Next]_detectVars => TimelyInv'
<1> SUFFICES ASSUME Sound, punctual, TimelyInv, [Next]_detectVars PROVE TimelyInv'
  OBVIOUS
<1>1. CASE OpenPorts
  <2>1. phase = "open"
    BY <1>1 DEF OpenPorts
  <2>2. Clear
    BY <2>1 DEF Sound, PhaseInv, TimelyInv, ClearInv
  <2>3. QED
    BY <1>1, <2>2, OpenTimely, FailsTimely DEF Sound
<1>2. CASE ProbeFails
  <2>1. phase \in {"channel", "test"} /\ ~probing /\ Fails
    BY <1>2 DEF ProbeFails
  <2>2. Clear
    BY <2>1 DEF TimelyInv, ClearInv
  <2>3. QED
    BY <2>1, <2>2, FailsTimely DEF Sound
<1>3. CASE InputFails \/ OutputFails \/ ChannelFails \/ TestFails
  <2>1. Elapsed /\ Fails
    BY <1>3 DEF InputFails, OutputFails, ChannelFails, TestFails, Answered
  <2>2. QED
    BY <2>1, ElapsedClear, FailsTimely DEF Sound
<1>4. CASE UNCHANGED detectVars
  <2>1. UNCHANGED <<bench, job, punctual, attempt, phase, ins, outs, chunk, retries, config, channel,
                    probing, replied, error, deaf, travels, queue>>
    BY <1>4 DEF detectVars, jobVars, searchVars, probeVars, wireVars
  <2>2. Probed' = Probed /\ Slice' = Slice /\ Sent' = Sent /\ \A d : Probes(d)' <=> Probes(d)
    BY <2>1, SameProbe
  <2>3. Ports' = Ports /\ Devices' = Devices /\ \A d : Dev(d)' = Dev(d)
    BY <2>1 DEF Ports, Devices, Dev
  <2>4. (\A d : Pending(d)' <=> Pending(d)) /\ (Clear' <=> Clear)
    BY <2>1, <2>3 DEF Pending, Clear
  <2>5. /\ \A d : Known(d)' <=> Known(d)
        /\ \A d : Reaches(d)' <=> Reaches(d)
        /\ \A d : Target(d)' <=> Target(d)
    BY <2>1, <2>3 DEF Known, Reaches, Target
  <2>6. \A d : Heading(d)' <=> Heading(d)
    BY <2>1, <2>2, <2>3, <2>4, <2>5 DEF Heading
  <2>7. ClearInv' /\ ProbeInv' /\ InputInv' /\ OnlyInv'
    BY <2>1, <2>2, <2>3, <2>4, <2>5 DEF TimelyInv, ClearInv, ProbeInv, InputInv, OnlyInv, Awake, Replier
  <2>8. OutputInv' /\ ChannelInv' /\ FoundInv'
    BY <2>1, <2>3, <2>5, <2>6 DEF TimelyInv, OutputInv, ChannelInv, FoundInv, This, Answers
  <2>9. QED
    BY <2>7, <2>8 DEF TimelyInv
<1>5. QED
  BY <1>1, <1>2, <1>3, <1>4, ProbeTimely, AgainTimely, RetryTimely, InputFoundTimely,
     OutputFoundTimely, OutputNextTimely, TestPassesTimely, ArriveTimely, ReadTimely, ChannelReadTimely
     DEF Next, Steps, Reads

\* Whatever is attached and asked for: types, sources of replies and, where the
\* replies come in time, the target of the search.
THEOREM DetectSound == Spec => []DetectInv
<1>1. DetectInv /\ [Next]_detectVars => DetectInv'
  <2>1. [Next]_detectVars => punctual' = punctual
    BY DEF Next, Steps, Reads, OpenPorts, Probe, ProbeFails, ProbeAgain, Retry, InputFound, InputFails,
           OutputFound, OutputNext, OutputFails, ChannelFails, TestPasses, TestFails, Fails, Read,
           ChannelRead, Arrive, jobVars, detectVars
  <2>2. QED
    BY <2>1, SoundStep, StaysTimely DEF DetectInv, Sound, PunctualInv
<1>2. QED
  BY <1>1, StartsSound, PTL DEF Spec

\* What is found is one device that hears the output and identifies as what was
\* found, for every bench, job and order of the replies.
THEOREM FoundRight == Spec => []FoundIsRight
<1>1. DetectInv => FoundIsRight
  <2>1. SUFFICES ASSUME DetectInv PROVE FoundIsRight
    OBVIOUS
  <2>2. phase \in {"output", "channel", "found"} =>
            \E d \in Devices : Dev(d).in \in ins /\ Dev(d).config = config
    BY <2>1 DEF DetectInv, SourceInv
  <2>3. punctual => FoundInv
    BY <2>1 DEF DetectInv, PunctualInv, TimelyInv
  <2>4. QED
    BY <2>2, <2>3 DEF FoundIsRight, FoundInv
<1>2. QED
  BY <1>1, DetectSound, PTL

\* The binary search does not pass the device by, however many outputs there are.
THEOREM SearchKeeps == Spec => []SearchKeepsDevice
<1>1. DetectInv => SearchKeepsDevice
  <2>1. SUFFICES ASSUME DetectInv, punctual, phase \in {"output", "channel", "found"}
                 PROVE  \E d \in Devices : \E i \in chunk * Slice + 1 .. Len(outs) : Answers(d, outs[i])
    BY DEF SearchKeepsDevice
  <2>2. OutputInv /\ ChannelInv /\ FoundInv /\ TypeInv
    BY <2>1 DEF DetectInv, PunctualInv, TimelyInv
  <2>3. CASE phase = "output"
    BY <2>2, <2>3 DEF OutputInv, Heading, Target, Known, Answers
  <2>4. CASE phase \in {"channel", "found"}
    <3>1. Len(outs) = 1 /\ chunk = 0 /\ IsSeq(outs)
      BY <2>2, <2>4 DEF TypeInv, ChannelInv, FoundInv
    <3>2. Slice \in Nat
      BY <3>1, Bounds
    <3>3. chunk * Slice + 1 = 1
      BY <3>1, <3>2, NoneOf
    <3>4. \E d \in Devices : Answers(d, outs[1])
      BY <2>2, <2>4 DEF ChannelInv, FoundInv, Target, Known, Answers
    <3>5. 1 \in chunk * Slice + 1 .. Len(outs)
      BY <3>1, <3>3
    <3>6. QED
      BY <3>4, <3>5
  <2>5. QED
    BY <2>1, <2>3, <2>4
<1>2. QED
  BY <1>1, DetectSound, PTL
=============================================================================
