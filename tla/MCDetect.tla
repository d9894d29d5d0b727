------------------------------ MODULE MCDetect ------------------------------
EXTENDS DetectProps, TLC

CONSTANTS d1, d2, i1, i2, u1, o1, o2, o3, v1, xt, pod, c1, c2

MCConfigs  == {xt, pod}
MCChannels == {c1, c2}

Device(in, hears, ch, c, n) ==
    [in |-> in, outs |-> hears, channel |-> ch, config |-> c, deaf |-> n]
Absent == Device(NoPort, {}, c1, Unknown, 0)

First  == {Device(i1, hears, c2, xt, 0) : hears \in {{o1}, {o2}, {o3}, {o1, o3}}}
Second == { Absent, Device(i2, {o2}, c1, xt, 0), Device(i1, {o2}, c1, pod, 0),
            Device(i1, {o1}, c1, Unknown, 0), Device(i2, {o2}, c1, Junk, 0) }
Usb    == {Device(u1, {v1}, c1, xt, n) : n \in 0 .. 2}

Bench(a, b, broken, shut) ==
    [devices |-> (d1 :> a @@ d2 :> b), broken |-> broken, shut |-> shut]
MCBenches ==
    {Bench(a, b, {}, shut) : a \in First, b \in Second, shut \in {{}, {i1}, {o1}}}
    \cup {Bench(a, Absent, {o3}, {}) : a \in First}
    \cup {Bench(Absent, b, {}, shut) : b \in Second \cup Usb, shut \in {{}, {i1, i2}}}
    \cup {Bench(Absent, b, {v1}, {}) : b \in Usb}

Ports1(in, listing, ch, n) == [ins |-> in, listing |-> listing, channel |-> ch, retry |-> n]
Auto(listing, ch) ==
    [type |-> "auto", config |-> Unknown,
     attempts |-> <<Ports1({i1, i2}, listing, ch, 0), Ports1({u1}, <<v1>>, c1, 1)>>]
Test(out, ch) ==
    [type |-> "test", config |-> xt, attempts |-> <<Ports1({i1}, <<out>>, ch, 0)>>]
TestUsb == [type |-> "test", config |-> xt, attempts |-> <<Ports1({u1}, <<v1>>, c1, 1)>>]
MCJobs ==
    {Auto(listing, ch) : listing \in {<<o1, o2, o3, Own>>, <<o1, Own, o3>>},
                         ch \in {NoChannel, c1}}
    \cup {Test(out, ch) : out \in {o1, o3}, ch \in {c2, All}} \cup {TestUsb}
=============================================================================
