-------------------------- MODULE MCExchangeSchedule --------------------------
EXTENDS ExchangeSchedule

Route(s, t) == IF s = t THEN 2 ELSE 1 + ((s + t) % 3)
Pair(t) == IF t % 2 = 0 THEN t + 1 ELSE t - 1
Meets(n) == n = 3

One(offset, n) == <<[offset |-> offset, words |-> n]>>
To(tile, base, spans) == [tile |-> tile, base |-> base, spans |-> spans]
Copy(tile, shard, bases, spans, dests) == [tile |-> tile, shard |-> shard, bases |-> bases, spans |-> spans, dests |-> dests]

\* forwarding: 0 to 1, what 1 received on to 2, and 2 back over the first source
Forward(a, b, n) ==
    <<Copy(0, 1, <<a>>, One(0, n), <<To(1, b, One(0, n))>>),
      Copy(1, 2, <<b>>, One(0, n), <<To(2, a, One(0, n))>>),
      Copy(2, 3, <<a>>, One(0, n), <<To(0, a, One(0, n))>>)>>
\* a source that moves with the iteration next to one that stays
Repeated(a, b, step) ==
    <<Copy(0, 1, <<a, a + step>>, One(0, 2), <<To(1, b, One(0, 2))>>),
      Copy(0, 2, <<b>>, One(0, 2), <<To(2, a, One(0, 2))>>),
      Copy(0, 1, <<a, a + step>>, One(2, 1), <<To(1, b + 2, One(0, 1))>>)>>
\* spans cut by a receiver and by the longest message, kept or merged
Spans(a, b) ==
    <<Copy(0, 1, <<a>>, <<[offset |-> 0, words |-> 3], [offset |-> 3, words |-> 3]>>,
           <<To(1, b, <<[offset |-> 0, words |-> 2], [offset |-> 4, words |-> 4]>>), To(3, b, One(1, 6))>>)>>
\* a tile receives its own multicast
Loopback(a, b, n) ==
    <<Copy(1, 1, <<a>>, One(0, n), <<To(1, b, One(0, n)), To(2, b, One(0, n))>>),
      Copy(1, 1, <<a>>, One(n, n), <<To(1, b + n, One(0, n)), To(2, b + n, One(0, n))>>),
      Copy(2, 2, <<a>>, One(0, 2), <<To(0, b, One(0, 2))>>)>>
\* the same without another receiver
Alone(a, b) ==
    <<Copy(0, 1, <<a>>, One(0, 2), <<To(1, b, One(0, 2))>>), Copy(1, 2, <<b>>, One(0, 2), <<To(1, a, One(0, 2))>>)>>
\* both words of an item to a pair
BothWords(a, b, n) ==
    <<Copy(0, 1, <<a>>, One(0, n), <<To(2, b, One(0, n)), To(3, b, One(0, n))>>),
      Copy(1, 2, <<a>>, One(0, 2), <<To(2, a, One(0, 2))>>)>>
Crowd(a, b) ==
    <<Copy(0, 1, <<a>>, One(0, 2), <<To(1, b, One(0, 2))>>),
      Copy(0, 1, <<a>>, One(4, 2), <<To(1, b + 4, One(0, 2))>>),
      Copy(2, 2, <<a>>, One(0, 3), <<To(3, b, One(0, 3))>>)>>

\* a tile receives while it sends: controls inside a message
Duplex(a, b, n) ==
    <<Copy(1, 1, <<a>>, One(0, 4), <<To(2, b, One(0, 4))>>),
      Copy(0, 2, <<a>>, One(0, n), <<To(1, b, One(0, n))>>),
      Copy(2, 3, <<a>>, One(0, 4), <<To(1, b + 4, One(0, 4)), To(0, b + 4, One(0, 4))>>)>>

Placements(phase(_, _)) == {<<phase(0, 8), phase(p[1], p[2])>>: p \in {<<8, 0>>, <<0, 2>>, <<16, 10>>}}
AllJobs ==
    UNION {Placements(LAMBDA a, b: Forward(a, b, n)): n \in {2, 3}}
    \cup UNION {Placements(LAMBDA a, b: Repeated(a, b, step)): step \in {1, 4}}
    \cup Placements(Spans)
    \cup UNION {{<<Loopback(0, 8, n)>>, <<Loopback(0, 8, n), Loopback(4, 16, n)>>,
                <<Loopback(0, 8, n), Loopback(0, n + 1, n)>>}: n \in {2, 3}}
    \cup {<<Alone(0, 8)>>}
    \cup UNION {Placements(LAMBDA a, b: BothWords(a, b, n)): n \in {2, 4}}
    \cup UNION {Placements(LAMBDA a, b: Duplex(a, b, n)): n \in {2, 3}}
    \cup Placements(Crowd)
===============================================================================
