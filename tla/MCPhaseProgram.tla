---------------------------- MODULE MCPhaseProgram ----------------------------
EXTENDS PhaseProgram

Time(s, r) == ((s + 2 * r) % 4) - 1
Column(r) == IF r = 3 THEN 2 ELSE 0
Pair(t) == IF t % 2 = 0 THEN t + 1 ELSE t - 1

To(tile, address) == [tile |-> tile, address |-> address]
Send(message, source, address, words, receivers) ==
    [message |-> message, source |-> source, address |-> address, words |-> words,
     receivers |-> receivers, paired |-> FALSE, register |-> 15]
Paired(t) == [t EXCEPT !.paired = TRUE]
Moving(t) == [t EXCEPT !.register = 6]

\* one stream continued in place, and a tile that receives while it sends
Stream(n) == {Send(1, 0, 10, n, <<To(2, 20)>>), Send(2, 0, 10 + n, n, <<To(2, 20 + n)>>), Send(3, 2, 40, 17, <<To(1, 50)>>)}
\* two senders into one tile that sends itself
Duplex(n) == {Send(1, 1, 10, 11, <<To(2, 20)>>), Send(2, 0, 10, n, <<To(1, 30)>>), Send(3, 2, 40, 2, <<To(1, 50), To(0, 50)>>)}
\* double-width messages in a row, and an ordinary one among them
Pairs(n) == {Paired(Send(1, 0, 10, n, <<To(2, 20), To(3, 20)>>)), Paired(Send(2, 0, 14, n, <<To(2, 28), To(3, 28)>>)),
             Send(3, 1, 40, 3, <<To(0, 60)>>)}
\* a source whose base follows the iteration next to one that stays
Switches(n) == {Moving(Send(1, 0, 10, n, <<To(1, 20)>>)), Send(2, 0, 30, 2, <<To(2, 20)>>), Send(3, 1, 50, 5, <<To(0, 60)>>)}
\* a tile receives its own multicast
Loopback(n) == {Send(1, 1, 10, n, <<To(1, 20), To(2, 20)>>), Send(2, 3, 30, 3, <<To(1, 40)>>), Send(3, 1, 50, 2, <<To(3, 20)>>)}
\* four messages between four tiles
Dense(n) == {Send(1, 0, 10, n, <<To(1, 20)>>), Send(2, 2, 10, 1, <<To(1, 40)>>), Send(3, 1, 10, 11, <<To(3, 20)>>), Send(4, 3, 10, 2, <<To(1, 50)>>)}
\* planning keeps a message at single width when its pair could not be encoded
Plannable(job) == \A t \in job: t.paired => \A r \in Range(Plan(t).receivers): DistinctTimes(r)
AllJobs == {SetToSeq(s): s \in {j \in {Stream(3), Duplex(1), Duplex(3), Pairs(4), Pairs(5), Switches(3), Loopback(2), Dense(1)}: Plannable(j)}}
===============================================================================
