---- MODULE MCPlacement ----
EXTENDS Placement

Shard(size, class, of, shift) == [size |-> size, class |-> class, of |-> of, shift |-> shift]
Own(size) == Shard(size, "standard", 0, 0)
Work(reads, writes) == [op |-> "work", reads |-> reads, writes |-> writes, apart |-> {}, needs |-> {}]
Apart(reads, writes, apart) == [Work(reads, writes) EXCEPT !.apart = apart]
Needing(work, alignment, tail) ==
  [work EXCEPT !.needs = {[shard |-> s, alignment |-> alignment, tail |-> tail] :
                            s \in work.reads \cup work.writes}]
Mark(op) == [op |-> op, repeat |-> 1, apart |-> {}, needs |-> {}]
In(s) == [shard |-> s, parameter |-> FALSE]
Resident(s) == [shard |-> s, parameter |-> TRUE]
Memory(end) == {<<0, 2>>, <<3, end>>}
Samples == [bytes |-> 1, alignment |-> 1, first |-> 0, last |-> 4]

\* A chain of three operations: the input, a parameter, two temporaries, the output.
Chains ==
  {[ranges |-> Memory(13), shards |-> <<Own(a), Own(b), Own(c), Shard(d, class, 0, 0), Own(e)>>,
    inputs |-> {In(1), Resident(2)}, outputs |-> {5}, repeats |-> <<>>, finite |-> finite,
    auxiliary |-> aux,
    work |-> <<Apart({1, 2}, {3}, apart), Needing(Work({3}, {4}), align, 0), Work({2, 4}, {5})>>] :
     a \in {1, 3}, b \in {1, 2}, c \in {1}, d \in {2, 5}, e \in {2},
     class \in {"standard", "interleaved"}, apart \in {{}, {<<1, 2>>}, {<<1, 3>>, <<2, 3>>}},
     align \in {1, 2}, aux \in {<<>>, <<Samples>>}, finite \in {FALSE}}

\* A Repeat over two inputs: carried 1 (argument 2, yielded 3, result 4), inputs 5 and 6
\* as 7, an invariant 8 as 9, a temporary of the body and a value of before the Repeat.
Loops ==
  {[ranges |-> Memory(IF a = 1 THEN 20 ELSE 16), shards |-> <<Own(a), Own(a), Own(a), Own(a), Shard(b, class, 0, 0), Shard(b, class, 0, 0),
                 Shard(b, class, 0, 0), Own(1), Own(1), Own(t), Own(2), Own(1)>>,
    inputs |-> {In(1), Resident(5), Resident(6), In(8)}, outputs |-> {11}, finite |-> FALSE,
    repeats |-> <<[carried |-> <<[initial |-> 1, argument |-> 2, yielded |-> 3, result |-> 4]>>,
                   invariants |-> <<[input |-> 8, argument |-> 9]>>,
                   iterated |-> <<[inputs |-> <<5, 6>>, argument |-> 7]>>]>>,
    auxiliary |-> <<>>,
    work |-> <<Apart({5, 6}, {12}, both), Mark("begin"),
               Needing(Apart({2, 7}, {10}, apart), align, tail),
               Needing(Work({9, 10, 2}, {3}), wide, 0), Mark("end"), Work({4, 12}, {11})>>] :
     a \in {1, 2}, b \in {1, 2}, t \in {1}, class \in {"standard", "interleaved"},
     both \in {{}, {<<5, 6>>}},
     apart \in {{<<7, 10>>}, {<<7, 2>>}}, align \in {1, 2}, wide \in {4}, tail \in {0, 1}}

\* Views at an offset, consistent and not, and of a group of another class.
Views ==
  {[ranges |-> Memory(13), shards |-> <<Own(4), Shard(2, "standard", 1, x), Shard(1, class, 2, y), Own(2), Own(1)>>,
    inputs |-> {In(1)}, outputs |-> {5}, finite |-> finite, auxiliary |-> <<>>,
    repeats |-> <<[carried |-> <<[initial |-> 3, argument |-> z, yielded |-> z, result |-> z]>>,
                   invariants |-> <<>>, iterated |-> <<>>]>>,
    work |-> <<Needing(Work({1}, {4}), 2, 0), Mark("begin"), Needing(Work({2}, {4}), 2, 0), Mark("end"),
               Apart({3, 4}, {5}, {<<3, 4>>})>>] :
     x \in {0, 1, 2}, y \in {0, 1}, z \in {3, 2}, class \in {"standard", "interleaved"},
     finite \in BOOLEAN}

\* Kernels that keep two operands apart, in memory too small for the cheap orders.
Crowds ==
  {[ranges |-> Memory(13), shards |-> <<Own(a), Own(2), Own(c), Own(d), Own(e), Own(1)>>,
    inputs |-> {In(1), In(2)}, outputs |-> {6}, repeats |-> <<>>, finite |-> TRUE,
    auxiliary |-> <<>>,
    work |-> <<Apart({1, 2}, {3}, p), Apart({2, 3}, {4}, q), Work({3, 4}, {5}), Work({4, 5}, {6})>>] :
     a \in {1, 3}, c \in {1, 2}, d \in {3}, e \in {2, 3},
     p \in {{}, {<<1, 2>>}, {<<1, 3>>, <<2, 3>>}}, q \in {{}, {<<3, 2>>}, {<<2, 4>>}}}

MCPrograms == Chains \cup Loops \cup Views \cup Crowds

MCHostScratch == <<0, 2>>
====
