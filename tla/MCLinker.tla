------------------------------- MODULE MCLinker -------------------------------
(* Links of a runtime and a kernel: sections that fill the first region, move  *)
(* to the second one or fit nowhere; each kind of field; and what is refused.  *)
EXTENDS Linker

Sec(kind, align, data, relocs) == [kind |-> kind, align |-> align, data |-> data, relocs |-> relocs]
Sym(name, bind, section, value) == [name |-> name, bind |-> bind, section |-> section, value |-> value]
Rel(at, type, to, of, addend) == [at |-> at, type |-> type, to |-> to, of |-> of, addend |-> addend]
Word(a) == <<a, a + 1, 241, 112>>
Words(count, a) == FoldLeft(LAMBDA seq, n : seq \o Word(a + n), <<>>, [n \in 1 .. count |-> n])

\* start -> kernel through a call, the program address, its own state and table.
Runtime(tableWords) ==
    [sections |-> <<Sec("load", 8, Words(4, 16), <<Rel(0, "RUN", "symbol", 3, 0),
                                                   Rel(4, "20", "symbol", 4, 0),
                                                   Rel(8, "32", "section", 2, 4),
                                                   Rel(12, "NONE", "section", 2, 0)>>),
                    Sec("load", 4, Words(tableWords, 32), <<Rel(0, "REL16_S2", "symbol", 1, 0),
                                                            Rel(2, "16_S3", "symbol", 1, 0)>>),
                    Sec("zero", 16, Words(2, 0), <<>>),
                    Sec("load", 4, Words(1, 64), <<>>)>>,
     symbols |-> <<Sym("start", "global", 1, 0), Sym("unused", "global", 4, 0),
                   Sym("kernel", "global", 0, 0), Sym("program", "global", 0, 0),
                   Sym("workspace", "global", 3, 0)>>]
Kernel(align, count) ==
    [sections |-> <<Sec("other", 4, Words(1, 8), <<>>),
                    Sec("load", align, Words(count, 48), <<Rel(0, "18_S2", "symbol", 2, 4),
                                                           Rel(4, "19_S2", "symbol", 3, 0),
                                                           Rel(8, "21", "section", 2, 0),
                                                           Rel(12, "8", "symbol", 4, 1),
                                                           Rel(14, "16", "symbol", 4, 0)>>)>>,
     symbols |-> <<Sym("kernel", "global", 2, 4), Sym("local", "local", 2, 8),
                   Sym("workspace", "global", 0, 0), Sym("count", "global", Absolute, 24)>>]

Link(objects, regions, retained, externals) ==
    [objects |-> objects, regions |-> regions, base |-> 311296, entry |-> "start",
     retained |-> retained, externals |-> externals]
Two(first, second) == <<<<327680, 327680 + second>>, <<311320, 311320 + first>>>>
Externals == [n \in {"program"} |-> 344064]

One(relocation) ==
    [sections |-> <<Sec("load", 4, Words(1, 16), <<relocation>>), Sec("other", 4, Words(1, 0), <<>>)>>,
     symbols |-> <<Sym("start", "global", 1, 0), Sym("far", "global", Absolute, 311297),
                   Sym("nobody", "global", 0, 0)>>]

Links ==
    {Link(<<Runtime(t), Kernel(a, 4)>>, Two(f, s), r, Externals) :
        t \in {1, 3}, a \in {4, 32}, f \in {40, 48, 64}, s \in {20, 64, 96}, r \in {<<>>, <<"unused">>}}
    \cup {Link(<<Runtime(2), Kernel(8, 4)>>, <<>>, <<"workspace">>, Externals),
          Link(<<Runtime(2), Kernel(6, 4)>>, Two(64, 64), <<>>, Externals),
          Link(<<Runtime(2), Kernel(8, 4)>>, Two(64, 64), <<>>, <<>>),
          Link(<<Runtime(2), Kernel(8, 4)>>, Two(0, 64), <<>>, Externals),
          Link(<<Runtime(2), Kernel(8, 4), Kernel(8, 4)>>, Two(64, 64), <<>>, Externals),
          Link(<<Runtime(2), Kernel(8, 4)>>, Two(64, 96), <<>>,
               [n \in {"program", "start"} |-> 344064]),
          Link(<<Runtime(2)>>, Two(64, 64), <<"kernel">>, Externals)}
    \cup {Link(<<One(r)>>, Two(8, 8), <<>>, <<>>) :
            r \in {Rel(0, "16", "symbol", 2, 0), Rel(0, "18_S2", "symbol", 2, 0),
                   Rel(0, "RUN", "symbol", 2, -4), Rel(0, "32", "symbol", 3, 0),
                   Rel(0, "32", "section", 2, 0), Rel(2, "32", "symbol", 2, 0),
                   Rel(0, "8", "symbol", 2, -400000), Rel(0, "20", "symbol", 2, 0)}}
===============================================================================
