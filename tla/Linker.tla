-------------------------------- MODULE Linker --------------------------------
(***************************************************************************)
(* The link of a tile image (ipu-elf `link`).  The objects are the runtime *)
(* and the kernels a program needs.  The link keeps the sections that the  *)
(* entry and the retained symbols reach through relocations, places them   *)
(* in order into the executable regions, gives every symbol its address    *)
(* and patches every relocation of a placed section.                       *)
(*                                                                         *)
(* An object is [sections, symbols].  A section is [kind, align, data,     *)
(* relocs], "load" and "zero" being the kinds that take memory; a symbol   *)
(* is [name, bind, section, value], where section 0 is undefined and       *)
(* Absolute is no section; a relocation is [at, type, to, of, addend],     *)
(* where `to` is "section" or "symbol" and `of` the index.                 *)
(***************************************************************************)
EXTENDS Integers, FiniteSets, SequencesExt

CONSTANT LinkCases     \* [objects, regions, base, entry, retained, externals]

VARIABLES
    linkCase,
    linkStage,      \* "define", "reach", "place", "name", "relocate", "linked" or "refused"
    definitions,    \* global names, and the section that defines each
    kept,           \* reachable sections
    pendingSections,
    placements,     \* of the kept sections so far
    linkCursor,     \* [region, address, offset]
    toPlace,        \* sections of all objects, in order, still to look at
    symbols,        \* name -> address
    image,          \* the bytes of the image
    toPatch         \* relocations of the placed sections, in order, still to apply

linkVars == <<linkCase, linkStage, definitions, kept, pendingSections, placements,
              linkCursor, toPlace, symbols, image, toPatch>>

Absolute == -1
SectionOf(id) == linkCase.objects[id[1]].sections[id[2]]
LinkSize(section) == Len(section.data)

\* <<object, index>> of the items each object lists, in order.
Enumerated(count(_)) ==
    FoldLeft(LAMBDA seq, o : seq \o [i \in 1 .. count(o) |-> <<o, i>>],
             <<>>, [o \in DOMAIN linkCase.objects |-> o])
AllSections == Enumerated(LAMBDA o : Len(linkCase.objects[o].sections))
AllSymbols == Enumerated(LAMBDA o : Len(linkCase.objects[o].symbols))
SymbolAt(id) == linkCase.objects[id[1]].symbols[id[2]]

IsDefined(symbol) == symbol.section # 0
Exported(id) == SymbolAt(id).section > 0 /\ SymbolAt(id).bind \in {"global", "weak"}

Repeated(ids) == \E i, j \in DOMAIN ids : i < j /\ SymbolAt(ids[i]).name = SymbolAt(ids[j]).name
Named(ids, Value(_)) ==
    [n \in {SymbolAt(ids[i]).name : i \in DOMAIN ids} |->
        Value(CHOOSE id \in Range(ids) : SymbolAt(id).name = n)]

-------------------------------------------------------------------------------
(* Reachable sections. *)

Roots == <<linkCase.entry>> \o linkCase.retained

\* Two global definitions of a name, or a root nobody defines, refuse the link.
Define ==
    /\ linkStage = "define"
    /\ LET ids == SelectSeq(AllSymbols, Exported)
           names == Named(ids, LAMBDA id : <<id[1], SymbolAt(id).section>>)
           ok == ~Repeated(ids) /\ Range(Roots) \subseteq DOMAIN names
       IN  /\ definitions' = IF ok THEN names ELSE <<>>
           /\ pendingSections' = IF ok THEN [r \in DOMAIN Roots |-> names[Roots[r]]] ELSE <<>>
           /\ linkStage' = IF ok THEN "reach" ELSE "refused"
    /\ UNCHANGED <<linkCase, kept, placements, linkCursor, toPlace, symbols, image, toPatch>>

\* The section a relocation leads to; none for a symbol that only the externals
\* define.
LedTo(object, relocation) ==
    LET symbol == linkCase.objects[object].symbols[relocation.of]
    IN  IF relocation.to = "section" THEN <<<<object, relocation.of>>>>
        ELSE IF symbol.section > 0 THEN <<<<object, symbol.section>>>>
        ELSE IF symbol.name \in DOMAIN definitions THEN <<definitions[symbol.name]>>
        ELSE <<>>

Neighbours(id) ==
    FoldLeft(LAMBDA seq, r : seq \o LedTo(id[1], r), <<>>, SectionOf(id).relocs)

\* One section is taken off the end of the worklist.
Reach ==
    /\ linkStage = "reach" /\ pendingSections # <<>>
    /\ kept' = kept \cup {Last(pendingSections)}
    /\ pendingSections' = IF Last(pendingSections) \in kept THEN Front(pendingSections)
                          ELSE Front(pendingSections) \o Neighbours(Last(pendingSections))
    /\ UNCHANGED <<linkCase, linkStage, definitions, placements, linkCursor, toPlace, symbols,
                   image, toPatch>>

-------------------------------------------------------------------------------
(* Placement. *)

LinkRegions == IF linkCase.regions = <<>> THEN <<<<linkCase.base, 2^30>>>>
           ELSE SortSeq(linkCase.regions, LAMBDA r, s : r[1] < s[1])

Loaded(id) == id \in kept /\ SectionOf(id).kind \in {"load", "zero"}
                  /\ LinkSize(SectionOf(id)) # 0

Reached ==
    /\ linkStage = "reach" /\ pendingSections = <<>>
    /\ linkStage' = IF \E r \in DOMAIN LinkRegions : LinkRegions[r][1] >= LinkRegions[r][2]
                    THEN "refused" ELSE "place"
    /\ linkCursor' = [region |-> 1, address |-> LinkRegions[1][1], offset |-> 0]
    /\ toPlace' = SelectSeq(AllSections, Loaded)
    /\ UNCHANGED <<linkCase, definitions, kept, pendingSections, placements, symbols, image, toPatch>>

Aligned(address, alignment) == ((address + alignment - 1) \div alignment) * alignment


StartIn(region, address, section) ==
    Aligned(IF address > LinkRegions[region][1] THEN address ELSE LinkRegions[region][1],
            section.align)
FitsRegion(region, address, section) ==
    StartIn(region, address, section) + LinkSize(section) <= LinkRegions[region][2]

\* Regions are only ever left behind: a later, smaller section does not go back.
RegionFor(cursor, section) ==
    SelectInSeq([r \in DOMAIN LinkRegions |-> r],
                LAMBDA r : r >= cursor.region /\
                    FitsRegion(r, IF r = cursor.region THEN cursor.address ELSE 0, section))

IsPowerOfTwo(n) == \E k \in 0 .. 12 : n = 2^k

PlaceNext(section) ==
    LET r == RegionFor(linkCursor, section)
        same == r = linkCursor.region
        start == StartIn(r, IF same THEN linkCursor.address ELSE 0, section)
    IN  [region |-> r, start |-> start,
         offset |-> linkCursor.offset + (IF same THEN start - linkCursor.address ELSE 0)]

Place ==
    /\ linkStage = "place" /\ toPlace # <<>>
    /\ LET section == SectionOf(Head(toPlace))
           fits == IsPowerOfTwo(section.align) /\ RegionFor(linkCursor, section) # 0
       IN  \E next \in {IF fits THEN PlaceNext(section) ELSE linkCursor} :
             /\ linkStage' = IF fits THEN "place" ELSE "refused"
             /\ placements' = IF ~fits THEN placements
                   ELSE Append(placements, [id |-> Head(toPlace), address |-> next.start,
                                            offset |-> next.offset, size |-> LinkSize(section)])
             /\ linkCursor' = IF ~fits THEN linkCursor
                   ELSE [region |-> next.region, address |-> next.start + LinkSize(section),
                         offset |-> next.offset + LinkSize(section)]
    /\ toPlace' = Tail(toPlace)
    /\ UNCHANGED <<linkCase, definitions, kept, pendingSections, symbols, image, toPatch>>

PlacementsOf(id) == SelectSeq(placements, LAMBDA p : p.id = id)
IsPlaced(id) == PlacementsOf(id) # <<>>
AddressOf(id) == PlacementsOf(id)[1].address

\* The image is zero between sections and in uninitialised ones.
Initial(placed) ==
    FoldLeft(LAMBDA bytes, p :
                 [b \in DOMAIN bytes |->
                     IF b > p.offset /\ b <= p.offset + p.size /\ SectionOf(p.id).kind = "load"
                     THEN SectionOf(p.id).data[b - p.offset] ELSE bytes[b]],
             FoldLeft(LAMBDA bytes, n : Append(bytes, 0), <<>>, [n \in 1 .. linkCursor.offset |-> n]),
             placed)

-------------------------------------------------------------------------------
(* Symbols and relocations. *)

\* Local definitions have an address of their own here too; discarded ones none.
Addressed(id) ==
    LET s == SymbolAt(id)
    IN  \/ s.section = Absolute /\ s.bind # "local"
        \/ s.section > 0 /\ IsPlaced(<<id[1], s.section>>)
SymbolAddress(id) ==
    IF SymbolAt(id).section = Absolute THEN SymbolAt(id).value
    ELSE AddressOf(<<id[1], SymbolAt(id).section>>) + SymbolAt(id).value

Patches(placed) ==
    FoldLeft(LAMBDA seq, p : seq \o [r \in DOMAIN SectionOf(p.id).relocs |->
                                        [place |-> p, reloc |-> SectionOf(p.id).relocs[r]]],
             <<>>, placed)

\* Externals take the place of what the objects define.
NameSymbols ==
    /\ linkStage = "place" /\ toPlace = <<>>
    /\ LET ids == SelectSeq(AllSymbols, Addressed)
           refused == Repeated(ids)
       IN  /\ linkStage' = IF refused THEN "refused" ELSE "relocate"
           /\ symbols' = IF refused THEN <<>> ELSE linkCase.externals @@ Named(ids, SymbolAddress)
           /\ image' = IF refused THEN <<>> ELSE Initial(placements)
           /\ toPatch' = IF refused THEN <<>> ELSE Patches(placements)
    /\ UNCHANGED <<linkCase, definitions, kept, pendingSections, placements, linkCursor, toPlace>>

\* <<>> when the symbol is undefined or its section was discarded.
TargetIn(id, symbol) ==
    IF symbol.section = 0
    THEN (IF symbol.name \in DOMAIN symbols THEN <<symbols[symbol.name]>> ELSE <<>>)
    ELSE IF symbol.section = Absolute THEN <<symbol.value>>
    ELSE IF IsPlaced(<<id[1], symbol.section>>)
         THEN <<AddressOf(<<id[1], symbol.section>>) + symbol.value>> ELSE <<>>
TargetOf(patch) ==
    LET o == patch.place.id[1]
    IN  IF patch.reloc.to = "symbol"
        THEN TargetIn(patch.place.id, linkCase.objects[o].symbols[patch.reloc.of])
        ELSE IF IsPlaced(<<o, patch.reloc.of>>) THEN <<AddressOf(<<o, patch.reloc.of>>)>> ELSE <<>>

\* Bits a field holds, bits dropped from the value, whether the value counts from
\* the image base, and bytes written.
Field(type) ==
    CASE type = "8"       -> [bits |-> 8, shift |-> 0, relative |-> FALSE, bytes |-> 1]
      [] type = "16"      -> [bits |-> 16, shift |-> 0, relative |-> FALSE, bytes |-> 2]
      [] type = "16_S3"   -> [bits |-> 16, shift |-> 3, relative |-> FALSE, bytes |-> 2]
      [] type = "16_S4"   -> [bits |-> 16, shift |-> 4, relative |-> FALSE, bytes |-> 2]
      [] type = "16_S5"   -> [bits |-> 16, shift |-> 5, relative |-> FALSE, bytes |-> 2]
      [] type = "REL16_S2" -> [bits |-> 16, shift |-> 2, relative |-> TRUE, bytes |-> 2]
      [] type = "18_S2"   -> [bits |-> 18, shift |-> 2, relative |-> FALSE, bytes |-> 4]
      [] type = "19_S2"   -> [bits |-> 19, shift |-> 2, relative |-> FALSE, bytes |-> 4]
      [] type = "20"      -> [bits |-> 20, shift |-> 0, relative |-> FALSE, bytes |-> 4]
      [] type = "21"      -> [bits |-> 21, shift |-> 0, relative |-> FALSE, bytes |-> 4]
      [] type = "RUN"     -> [bits |-> 16, shift |-> 2, relative |-> TRUE, bytes |-> 4]
      [] OTHER            -> [bits |-> 30, shift |-> 0, relative |-> FALSE, bytes |-> 4]  \* 32

\* Mutant: relative relocations count from the first region the sections go to.
FirstRegion == LinkRegions[1][1]
ImageBase == linkCase.base

FieldValue(type, value) ==
    (value - (IF Field(type).relative THEN ImageBase ELSE 0)) \div 2^Field(type).shift
Representable(type, value) ==
    /\ value >= 0 /\ value % 2^Field(type).shift = 0
    /\ Field(type).relative => value >= ImageBase
    /\ FieldValue(type, value) < 2^Field(type).bits

WordAt(bytes, at) ==
    bytes[at + 1] + 2^8 * bytes[at + 2] + 2^16 * bytes[at + 3] + 2^24 * bytes[at + 4]

\* RUN splits its value: the low 12 bits stay, the high 4 skip an opcode field.
Encoded(type, value, current) ==
    LET v == FieldValue(type, value)
    IN  IF type = "RUN"
        THEN ((current \div 2^20) * 2^20 + (v \div 2^12) * 2^16)
                 + (((current \div 2^12) % 2^4) * 2^12 + (v % 2^12))
        ELSE IF Field(type).bytes = 4 THEN (current \div 2^Field(type).bits) * 2^Field(type).bits + v
        ELSE v

Overwritten(bytes, at, count, value) ==
    [b \in DOMAIN bytes |-> IF b > at /\ b <= at + count
                            THEN (value \div 2^(8 * (b - at - 1))) % 2^8 ELSE bytes[b]]

CanPatch(patch, value) ==
    \/ patch.reloc.type = "NONE"
    \/ /\ patch.reloc.at + Field(patch.reloc.type).bytes <= patch.place.size
       /\ Representable(patch.reloc.type, value)

Patched(patch, value) ==
    LET at == patch.place.offset + patch.reloc.at
        type == patch.reloc.type
    IN  IF type = "NONE" THEN image
        ELSE Overwritten(image, at, Field(type).bytes,
                     Encoded(type, value, IF Field(type).bytes = 4 THEN WordAt(image, at) ELSE 0))

Relocate ==
    /\ linkStage = "relocate" /\ toPatch # <<>>
    /\ LET patch == Head(toPatch)
           target == TargetOf(patch)
           value == IF target = <<>> THEN -1 ELSE target[1] + patch.reloc.addend
           ok == target # <<>> /\ value >= 0 /\ CanPatch(patch, value)
       IN  /\ linkStage' = IF ok THEN "relocate" ELSE "refused"
           /\ image' = IF ok THEN SubSeq(Patched(patch, value), 1, Len(image)) ELSE image
    /\ toPatch' = Tail(toPatch)
    /\ UNCHANGED <<linkCase, definitions, kept, pendingSections, placements, linkCursor, toPlace, symbols>>

\* The entry may be missing only if its section was empty and never placed.
FinishLink ==
    /\ linkStage = "relocate" /\ toPatch = <<>>
    /\ linkStage' = IF linkCase.entry \in DOMAIN symbols THEN "linked" ELSE "refused"
    /\ UNCHANGED <<linkCase, definitions, kept, pendingSections, placements, linkCursor, toPlace,
                   symbols, image, toPatch>>

\* Neighbouring sections become one segment [address, size, offset].
Segments ==
    FoldLeft(LAMBDA segs, p :
                 IF segs # <<>> /\ Last(segs).address + Last(segs).size = p.address
                        /\ Last(segs).offset + Last(segs).size = p.offset
                 THEN [segs EXCEPT ![Len(segs)].size = @ + p.size]
                 ELSE Append(segs, [address |-> p.address, size |-> p.size, offset |-> p.offset]),
             <<>>, placements)

LinkInit ==
    /\ linkCase \in LinkCases
    /\ linkStage = "define" /\ definitions = <<>> /\ kept = {} /\ pendingSections = <<>>
    /\ placements = <<>> /\ linkCursor = [region |-> 1, address |-> 0, offset |-> 0]
    /\ toPlace = <<>> /\ symbols = <<>> /\ image = <<>> /\ toPatch = <<>>

LinkNext ==
    \/ Define \/ Reach \/ Reached \/ Place \/ NameSymbols \/ Relocate \/ FinishLink

-------------------------------------------------------------------------------
(* Properties. *)

\* What the loader puts at an address, if anything.
ImageByte(segs, address) ==
    LET at == SelectInSeq(segs, LAMBDA s : s.address <= address /\ address < s.address + s.size)
    IN  IF at = 0 THEN 0 ELSE image[segs[at].offset + (address - segs[at].address) + 1]
LoadedField(segs, address, count) ==
    FoldLeft(LAMBDA sum, b : sum + 2^(8 * b) * ImageByte(segs, address + b), 0,
             [b \in 1 .. count |-> b - 1])

\* The address a patched field of a loaded tile stands for.
Decoded(type, word) ==
    LET v == IF type = "RUN" THEN ((word \div 2^16) % 2^4) * 2^12 + (word % 2^12)
             ELSE word % 2^Field(type).bits
    IN  v * 2^Field(type).shift + (IF Field(type).relative THEN linkCase.base ELSE 0)

\* Who a name stands for when an object leaves it undefined.
Provider(name) ==
    IF name \in DOMAIN linkCase.externals THEN linkCase.externals[name]
    ELSE LET id == CHOOSE id \in Range(AllSymbols) : SymbolAt(id).name = name
                                                       /\ IsDefined(SymbolAt(id))
         IN  SymbolAddress(id)
Meant(id, reloc) ==
    LET symbol == linkCase.objects[id[1]].symbols[reloc.of]
    IN  reloc.addend + (IF reloc.to = "section" THEN AddressOf(<<id[1], reloc.of>>)
                        ELSE IF IsDefined(symbol) THEN SymbolAddress(<<id[1], reloc.of>>)
                        ELSE Provider(symbol.name))

FieldIsRight(segs, p, r) ==
    LET reloc == SectionOf(p.id).relocs[r]
    IN  reloc.type # "NONE" =>
            Decoded(reloc.type, LoadedField(segs, p.address + reloc.at, Field(reloc.type).bytes))
                = Meant(p.id, reloc)

\* Bytes that no relocation touches are those of the object.
CodeIsKept(segs, p) ==
    \A b \in 1 .. p.size :
        (\A r \in DOMAIN SectionOf(p.id).relocs :
             LET reloc == SectionOf(p.id).relocs[r]
             IN  reloc.type = "NONE" \/ b <= reloc.at \/ b > reloc.at + Field(reloc.type).bytes)
        => ImageByte(segs, p.address + b - 1)
               = (IF SectionOf(p.id).kind = "load" THEN SectionOf(p.id).data[b] ELSE 0)

(* A linked image, loaded segment by segment, holds every section a root can   *)
(* reach, aligned, apart from the others and inside an executable region, with  *)
(* its own bytes; and every reference in it, decoded as the tile decodes its     *)
(* field, leads to the address of what it names (ipu-elf link).                  *)
ReferencesResolve ==
    linkStage = "linked" =>
        /\ \A i \in DOMAIN placements :
               LET p == placements[i]
               IN  /\ p.address % SectionOf(p.id).align = 0
                   /\ \E r \in DOMAIN LinkRegions : /\ p.address >= LinkRegions[r][1]
                                                    /\ p.address + p.size <= LinkRegions[r][2]
                   /\ \A j \in DOMAIN placements : i < j =>
                          \/ p.address + p.size <= placements[j].address
                          \/ placements[j].address + placements[j].size <= p.address
                   /\ CodeIsKept(Segments, p)
                   /\ \A r \in DOMAIN SectionOf(p.id).relocs :
                          FieldIsRight(Segments, p, r)
        /\ \A n \in Range(Roots) : definitions[n] \in kept
        /\ \A id \in kept : /\ Range(Neighbours(id)) \subseteq kept
                            /\ Loaded(id) => IsPlaced(id)
===============================================================================
