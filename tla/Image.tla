------------------------------- MODULE Image --------------------------------
(***************************************************************************)
(* From compiled units to a running image: Compile lays out the units and  *)
(* the data objects and patches the references between them, WriteEFI      *)
(* makes the sections into a PE file with base relocations, the firmware   *)
(* (outside the repository) loads the file at an address of its choice,    *)
(* and the entry adapter sets up the records of the first phase in its     *)
(* stack frame.                                                            *)
(*                                                                         *)
(* A byte range is a sequence of cells; a patched field (four bytes of a   *)
(* call, eight of an address) is one cell, and Page, FileAlign and         *)
(* ImageBase stand for 0x1000, 0x200 and 0x100000.                         *)
(***************************************************************************)
EXTENDS Integers, Sequences, SequencesExt, FiniteSetsExt

CONSTANTS Programs,   \* [units, rdata, data (groups), entry]
          Records,    \* the entry records' layouts: [name, size, align, fields]
          Bases,      \* where the firmware may load the image
          Page, FileAlign, ImageBase, Scratch

VARIABLE im

AlignTo(n, a) == IF a <= 1 THEN n ELSE ((n + a - 1) \div a) * a
PageOf(n) == (n \div Page) * Page
Zeros(n) == [i \in 1 .. n |-> 0]
Lit(v) == <<v, 0>>         \* a value the adapter stores: a literal,
At(o) == <<"frame", o>>    \* or the address of a slot of its frame
Elements(s) == {s[i] : i \in DOMAIN s}

(***************************************************************************)
(* Compile.                                                                *)
(***************************************************************************)
Init == \E p \in Programs :
    im = [prog |-> p, phase |-> "units", k |-> 1, text |-> <<>>, offsets |-> {}, symbols |-> {},
          sections |-> <<>>, relocs |-> <<>>, file |-> <<>>, headers |-> <<>>, next |-> 0,
          size |-> 0, base |-> 0, mem |-> <<>>, slots |-> <<>>, stores |-> <<>>, frame |-> <<>>,
          rax |-> Lit("junk"), given |-> Lit("none")]

In(phase) == im.phase = phase
\* A symbol bound twice keeps its last address, which is its highest.
Lookup(pairs, s) == {p[2] : p \in {q \in pairs : q[1] = s}}
Fail == im' = [im EXCEPT !.phase = "refused"]

\* One unit of code is appended to .text; its symbol is its address.
PlaceUnit ==
    /\ In("units") /\ im.k <= Len(im.prog.units)
    /\ LET u == im.prog.units[im.k]
           here == Len(im.text)
       IN im' = [im EXCEPT !.text = @ \o Zeros(u.size), !.k = @ + 1,
                           !.offsets = @ \cup {<<u.sym, here>>},
                           !.symbols = @ \cup {<<u.sym, Page + here>>}]

\* appendDataObjects: every object at the next multiple of its alignment.
DataOffsets(objects) ==
    LET at[i \in 0 .. Len(objects)] ==
          IF i = 0 THEN 0 ELSE AlignTo(at[i - 1], objects[i].align) + objects[i].size
    IN [i \in 1 .. Len(objects) |-> at[i] - objects[i].size]
DataEnd(objects) ==
    IF objects = <<>> THEN 0
    ELSE DataOffsets(objects)[Len(objects)] + objects[Len(objects)].size

\* The entry adapter's frame: slots grow downwards from the frame pointer, the
\* scratch arena of the delegated phase lies below them.
BuildEntryAdapterLayout ==
    LET at[i \in 0 .. Len(Records)] ==
          IF i = 0 THEN 0 ELSE AlignTo(at[i - 1] + Records[i].size, Records[i].align)
    IN [i \in DOMAIN Records |-> -at[i]]
LowestSlot == im.slots[Len(Records)]
EntryFrame == AlignTo(Scratch - LowestSlot, 16)
Index(name) == CHOOSE i \in DOMAIN Records : Records[i].name = name
Record(name) == Records[Index(name)]
Slot(name) == im.slots[Index(name)]
Place(name, field) == Slot(name) + Record(name).fields[field]

\* buildData: the writable objects, the queues', the topics', the runtime's.
BuildData(p) == FlattenSeq(p.data)

\* The text is padded to a page; each data section starts on one.
PlaceData ==
    /\ In("units") /\ im.k > Len(im.prog.units)
    /\ LET text == AlignTo(Len(im.text), Page)
           objects(i) == IF i = 1 THEN im.prog.rdata ELSE BuildData(im.prog)
           rva(i) == IF i = 1 THEN Page + text ELSE Page + text + AlignTo(DataEnd(objects(1)), Page)
           used == {i \in 1 .. 2 : i = 2 \/ im.prog.rdata # <<>>}
           section(i) == [name |-> IF i = 1 THEN ".rdata" ELSE ".data", rva |-> rva(i),
                          cells |-> Zeros(DataEnd(objects(i)))]
       IN im' = [im EXCEPT
            !.phase = "patch", !.k = 1, !.slots = BuildEntryAdapterLayout,
            !.text = @ \o Zeros(text - Len(@)),
            !.sections = IF 1 \in used THEN <<section(1), section(2)>> ELSE <<section(2)>>,
            !.symbols = @ \cup UNION {{<<objects(i)[j].sym, rva(i) + DataOffsets(objects(i))[j]>> :
                                         j \in DOMAIN objects(i)} : i \in used}]

\* Every reference of every unit: calls first, then addresses.
References(p) ==
    FlattenSeq([i \in DOMAIN p.units |->
      LET u == p.units[i]
      IN [j \in DOMAIN u.calls |-> [kind |-> "call", unit |-> u.sym, at |-> u.calls[j][1], sym |-> u.calls[j][2]]]
         \o [j \in DOMAIN u.refs |-> [kind |-> "data", unit |-> u.sym, at |-> u.refs[j][1], sym |-> u.refs[j][2]]]])

\* Variant: the distance from the start of the displacement.
PatchReferenceFromStart ==
    /\ In("patch") /\ im.k <= Len(References(im.prog))
    /\ LET r == References(im.prog)[im.k]
           to == Lookup(im.symbols, r.sym)
           where == Max(Lookup(im.offsets, r.unit)) + r.at
       IN IF to = {} THEN Fail
          ELSE im' = [im EXCEPT
            !.k = @ + 1,
            !.text[where + 1] = IF r.kind = "call" THEN Max(to) - (Page + where) ELSE ImageBase + Max(to),
            !.relocs = IF r.kind = "call" THEN @ ELSE Append(@, [sym |-> r.unit, offset |-> r.at])]

\* A call gets the distance from its end; an address is absolute and recorded
\* for relocation.  An unknown symbol stops the build.
PatchReference ==
    /\ In("patch") /\ im.k <= Len(References(im.prog))
    /\ LET r == References(im.prog)[im.k]
           to == Lookup(im.symbols, r.sym)
           where == Max(Lookup(im.offsets, r.unit)) + r.at
       IN IF to = {} THEN Fail
          ELSE im' = [im EXCEPT
            !.k = @ + 1,
            !.text[where + 1] = IF r.kind = "call" THEN Max(to) - (Page + where + 1) ELSE ImageBase + Max(to),
            !.relocs = IF r.kind = "call" THEN @ ELSE Append(@, [sym |-> r.unit, offset |-> r.at])]

(***************************************************************************)
(* WriteEFI.                                                               *)
(***************************************************************************)
\* buildRelocData: one block per page that has a relocation, pages ascending.
RelocBlocks ==
    LET places == {Max(Lookup(im.symbols, r.sym)) + r.offset : r \in Elements(im.relocs)}
        pages == {PageOf(n) : n \in places}
    IN [i \in 1 .. Cardinality(pages) |->
          LET page == CHOOSE q \in pages : Cardinality({r \in pages : r < q}) = i - 1
          IN [page |-> page, entries |-> {n % Page : n \in {m \in places : PageOf(m) = page}}]]

\* A block is a header and its entries, padded to an even number of them.
RelocSize == FoldLeft(LAMBDA n, b : n + 4 + AlignTo(Cardinality(b.entries), 2), 0, RelocBlocks)

Priority(name) ==
    CASE name = ".text" -> 0 [] name = ".rdata" -> 1 [] name = ".data" -> 2 [] OTHER -> 3

\* The stores before the delegated phase, in order; a record is cleared in
\* words of eight bytes before addresses go into it.
EntryStores ==
    LET clear(name) == [i \in 1 .. (Record(name).size + 7) \div 8 |-> <<Slot(name) + 8 * (i - 1), Lit("zero")>>]
    IN <<<<Slot("UefiHandle"), Lit("image")>>, <<Slot("UefiBootServices"), Lit("services")>>>>
       \o clear("DelegatedMemory")
       \o <<<<Place("DelegatedMemory", "arena_base"), At(-EntryFrame)>>,
            <<Place("DelegatedMemory", "arena_length"), Lit("scratch")>>,
            <<Place("DelegatedMemory", "next_offset"), Lit("zero")>>>>
       \o clear("DelegatedBytes") \o clear("UefiMemoryMap")
       \o <<<<Slot("UefiBootServicesCalls"), Lit("services")>>,
            <<Place("UefiMemoryMap", "descriptors"), At(Slot("DelegatedBytes"))>>,
            <<Place("DelegatedMemory", "last_memory_map"), At(Slot("UefiMemoryMap"))>>,
            <<Place("DelegatedHardware", "image_handle"), At(Slot("UefiHandle"))>>,
            <<Place("DelegatedHardware", "boot_services"), At(Slot("UefiBootServicesCalls"))>>,
            <<Place("DelegatedHardware", "system_table"), Lit("system")>>,
            <<Place("DelegatedHardware", "delegated_memory"), At(Slot("DelegatedMemory"))>>>>

\* The entry symbol must exist; .reloc joins the sections, which are put in
\* their order behind the headers.
HeaderSize(n) == AlignTo(3 + n, FileAlign)
OrderSections ==
    /\ In("patch") /\ im.k > Len(References(im.prog))
    /\ LET text == [name |-> ".text", rva |-> Page, cells |-> im.text]
           reloc == [name |-> ".reloc", rva |-> 0, cells |-> Zeros(RelocSize)]
           all == <<text>> \o im.sections \o (IF im.relocs = <<>> THEN <<>> ELSE <<reloc>>)
       IN IF Lookup(im.symbols, im.prog.entry) = {} THEN Fail
          ELSE im' = [im EXCEPT !.phase = "write", !.k = 1, !.next = Page, !.stores = EntryStores,
                 !.file = Zeros(HeaderSize(Len(all))),
                 !.sections = SortSeq(all, LAMBDA c, d : Priority(c.name) < Priority(d.name))]

\* assignSectionRVAs: a section without an address follows the one before it.
SectionRVA(s) == IF s.rva = 0 THEN im.next ELSE s.rva
ImageSize(size, end) == Max({size, AlignTo(end, Page)})
SectionHeader(s, rva) == [name |-> s.name, rva |-> rva, virtual |-> Len(s.cells), raw |-> Len(im.file)]

\* The contents of a section go to the end of the file and are padded there.
WriteSection ==
    /\ In("write") /\ im.k <= Len(im.sections)
    /\ LET s == im.sections[im.k]
           n == Len(s.cells)
           rva == SectionRVA(s)
       IN im' = [im EXCEPT !.k = @ + 1, !.next = AlignTo(rva + Max({1, n}), Page),
            !.size = ImageSize(@, rva + n), !.headers = Append(@, SectionHeader(s, rva)),
            !.file = @ \o s.cells \o Zeros(AlignTo(n, FileAlign) - n)]

(***************************************************************************)
(* The firmware's loader (external): sections are mapped by their headers, *)
(* every relocated address moves with the base.                            *)
(***************************************************************************)
Load(b) ==
    /\ In("write") /\ im.k > Len(im.sections)
    /\ im' = [im EXCEPT !.phase = "load", !.base = b, !.k = 1, !.mem = [a \in 0 .. im.size - 1 |-> 0]]
MapSection ==
    /\ In("load") /\ im.k <= Len(im.headers)
    /\ LET h == im.headers[im.k]
       IN im' = [im EXCEPT !.k = @ + 1,
            !.mem = [a \in DOMAIN @ |-> IF a \in h.rva .. h.rva + h.virtual - 1
                                        THEN im.file[h.raw + a - h.rva + 1] ELSE @[a]]]
Relocate ==
    /\ In("load") /\ im.k > Len(im.headers)
    /\ LET places == UNION {{k.page + e : e \in k.entries} : k \in Elements(RelocBlocks)}
       IN im' = [im EXCEPT !.phase = "run", !.k = 1,
            !.frame = [o \in LowestSlot .. -1 |-> <<Lit("junk"), 0>>],
            !.mem = [a \in DOMAIN @ |-> IF a \in places THEN @[a] + im.base - ImageBase ELSE @[a]]]

(***************************************************************************)
(* The entry adapter.                                                      *)
(***************************************************************************)
Stored(f, o, v) == [b \in DOMAIN f |-> IF b \in o .. o + 7 THEN <<v, b - o>> ELSE f[b]]
Word(f, o) == IF \A i \in 0 .. 7 : f[o + i] = <<f[o][1], i>> THEN f[o][1] ELSE Lit("torn")

EntryStore ==
    /\ In("run") /\ im.k <= Len(im.stores)
    /\ im' = [im EXCEPT !.k = @ + 1, !.frame = Stored(@, im.stores[im.k][1], im.stores[im.k][2])]

\* The delegated phase returns the owned root in rax; the trampoline's
\* installation clobbers rax, so the root waits in the handle's slot.
CallDelegated ==
    /\ In("run") /\ im.k > Len(im.stores)
    /\ im' = [im EXCEPT !.phase = "delegated", !.rax = Lit("owned")]
SaveOwned ==
    /\ In("delegated")
    /\ im' = [im EXCEPT !.phase = "saved", !.frame = Stored(@, Slot("UefiHandle"), im.rax)]
InstallAPTrampoline ==
    /\ In("saved")
    /\ im' = [im EXCEPT !.phase = "installed", !.rax = Lit("junk")]
CallOwned ==
    /\ In("installed")
    /\ im' = [im EXCEPT !.phase = "halted", !.given = Word(im.frame, Slot("UefiHandle"))]

Next ==
    \/ PlaceUnit \/ PlaceData \/ PatchReference \/ OrderSections \/ WriteSection
    \/ \E b \in Bases : Load(b)
    \/ MapSection \/ Relocate
    \/ EntryStore \/ CallDelegated \/ SaveOwned \/ InstallAPTrampoline \/ CallOwned

Spec == Init /\ [][Next]_im /\ WF_im(Next)

(***************************************************************************)
(* Properties.                                                             *)
(***************************************************************************)
Running == im.phase \notin {"units", "patch", "write", "load", "refused"}

\* Wherever the firmware loads the image, every call lands on its symbol's code
\* and every address is the loaded address of its symbol (Compile's patches,
\* the sections' places and the relocation blocks together).
ReferencesReachTheirTargets ==
    Running => \A r \in Elements(References(im.prog)) :
      \E u \in DOMAIN im.prog.units :
        LET at == Page + FoldLeft(LAMBDA n, v : n + v.size, 0, SubSeq(im.prog.units, 1, u - 1)) + r.at
        IN /\ im.prog.units[u].sym = r.unit
           /\ IF r.kind = "call" THEN at + 1 + im.mem[at] = Max(Lookup(im.symbols, r.sym))
              ELSE im.mem[at] - im.base = Max(Lookup(im.symbols, r.sym))

\* Sections occupy distinct pages of memory and distinct ranges of the file,
\* behind the headers, and the image size covers them all (WriteEFI).
SectionsDisjoint ==
    \A i, j \in DOMAIN im.headers :
      LET h == im.headers[i]
          g == im.headers[j]
      IN /\ h.rva % Page = 0 /\ h.rva >= Page /\ h.rva + h.virtual <= im.size
         /\ HeaderSize(Len(im.headers)) <= h.raw
         /\ i < j => AlignTo(h.rva + h.virtual, Page) <= g.rva /\ h.raw + h.virtual <= g.raw

\* Data objects are laid out side by side, each at an address its alignment
\* divides (appendDataObjects over every group buildData joins).
ObjectsApart ==
    Running => \A i, j \in DOMAIN BuildData(im.prog) :
      LET d == BuildData(im.prog)
          at(k) == Max(Lookup(im.symbols, d[k].sym))
      IN /\ i < j => at(i) + d[i].size <= at(j)
         /\ at(i) % Max({1, d[i].align}) = 0

\* The delegated phase starts with records that point at each other, no store
\* of the adapter having run over another, and with its arena below them all;
\* the owned phase is given what the delegated phase returned, although the
\* handle's slot and rax are reused in between (emitEntryAdapter).
EntryRecordsWired ==
    /\ In("delegated") =>
         /\ \A i \in DOMAIN im.stores :
              im.stores[i][2] # Lit("zero") => Word(im.frame, im.stores[i][1]) = im.stores[i][2]
         /\ Word(im.frame, Place("DelegatedMemory", "next_offset")) = Lit("zero")
         /\ -EntryFrame + Scratch <= LowestSlot
    /\ In("halted") => im.given = Lit("owned")

\* The build is refused, or the owned phase of its image has been called.
Done == im.phase \in {"refused", "halted"}
=============================================================================
