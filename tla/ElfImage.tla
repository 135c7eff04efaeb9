------------------------------ MODULE ElfImage ------------------------------
(***************************************************************************)
(* lib/cxxll/elf_image.cpp over libelf, and load_elf of rpm_load.cpp.      *)
(* libelf, which decodes the file, is external: an image is a record of    *)
(* its headers and sections.  A section is [type, link, data]; data = None *)
(* if elf_getdata fails.  Sections are counted from 1; number 0 is that of *)
(* the null section, which has a header and nothing else.                  *)
(*   DYNSYM, SYMTAB   symbols [name, section, shndx], shndx being xndx     *)
(*   GNU_versym       one number for each symbol                           *)
(*   GNU_verneed      per library, a sequence of [other, name]             *)
(*   GNU_verdef       [ndx, name]                                          *)
(*   DYNAMIC          [tag, value]                                         *)
(*   NOTE             [name, type, desc]                                   *)
(* A program header is [type, at, addr]: at is the section at its offset,  *)
(* 0 if none begins there, None for an offset outside of the file, and     *)
(* addr stands for its numbers.                                            *)
(***************************************************************************)
EXTENDS Integers, Sequences, SequencesExt

CONSTANT None

UNDEF == 0
hidden == 32768      \* the bit 0x8000 of a symbol version
local_version == 0
global_version == 1

NoVersion == [name |-> "", default |-> FALSE]

-----------------------------------------------------------------------------
Archs == <<[machine |-> "386", c32 |-> "i386", c64 |-> None],
           [machine |-> "SPARC", c32 |-> "sparc", c64 |-> None],
           [machine |-> "SPARCV9", c32 |-> None, c64 |-> "sparc64"],
           [machine |-> "PPC", c32 |-> "ppc", c64 |-> None],
           [machine |-> "PPC64", c32 |-> None, c64 |-> "ppc64"],
           [machine |-> "S390", c32 |-> "s390", c64 |-> "s390x"],
           [machine |-> "X86_64", c32 |-> None, c64 |-> "x86_64"],
           [machine |-> "ARM", c32 |-> "arm", c64 |-> None],
           [machine |-> "AARCH64", c32 |-> None, c64 |-> "aarch64"]>>

get_arch(class, machine) ==
  LET i == SelectInSeq(Archs, LAMBDA a : a.machine = machine)
  IN  CASE i = 0 -> None
        [] i # 0 /\ class = 32 -> Archs[i].c32
        [] i # 0 /\ class = 64 -> Archs[i].c64
        [] OTHER -> None

Section(image, i) == IF i \in 1..Len(image.sections) THEN image.sections[i] ELSE None

(* set_interp: the first PT_INTERP.  It throws if it is outside.           *)
Interp(image) == SelectInSeq(image.phdrs, LAMBDA ph : ph.type = "INTERP")
set_interp_throws(image) ==
  Interp(image) # 0 /\ image.phdrs[Interp(image)].at = None

(* set_build_id: the program headers, unless there are no sections at all, *)
(* when it looks for them in vain.                                         *)
BuildIdOf(notes) ==
  LET i == SelectInSeq(notes, LAMBDA n : n.name = "GNU" /\ n.type = 3)
  IN  IF i = 0 THEN None ELSE notes[i].desc

set_build_id(image) ==
  IF image.sections = <<>> THEN None
  ELSE LET i == SelectInSeq(image.phdrs, LAMBDA ph :
                  ph.type = "NOTE" /\ Section(image, ph.at) # None
                    /\ Section(image, ph.at).data # None)
       IN  IF i = 0 THEN None ELSE BuildIdOf(Section(image, image.phdrs[i].at).data)

-----------------------------------------------------------------------------
(* symbol_range.  init_section: the last section of a type counts.         *)
SectionFor(image, type, scn) ==
  SelectLastInSeq(image.sections, LAMBDA s :
    s.type = type /\ (type = "GNU_versym" => s.link = scn))

DataFor(image, type, scn) ==
  LET i == SectionFor(image, type, scn)
  IN  IF i = 0 THEN None ELSE image.sections[i].data

(* The walk along verneed and vernaux, and along verdef.                   *)
\* MUTANT: only the versions of the first library are looked at.
FindVernaux_first(verneed, versym) ==
  LET i == SelectInSeq(Head(verneed), LAMBDA a : a.other = versym)
  IN  IF i = 0 THEN None ELSE Head(verneed)[i]

FindVernaux(verneed, versym) ==
  LET n == SelectInSeq(verneed, LAMBDA need : \E i \in 1..Len(need) : need[i].other = versym)
      i == SelectInSeq(verneed[n], LAMBDA a : a.other = versym)
  IN  IF n = 0 THEN None ELSE verneed[n][i]

FindVerdef(verdef, versym) ==
  LET i == SelectInSeq(verdef, LAMBDA d : d.ndx = versym % hidden)
  IN  IF i = 0 THEN None ELSE verdef[i]

OrEmpty(data) == IF data = None THEN <<>> ELSE data

(* One symbol: a definition or a reference with its version, None for an   *)
(* exception.  A definition without data in the file may be a copy of what *)
(* is defined elsewhere.                                                   *)
Versioned(sym, versym, aux, def) ==
  LET Definition(v) == [k |-> "def", name |-> sym.name, version |-> v,
                        section |-> sym.section, xsection |-> sym.shndx]
      Reference(v) == [k |-> "ref", name |-> sym.name, version |-> v]
  IN CASE versym \in {local_version, global_version} ->
            IF sym.shndx = UNDEF THEN Reference(NoVersion) ELSE Definition(NoVersion)
       [] versym \notin {local_version, global_version} /\ aux # None ->
            Reference([name |-> aux.name, default |-> FALSE])
       [] versym \notin {local_version, global_version} /\ aux = None
          /\ sym.shndx = UNDEF -> None
       [] OTHER -> Definition(IF def = None \/ versym = hidden + global_version THEN NoVersion
                              ELSE [name |-> def.name, default |-> versym >= hidden])

MayBeCopy(image, sym) ==
  Section(image, sym.shndx) # None /\ Section(image, sym.shndx).type = "NOBITS"

VersymAt(versyms, cnt) == IF cnt <= Len(versyms) THEN versyms[cnt] ELSE global_version

(* elf_strptr returns NULL unless the section it is given has strings.     *)
(* Assigned to a std::string, NULL ends the process.                       *)
strptr_null(image, i) ==
  Section(image, image.sections[i].link) = None
    \/ Section(image, image.sections[i].link).type # "STRTAB"

Dies == [k |-> "dies"]

WithStrings(image, scn, s) ==
  IF s # None /\ \/ strptr_null(image, scn)
                 \/ s.version # NoVersion
                    /\ strptr_null(image, SectionFor(image, IF s.k = "ref" THEN "GNU_verneed"
                                                            ELSE "GNU_verdef", scn))
  THEN Dies ELSE s

SymbolAs(image, scn, sym, versym) ==
  Versioned(sym, versym,
            IF sym.shndx = UNDEF \/ MayBeCopy(image, sym)
            THEN FindVernaux(OrEmpty(DataFor(image, "GNU_verneed", scn)), versym) ELSE None,
            FindVerdef(OrEmpty(DataFor(image, "GNU_verdef", scn)), versym))

Symbol(image, scn, cnt) ==
  WithStrings(image, scn, SymbolAs(image, scn, image.sections[scn].data[cnt],
                                   VersymAt(OrEmpty(DataFor(image, "GNU_versym", scn)), cnt)))

(* next_section, init_section and next: the symbols of all tables in their *)
(* order.  A table whose data cannot be read is passed over; one that is   *)
(* linked to no section, not even the null section, is an error.           *)
IsTable(s) == s.type \in {"DYNSYM", "SYMTAB"} /\ s.data # None

Tables(image) ==
  SelectSeq([i \in 1..Len(image.sections) |-> i], LAMBDA i : IsTable(image.sections[i]))

symbols(image) ==
  FlattenSeq([t \in 1..Len(Tables(image)) |->
    LET scn == Tables(image)[t] IN
    IF image.sections[scn].link > Len(image.sections) THEN <<None>>
    ELSE [cnt \in 1..Len(image.sections[scn].data) |-> Symbol(image, scn, cnt)]])

-----------------------------------------------------------------------------
(* dynamic_section_range: the first PT_DYNAMIC with a section of the type. *)
DynamicScn(image) ==
  LET i == SelectInSeq(image.phdrs, LAMBDA ph :
             ph.type = "DYNAMIC" /\ Section(image, ph.at) # None
               /\ Section(image, ph.at).type = "DYNAMIC")
  IN  IF i = 0 THEN 0 ELSE image.phdrs[i].at

dynamic_section(image) ==
  IF DynamicScn(image) = 0 THEN <<>> ELSE OrEmpty(image.sections[DynamicScn(image)].data)

TextTags == {"NEEDED", "SONAME", "RPATH", "RUNPATH"}
DynamicDies(image, dyn) ==
  (\E i \in 1..Len(dyn) : dyn[i].tag \in TextTags) /\ strptr_null(image, DynamicScn(image))

(* program_header_range *)
program_headers(image) ==
  [i \in 1..Len(image.phdrs) |-> [type |-> image.phdrs[i].type, addr |-> image.phdrs[i].addr]]

Tagged(dyn, tag) == SelectSeq(dyn, LAMBDA d : d.tag = tag)
Values(dyn) == [i \in 1..Len(dyn) |-> dyn[i].value]

(* load_elf: what is stored, or None if the process ends.  Of several      *)
(* sonames the first counts; other ones are reported.  Rows from before an *)
(* error stay.                                                             *)
Soname(names) == IF names = <<>> THEN None ELSE Head(names)

NoElf == [symbols |-> <<>>, needed |-> <<>>, rpath |-> <<>>, runpath |-> <<>>,
          dynamic |-> <<>>, errors |-> 0, image |-> None]

ElfRowsOf(image, syms, dyn) ==
  LET bad == SelectInSeq(syms, LAMBDA s : s \in {None, Dies})
      Stored(ss) == SelectSeq(ss, LAMBDA s : s.name # "")
      sonames == Values(Tagged(dyn, "SONAME"))
      others == SelectSeq(dyn, LAMBDA d : d.tag \notin TextTags /\ (d.tag # "NULL" \/ d.value # 0))
  IN IF ~image.valid \/ set_interp_throws(image) THEN [NoElf EXCEPT !.errors = 1]
     ELSE IF bad # 0 /\ syms[bad] = None
     THEN [NoElf EXCEPT !.symbols = Stored(SubSeq(syms, 1, bad - 1)), !.errors = 1]
     ELSE IF bad # 0 \/ DynamicDies(image, dyn) THEN None
     ELSE [symbols |-> Stored(syms),
           needed |-> Values(Tagged(dyn, "NEEDED")),
           rpath |-> Values(Tagged(dyn, "RPATH")), runpath |-> Values(Tagged(dyn, "RUNPATH")),
           dynamic |-> others,
           errors |-> Len(SelectSeq(sonames, LAMBDA n : n # Head(sonames))),
           image |-> [arch |-> get_arch(image.class, image.machine),
                      soname |-> Soname(sonames),
                      interp |-> IF Interp(image) = 0 THEN None ELSE "interp",
                      build_id |-> set_build_id(image),
                      phdrs |-> program_headers(image)]]

load_elf(image) == ElfRowsOf(image, symbols(image), dynamic_section(image))
=============================================================================
