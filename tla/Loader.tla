-------------------------------- MODULE Loader --------------------------------
(***************************************************************************)
(* load_to_flash of load-flash.c: what of an ELF file, or of a raw image,    *)
(* gets into flash, RAM and EEPROM, and what is refused; one step per header *)
(* or segment, because each of them may be the end of the process.           *)
(*                                                                         *)
(* Addresses are the real ones.  Memories are functions on the addresses    *)
(* that were written; what was not written is 0.                            *)
(***************************************************************************)
EXTENDS Options

CONSTANT
  ProgramFiles    \* [name -> file]: an ELF file (headers, symbols, device note
                  \* and segments) or the bytes of a raw image

(* The architectures that avr-gcc writes into a file.                        *)
ElfArchs == {1, 2, 25, 3, 31, 35, 4, 5, 51, 6, 100} \cup 102 .. 107

PhdrType == [load : BOOLEAN, paddr : Nat, vaddr : Nat, bytes : Seq(Nat), memsz : Nat,
             x : BOOLEAN, truncated : BOOLEAN]

DeviceType == [name : STRING \cup {None}, flash_start : Nat, flash_end : Nat]

(* Files as the linker writes them: a segment is not smaller in memory than   *)
(* in the file, and flash has whole words.                                  *)
ASSUME FilesAssumption ==
  \A f \in DOMAIN ProgramFiles :
    LET g == ProgramFiles[f] IN
    /\ g.elf \in BOOLEAN
    /\ ~g.elf => g.bytes \in Seq(Nat)
    /\ g.elf => /\ g.header \in BOOLEAN /\ g.sections \in BOOLEAN
                /\ g.arch \in ElfArchs /\ g.entry \in Nat
                /\ g.device \in DeviceType /\ g.device.flash_end % 2 = 0
                /\ g.phdrs \in Seq(PhdrType)
                /\ \A k \in DOMAIN g.phdrs : Len(g.phdrs[k].bytes) <= g.phdrs[k].memsz

VARIABLES
  seg,                  \* next segment of the file that is loaded
  flash, ram, eeprom,
  device,               \* avr_deviceinfo, or NoDevice
  symbols,              \* what the call graph is given of the symbol table
  image                 \* program.size, n_bytes, code_start, code_end, pc_mask, max_pc

loadVars == << seg, flash, ram, eeprom, device, symbols, image >>

DATA_VADDR       == \h800000
DATA_VADDR_END   == \h80ffff
EEPROM_VADDR     == \h810000
EEPROM_VADDR_END == \h81ffff
MAX_EEPROM_SIZE  == 16384
MaxPhdr == 16

(* -1U, larger than all addresses.                                          *)
MinusOneU == 2147483647

NoDevice == [name |-> None, flash_start |-> 0, flash_end |-> 0]

-----------------------------------------------------------------------------
(* memcpy and fread                                                         *)

Read(mem, a) == IF a \in DOMAIN mem THEN mem[a] ELSE 0

Write(mem, at, bytes) ==
  [a \in DOMAIN mem \cup (at .. at + Len(bytes) - 1) |->
     IF a \in at .. at + Len(bytes) - 1 THEN bytes[a - at + 1] ELSE mem[a]]

Bytes(mem, from, n) == [k \in 1 .. n |-> Read(mem, from + k - 1)]

-----------------------------------------------------------------------------
(* load_elf                                                                 *)

(* The file that has been opened.                                           *)
file == ProgramFiles[program.name]

Stay == UNCHANGED << i, do, s, flash_pm_offset, args, streams >>

OpenProgram ==
  /\ phase = "open"
  /\ Stay /\ UNCHANGED << program, arch, seg, ram, eeprom, device, symbols >>
  /\ IF program.name \notin DOMAIN ProgramFiles
     THEN leave("FOPEN", 0) /\ UNCHANGED << flash, image >>
     ELSE /\ UNCHANGED left
          /\ IF file.elf
             THEN phase' = "header" /\ UNCHANGED << flash, image >>
             ELSE /\ flash' = Write(flash, 0, file.bytes)
                  /\ image' = [image EXCEPT !.size = Len(file.bytes), !.n_bytes = Len(file.bytes),
                       !.code_start = 0,
                       !.code_end = IF file.bytes = << >> THEN MinusOneU ELSE Len(file.bytes) - 1]
                  /\ phase' = "mask"

(* The entry point of the file counts when -e is not given, and when it is   *)
(* no address in .data (the linker takes any symbol "start").               *)
\* Seeded fault: the entry point of the file overrides -e.
TakesEntryAlways == file.entry < DATA_VADDR

TakesEntry == do.e = 0 /\ file.entry < DATA_VADDR
BadEntry   == TakesEntry /\ (file.entry >= MAX_FLASH_SIZE \/ file.entry % 2 # 0)

LoadHeader ==
  /\ phase = "header"
  /\ Stay /\ UNCHANGED << arch, loadVars >>
  /\ program' = IF file.header /\ TakesEntry
                THEN [program EXCEPT !.entry_point = file.entry] ELSE program
  /\ IF ~file.header \/ BadEntry
     THEN leave("ELF", 0)
     ELSE phase' = "sections" /\ UNCHANGED left

(* avrtest_set_func_symbol: code symbols that are functions must be usable;  *)
(* of the others the call graph gets the usable ones.                       *)
IsCode(y)  == y.type = "FUNC" \/ (y.type = "NOTYPE" /\ y.exec)
Unusable(y) == y.value % 2 # 0 \/ y.value >= MAX_FLASH_SIZE
BadSymbol(y) == IsCode(y) /\ y.type = "FUNC" /\ Unusable(y)
GraphSymbols(ys) ==
  {[name |-> y.name, pc |-> y.value \div 2, is_func |-> y.type = "FUNC"] :
     y \in {z \in ys : IsCode(z) /\ ~Unusable(z) /\ ~z.internal}}

(* Devices of avrxmega3 that show flash at another address than the rest.    *)
At0x4000 == {"atmega808", "atmega809", "atmega1608", "atmega1609", "atmega3208",
             "atmega3209", "atmega4808", "atmega4809"}

\* Seeded fault: the list of devices is not looked at.
OffsetOfArch(a) == arch.desc.flash_pm_offset

OffsetOfDevice(a) ==
  IF a = 103 /\ file.device # NoDevice /\ do.pm = 0 /\ file.device.name \in At0x4000
  THEN \h4000 ELSE arch.desc.flash_pm_offset

LoadSections ==
  /\ phase = "sections"
  /\ Stay /\ UNCHANGED << program, seg, flash, ram, eeprom, image >>
  /\ IF ~file.sections
     THEN leave("ELF", 0) /\ UNCHANGED << arch, device, symbols >>
     ELSE IF is_log /\ \E y \in file.symbols : BadSymbol(y)
     THEN leave("SYMBOL", 0) /\ UNCHANGED << arch, device, symbols >>
     ELSE /\ device' = file.device
          /\ symbols' = IF is_log THEN GraphSymbols(file.symbols) ELSE {}
          /\ arch' = [arch EXCEPT !.desc.flash_pm_offset = OffsetOfDevice(file.arch)]
          /\ IF Len(file.phdrs) > MaxPhdr
             THEN leave("ELF", 0)
             ELSE phase' = "segments" /\ UNCHANGED left

-----------------------------------------------------------------------------
(* The segments, one by one.                                                *)

Phdr == file.phdrs[seg]
filesz(p) == Len(p.bytes)

IsLoaded(p) == p.load /\ filesz(p) > 0
InEeprom(p) == p.vaddr \in EEPROM_VADDR .. EEPROM_VADDR_END
InFlash(p)  == ~InEeprom(p) /\ p.paddr < DATA_VADDR

is_data_for_sram_init(p) ==
  p.vaddr >= DATA_VADDR /\ p.vaddr + filesz(p) - 1 <= DATA_VADDR_END

(* Flash that is seen in RAM is copied there, with what it holds after the   *)
(* bytes of the file; .data only needs to be in flash.                      *)
pm == arch.desc.flash_pm_offset

SeenInRam(p) == p.paddr + p.memsz + pm <= 65536

TooBig(p) ==
  \/ p.paddr < DATA_VADDR /\ p.paddr + p.memsz > MAX_FLASH_SIZE
  \/ InEeprom(p) /\ p.paddr - EEPROM_VADDR + filesz(p) \notin 0 .. MAX_EEPROM_SIZE
  \/ p.truncated /\ (InEeprom(p) \/ InFlash(p))
  \/ InFlash(p) /\ pm # 0 /\ ~SeenInRam(p) /\ ~is_data_for_sram_init(p)

\* Seeded fault: RAM gets what flash held before the segment was loaded.
RamAfterBefore(p, fl) ==
  LET shown == IF pm # 0 /\ SeenInRam(p)
               THEN Write(ram, p.paddr + pm, Bytes(flash, p.paddr, p.memsz)) ELSE ram
  IN  IF do.d = 1 /\ is_data_for_sram_init(p)
      THEN Write(shown, p.vaddr - DATA_VADDR, p.bytes) ELSE shown

RamAfter(p, fl) ==
  LET shown == IF pm # 0 /\ SeenInRam(p)
               THEN Write(ram, p.paddr + pm, Bytes(fl, p.paddr, p.memsz)) ELSE ram
  IN  IF do.d = 1 /\ is_data_for_sram_init(p)
      THEN Write(shown, p.vaddr - DATA_VADDR, p.bytes) ELSE shown

MaxOf(a, b) == IF a < b THEN b ELSE a

\* Seeded fault: the code ends where its first segment ends.
ImageAfterFirst(p) ==
  [image EXCEPT !.n_bytes = @ + filesz(p),
     !.size = MaxOf(@, p.paddr + p.memsz),
     !.code_start = IF p.x /\ p.paddr < @ THEN p.paddr ELSE @,
     !.code_end = IF p.x /\ @ = 0 THEN p.paddr + p.memsz - 1 ELSE @]

ImageAfter(p) ==
  [image EXCEPT !.n_bytes = @ + filesz(p),
     !.size = MaxOf(@, p.paddr + p.memsz),
     !.code_start = IF p.x /\ p.paddr < @ THEN p.paddr ELSE @,
     !.code_end = IF p.x THEN MaxOf(@, p.paddr + p.memsz - 1) ELSE @]

LoadSegment ==
  /\ phase = "segments" /\ seg <= Len(file.phdrs)
  /\ Stay /\ UNCHANGED << program, arch, device, symbols >>
  /\ seg' = seg + 1
  /\ IF ~IsLoaded(Phdr)
     THEN UNCHANGED << phase, left, flash, ram, eeprom, image >>
     ELSE IF TooBig(Phdr)
     THEN leave("ELF", 0) /\ UNCHANGED << flash, ram, eeprom, image >>
     ELSE /\ UNCHANGED << phase, left >>
          /\ IF InFlash(Phdr)
             THEN /\ flash' = Write(flash, Phdr.paddr, Phdr.bytes)
                  /\ ram' = RamAfter(Phdr, flash')
                  /\ image' = ImageAfter(Phdr)
                  /\ UNCHANGED eeprom
             ELSE /\ eeprom' = IF InEeprom(Phdr)
                               THEN Write(eeprom, Phdr.paddr - EEPROM_VADDR, Phdr.bytes)
                               ELSE eeprom
                  /\ image' = [image EXCEPT !.n_bytes = @ + filesz(Phdr)]
                  /\ UNCHANGED << flash, ram >>

(* check_arch: the file is for this variant, for this size of the program    *)
(* counter and for flash that is, or is not, seen in RAM.                   *)
elf_tiny(a)      == a = 100
elf_xmega(a)     == a >= 102
elf_pc_3bytes(a) == a = 6 \/ a >= 106
elf_pm_off(a)    == elf_tiny(a) \/ a = 103

\* Seeded fault: the last test is missing.
ArchFitsBut(a) ==
  /\ (isa = "tiny") = elf_tiny(a) /\ (isa = "xmega") = elf_xmega(a)
  /\ arch.desc.pc_3bytes = elf_pc_3bytes(a)

ArchFits(a) ==
  /\ (isa = "tiny") = elf_tiny(a) /\ (isa = "xmega") = elf_xmega(a)
  /\ arch.desc.pc_3bytes = elf_pc_3bytes(a)
  /\ (pm # 0) = elf_pm_off(a)

CheckArch ==
  /\ phase = "segments" /\ seg > Len(file.phdrs)
  /\ UNCHANGED << i, optionVars, loadVars >>
  /\ IF ArchFits(file.arch) THEN phase' = "mask" /\ UNCHANGED left
                            ELSE leave("USAGE", 0)

-----------------------------------------------------------------------------
(* The mask by which relative jumps wrap around: -s, the device, the arch.   *)

pc_mask(dev) ==
  IF do.s = -1 THEN arch.desc.flash_addr_mask \div 2
  ELSE IF do.s > 0 THEN do.s \div 2 - 1
  ELSE IF dev.flash_start = 0 /\ dev.flash_end \in PowersOf2
  THEN dev.flash_end \div 2 - 1
  ELSE arch.desc.flash_addr_mask \div 2

SetMask ==
  /\ phase = "mask"
  /\ image' = [image EXCEPT !.pc_mask = pc_mask(device)]
  /\ IF image.size > 2 * (pc_mask(device) + 1)
     THEN leave("ELF", 0)
     ELSE phase' = "decode" /\ UNCHANGED left
  /\ UNCHANGED << i, optionVars, seg, flash, ram, eeprom, device, symbols >>

(* Without a segment of code the words that decode_flash looks at first lie  *)
(* outside of the array, and an empty raw image has no last word: the        *)
(* process may or must crash.  Decoder.tla models the decoding itself.      *)
Crash == left' = [status |-> "CRASH", code |-> 1] /\ phase' = "left"
Decode ==
  /\ phase = "decode"
  /\ \/ /\ image.code_end # MinusOneU
        /\ image' = [image EXCEPT !.max_pc = 1 + image.code_end \div 2]
        /\ phase' = "run" /\ UNCHANGED left
     \/ /\ MinusOneU \in {image.code_start, image.code_end}
        /\ Crash /\ UNCHANGED image
  /\ UNCHANGED << i, optionVars, seg, flash, ram, eeprom, device, symbols >>

load_to_flash ==
  OpenProgram \/ LoadHeader \/ LoadSections \/ LoadSegment \/ CheckArch \/ SetMask \/ Decode

Empty == [a \in {} |-> 0]
InitLoader ==
  /\ seg = 1
  /\ flash = Empty /\ ram = Empty /\ eeprom = Empty
  /\ device = NoDevice /\ symbols = {}
  /\ image = [size |-> 0, n_bytes |-> 0, code_start |-> MinusOneU, code_end |-> 0,
              pc_mask |-> 0, max_pc |-> 0]

=============================================================================
