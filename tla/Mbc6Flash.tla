------------------------------ MODULE Mbc6Flash ------------------------------
(***************************************************************************)
(* The MX29F008 of an MBC6 cartridge, crates/slopgb-core/src/cartridge/    *)
(* mbc6.rs: struct Mbc6Flash as a record, its methods as operators.        *)
(*                                                                         *)
(* Of a byte of the array only bit 0 is kept: a program step is an AND, an *)
(* erase sets all bits, and no bit looks at another.  Addresses and sizes  *)
(* are scaled; the command bytes are the chip's.                           *)
(***************************************************************************)
EXTENDS Integers

CONSTANTS FlashSize, SectorSize, PageLen, \* MBC6_FLASH_SIZE, MBC6_FLASH_SECTOR_SIZE, 128
          Unlock1, Unlock2,               \* 5555 and 2AAA
          ProgramCycles, EraseCycles,     \* MBC6_FLASH_{PROGRAM,SECTOR_ERASE}_CYCLES
          ChipEraseCycles                 \* MBC6_FLASH_CHIP_ERASE_CYCLES

Addr == 0..FlashSize - 1
Bit == {0, 1}
HiddenSize == 2 * PageLen
NoPage == -1

ASSUME FlashAssumption ==
  /\ PageLen \in Nat \ {0} /\ SectorSize \in Nat /\ FlashSize \in Nat
  /\ SectorSize > 0 /\ SectorSize % PageLen = 0 /\ FlashSize % SectorSize = 0
  /\ FlashSize >= HiddenSize
  /\ Unlock1 \in Addr /\ Unlock2 \in Addr
  /\ {ProgramCycles, EraseCycles, ChipEraseCycles} \subseteq Nat \ {0}

\* The command bytes, by what they ask for.
Byte == [aa |-> 170, unlock |-> 85, erase |-> 128, program |-> 160, extended |-> 96,
         hidden |-> 119, id |-> 144, sector |-> 48, chip |-> 16, eraseHidden |-> 4,
         programHidden |-> 224, unprotect |-> 64, protect |-> 32, reset |-> 240]

Programming == {"Program", "ProgramHidden"}
Modes == {"Read", "Id", "HiddenRead", "Status"} \union Programming
Flash == [data : [Addr -> Bit], hidden : [0..HiddenSize - 1 -> Bit], mode : Modes,
          seq : 0..2, prefix : {0, Byte.erase, Byte.extended, Byte.hidden},
          protect : BOOLEAN, buf : [0..PageLen - 1 -> Bit], page : Addr \union {NoPage},
          loaded : 0..PageLen, busy : Nat]

NewFlash == [data |-> [a \in Addr |-> 1], hidden |-> [a \in 0..HiddenSize - 1 |-> 1],
             mode |-> "Read", seq |-> 0, prefix |-> 0, protect |-> FALSE,
             buf |-> [o \in 0..PageLen - 1 |-> 1], page |-> NoPage, loaded |-> 0,
             busy |-> 0]
page_reset(f) ==
  [f EXCEPT !.buf = [o \in 0..PageLen - 1 |-> 1], !.page = NoPage, !.loaded = 0]
sector0_writable(f, we) == we /\ ~f.protect

page_of(addr) == addr - (addr % PageLen)
offset_of(addr) == addr % PageLen
sector_of(addr) == addr \div SectorSize
-----------------------------------------------------------------------------
(* Programming. *)

\* An operation takes its time in Status; a blocked one leaves the chip reading.
started(f, cycles) == [f EXCEPT !.busy = cycles, !.mode = "Status"]
blocked(f) == [f EXCEPT !.mode = "Read"]

and_page(f, hidden) ==
  IF hidden
  THEN LET base == f.page % HiddenSize
       IN  [f EXCEPT !.hidden = [a \in DOMAIN f.hidden |->
              IF page_of(a) = base THEN f.hidden[a] * f.buf[offset_of(a)] ELSE f.hidden[a]]]
  ELSE [f EXCEPT !.data = [a \in Addr |->
              IF page_of(a) = f.page THEN f.data[a] * f.buf[offset_of(a)] ELSE f.data[a]]]

commit_page(f, we, hidden) ==
  LET allowed == IF hidden THEN we ELSE f.page >= SectorSize \/ sector0_writable(f, we)
  IN  page_reset(IF allowed THEN started(and_page(f, hidden), ProgramCycles)
                            ELSE blocked(f))

\* Mutant: every byte loaded chooses the page anew.
MutLoadMovesPage(f, addr, value) ==
  [f EXCEPT !.page = page_of(addr), !.buf[offset_of(addr)] = value % 2, !.loaded = @ + 1]
load_byte(f, addr, value) ==
  [f EXCEPT !.page = IF @ = NoPage THEN page_of(addr) ELSE @,
            !.buf[offset_of(addr)] = value % 2, !.loaded = @ + 1]

program_write(f, addr, value, we, hidden) ==
  CASE f.loaded < PageLen -> load_byte(f, addr, value)
    [] f.loaded = PageLen /\ value = Byte.reset -> blocked(page_reset(f))
    [] /\ f.loaded = PageLen /\ value # Byte.reset
       /\ f.page = page_of(addr) /\ offset_of(addr) = PageLen - 1 ->
         commit_page(f, we, hidden)
    [] OTHER -> f
-----------------------------------------------------------------------------
(* Commands. *)

erasable(f, sector, we) == sector # 0 \/ sector0_writable(f, we)
erased(f, sectors, we) ==
  [f EXCEPT !.data = [a \in Addr |->
     IF sector_of(a) \in sectors /\ erasable(f, sector_of(a), we) THEN 1 ELSE f.data[a]]]

erase_sector(f, addr, we) ==
  IF erasable(f, sector_of(addr), we)
  THEN started(erased(f, {sector_of(addr)}, we), EraseCycles) ELSE blocked(f)
erase_chip(f, we) == started(erased(f, 0..sector_of(FlashSize - 1), we), ChipEraseCycles)

extended(f, value, we) ==
  CASE ~we -> blocked(f)
    [] we /\ value = Byte.eraseHidden ->
         started([f EXCEPT !.hidden = [a \in DOMAIN f.hidden |-> 1]], EraseCycles)
    [] we /\ value = Byte.programHidden -> [page_reset(f) EXCEPT !.mode = "ProgramHidden"]
    [] we /\ value \in {Byte.protect, Byte.unprotect} ->
         started([f EXCEPT !.protect = (value = Byte.protect)], ProgramCycles)

dispatch(f, addr, value, we) ==
  LET prefix == f.prefix
      g == [f EXCEPT !.prefix = 0]
      at(p, v) == prefix = p /\ value = v /\ addr = Unlock1
  IN  CASE addr = Unlock1 /\ prefix = 0
             /\ value \in {Byte.erase, Byte.extended, Byte.hidden} -> [g EXCEPT !.prefix = value]
        [] at(0, Byte.id) -> [g EXCEPT !.mode = "Id"]
        [] at(0, Byte.program) -> [page_reset(g) EXCEPT !.mode = "Program"]
        [] prefix = Byte.erase /\ value = Byte.sector -> erase_sector(g, addr, we)
        [] at(Byte.erase, Byte.chip) -> erase_chip(g, we)
        [] prefix = Byte.extended /\ addr = Unlock1
             /\ value \in {Byte.eraseHidden, Byte.programHidden, Byte.unprotect, Byte.protect} ->
                  extended(g, value, we)
        [] at(Byte.hidden, Byte.hidden) -> [g EXCEPT !.mode = "HiddenRead"]
        [] OTHER -> g

\* Mutant: a broken unlock keeps the prefix of the command before it.
MutBrokenUnlockKeepsPrefix(f, addr, value, we) ==
  CASE value = Byte.reset -> [f EXCEPT !.mode = "Read", !.seq = 0, !.prefix = 0]
    [] value # Byte.reset /\ f.seq = 0 /\ addr = Unlock1 /\ value = Byte.aa ->
         [f EXCEPT !.seq = 1]
    [] value # Byte.reset /\ f.seq = 1 /\ addr = Unlock2 /\ value = Byte.unlock ->
         [f EXCEPT !.seq = 2]
    [] value # Byte.reset /\ f.seq = 2 -> dispatch([f EXCEPT !.seq = 0], addr, value, we)
    [] OTHER -> [f EXCEPT !.seq = 0]
command_write(f, addr, value, we) ==
  CASE value = Byte.reset -> [f EXCEPT !.mode = "Read", !.seq = 0, !.prefix = 0]
    [] value # Byte.reset /\ f.seq = 0 /\ addr = Unlock1 /\ value = Byte.aa ->
         [f EXCEPT !.seq = 1]
    [] value # Byte.reset /\ f.seq = 1 /\ addr = Unlock2 /\ value = Byte.unlock ->
         [f EXCEPT !.seq = 2]
    [] value # Byte.reset /\ f.seq = 2 -> dispatch([f EXCEPT !.seq = 0], addr, value, we)
    [] OTHER -> [f EXCEPT !.seq = 0, !.prefix = 0]

\* A write with the chip selected; a running operation ignores the bus.
flash_write(f, addr, value, we) ==
  CASE f.busy > 0 -> f
    [] f.busy = 0 /\ f.mode = "Program" -> program_write(f, addr, value, we, FALSE)
    [] f.busy = 0 /\ f.mode = "ProgramHidden" ->
         program_write(f, addr % HiddenSize, value, we, TRUE)
    [] OTHER -> command_write(f, addr, value, we)

flash_tick(f, t_cycles) == [f EXCEPT !.busy = IF @ > t_cycles THEN @ - t_cycles ELSE 0]

\* What load_save_data makes of save_data's image: the array, the hidden region and the
\* protection are stored, the rest is a new chip's.
flash_reloaded(f) ==
  [NewFlash EXCEPT !.data = f.data, !.hidden = f.hidden, !.protect = f.protect]
=============================================================================
