------------------------------ MODULE Cartridge ------------------------------
(***************************************************************************)
(* The mappers with a life of their own, crates/slopgb-core/src/cartridge: *)
(* an MBC6 with its flash chip, an MBC3 with its clock.  A cartridge is    *)
(* one or the other (enum Mapper), so one machine here is either.          *)
(*                                                                         *)
(* The bank and window registers only choose which address or register a   *)
(* write of the CPU reaches: a write is taken where it arrives.            *)
(***************************************************************************)
EXTENDS Mbc6Flash, Rtc, Sequences, SequencesExt

CONSTANTS Addrs,  \* the flash addresses that are written
          Chunks  \* the T-cycles one call of tick_time may pass

ASSUME InputAssumption == Addrs \subseteq Addr /\ Chunks \subseteq Nat

VARIABLES mapper, \* the live one of enum Mapper's variants
          h       \* history: what the flash chip was told

vars == <<mapper, h>>

NoOrders == [cmd |-> <<>>, load |-> <<>>]
Init == /\ mapper \in {[kind |-> "Mbc6", flash_we |-> FALSE, flash |-> NewFlash],
                       [kind |-> "Mbc3", rtc |-> NewRtc]}
        /\ h = NoOrders
-----------------------------------------------------------------------------
(* What the chip's data sheet calls a command: its bus cycles, in a row. *)

Cycle1(v) == <<Unlock1, v>>
Unlock == <<Cycle1(Byte.aa), <<Unlock2, Byte.unlock>>>>
Short(v) == Unlock \o <<Cycle1(v)>>
Long(p, w) == Short(p) \o Unlock \o <<w>>
SectorErase(a) == Long(Byte.erase, <<a, Byte.sector>>)
ChipErase == Long(Byte.erase, Cycle1(Byte.chip))
Extended(v) == Long(Byte.extended, Cycle1(v))
Commands == {Short(Byte.program), Short(Byte.id), ChipErase,
             Long(Byte.hidden, Cycle1(Byte.hidden))}
            \union {SectorErase(a) : a \in Addrs}
            \union {Extended(v) : v \in {Byte.eraseHidden, Byte.programHidden,
                                         Byte.unprotect, Byte.protect}}
Begun == UNION {Prefixes(c) : c \in Commands}

\* The orders after one more accepted write: a page being loaded, or the part of a command
\* seen so far.  A write that breaks a command off begins none.
Loading == \/ h.cmd = Short(Byte.program)
           \/ h.cmd = Extended(Byte.programHidden)
heard(addr, value, we) ==
  LET w == <<addr, value>>
      so_far == IF h.cmd \in Commands THEN <<>> ELSE h.cmd
      next == Append(so_far, w)
      first == h.load[1][1]
  IN  CASE Loading /\ Len(h.load) < PageLen -> 
             [h EXCEPT !.load = Append(@, <<addr, value % 2>>)]
        [] Loading /\ Len(h.load) = PageLen ->
             IF value = Byte.reset \/ addr = page_of(first) + PageLen - 1
             THEN NoOrders ELSE h
        [] ~Loading /\ next = Extended(Byte.programHidden) /\ ~we -> NoOrders
        [] OTHER -> [h EXCEPT !.cmd = IF next \in Begun THEN next ELSE <<>>]
-----------------------------------------------------------------------------
(* The machine. *)

FlashWrite(addr, value) ==
  /\ mapper.kind = "Mbc6"
  /\ mapper' = [mapper EXCEPT !.flash = flash_write(@, addr, value, mapper.flash_we)]
  /\ h' = IF mapper.flash.busy > 0 THEN h
          ELSE heard(IF mapper.flash.mode = "ProgramHidden" THEN addr % HiddenSize ELSE addr,
                     value, mapper.flash_we)

WriteEnable(value) == /\ mapper.kind = "Mbc6"
                      /\ mapper' = [mapper EXCEPT !.flash_we = value]
                      /\ UNCHANGED h

RtcWrite(i) == /\ mapper.kind = "Mbc3"
               /\ \E regs \in OneRegister(mapper.rtc.regs, i) :
                    mapper' = [mapper EXCEPT !.rtc = write_reg(@, i, regs)]
               /\ UNCHANGED h
LatchWrite(value) == /\ mapper.kind = "Mbc3"
                     /\ mapper' = [mapper EXCEPT !.rtc = write_latch(@, value)]
                     /\ UNCHANGED h

tick_time(t_cycles) ==
  /\ mapper' = IF mapper.kind = "Mbc3"
               THEN [mapper EXCEPT !.rtc = tick_cycles(@, t_cycles)]
               ELSE [mapper EXCEPT !.flash = flash_tick(@, t_cycles)]
  /\ UNCHANGED h

\* save_data, and load_save_data into the cartridge of the next session.
PowerCycle(own) ==
  /\ mapper' = IF mapper.kind = "Mbc3"
               THEN [mapper EXCEPT !.rtc = rtc_reloaded(@, own)]
               ELSE [mapper EXCEPT !.flash_we = FALSE, !.flash = flash_reloaded(@)]
  /\ h' = NoOrders

Values == {Byte[b] : b \in DOMAIN Byte}
Next == \/ \E addr \in Addrs, value \in Values : FlashWrite(addr, value)
        \/ \E value \in BOOLEAN : WriteEnable(value)
        \/ \E i \in {"s", "m", "h", "dl", "dh"} : RtcWrite(i)
        \/ \E value \in Latches : LatchWrite(value)
        \/ \E t_cycles \in Chunks : tick_time(t_cycles)
        \/ \E own \in BOOLEAN : PowerCycle(own)
Spec == Init /\ [][Next]_vars
-----------------------------------------------------------------------------
(* What the cartridge promises. *)

\* Every field of the live mapper is in its range, the flash chip is busy only where its
\* status is read out, and holds page data and an unlock in hand only where it takes them:
\* the ranges that index the page buffer and the array (mbc6.rs:94-138).
TypeOK ==
  \/ /\ mapper.kind = "Mbc3"
     /\ mapper \in [kind : {"Mbc3"}, rtc : RtcState]
  \/ /\ mapper.kind = "Mbc6"
     /\ mapper \in [kind : {"Mbc6"}, flash_we : BOOLEAN, flash : Flash]
     /\ LET f == mapper.flash
        IN  /\ f.busy > 0 => f.mode = "Status" /\ f.seq = 0
            /\ f.mode \notin Programming => f = page_reset(f)
            /\ f.mode \in Programming => f.seq = 0 /\ f.prefix = 0
            /\ (f.page = NoPage) = (f.loaded = 0)

IsMbc6 == mapper.kind = "Mbc6"

\* No write, in whatever state the command machine was left, erases a bit that a complete
\* erase command did not name: a sector only its own command or a chip erase, sector 0 only
\* with both protections open, the hidden region only its command under /WP; and the
\* protection itself turns only by its two commands (mbc6.rs:145-255).
NothingErasedUnasked ==
  [][IsMbc6 =>
       LET f == mapper.flash
           g == mapper'.flash
           open == mapper.flash_we
       IN  /\ \A a \in Addr : g.data[a] > f.data[a] =>
                /\ \/ h'.cmd = ChipErase
                   \/ \E b \in Addrs : sector_of(a) = sector_of(b) /\ h'.cmd = SectorErase(b)
                /\ sector_of(a) = 0 => open /\ ~f.protect
           /\ \A a \in DOMAIN f.hidden :
                g.hidden[a] > f.hidden[a] => open /\ h'.cmd = Extended(Byte.eraseHidden)
           /\ g.protect # f.protect =>
                open /\ h'.cmd = Extended(IF g.protect THEN Byte.protect ELSE Byte.unprotect)]_vars

\* What a page load leaves: the last byte loaded for each place of the page, ones elsewhere.
LoadedBit(o) ==
  LET writes == {n \in 1..Len(h.load) : offset_of(h.load[n][1]) = o}
  IN  IF writes = {} THEN 1
      ELSE h.load[CHOOSE n \in writes : \A k \in writes : k <= n][2]

\* A bit is programmed only by the write that ends a full page load, and then the page of
\* the first write loaded takes exactly what was loaded last for each of its bytes, no
\* other byte changes, and sector 0 and the hidden region had their permissions
\* (mbc6.rs:88-138).
ProgramsWhatWasLoaded ==
  [][IsMbc6 =>
       LET f == mapper.flash
           g == mapper'.flash
           open == mapper.flash_we
           Committed(was, is) ==
             /\ Len(h.load) = PageLen
             /\ LET base == page_of(h.load[1][1])
                IN  \A a \in DOMAIN was :
                      is[a] = IF page_of(a) = base THEN was[a] * LoadedBit(offset_of(a))
                                                   ELSE was[a]
       IN  /\ (\E a \in Addr : g.data[a] < f.data[a]) =>
                /\ h.cmd = Short(Byte.program) /\ Committed(f.data, g.data)
                /\ page_of(h.load[1][1]) < SectorSize => open /\ ~f.protect
           /\ (\E a \in DOMAIN f.hidden : g.hidden[a] < f.hidden[a]) =>
                /\ h.cmd = Extended(Byte.programHidden) /\ Committed(f.hidden, g.hidden)
                /\ open]_vars

\* The clock keeps time: however emulated time is cut into calls of tick_time the clock
\* that results is the same, halted or not, its counters in range or not (rtc.rs:40-49),
\* and while they are in range and it runs it counts T-cycles like one long counter, with
\* the carry bit set for good when the days overflow (rtc.rs:51-77).
ClockKeepsTime ==
  mapper.kind = "Mbc3" =>
    LET r == mapper.rtc
        later(t) == tick_cycles(r, t)
    IN  /\ \A a, b \in Chunks : tick_cycles(later(a), b) = later(a + b)
        /\ InRange(r.regs) /\ ~r.regs.halt =>
             \A t \in Chunks :
               /\ Cycle(later(t)) = (Cycle(r) + t) % Period
               /\ InRange(later(t).regs)
               /\ later(t).regs.carry = (r.regs.carry \/ Cycle(r) + t >= Period)
=============================================================================
