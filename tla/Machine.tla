-------------------------------- MODULE Machine --------------------------------
(***************************************************************************)
(* What the code computes for the hardware and from it: segment            *)
(* descriptors (dsctbl.c) and the system calls that read them back, the    *)
(* clock (cmos.c) and the speaker.                                         *)
(***************************************************************************)
EXTENDS Integers

-----------------------------------------------------------------------------
(* set_segmdesc for a segment of size bytes; the limit size - 1 is unsigned *)
(* and is all memory if size is 0.                                          *)

Mega == 1048576
Granular(size) == size = 0 \/ size - 1 > Mega - 1
LimitField(size) ==
    CASE size = 0 -> Mega - 1
      [] size > 0 /\ Granular(size) -> (size - 1) \div 4096
      [] OTHER -> size - 1

SetSegmdesc(size, base) ==
    [limit |-> LimitField(size), granular |-> Granular(size),
     base_low |-> base % 65536, base_mid |-> (base \div 65536) % 256,
     base_high |-> base \div 16777216]

\* The processor counts pages, or bytes.
Reached(d) == IF d.granular THEN (d.limit + 1) * 4096 ELSE d.limit + 1

\* The fields of struct SEGMENT_DESCRIPTOR are short and char: they have signs.
Signed(v, bits) == IF v < 2^(bits - 1) THEN v ELSE v - 2^bits
BaseRead(d) ==
    Signed(d.base_low, 16) + Signed(d.base_mid, 8) * 65536
    + Signed(d.base_high, 8) * 16777216

\* System calls 28 and 29: from the descriptor of the LDT at gdt to that of
\* the data segment, and the address; mem has the descriptors.
PhysAddr(mem, gdt, ds_index, addr) ==
    BaseRead(mem[BaseRead(mem[gdt]) + 8 * ds_index]) + addr

-----------------------------------------------------------------------------
(* cmos.c: BCD_HEX evaluates read_cmos twice, and lacks parentheses around  *)
(* its sum.                                                                 *)

BcdHex(first, second) == (first \div 16) * 10 + (second % 16)
GetYear(cen, year) ==
    (cen \div 16) * 10 + (cen % 16) * 100 + BcdHex(year, year) - 30 + 2010

-----------------------------------------------------------------------------
(* System call 20: the divisor of the speaker's clock in two bytes, for a   *)
(* tone in 1/1000 Hz, and the two bits that turn it on.                     *)

Divisor(tone) == (1193180000 \div tone) % 65536
Speaker(port, tone) ==
    IF tone = 0 THEN (port % 2) + 4 * ((port \div 4) % 4)
    ELSE 3 + 4 * ((port \div 4) % 4)
=============================================================================
