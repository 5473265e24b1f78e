------------------------------- MODULE Initmem -------------------------------
(***************************************************************************)
(* initmem_gen2: the two programs that make initmem.bin, the image the     *)
(* boot loader copies to memory.  main-nuttx.c takes the binary of NuttX;  *)
(* main.c takes that of Linux and a device tree that goes to D_INITD_ADDR. *)
(* (WITHOUT_DISK is defined: neither writes a disk image.)  Each prints    *)
(* the sum of the words of what it wrote.                                  *)
(*                                                                         *)
(* A byte is a digit of base BASE, 256 in the code.                        *)
(***************************************************************************)
EXTENDS Integers, Sequences

CONSTANTS
  BASE,          (* values of a byte                                       *)
  DRAM_SIZE,     (* DRAM_SIZE = D_SIZE_DRAM, in bytes                      *)
  D_INITD_ADDR   (* where main.c puts the device tree                      *)

ASSUME ImageAssumption ==
  /\ BASE \in Nat \ {0, 1}
  /\ DRAM_SIZE \in Nat \ {0} /\ DRAM_SIZE % 4 = 0
  /\ D_INITD_ADDR \in 0 .. DRAM_SIZE - 1

Byte == 0 .. BASE - 1
Word == 0 .. BASE * BASE * BASE * BASE - 1

(* getc at the end of the file is -1, and a byte of memory takes its low   *)
(* bits.                                                                   *)
EOF == BASE - 1

(* calloc                                                                  *)
Cleared == [i \in 0 .. DRAM_SIZE - 1 |-> 0]

(* The loop of load_binfile asks feof before it reads: it stores one byte  *)
(* more than the file has, the answer of the getc that met the end.        *)
Loaded(file) == Len(file) + 1
load_binfile(file, mem, at) ==
  [i \in DOMAIN mem |->
     IF i \notin at .. at + Loaded(file) - 1 THEN mem[i]
     ELSE IF i - at = Len(file) THEN EOF ELSE file[i - at + 1]]

(* Files the programs have room for; a longer one is written past the end  *)
(* of mmem, which the code does not ask about.                             *)
Fits(file, at) == at + Loaded(file) <= DRAM_SIZE

(* fwrite: the whole of mmem.                                              *)
initmem_nuttx(nuttx) == load_binfile(nuttx, Cleared, 0)
initmem_linux(bbl, dtb) == load_binfile(dtb, load_binfile(bbl, Cleared, 0), D_INITD_ADDR)

(* The words of an image, the lowest byte first, and their 32 bit sum.     *)
WordOf_big(b0, b1, b2, b3) == b3 + BASE * (b2 + BASE * (b1 + BASE * b0))  \* mutant
WordOf(b0, b1, b2, b3) == b0 + BASE * (b1 + BASE * (b2 + BASE * b3))
Words(image) ==
  [k \in 0 .. DRAM_SIZE \div 4 - 1 |->
     WordOf(image[4 * k], image[4 * k + 1], image[4 * k + 2], image[4 * k + 3])]
Plus(a, b) == (a + b) % (BASE * BASE * BASE * BASE)

(* sum, after each number of words; the last one is printed.               *)
sums(image) ==
  LET sum[k \in 0 .. DRAM_SIZE \div 4] ==
        IF k = 0 THEN 0 ELSE Plus(sum[k - 1], Words(image)[k - 1])
  IN  sum
Summing(s, image) ==
  s[0] = 0 /\ \A k \in DOMAIN Words(image) : s[k + 1] = Plus(s[k], Words(image)[k])
=============================================================================
