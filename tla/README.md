# TLA+ verification of skSoC-tn

skSoC-tn is a dual-core RISC-V system on a chip for the Tang Nano 20k board: two
Hazard3 cores share one AHB crossbar, a write-through cache in front of the SDRAM
in the FPGA package, and an APB bus with a timer, a UART and an SD card host. It
boots by copying an image from the SD card into the memory, and runs NuttX.

All paths below are relative to `src/hazard3/example_soc/libfpga/` unless they start
with `src/`. The configuration modelled is the FPGA build (`src/hazard3/run.tcl`).

## Inventory

| Part | Source | State it keeps | Operations | Talks to |
|---|---|---|---|---|
| SDRAM sequencer | `mem/sdram.v` | sequence, cycle, selected row and column | configure, read, write, refresh | the chip |
| Memory controller | `mem/memory_controller.v` | busy, cycle counters, captured command | start, wait, finish | sequencer |
| DRAM port | `mem/memorytn.v` | port state, captured request, refresh counter | accept, capture during a refresh, refresh, release | controller |
| Memory filler | `mem/maintn.v` | boot state, addresses, checksums | zero the memory, copy the image, read back, hand over | port, loader |
| Cache | `mem/cache_laurwt.v` | look-up state, lines | look up, fill, write through, clear | port |
| Bus slave | `mem/ahb_laur_mem.v` | transfer state, reservations | read, write, exclusive read and write | cache, bus |
| Crossbar | `busfabric/ahbl_*.v` | selected slave per master, granted and buffered address phases per slave | route, arbitrate, buffer | cores, slaves |
| APB bridge | `busfabric/ahbl_to_apb.v`, `apb_splitter.v` | bridge state, transfer in data phase | setup, access, answer, error | peripherals |
| Timer | `src/hazard3/example_soc/soc/peri/hazard3_riscv_timer.v` | mtime, mtimecmp, interrupts | tick, read, write by halves | bridge, cores |
| UART | `peris/uart/uart_mini.v` | character, transmitter | write | bridge, the line |
| SD card host | `sd/sd.v` | two state machines, block memory | status, command a block, access a byte, move a block | bridge, controller |
| SD controller | `sd/sd_spi.vhd` (and `sd_spi.v` generated of it) | state, byte counter, error, handshakes | initialise, read and write a block | host, card |
| Boot loader | `mem/sdspi_file_reader.v`, `sdspi_reader.v` | place in the file system, word being packed, word on offer | read a sector, find the file, read it, offer a word | SD host, filler |
| Image generator | `src/initmem_gen2/main-nuttx.c`, `main.c` | the image, its sum | load a binary, write the words, print the sum | boot loader, through the card |
| Core | `src/hazard3/hdl/` | pipeline, registers, monitor | fetch, load, store, AMO, interrupts | crossbar |
| Operating system | `src/nuttx-patch-12.8.0.patch` | block driver, timer | read and write sectors, set an alarm | peripherals |
| SMP test | `src/smp_main-12.c` | threads, barrier, semaphore, exit code | create, write a line, meet, join, destroy | NuttX |
| File system test | `src/mount_main.c` | count of errors (and the card) | calls that must work, calls that must fail | NuttX, the card |
| Benchmark | `src/smp_main-dhrystone.c` | records, arrays, passes, time | turns, passes, report | the cycle counter |

What is hard here is not computation but time: every part is a clocked state
machine that hands work to the next with a protocol of its own (a level handshake
at the DRAM port, pipelined address and data phases on the bus, one-cycle pulses
at the peripherals), and each relies on what the others do in the very cycle of a
hand-over. The properties aim at those cycles:

* DRAM port: the cycle counts of the controller agree with the sequences of the chip;
  a request that meets a refresh is served once; refreshes are never starved.
* Cache and bus slave: no read is stale, whatever the order of fills, writes and
  aliases; a transfer that is answered has taken effect, once; exclusives exclude.
* Crossbar: a transfer is never lost, doubled, or answered by another slave.
* Peripherals: a write that is offered for one cycle is taken; a character leaves as
  it came; an alarm set by halves never fires early and never gets lost; a block
  reaches the card or the buffer whole, or an error shows.
* Boot: every word of the image gets to the memory, in its place, however the memory
  stalls; the card host is handed over between two accesses; a sound card boots.
* Programs: a thread is never past the barrier early, nothing is destroyed in use, and a
  success is one; the file system test tells a sound run from another even after a power
  cut, and clears up; the benchmark's final values and time are true of every pass.

## Modules

In a model of hardware a step is one clock edge: registers get their
primed values from the `always` blocks, wires are operators of the unprimed state, and
operators named after a register with `After` or `Tick` are its `always` block. Data
are abstracted to what the properties tell apart (a word is a function of byte lanes,
a transfer a record or a model value); control is kept cycle by cycle.

| Module | Models | Composed of |
|---|---|---|
| `Sdram`, `MemoryController` | `mem/sdram.v`, `mem/memory_controller.v` | |
| `DramConRV` | `mem/memorytn.v` and a requester that keeps the port's rules | the two above |
| `MemPort` | what the port promises, and what a requester owes | abstract; `DramConRV` implements it |
| `CacheCtrl` | `mem/cache_laurwt.v`, `w_init_done` of `mem/maintn.v` | `MemPort` in place of `DramConRV` |
| `AhbMem` | `mem/ahb_laur_mem.v` and the bus in front of it | `CacheCtrl` |
| `BusMemory` | a memory with reservations that answers transfers in order | abstract; `AhbMem` implements it |
| `Crossbar` | `busfabric/ahbl_crossbar.v`, `ahbl_splitter.v`, `ahbl_arbiter.v`, `common/onehot_priority.v`; masters hold an address phase until it is taken, as `hazard3_cpu_1port.v` does; slaves answer at any pace | |
| `ApbBridge` | `busfabric/ahbl_to_apb.v`, `apb_splitter.v`; what the device answers is a parameter of the edge | |
| `Uart` | `peris/uart/uart_mini.v` and an ideal receiver on the line | `ApbBridge` |
| `Timer` | the timer, and the setting of an alarm by NuttX | `ApbBridge` |
| `SdController`, `SdHost` | `sd/sd_spi.vhd`, `sd/sd.v` | |
| `SdDriver` | `mmcsd_read` and `mmcsd_write` of the NuttX patch | `SdHost`, `ApbBridge` |
| `BlockDevice` | a disk of blocks whose failures show | abstract; `SdDriver` implements it |
| `Initmem` | the image generator: what `initmem.bin` holds, and the sum it prints | |
| `SdLoader` | `mem/sdspi_file_reader.v`, `mem/sdspi_reader.v`, and of `sd/sd.v` what they use | `Initmem` |
| `Boot` | `mem/maintn.v` until the memory is handed over, and the port it writes to | `SdLoader` |
| `SmpTest` | `src/smp_main-12.c` | |
| `MountTest` | `src/mount_main.c` over a volume that may fail | |
| `Dhrystone` | `src/smp_main-dhrystone.c` | |
| `MC*` | instances for TLC | |
| `*_proofs` | theorems; `Programs_proofs` has those of `SmpTest`, `MountTest` and `Dhrystone` | |

In a model of a program a step is a statement, or, in `MountTest`, a call with the
judgement of its answer. Three layers meet through abstract specifications. `DramConRV` implements `MemPort`
(checked, and proved but for its liveness); `CacheCtrl` uses `MemPort` for its memory and
keeps the requester's side of it (`PortRules`, checked and proved). `AhbMem` implements
`BusMemory`, and `SdDriver` `BlockDevice` (checked and proved). What `AhbMem`
assumes of the bus, that a slave in data phase sees a ready bus only when it is ready
itself, is `SlaveSeesBus` of `Crossbar` (checked and proved); `Crossbar` in turn lets
each slave take any time to answer. The bridge is modelled twice: as a slave of
`Crossbar` it is only its two answers (ready, or the two cycles of an error), and in
front of its devices it is `ApbBridge`.

Where a model departs from the code:

* `SdController` does not count the clocks of a byte exchange. In each state that stands
  for one (`Moving`) the controller may stay for any number of cycles; the registered
  outputs, the handshakes and `IDLE2` are exact. Initialisation is one such state. A card
  fault (`Faults`) is a choice at the point where the code sees it; corrupted data always
  fail the CRC. The addresses of the block memory start at 8, not 0x200.
* `SdDriver` reads and writes one sector per operation; a call of several sectors is a
  series of operations without the wait in between, on any blocks.
* The receiver of `Uart` is at the same bit rate. Characters have 4 bits in the runs.
* `Timer` has halves of `Half` values, 2 in the run. `dbg_halt` is a tick that does not come.
  `written` is a history: what each register would hold if only its own writes, and for the
  time the ticks, were looked at.
* `Boot` takes for the memory port what `DramConRV` promises: a request keeps it busy for
  some of `BusyLengths` cycles. Its card has sectors of 16 bytes and clusters of one or two
  in the run; the name in a directory entry is not parsed, a sector tells of the file or
  does not. The first cluster of the file is kept modulo `CLUSTERS`, 65536 in the code and 8
  in the run. A card carries what the proofs have to name: the clusters of its file in order
  (`chain`), what `initmem_gen` was given, and the partial sums it went through (`sums`).
* `Initmem` writes bytes as digits of base `BASE`, 3 in the run.
* `SmpTest` leaves out how long a thread burns time: it is scheduled at any time. A failure
  of `pthread_barrier_destroy` is a line and no more. `pthread_join` may
  answer an error, but not before the thread has returned.
* `MountTest` keeps the names on the card and not the contents of the files; a call
  answers at once or fails with `EIO` and has no effect. A listing may have any number of
  failing `opendir`. `close`, `readdir` and `closedir`, whose answers the code drops, may
  fail without bound and are remembered only in `missed`: they lose bytes or lines of a
  listing, never a name. Whether a rename to a name that is taken works is left open.
* `Dhrystone` has no strings but their names and letters; the counter has `2 * HALF` values.
* Undefined power-up values (registers with no reset) are any value.

## Runs

| Run | Configuration | Bounds | Shows |
|---|---|---|---|
| `dram_port` | `DramPort.cfg` | 2 rows, 1 column, 1 lane, 2 byte values; the timing parameters of the code, a refresh every 14 cycles | the port stack: command and data timing, refresh in time, every request served, `MemPort` implemented |
| `ahb_cache` | `AhbCache.cfg` | 1 index, 3 tags of which 2 are aliases, 2 lanes | the cache is coherent, keeps the port's rules, and the slave is a `BusMemory` |
| `ahb_excl` | `AhbExcl.cfg` | 2 harts, 2 words, every transfer | exclusives exclude, every transfer ends |
| `crossbar` | `Crossbar.cfg` | 2 masters, 2 slaves, 2 transfers to the memory, 1 to the bridge, 1 to nowhere | placement, own ready, true answers, no starvation under fair masters |
| `uart` | `Uart.cfg` | 4-bit characters, 16 cycles a bit; writes, reads and stray accesses | a write is taken, characters arrive as written |
| `timer` | `Timer.cfg` | halves of 1 bit; all registers; alarms 1 and 2 | the time keeps its ticks over writes, registers read back, alarms neither early nor lost |
| `sd` | `Sd.cfg` | 2 blocks of 2 bytes, all operations, all faults | `BlockDevice` implemented, no lost command, one user of the block memory, operations return |
| `boot` | `Boot.cfg` | 14 cards, 8 words, 9 lengths of a memory access, 8 values of a first cluster | the image is stored word by word, the checksums agree, the hand-over is clean, a sound card boots |
| `smp` | `Smp.cfg` | 2 threads, 2 CPUs, any call fails | whole lines, the barrier, destruction, the exit code; a clean run ends |
| `mount` | `Mount.cfg` | 3 runs on a card, 2 failing calls a run, power cuts | the count of errors is true; a good run clears up after a bad one |
| `dhrystone` | `Dhrystone.cfg` | passes of 1, 10 and 100 turns, a counter of 8 values | final values, turns, time |
| `amo_atomic` | `AmoAtomic.cfg` | 2 harts, 1 word | a plain store between the halves of an atomic operation is lost |

The bounds are the smallest in which the interesting cases meet. Two rows make a wrong
address visible, three tags give a hit, a conflict and an alias; two harts, two masters
and two slaves are what the chip has. One bit a half is enough for a carry and for every
mixture of an old and a new alarm. Two bytes a block have a first and a last, which is
where the counters and handshakes of a block can be off. 14 cycles between refreshes let
a refresh fall due in every cycle of a request. The cards of `boot` differ in file system,
partition table, size and order of the clusters, place in the directory, end of the chain,
length of the file and where it begins: a sector of two pairs of words is the least in
which the reader goes on by itself from one word it holds back at (`frbusy`) to the next,
and eight words are two sectors and more than one cluster. Two threads have a first and a last at the barrier. Three runs are
one that leaves something, one that meets it, and one that goes on counting.

The last run ends in a violation: the property is what a comment of the code claims, and
the code does otherwise (`PROJECT.json`, findings). In the others `Inv` is the type
invariant of the module with the state invariants named in its definition.

Two properties have a premise because the code goes wrong without it. The reader of `boot`
keeps 16 bits of the first cluster of the file, which has 28 in FAT32
(`sdspi_file_reader.v:427`, 438, 483-484, 594), so that a file which begins at cluster 65536
or above is read from another one. The properties of `boot` that speak of the words of the
file therefore assume `FirstTold`, which every FAT16 card satisfies; what does not depend on
them (the zeros beyond what is stored, the length, the ranges, the hand-over) is claimed of
all fourteen cards, three of which are without it. The file system test drops the answers of
`close`, `readdir` and `closedir` (`src/mount_main.c:212`, 233, 235, 257, 305, 342):
`ZeroMeansSound` and `CleansUp` speak of the calls whose answer the test looks at.

Where `boot` is exact and where it has room. On `dram_port`'s model a write keeps the port
busy for 6 to 14 cycles; the copy is checked, and proved, for lengths from 2 to 22. A byte
takes the reader 7 cycles and a word 28, and nothing but `frbusy`, at every second word,
holds the reader back: the copy has 28 cycles to take the word, see the port free and be
done. With other values of `BusyLengths` TLC finds that at 23 cycles the boot can stop for
good, and that at 24 words are lost; a port that is busy for a single cycle would break the
zero fill.

Fairness. A clocked circuit has one step, and the clock does not stop: `WF_vars(Tick)`, or
`[]<><<TRUE>>_vars` where an idle cycle may leave all registers as they are. On top of it:
in `AhbMem` the boot copier finishes (`boot`) and the port serves (`RequestServed` of
`dram_port`); in `SdDriver` the controller leaves each byte exchange (it counts) and the
driver goes on; in `Boot` the card answers a block read in the end and the memory gets
through its start. In `SmpTest` every process is scheduled, and the semaphore is strongly
fair: NuttX gives it to who waits longest among those of a priority, and all threads of
the test have one. In `Crossbar` nothing is assumed: `EveryTransferEnds` says under which
behaviour of slaves and masters no transfer starves. In particular, since the last winner
keeps its priority (`onehot_priority.v:42`), the header's "Lower port numbers are higher
priority" (`ahbl_arbiter.v:22`) does not describe the code, and a master that never pauses
keeps a slave for itself.

### Also seen

Some modules state, with the comment that it does not hold, a property the code or its
comments suggest. Adding it to the run's configuration shows the counterexample.

| Property | Run | What the code does |
|---|---|---|
| `LateRefreshReported` | `dram_port`, with `RST_CNT = 30` and `REFRESH_CNT_MAX = 32` | `memorytn.v:185` compares the one-bit `r_refresh` with the limit, so that lateness is never reported |
| `FirstFetchCoherent` | `ahb_cache` | the first fetch is taken before the memory is filled; the cache drops it (`cache_laurwt.v:127`) and it is answered with the word the port read last |
| `ReadBackAll` | `timer`, with every register writable and no alarms | the high half of `mtimecmp1` is written at `ADDR_MTIMECMPH + 8` (line 122) and read at `+ 12` (line 138) |
| `FileReadOut` | `boot` | the reader follows another chain than that of a file that begins at cluster 65536 or above, although it is to "read out file content" of FAT32 (`sdspi_file_reader.v:9`) |
| `AllReported` | `mount` | a run in which `close` fails to write the bytes of a file ends with "0 errors reported" |
| `ReadReturnsBlock` | `sd` | the driver masks the error bits (patch, line 14138): a block with a wrong CRC is returned as read |
| `AbortedRunEnds` | `smp` | after a failed `pthread_create` main joins threads that wait at a barrier that never fills |
| `CountAsPrinted` | `dhrystone` | "should be: Number_Of_Runs + 10" is true only of a run of one pass: nothing sets the array back |

And, kept in the models: a load from the UART is never answered (`uart_mini.v:90`); after
an error answer of the card `sd.v` waits for a byte with `rd` or `wr` raised while the
controller waits for it to fall (`sd.v:255`, `sd.v:307`), which is `Stuck` in `SdDriver`; at
the hand-over the last block read of the loader may still be running, and a driver that
polls the busy status, as NuttX's does, waits for it; the loader knows only some of the
end-of-chain values (`sdspi_file_reader.v:302`), which does no harm to a whole file; the
SD host answers writes below its block memory only at the addresses 0 and 4 (`sd.v:141`),
which are the ones the driver makes; the
image generator puts one byte 0xFF after each binary (`getc` at the end of the file) and
does not check that it fits; `main` of the file system test returns 0 whatever it counted,
and counts on from an earlier run; after a failed write one `mkdir` that should have failed
makes a directory of a file's name, which no later run removes.

## Proofs

The eight `*_proofs` modules prove, for every value of the constants that the named
assumptions admit:

| Theorem | Says | From |
|---|---|---|
| `DramConRV_proofs!TypeCorrect` | `TypeOK` | |
| `CommandsKept`, `ReadsInTime` | `NoCommandLost`, `NoTimingFail` | `CtrlInv`: while an operation runs, the controller and the sequencer count the same cycles. Neither property is inductive: it holds because the two counters, which never see each other, stay equal. The timing assumption is that the controller's fixed lengths fit the chip's parameters |
| `NoForgottenStall` | `NoStallWithoutRequest` | `PortInv`: which flags are up and which operation runs in each state of the port |
| `RefreshNeverLate` | `RefreshInTime` | `LagInv`: a bound on the lateness for each state of the port; an operation only shortens what is left of it |
| `WorksAtTheRequest` | `DataInv` | `PortInv` and `CtrlInv`: from the command on, controller and sequencer have the address of the request, and the word on the data bus is that of its cell when the controller latches it |
| `PortImplemented` | the safety part of `PortSpec` | `DataInv`: a write of `MemPort` is the cycle in which the sequencer writes its cell (`T_RCD` cycles after the command), the end of a read or of a write is the one in which the port is released; any other step is an acceptance or changes nothing that shows |
| `AhbMem_proofs!TypeCorrect` | `TypeOK` | |
| `NeverStale`, `ReadsCoherent` | `LinesCoherent`, `ReadCoherent` | `BusInv`: how the cache, the port and the transfer in data phase belong together. A write makes lines of other tags stale only if they alias, and those share its index, whose line it has cleared |
| `WritePhaseAlone` | `NoPhaseInWrite` | `BusInv` |
| `ExclusiveWriters` | `OneExclusiveWriter` | `ReservationInv` |
| `PortRulesKept` | `PortRules` | the invariant of `NeverStale`: the cache raises a request only at a free port and lowers it only when it is accepted |
| `BusSpecHolds` | `BusSpec` | the same invariant: an address phase is a `Take`, the write at the port a `Store`, and any other cycle changes nothing that `BusMemory` sees; the answer of every state is true (`AnsweredHolds`, of which `ReadsCoherent` is the case of a read) |
| `Crossbar_proofs!TypeCorrect` | `TypeOK` | |
| `Placed`, `NeverStranded` | `InOnePlace`, `NoStrandedBuffer` | `XInv`: the registers of splitters and arbiters follow the transfers in data phase |
| `OwnReady`, `AnsweredByItsSlave` | `SlaveSeesBus`, `TrueAnswer` | `XInv`, from which the wires follow |
| `Uart_proofs!WritesTaken` | `OfferedWhenReady` | `OfferInv`: the UART works, or answers, only while the bridge waits for it with a write. The UART is not the splitter's `NoDevice` |
| `CharactersArrive` | `Inv`, with `ReceivedAsWritten` | `LineInv`, of which `Inv` says only the end: the shift register holds the rest of the frame, the age of the receiver is the place of the bit on the line, what it has read so far is the head of the character, and a stop bit is over before the next start bit can come |
| `Timer_proofs!RegistersReadBack` | `Inv`, with `TimeKept` and `ReadBack` | `AccessInv`: the timer leaves its first state only for the access under way, so that every write finds it there; `RegisterInv`: each half holds what was written to it last; and what a tick does to the two halves of a 64-bit sum |
| `AlarmNeitherEarlyNorLost` | `AlarmTrue` | `StageInv`: which halves of `mtimecmp` are those of the old alarm and which of the new follows from the number of writes that are left. The first of them is what makes no mixture early |
| `SdDriver_proofs!NothingLost` | `Inv` | `Whole`, below |
| `DiskImplemented` | `BlockSpec` | `Whole` |
| `Boot_proofs!BootInv` | `IInv` | the boot, below |
| `StoredSafe`, `BootSafe` | `StoredInOrder` (the words for cards with `FirstTold`, the zeros for all), `Inv` | `IInv`, above all its `Race` and `Rest` |
| `SumsSafe` | `ChecksumsAgree`, for cards with `FirstTold` | `Summed`: the sum of the copy, and that of the read-back, is at each word the one `initmem_gen` had there |
| `ProgramsSafe` | `ProgramsInMemory`, the programs for cards with `FirstTold` | `StoredInOrder`, and the digits of a word |
| `Programs_proofs!TypeCorrect` | `TypeOK`, with a count of `nsem` of at most 1 | `Lock` |
| `LinesStayWhole` | `LinesWhole` | `Lock`: `nsem` is free exactly while nobody writes, and who writes has a line left |
| `BarrierHolds` | `NobodyBackEarly` | `Barrier`, and that N - 1 threads that wait and one more are all N (a fact on cardinalities) |
| `DestroyedWhenUnused`, `SuccessMeansComplete` | `NoThreadLeftAtDestroy`, `SuccessIsTrue` | `Main`: which threads exist, and which of them have returned, follows from main's statement and counter |
| `BenchTypeCorrect`, `ValuesAsPrinted` | `TypeOK`, `FinalValues` | `Turn`: the comments of the loop, made inductive; a turn forgets what was there before it |
| `TurnsCounted` | `AllTurnsCounted` | `Count`: nine times the turns of the passes that are over are the length of this pass less that of the first |
| `TimeTrue` | `MeasuredTrue` | the difference of two residues, for every `HALF` |
| `CountTells`, `RunCleansUp` | `Inv` with `ZeroMeansSound`, and `CleansUp`, of `MountTest` | `MountInv`, below |

`Programs_proofs` extends `SmpTest`, `Dhrystone` and `MountTest`; that is why the names which
would meet there carry that of their program (`DhrySpec`, `MountSpec`).

Each proof shows that `Init` implies the invariant, that every step keeps it (one lemma
per state of the machine or per conjunct, collected in a step lemma), and that it implies
the property. The helper invariants are stated in the component modules or at the head of the
proofs, and were checked by TLC first.

The SD card is where most has to be known at once. `Inv` says of four machines (driver,
bridge, the two of the host, controller) that they never meet in a wrong state, and none of
them sees more than one wire of the next. `Whole` puts together, each over the ones before:

* `PathInv`: which access the driver makes at each of its statements, where the bridge is
  with it, and where the first machine of the host is;
* `MoveInv`: for each state of the host's second machine, the states in which the
  controller can be and the handshakes between them. `CardSent(k)` and `CardGot(k)` say that
  k bytes have passed: host and controller count them apart, one up and the other down;
* `QuietInv`: where the driver goes on without asking, host and controller are at rest. A
  status that says so (`Told`) is still true when the bridge hands it over two cycles later,
  because only the driver can command; and the controller works at the commanded block
  (`Commissioned`);
* `BytesInv` and `FlagsInv`: the types of what is on its way;
* `FillInv` and `CopyInv`: what the block memory holds when the driver is at its i-th byte;
* `WriteInv` and `ReadInv`: what the card has got of the block memory, and the block memory
  of the card. In a read they hold unless the error bit is set, or a fault has happened that
  the CRC at the end of the block will show (`Marred`).

`DiskImplemented` then maps `Start` and `Continue` of the driver to the start of an operation
of the disk, the step in which the card accepts a block to `Store`, and `Return` to its
return; any other step shows at most in the error.

The boot is a race, and a search. `IInv` is the conjunction of

* `ReaderHost`, `ReaderPlace`: the sector reader and the card host never wait for each other
  in a wrong state, and which byte of the sector is under way;
* `Chosen`, `Position`: a sector that is being read is the one the search has chosen, and
  while the file is read, on a card with `FirstTold`, `fptr` is the place of the next byte, in the nth cluster of the
  chain for some n; or, in the table, the next cluster has been seen once its entry is past;
* `Gathered`, `HandShake`: the word on offer is the word of the file that `senti` and
  `r_initaddr3` count, and it is taken once;
* `Race`: whoever has to take a word needs at most `U` more cycles, and the reader needs at
  least `T` until the next one, and `U <= T`. `frbusy` keeps the reader from the fifth byte of
  a pair until the first word is stored; after the second word it reads on at once. `U` starts
  at 28, four bytes of seven cycles, of which the handshake takes six: hence 22;
* `Filled`: after the zero fill every word of the memory is a number, on any card, so that the
  sums are;
* `Stages`, `Zeroed`: the zero fill is over, its last write included, before the copy starts;
* `ReadBack`, `Summed`: a word is added to each sum once, and both follow the partial sums;
* `Rest`: after the last word the reader comes to rest within `toRest` cycles, at most 13, and
  the read-back of at least two words takes longer (`timeLeft`). That is why the bus never
  finds the card host in the middle of an access, although nothing in the code waits for it.

`TypeOK` and `StoredInOrder` complete it.

`MountInv` follows the script, a list of 65 calls. `AsMade` says at each of its places what a
run in which every call works that is looked at has made and removed by then, whatever lay on the card before;
`AsPlanned` says that this is all there is, and that no answer was wrong, if no directory of
the test was found. Each call has its lemma, and `Planned` shows that every entry of the script
fits one of them: what it makes is not yet there, what it removes or reads is, what it expects
to be refused is refused. For the other direction, `Counted` says that every failed call that
is looked at was counted, and `Unmet` that a directory which an earlier run left is still there, and uncounted
only until the call that makes one of that name, or misses it.

The assumptions are those that the wiring gives: the peripheral that is modelled is one of
the splitter's (`Dev # NoDevice`), a word that is written is a word (`TransferAssumption`,
`DriverAssumption`), hart 0 writes its compare register only to set an alarm
(`TransferAssumption` of `Timer`), alarms are times, halves have at least two values, a
block at least one byte, a bit at least two cycles. Of the boot they are the sizes (sectors
and image are whole pairs of words, `SizesAssumption`), the lengths of an access
(`BusyAssumption`), and what a card is (`CardsAssumption`, which TLC evaluates on the
fourteen cards of the run): its table leads along the clusters of the file, none of them
twice, and a file of the image's length is what `initmem_gen` made of programs it had room
for. The theorems about the words of the file are for cards with `FirstTold`. Programs that
do not fit, other files of that name and damaged tables are outside the theorems.

Only model-checked, because the prover does not reason about fairness and `ENABLED`: the
liveness properties (`RequestServed` and with it the fairness that `PortSpec` asks for,
`EveryTransferEnds`, `EveryCharacterArrives`, `EveryOperationReturns`, `BootEnds`,
`CleanRunEnds`). Every safety property of the passing runs is proved
(of `PortSpec`, its safety part). One fact the proofs take
from a card instead of proving it: that the partial sums of the image follow each other
(`Summing`) is what the recursive function `sums` of `Initmem` is defined by, but that such a
function satisfies its equation is an induction over data, which the installed provers cannot
do. It is a part of `CardsAssumption`, and TLC evaluates it with `sums` itself.

## Not modelled

In the order in which they would extend the models:

1. The bus port of a core (`src/hazard3/hdl/hazard3_cpu_1port.v`) and the load/store side
   of `hazard3_core.v`: AMO as a read and a write phase, the local monitor, the held
   address phase that `Crossbar` assumes. Composition of `Crossbar` with `BusMemory`.
2. Interrupts and sleep (`hazard3_power_ctrl.v`, `hazard3_irq_ctrl.v`): no lost wake-up.
3. The debug module's halt and resume and the asynchronous APB bridge; the sequential
   multiplier and divider as an algorithm.

Left out for good: the alternative memories, caches and SD hosts that are not in the
build, video and SPI flash, the simulation models, instruction decoding and the data path
(combinational); the register headers of those peripherals (`uart_regs.h`, `spi_regs.h`,
`sd_defines.h`), which nothing in the build includes; `testsd` of the benchmark's file,
which is never called; the value of the benchmark's speed (the product at line 593 can
overflow), and what the programs print.
