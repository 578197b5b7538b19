# Verification of the FP16 systolic matrix accelerator

TLA+ models of the accelerator in `src/*.v`, of the Nios II program that
drives it (`src/Software/matrix_accel_SW/source.c`) and of the board support
package the program is linked with (`src/Software/matrix_accel_SW_bsp`), TLC runs on small
and on boundary instances, and TLAPS proofs for every size of what is modelled.

## The system

A matrix product `C = A * B` of N x N half-precision matrices (N = 3 in the
system built) is computed by an N x N mesh of multiply-accumulate elements. A
soft CPU loads A and B through an Avalon-MM slave port, writes START, polls DONE
and reads C.

| Part | Code | State | Operations |
|---|---|---|---|
| Control registers | `matrix_accel_top_systolic_array.v` 22-29, 91-145 | `ctrl_start`, `ctrl_done`, 8-bit `cycle_cnt`, `state_calc`, `state_drain` | reset; clock edge with no access, a control write with bit 0 clear, a control write with bit 0 set (START) |
| Skew buffers | `skew_buffer.v` | lane i of A and of B has i shift registers | reset; shift while phase 1 runs |
| Systolic array | `systolic_array.v`, `pe_fp16.v` | per element `a_out`, `b_out`, `c_reg` | reset; clear (the START pulse); compute; drain to the right |
| Multiply-accumulate unit | `fp16_mac.v`, `fp16_mult.v`, `fp16_add.v` | none (combinational) | acc + a * b in FP16 |
| Datapath and slave port | `matrix_accel_top_systolic_array.v` 17-89, 126-177 | `mem_A`, `mem_B`, `mem_C`, the read register | feed column/row `cycle_cnt`; capture a column of C; bus write to A or B; bus read of the status or of C |
| Driver | `source.c`, `main()` | program counter, loop counters, values read | "software reset", clear C, load A, load B, START, poll, read C |
| Older accelerator | `system/synthesis/submodules/*.v` | as above without drain phase and `mem_C` | the copy in the generated system; START does not clear its accumulators |
| JTAG UART | `submodules/system_jtag_uart_0.v` | two FIFOs, interrupt enables, the AC bit | CPU reads and writes data and control; the host takes, sends, polls, comes and goes |
| JTAG UART driver, polled | `drivers/src/altera_avalon_jtag_uart_{write,read,fd}.c`, small | none | `write`, `read`; this is the driver the BSP is built with (`ALTERA_AVALON_JTAG_UART_SMALL`) |
| JTAG UART driver, interrupts | the same files and `_init.c`, `_ioctl.c` | two circular buffers, `irq_enable`, `host_inactive`, `timeout` | `write`, `read`, `close`, `ioctl`; interrupt routine; alarm |
| File descriptors | `HAL/src/alt_{open,close,read,write,...}.c` | `alt_fd_list`, `alt_max_fd`, the device and file system lists | the system calls on descriptors, locks, registration |
| Boot and exit | `HAL/src/alt_main.c`, `alt_sys_init.c`, `alt_exit.c`, ... | the phase | registration of drivers, redirection, constructors, `main()`, destructors, `_exit()` |
| Clock and alarms | `HAL/src/alt_tick.c`, `alt_alarm_start.c` | `_alt_nticks`, the list of alarms | a tick, alarm by alarm; start; stop |
| Time of day | `HAL/src/alt_gettod.c`, `alt_settod.c` | `alt_resettime` | set, get |
| Sleeping | `HAL/src/alt_busy_sleep.c`, `alt_usleep.c` | loop counters | `usleep` |
| Interrupts | `HAL/src/alt_irq_handler.c`, `alt_iic*.c`, `HAL/inc/sys/alt_irq.h` | `PIE`, `ienable`, `alt_irq_active`, `alt_priority_mask` | take, dispatch, return; disable and enable all; open a routine to more urgent ones; register |
| Heap and profiler | `HAL/src/alt_sbrk.c`, `alt_gmon.c`, `alt_mcount.S` | the end of the heap, the slab, the call graph | `sbrk`, `mcount` |
| Printing and logging | `HAL/src/alt_printf.c`, `alt_log_printf.c` | formatter state; flags of the log | both formatters; log lines of the program and of interrupt handlers |
| Exceptions | `HAL/src/alt_exception_*.S`, `alt_irq_entry.S` | the stack frame, `estatus`, `ea` | save, find the cause, emulate multiplication and division, trap, restore |
| Start-up and loading | `HAL/src/crt0.S`, `alt_load.c`, `linker.x` | the on-chip memory | clear `.bss`, copy sections, set the stack limit, call `alt_main()` |
| Caches | `HAL/src/alt_*cache*.c`, `alt_remap_*.c`, `alt_uncached_*.c`, `alt_flash.h` | what is cached, the pointers handed out | flush, remap, uncached `malloc` and `free`, erase and program flash blocks; loads, stores and fetches in between. Compiled away in this system |
| DMA and flash lists | `HAL/src/alt_dma_*.c`, `alt_flash_dev.c`, `alt_dma.h`, `alt_dma_dev.h` | the lists of devices; the drivers' queues | register, open, close, post, ask for room. The system has neither device |
| Generated system | `system/synthesis/system.v` | interconnect, CPU, memory, reset controllers | routes the CPU's accesses; resets |
| Testbenches | `tb_systolic_3x3.v`, `tb_systolic_16x16.v` | - | drive the port as the program does |
| Board top level | `de2_top.v` | none | wires the clock and KEY[0] |

How they interact. All registers of the accelerator share one clock. At each
edge every always block reads the values before the edge, so a clock edge is
*one* atomic step of the whole device; concurrency is between the device, the
program (whose accesses land on some edges), the asynchronous reset and the
debugger that restarts the program. The CPU's data master is the only master that
reaches the port, and the port has no wait states (`hw.tcl` lines 94-99,
`system.v` lines 752-766): an access is one edge.

In the board support package there is one CPU and no operating system: the program
is interrupted by the exception handler, which may itself be interrupted where a
routine allows it, and nothing else runs. What moves between two of its accesses to
a device is the device and the host at the other end of the JTAG cable. The start-up code loads
the sections and calls `alt_main()`, which registers the drivers, opens the
standard streams and calls `main()`; `printf` reaches the UART driver through the
descriptors; the driver's alarm is called by the system clock's tick; every interrupt
comes through the exception entry; the profiler takes its memory from the heap of
the C library; the log writes to the UART's FIFO beside its driver.

What is hard. Several nonblocking assignments of the FSM hit the same register at
one edge, so a START on a busy machine has four different effects depending on
when it comes; START clears the array but not the skew buffers; the mesh is
correct only if every delay in it agrees with every other; the counter is
compared with `==` in 8 bits; the program starts the machine without looking at it and
may itself be restarted in the middle of a run; DONE of an earlier run is still
set when the program comes back. In the board support package, the program and the
interrupt routine of the UART share indexes and the enable bits; whether anybody
is woken up depends on who turned the interrupt off last; the host may be gone; an `open()`
may fail after it has claimed a descriptor; alarms are compared with a counter that
rolls over, from callbacks that change the list; critical sections nest across interrupt
levels; an exception must find out what caused it from two registers that
have moved on; a reset finds the program's data changed. `PROJECT.json` lists these hazards
line by line.

What makes each part correct:

- control: the phases exclude each other, each ends, DONE comes after both, the
  START bit does not outlive a run;
- skew buffers: empty outside phase 1, whatever happened before;
- array: operand k of row i and column j meet in element (i, j), each once, in
  order, and the results leave in the order the capture logic expects;
- datapath: DONE after an undisturbed run means that C is the product of what
  was in A and B at START;
- driver: never starts a running machine, only reads results of its own run, and
  finishes;
- UART drivers: each direction is a byte stream, interrupts are on whenever somebody
  waits for one, and calls return as long as there is a host (or a timeout);
- descriptors: one above the standard streams is taken exactly while the program holds
  it; no two hold a device for exclusive access;
- alarms: called at their tick and at no other, across the rollover; the time of day
  goes on from what was set; a sleep is as long as it was asked to be, but for what the division
  that gives the rounds of a microsecond has lost, and big loops add;
- interrupts: critical sections hold, and only the more urgent interrupts an open routine;
- heap, profiler: no byte of the heap is used twice, not even after the profiler was refused memory,
  and what it takes then is bounded; every call that was made has its record;
- printing: a number reads back as itself, in its width; the log loses only characters
  that were about to be written when an interrupt came;
- exceptions: the interrupted code finds every register as it was, but for the result of
  what was emulated, and goes on at the right instruction;
- start-up: `alt_main()` finds the program's data as linked, after any number of resets;
- caches: after a flush nothing of the region differs between cache and memory, nothing outside
  it is lost, and no block that has its lines for itself and is accessed past the cache is in it;
- device lists: a name is found at a device of the kind that was asked for, so a request is with its driver.

## Modules

| Module | Models | Remarks |
|---|---|---|
| `AccelParams` | N, the 16-bit words | assumptions on the constants |
| `AccelControl` | the control registers | the next value of each register is an operator (`NextCalc`, ...): what the last nonblocking assignment reached leaves. `ClockEdge` lets the bus write anything, `HandshakeEdge` only START on an idle machine |
| `SkewBuffer` | the shift registers | `delay_x[i][k]` is stage k of lane i |
| `SystolicArray` | the mesh and its elements | `Mac` is a constant operator |
| `MatrixAccel` | the whole device | extends the three above; `AccelEdge(req)` is one clock edge that finds `req` on the bus |
| `AccelHistory` | history variables `opA`, `opB`, `clean` and the promise `ResultCorrect` | the device does not read them |
| `MatMulUnit` | what the device promises, as a machine: operands taken at START, a run that is sound or voided, results that arrive | `IsMatMulUnit` (in `AccelHistory`): the device implements it |
| `AccelContract` | the device under an arbitrary master and resets | `HostRequests` is what the master may do |
| `MacLaws` | what the array relies on in the multiply-accumulate unit | two assumptions: the result is a word; zero operands keep the accumulator |
| `AccelInvariant` | the inductive invariant of the device | where every operand and partial sum is at every cycle |
| `NiosSystem` | the device and `main()` | one action per bus access and per test; idle edges in between; `CpuRestart` (debugger), `SystemReset` (KEY[0]) |
| `NiosInvariant` | the inductive invariant of the whole | |
| `Fp16` | the multiplier, the adder and `fp16_mac` | operators on words 0..65535, with the widths of the code; no infinities, no subnormals, no rounding, as in the code |
| `Fp16Accumulator` | one accumulator (the register `c_reg` of an element) and the values its unit brings it to | the state space on which the arithmetic is examined |
| `NiosFp16` | the system with the real unit, `fp16_to_float()` and what `main()` prints of a result | `ResultsAreExact`: what a user expects of the numbers |
| `DeployedAccel` | the older copy in the generated system | extends `MatrixAccel`; its bus reads the accumulators |
| `JtagUartDevice` | the FIFOs, registers and interrupt of the UART | an access of the CPU, or a transfer of the host, is one step |
| `ByteStream` | an abstract line: bytes sent, under way, received | four refinements: both directions of both drivers |
| `JtagUart` | the interrupt-driven driver on its device | one access per step; the program's call, the interrupt routine, the alarm and the host interleave |
| `JtagUartPolled` | the driver that is built | one access per step, the host in between |
| `AltFile` | the descriptors | a call is one step; a driver answers what it likes |
| `AltMain` | boot to exit | extends `AltFile`; constructors, `main()` and destructors are arbitrary calls |
| `AltAlarm`, `AltTime`, `AltSleep` | the clock, the time of day on it, the delay loops | `alt_tick()` goes alarm by alarm |
| `AltIrq` | contexts on the CPU | the program first, the running activation of the handler last |
| `AltHeap`, `AltGmon` | heap; the profiler on it | the profiler's lookup, counting and start of the sampler can be interrupted by instrumented routines |
| `AltPrintf`, `AltLog` | the formatters; the log's lines | |
| `AltException` | one exception, from the instruction to its return | numbers have RegBits bits |
| `AltBoot` | start-up with resets at any step | addresses count words |
| `AltCache` | data and instruction cache, line by line | of the data, whether the cache and memory agree; a flush is a step per line, loads and stores come in between |
| `AltDeviceLists` | DMA channels and flash devices | registration and lookup are the code's; the driver, a bounded queue, is external |
| `MC*` | model values for TLC; no definition of the models is replaced | `MCHal`: one service of the HAL per behaviour; `MCAccelContract`: the later or the deployed design |
| `AccelContractProofs` | theorems about the control registers and the device | |
| `DeployedAccelProofs`, `NiosSystemProofs`, `Fp16Proofs`, `JtagUartProofs` | theorems about the copy, the system, the unit, both UART drivers | |
| `AltMainProofs` | theorems about start-up, descriptors and device lists | |
| `AltArithmeticProofs` | theorems about alarms, the time, sleeping, emulated instructions and the formatters | |
| `AltServicesProofs` | theorems about interrupts, the log, heap and profiler, caches | |

Correspondence of state: the Verilog registers keep their names; 1-bit registers
are Booleans, flat buses and memories are functions of an index, 16-bit values are
members of `Word`. Reading a register in the guard of an action is reading its
value before the edge. In `NiosSystem`, `pc` names the statement of `main()`
(`reset` 72, `clearC` 75, `loadA` 83, `loadB` 91, `start` 98, `poll` 105, `test` 106,
`read` 124, `take` 125), `iter` is `i` or `i*N+j`, and `result` the values read. A
read takes two steps, the edge that loads the read register and the use of its value
by the program, so that the device can move in between.

In the modules of the board support package the C variables keep their names too.
`JtagUart` numbers the bytes modulo `Streams`, more than can be under way, so that a lost, doubled or
swapped byte is a wrong number. `sp->irq_enable` and the enable bits of the device are one
variable there, because every assignment to the first is followed by a write to the second
with interrupts disabled. `alarm_list` in `AltAlarm` is the set of registered
alarms, visited in any order. `contexts` in `AltIrq` is the stack of activations: each has
its interrupt, whether it is open to others, and what its `alt_irq_disable_all()` calls saved.
`AltException` places the frame's slots where the code does (register number
with its high bit inverted) and keeps contents as numbers below `2^RegBits`. `AltBoot` has the
memory word by word: sections in the order of `linker.x`, initial values behind them.

Definitions whose comment says *Variant* are small errors of the kind a change of the code
could bring in. No specification uses them; each is there to show that a property notices it.

## Runs

| Run | Instance | Shows |
|---|---|---|
| `control_any_bus` | N = 84, bus writes anything at any edge, resets | `PhaseBounds`, `StartBitMeansBusy`, `CalcEnds` |
| `control_handshake` | N = 84, START only when idle, resets | `DoneMeansIdle`, `RunReachesDone` |
| `contract` | 2 x 2 device, arbitrary bus, resets; the later and the deployed design | `ResultCorrect`, `SkewFlushed`, `RunAligned`; of the deployed one `DeployedResult`: an undisturbed run adds the product to what the accumulators held, so only the first one after a reset delivers it |
| `system` | 3 x 3 device with `fp16_mac`, program and matrices of `source.c`, restarts, resets | `StartOnlyWhenIdle`, `ResultsAreProduct`, `ResultsAreExact`, `DriverInv`, `DriverKeepsHandshake` and `IsMatMulUnit` (refinements), `ProgramFinishes` |
| `jtag_uart` | the interrupt-driven driver, one-byte FIFOs, buffers of three | `UartStreams` (refinement), `ReadInOrder`, `InterruptsArmed`, `CallsReturn`, `BytesArrive` |
| `hal` | the services of the HAL, one per behaviour | `PolledStream` (refinement) and `PolledReturns` of the polled driver; `NoDescriptorLeaks`, `OneHolder`; `AlarmsOnTime`; `TimeGoesOn`; `SleepClose`; `InterruptsNest`; `HeapDisjoint`, `CallGraphKept`; `NumbersReadBack`; `LogLosesOnlyStale`; `ResumesRight`; `MainSeesImage`; `UncachedNotCached`, `FlushExact` (a property of steps); `RequestsAtTheirDevice` |
| `control_start_on_last_edge` | N = 3, arbitrary bus | finding: DONE set on a running machine |
| `control_counter_overrun` | N = 85 | finding: the machine never finishes |
| `software_reset` | 3 x 3 system | finding: C is not cleaned |
| `fp16` | 59984 accumulator values by 12 operands | `ProductTruncated`, `SumWithinOneUlp` |
| `fp16_normalise` | the same | finding: one difference is normalised wrongly |
| `fp16_overflow` | the same | finding: the exponent of a product wraps |

The type invariants are theorems (`ControlTypeCorrect`, `AccelTypeCorrect`, `SystemTypeCorrect`,
`UartTypes`, `FileTypeCorrect`, ... and one for each of the other services), and no run repeats them.

Bounds and why they are enough:

- N = 84 is the largest size for which `3N+2` fits the 8-bit counter (254), so the
  control runs are at the boundary itself; N = 85 is the first size beyond. The
  control registers are modelled with their real widths, no bound is added.
- The 2 x 2 array is the smallest with a delayed lane, a neighbour in each
  direction and two columns to drain. The master's nine requests contain
  nothing, START, a clearing control write, and writes of distinct values to cells of both
  columns of A and both rows of B. They may come at any edge: during a run, on the edges
  between phases, several times in a row. Every N up to 84 is covered by the
  proofs.
- The stand-in for the multiply-accumulate unit in the run `contract` (`MCMac`) leaves the
  accumulator alone on zero operands and otherwise depends on its three arguments
  and on the order in which products are accumulated, so a swapped, lost or doubled operand
  gives another result. `Word` is as large as its modulus.
- The system run has the size built, N = 3, the unit built and the operands of
  `source.c`. They are multiples of a quarter of at most 3, so the exact product is a multiple
  of a sixteenth that a word can hold; `ResultsAreExact` asks for it. TLC evaluates the assumption
  `MatricesAreSmall` of `MCNiosSystem`, which is the hypothesis of the theorem about it.
  Restarts void runs by early stores, so `IsMatMulUnit` meets both kinds of run; STARTs on a busy
  device, which the program never makes, are left to the theorem about every bus.
- The twelve operands of the FP16 runs have both signs, the least and the largest
  fraction, single low bits, a subnormal, both zeros and exponents from 4 to 17. Sums of
  their products reach 59984 of the 65536 words, so the adder meets almost every word as one operand.
  `SumWithinOneUlp` is asked where the sum's exponent is in range, and of operands at
  most 18 binary places apart, which keeps the numbers below TLC's 2^31; from 13 places
  on the smaller one is shifted out and the sum is the larger one.

- The deployed copy is run with reads of the status and of a result besides, and at
  most `MaxRuns` = 2 runs between resets: the second is the first to meet old sums.
- `jtag_uart`: FIFOs of one byte are full and empty at every turn; a buffer of three
  places holds two bytes, so both indexes wrap and writes come in pieces; `Streams` = 6
  exceeds what can be under way. `Threshold` 0 asks for an interrupt when the FIFO is
  empty or full. `IntMax` = 4 and timeout 0 or none let the host be found inactive
  and come back in time. Calls move at most `MaxCount` = 2 bytes. A behaviour either
  writes, closes and sets timeouts or reads and gets input: the two halves of the driver share
  the enable bits alone, and both halves of the interrupt routine are in every behaviour.
- `hal`: the FIFO of the polled driver has two places, and calls move up to `MaxBytes` = 2 bytes
  of the five numbers in `Streams`. Five descriptors: two above the standard streams, so the
  highest one, which `alt_fd_lock()` does not look at, and one it does look at; two devices and a
  file system, each without some of the methods. The counter of ticks has 8 values and there
  are three alarms: one that is visited, one that it stops or starts, one that
  neighbours them; every start may wrap. Rates 2 and 3 with 6 microseconds in a second
  make every normalisation of the time of day happen. A clock of 101 cycles in two microseconds and 9 cycles in a
  round make 5 rounds in a microsecond with a remainder, as in the built system, and with `INT_MAX` = 63
  sleeps of no, one and several big loops, with and without a rest. Three
  interrupts nest three deep, with up to `MaxNesting` = 2 critical sections
  in each context. The heap of 78 bytes holds two slabs of 28 for records of 12 and the C library's
  allocations of 5, and refuses what comes then, a slab or a histogram;
  one function is called from two places, by up to `MaxCalls` = 2 calls, in the program and in an interrupt routine. Words of 8 bits are printed at the edges (0, 127,
  128, 255) and at those of the digits, by formats of up to `MaxFormat` = 3 characters. The log's
  FIFO has two places. Registers have 4 bits: every pair from {0, 1, 7, 8, 15}, which has
  both signs and the most negative number, for each of the seven emulated instructions,
  and source and destination registers in every part of the frame; three builds (with
  emulation and trap handler, without, with the program's own handler). Sections have no, one or two words,
  so empty ones and neighbours are there. Open modes are `O_RDWR` alone and without further flags: what a
  call may do to bytes is a driver's matter. The cache has two lines of two bytes and the memory six
  bytes, four of memory and two of flash: regions begin at a line or inside one, are
  shorter than the cache and longer, and lines compete for an index. Two DMA devices of a name and kind, one
  of each other kind under the same name and one without a name, with queues of one request and two
  requests to tell apart.

The DONE bit, the phases and the counter of the accelerator are finite by nature; no action
of it has a bound in its guard. The named bounds of the other modules are `MaxCount`,
`MaxBytes`, `MaxNesting`, `MaxCalls`, `MaxFormat`, `MaxRuns` and the modulus `Streams`. Deadlock
is checked in every run.

Fairness. `ControlFair` and `HandshakeFair` assume only that the clock keeps
running (weak fairness of a clock edge; the reset and what the bus does are not
constrained). `SystemFair` assumes that the CPU keeps executing its program; each
of its accesses is a clock edge, so the clock needs no fairness of its own. The
conclusion of `ProgramFinishes` is stated under the hypothesis that restarts and resets end.
`UartFair` assumes that the CPU goes on with the call and with the interrupt
routine, takes an interrupt that stays asserted, calls the alarm if there is a clock, and that a
host which is connected takes what it is sent and polls. That it is connected is no
assumption: the host comes and goes, and the properties say under which
circumstances they promise something. `PolledFair` assumes that the program goes on with its call,
and that a host which stays takes and sends bytes.

## Proofs

All theorems hold for every value of the constants under the assumptions of the modules and the size
conditions they state. The assumptions say what a constant is (`NAssumption`, `WordAssumption`,
`HostAssumption`, `DeployedAssumption`, `MatrixAssumption`, `OneInWord`, `OperandAssumption`,
`DeviceAssumption`, `PolledAssumption`, `FileAssumption`, `IrqAssumption`, `LogAssumption`,
`GmonAssumption`, `DmaAssumption`), and where that is not all:

- `MacType`, `MacZero`: the laws of the multiply-accumulate unit, proved of `fp16_mac`;
- `DriverAssumption`: a buffer has at least two places, `INT_MAX` is more than 3;
- `AlarmAssumption`, `TimeAssumption`: the rate divides a second; with others the code rounds a tick
  to whole microseconds, which is left out; `SleepAssumption`: a microsecond is at least one round
  of the delay loop and at most `INT_MAX`;
- `HeapAssumption`: the heap's limit is not below its start, as in `linker.x`;
- `BootAssumption`: `.rwdata` is not empty (it holds `jtag_uart`);
- `CacheAssumption`: lines divide caches, flash begins with a line, and a block has its lines for
  itself. The code gives that only if a line is no longer than the 8 bytes `malloc()` aligns to, so
  the theorems about uncached blocks say nothing of CPUs with longer lines, where the functions fail;
- `ExceptionAssumption`: register 0 is 0 and `muli` has a destination that can be written;
- `PowerAssumption`, `BasePowersAssumption`, `PlacesAssumption`: `b^0 = 1` and `b^(n+1) = b * b^n` for the bases and
  exponents that occur. The provers know no exponentiation; TLC evaluates the assumptions on the run;
- `PrintfAssumption`: a word has a multiple of four bits, as a hexadecimal digit stands for four.

The argument is the same everywhere: an inductive invariant that says what is true at each point of
the program or handler, one lemma for each action, the property as a consequence. What follows is
what each invariant had to say.

### The accelerator

`AccelContractProofs`, the control registers. `CounterFits` is `3N+2 < 256`. `PhaseBounds` is proved
together with types: the bound on the counter of one phase needs the bound of the other, because a
START moves a draining machine back to phase 1 with its counter running, and `2N <= 3N+2`.
`DoneMeansIdle` needs the exclusion of the phases.

The device. `ResultCorrect` speaks of the end of a run; what makes it inductive is `RunAligned`, the
position of everything in each cycle t of a clean run: stage k of lane i holds operand `t-1-k`,
element (i, j) holds operands `t-1-i-j` and the sum of the first `t-i-j` products (`MeshAligned`);
in the drain phase the sums have moved one place every two cycles (`DrainAligned`) and columns that
left are in C (`Captured`). Two conjuncts are about runs that are *not* clean: `SkewTail` and
`SkewFlushed` say that whatever the bus did, the buffers drain before phase 1 ends, so the next run
starts from an empty mesh. `CleanDone` says DONE is not set during a clean run. The step is proved
by the cases of a clean run (start, phase 1, turn-round, drain, end, over); the others make `clean`
false. The laws of `MacLaws` are used for the cycles in which an element sees zeros. Before all that
the module establishes what the recursive function `PartialDot` computes step by step; its existence
is shown by induction, carried out with the minimal-element principle on the naturals.

`ContractIsMatMulUnit` is the refinement of `MatMulUnit`, for every N that fits and any traffic on the
bus. The mapping takes the memories and DONE as they are, `RunState` (idle, sound or voided) from the
phases and `clean`, and the operands of the run from the history. A busy edge delivers to C a column
or nothing, and of a clean run only entries of the product (`EdgeArrives`, from `Captured`); the edge
that ends the run has delivered all of it (`EndDelivers`). A START on the last edge of a run is why
the unit lets DONE be set under a START on a busy unit, and there alone. `ResultCorrect` says what C is when
DONE is set; the unit adds what happens to C in between, to its cells one by one, and to DONE.

`DeployedAccelProofs`. The older design clears nothing at START, so its invariant needs what the
later one has for free: the mesh is flushed as well as the skew buffers (`MeshTail`, `MeshFlushed`),
because phase 1 lasts until the zeros behind the operands have reached the last element. The
accumulators begin with what they held, and `Sums` counts from there; `FirstRun` says they held zero
in the first run after a reset, and the property promises the plain product of that run only.

`NiosSystemProofs`. `SystemFits` adds `N >= 3` and `N*N <= 1024` (the windows of A and B are apart).
The heart is `OldRunEnds`: a run that was going on when the program restarted has at most `5N+4`
edges left, and the program makes `3N*N+1` accesses before START, so for N >= 3 the machine is idle
by then. For N = 2 it is not, by one edge. After START, `OwnRun` and `ReadsFresh` carry the contract
of the device to the values the program reads. `HandshakeKept` shows that the whole system
implements `HandshakeSpec`, so what is proved of the control registers under the handshake holds of
the system. `SystemIsMatMulUnit` does the same for `MatMulUnit`: the statements of the program are
accesses of the bus, and the lemmas about edges are used again.

`ResultsAreExactCorrect` brings program, device and arithmetic together: every number the program
prints is, digit for digit, the entry of the product over the real numbers. Its assumptions are
`SystemFits`, `BuiltUnit` (the unit is `fp16_mac`, on 16-bit words) and `SmallMatrices`: the entries
are whole numbers of quarters, at most `most` of them, and `N * most^2` sixteenths fit a mantissa of 11
bits, so that no partial sum, in whatever order, needs more. It follows from `ResultsAreProduct`, by induction over the partial sums with
`MacIsExact` at each (`SumsAreExact`), and from `PrintedIs`: sign, whole part and hundredths that
`fp16_to_float()` and `main()` make of a word are those of the number it represents, the negative
ones and zero included. The matrices of `source.c` are an instance, with `most` = 12.

`Fp16Proofs`. `MacTypeHolds` and `MacZeroHolds` are the two laws of `MacLaws` for `fp16_mac`, so the
theorems about the device and the system hold of the unit built. They go field by field: what `Pack`
packs can be read back (`Packed`), the operands of the adder are ordered (`Ordered`), the sum fits
14 bits (`MantSumRange`), the encoder finds a bit (`FirstBit`). `ProductTruncatedCorrect` covers all
pairs of normal operands: the product of two 11-bit mantissas lies in 2^20..2^22, and in each half
the slice taken is the quotient and the bits dropped are the remainder.

`SumWithinOneUlpCorrect` covers all pairs the property speaks of. It counts in places of the smaller
operand, where the exact sum of the mantissas `mL` and `mS`, `d` places apart, is `mL * 2^d +- mS`.
The adder has it in quarters of the larger one's place, and what the shifter drops is less than
one of them (`MantissaAligned`). Three cases: a carry drops three more bits of the sum (`CarryApproximates`);
with the first one bit at its place, or one below, two or one bits are dropped, and the remainders
add up to less than one place (`Rounded`); a longer shift to the left means a difference of
operands at most one place apart (`AddedIs`), for which the two guard bits hold all there is, so
the result is exact. The encoder finds the bit that tells which (`EncoderIs`), unless the sum is 2,
and sums of 1 and 3 do not occur. `SumCancels`, `SumAbove` and `SumBelow` go from the mantissas to
the words, as the place of the result is at or above that of the smaller operand, or below it.

`MacIsExact` says when the unit makes no error at all: if accumulator and product are sixteenths and
they and their sum are below 2047 of them, whatever their signs. A product of few bits has nothing but
zeros below the slice taken (`ProductRepresents`). A sum of few bits is a word itself, and the adder misses it by less
than the last place of its result (the lemmas of `SumWithinOneUlpCorrect`), so it does not miss it (`ExactRounding`,
`ShortIsKept`). Zero operands and sums that cancel to zero, which that theorem leaves out, are
cases of their own (`SumRepresents`).

### The UART drivers

`JtagUartProofs`, interrupt-driven. A byte carries its number modulo `Streams`, and `UartInv` says
which number is where: towards the host the bytes in the FIFO begin at `hostDue`, those in the
buffer go on from there in the order of the indexes (`TxInv`), and towards the program the buffer
goes on from what the read has taken, the FIFO from the buffer, the host from the FIFO (`RxInv`).
`WriteInv` and `ReadInv` say what a call relies on between its look at an index that the interrupt
routine moves and its use: the piece it has chosen still fits, because the routine only makes room.
`ArmInv` is the reason nobody waits in vain: an interrupt is off only while its buffer is empty (or
full), or while the call that will turn it on is on its way there. From the invariant follow
`InterruptsArmed`, `ReadInOrder` and the types, which include that no index leaves its buffer.
`UartIsTwoStreams` is the refinement, step by step: an access moves at most one byte, which is a
step of one of the two `ByteStream`s, and every other step stutters. It needs that `Streams` is more
than the bytes that can be under way.

The polled driver. `PolledInv` says that between the look at the status and the write the room can
only grow, and that what is under way to the program includes what the read has got so far.
`PolledIsTwoStreams` is the refinement.

### Start-up, descriptors, lists

`AltMainProofs`. The invariant `FileInv` has the pool's bookkeeping (`PoolInv`) and that nothing is
locked while the standard streams are redirected (`BootUnlocked`). `NoDescriptorLeaks` needs that
`alt_max_fd` is the highest descriptor in use (`HighWater`) and that the standard ones stay in use
(`StandardUsed`). `OneHolder` is the interesting one: the loop in `alt_fd_lock()` ends too early,
and what makes it good enough is `LockOrder`, that a lock is held by the lowest descriptor on its
device and the only one it may overlook is the highest. There is one lemma for every call that
changes the pool.

`BootInv` says that the image is never stored to, so a reset finds it again whatever the program did
before; and of each step how far `.bss` is cleared and `.rwdata` loaded, and what `et` holds, which
the stack check of the program reads.

`ListsInv` adds to the property that each list has devices of its own kind and that no queue is over
its depth. A device that registers later goes to the front of the list, so a name may be found at
another device than before; what is open stays.

### Services that calculate

`AltArithmeticProofs`. `AlarmInv` says where an alarm's time lies with respect to the counter: it is
the tick at which it is due, less a whole turn while the rollover flag is down (`OnTrack`), and an
alarm the tick is done with has ticks left (`Settled`). `WrapsOnce` does the modular arithmetic. It
holds for a counter of any width.

`TimeInv` has `alt_resettime` as the time set less the time since reset, in seconds and microseconds
each by itself, so its microseconds may be negative; `TimeGoesOn` is that the carry `gettimeofday()`
makes is then right, until the tick counter rolls over. `SleepInv` ties the rounds to the argument;
the theorem counts in cycles of the clock and is exact about what may be lost or added. A sleep is
short by the remainder of the division that gives the rounds of a microsecond (less than a round for
each), and long by what big loops lose (less than a microsecond for each), a round, and all 2^32 values of
the register if big loops make up all of it.

`ExceptionInv` follows the 32 registers through the frame: where each is at the entry, in the
handlers, at the exit (`InHandler`, `AtExit`). The results of the emulated instructions are loops,
and the lemmas follow them round by round: a division has as quotient so far that of the leading
bits of the dividend, with a remainder below the divisor; a multiplication has added the bits of one
operand seen so far times the other, the high words included. `SignedProducts` relates signed
products to unsigned ones. That makes `ResumesRight` a theorem for every width of the registers and
all operands, where the run has 4 bits.

`PrintfInv` says of a directive that the fields are what was read of it (`FieldsRead`), the width
included, so nothing is left over from the directive before. The number of digits is the exponent of
the first power of the base above the number (`DigitCountIs`), a word never has more than the
formatter looks for (`WordsAreShort`), and a text is followed from left to right: after k digits
what was read is the number without its last places (`NumberIs`). `TextReads` puts blanks, sign,
zeros and digits together. `NumbersReadBack` follows for words of every width and directives of
every length; the run prints the words at every edge.

### Services that share

`AltServicesProofs`. `IrqInv` describes the stack of contexts: interrupted ones are outside critical
sections and open, urgencies rise (`Stack`); the running one has PIE set under the same condition,
and only the first of its nested saves may have found it set (`Top`); `alt_priority_mask` is what
the nearest open routine lets in (`MaskAt`). It holds for any number of lines and depth of nesting.

`LogInv`: a writer that has seen room and was not interrupted since finds it; an interrupt that
writes makes the look of the program stale, and only such a look loses a character.

`GmonInv`: what a call of `mcount()` has found before it is interrupted is still there afterwards,
because records are only added, at the front of lists that never lose one (`LookedUp`), and counts
only grow. With it goes that blocks of the heap do not overlap (`HeapOK`), which holds however calls
of `sbrk()` by the profiler and by the library alternate. The profiler does not notice a refusal and
hands out memory from the address -1 that stands for it. The invariant goes on there: a heap that has no room
for a slab never gets any (`ExceedsStill`), what is left of a slab is either memory of the heap or lies where
a refusal is taken for (`SlabOK`), and only what lies there is handed out outside the heap. The start of the
sampler is five steps between which an interrupt routine may start it as well, so there may be two histograms.

`CacheInv`: what only the cache knows, and what it has an old value of, is cached; old values are of
flash alone, which is never dirty, so writing a line back loses nothing (`CacheOK`). `FlushProgress`
says of a flush that is on its way that the lines behind it agree with memory and stay so, though
the interrupts go on loading and storing elsewhere. A flush that stops after as many lines as the
cache has is right because it has met every index (`AllMet`). A flush from inside a line needs the
extra line the code ends with.

### Only model-checked

- Liveness (`CalcEnds`, `RunReachesDone`, `ProgramFinishes`, `CallsReturn`, `BytesArrive`,
  `PolledReturns`), which is out of the prover's reach.
- The findings, which are counterexamples.

## Findings

1. A START on the last edge of the drain phase sets DONE for the run it starts
   (`control_start_on_last_edge`). The program never does this (`DriverKeepsHandshake`).
2. The component accepts any N, but from N = 85 on it never finishes (`control_counter_overrun`).
3. The program's "software reset" does not clean C: the slave has no write path to it (`software_reset`).
   The results the program prints are right nevertheless (`ResultsAreProduct`).
4. The adder normalises the difference of a power of two and the number just below it
   by one place too few: 1 - 0.99951 gives 1.5 * 2^-10 in place of 2^-11 (`fp16_normalise`).
   It is the only difference of normal numbers for which the encoder fails, and
   `SumWithinOneUlp` leaves out exactly that one.
5. The exponent of a product wraps although the code provides a sixth bit "against overflow" (`fp16_overflow`).
   The matrices of `source.c` are far from it (`ResultsAreExact`).

Other places where the code does not do what its text says, or does something that surprises, met
while modelling. The models contain the behaviour unless it says otherwise; no run is about them. Paths
are in `Software/matrix_accel_SW_bsp`.

- Descriptors. The loop of `alt_fd_lock()` (`HAL/src/alt_fd_lock.c:61`) leaves out the highest descriptor:
  a device open there can be locked by another, against lines 43-45. Closing a locked standard stream does
  not release its lock (`HAL/inc/priv/alt_file.h:99-100`). `alt_isatty()` reads a `stat` structure that a
  driver without `fstat` leaves uninitialised.
- Time. `settimeofday()` multiplies in 32 bits (`HAL/src/alt_settod.c:84`), so a time set
  71 minutes after reset (at 1000 ticks a second) is wrong. An alarm of 2^32-1
  ticks fires at once; a callback that stops the alarm next in the list makes `alt_tick()` go round
  for ever. Both calls are excluded from the model. The rounds of a microsecond
  are a truncated quotient (`HAL/src/alt_busy_sleep.c:75,112,129`): on the built CPU, 50 MHz and 9 cycles a round,
  it is 5, which is 45 of the 50 cycles, so every sleep of this "calibrated delay" (lines 28-34) is a tenth
  too short. A sleep of a whole number of big loops lasts 2^32 rounds longer, and a CPU below 9 MHz
  (3 MHz if it is not of the tiny kind) divides by zero.
- Interrupts. `alt_irq_enable()` in a routine that is open to others enables its interrupt
  without `alt_priority_mask` (`HAL/inc/priv/alt_legacy_irq.h:94`); only the program calls it in the model.
  The inner loop of `alt_irq_handler()` would not end if nothing were pending.
- Heap and profiler. The comment at `HAL/src/alt_sbrk.c:46-48` says that there is no bounds checking and that
  memory is allocated even if it collides with the stack; the code refuses with -1 what goes beyond the limit
  (lines 82-92). The profiler does not check for that (`HAL/src/alt_gmon.c:137-148`), and the start of the
  sampler compares it with 0 (line 229), so both write from address -1; `HeapDisjoint` says when and how far.
  An interrupt routine that is instrumented and comes between lines 167 and 169 starts the sampler, which the
  interrupted level then starts a second time, though lines 153-154 ask for reentrancy. The second
  histogram is in the model; that the alarm is then inserted twice, after which `alt_tick()` may go round
  for ever on an entry that follows itself, is not. Counts of `alt_mcount.S` can be lost to an interrupt.
- Log. It prints the clock every `ALT_LOG_SYS_CLK_INTERVAL` + 1 ticks
  (`HAL/src/alt_log_printf.c:464-466`) and echoes one character less than lines 435-439 say. It waits for the host
  for ever, from interrupt handlers too. In `crt0.S` it reads a flag of `.rwdata` before that is loaded.
- Caches. A flush without writeback of a region that does not begin with a line invalidates the line
  behind the region, too, and what was stored there is lost (`HAL/src/alt_dcache_flush_no_writeback.c:78-83`).
  Uncached blocks work only if a line is no longer than what `malloc()` aligns to:
  of a longer line the heap's own words share the first (`CacheAssumption`).
  The blocks of `alt_uncached_malloc()` are flushed before it looks whether `malloc()` failed.
- UART. A write that is not to block does block in the polled driver; a blocking call of length zero
  returns an error in the other.
- Exceptions. The comment at `HAL/src/alt_exception_entry.S:224` has the return codes the wrong way round; the
  code agrees with `alt_exceptions.h`. The limitations listed in `alt_exception_muldiv.S:60-74`
  leave out `sp` as a source and `gp` and `et` as destinations, which do not work (excluded). An
  interrupt that is withdrawn before the handler looks can have the program's handler of unknown
  instructions skip an ordinary one; `ResumesRight` says so.

## Not modelled

- The testbenches: they drive the port with the accesses of the driver program and check
  nothing themselves. The race of their blocking assignments with the clock is the simulator's.
- Nios II core, Merlin interconnect, on-chip memory: generated code. The models
  take from it the timing of an access, what each reset reaches, and that
  the memory is written once and survives a reset. `de2_top.v` is wiring.
- Of DMA and flash what drivers do: the system has neither device. `alt_read_flash()`,
  `alt_write_flash()` and `alt_get_flash_info()` only pass on to a driver.
- Branches that are not compiled: uC/OS-II, shadow register sets, a separate exception
  stack, the stack check of the exception entry, `IGNORE_FIFO_FULL_ERROR`, `ALT_SIM_OPTIMIZE` (which leaves
  `.bss` uncleared, `HAL/src/crt0.S:376`, and sleeps no time at all), `ALT_MAX_HEAP_BYTES`.
- Time zones and `times()`; the contents of the profiler's histogram; `alt_putchar()`,
  `alt_putstr()`, `alt_getchar()`, which pass on to the C library; the texts of the log.
- Metastability of the asynchronous reset and anything below the register level.
- Declarations, constants and inline wrappers in the headers of services this system does not use.

## Plan

Done: all components above but those under "Not modelled"; proofs of every safety property of the runs.

What is left: sizes whose windows overlap (N > 32), with which operands of B cannot be written, so that
the theorems about the program do not hold; what the device does with them is a theorem already
(`ContractIsMatMulUnit` is about every N up to 84, and any traffic).
