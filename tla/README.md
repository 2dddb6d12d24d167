# Lightweight AEAD for RISC-V, in TLA+

This directory holds the formal models of the repository: the two authenticated
encryption schemes it implements in C with RISC-V assembly, Ascon (`ascon`,
`ascon-p`) and ISAP-A (`isap`), in the builds its `CMakeLists.txt` selects; the
executables that test and measure them (`libtest`), from reset to their end; the
interrupt-driven timer of the simulated target (`libtest/verilator_ibex`); and
the formatter they print with (`printf`). TLC checks small instances of each model; TLAPS proves the theorems listed
below for every value of the constants.

## 1. The system

### Components

| Component | Source | State | Operations | Here |
|---|---|---|---|---|
| Ascon AEAD | `ascon/ascon_*.c`, `ascon_common.h` | five-word state, caller's buffers, counters | `ascon_128_encrypt`, `.._decrypt`, the same for 128a | `AsconAead` |
| Ascon words | `ascon/word.h`, `ascon/interleaving.h`, `common/` | none | `LOAD_N`, `STORE_N`, `PAD`, `CLEAR_N`, interleaving | `AsconWord` |
| Permutation, 64-bit | `ascon-p/permutation.c`, `s_box.h`, `linear_layer.h` | registers | `P6`, `P8`, `P12`; RISC-V and portable round | `AsconPermutation` |
| Permutation, 32-bit | `ascon-p/perm_rv32.c`, `perm_api.h` | registers, in halves | `P6`, `P8`, `P12` on interleaved words | `AsconPermutation` |
| ISAP-A AEAD | `isap/isap*.c` | two five-word states, buffers, counters | `isap_a_128_encrypt`, `.._decrypt`, the same for 128a | `IsapAead` |
| ISAP words | `isap/interleaving.h` | none | load and store of interleaved words | `IsapAead` |
| Simulator timer | `libtest/verilator_ibex/common.c`, `.h` | `time_elapsed`, `time_increment`, device registers | `timer_enable`, `timer_disable`, `timer_read`, `timecmp_update`, `get_elapsed_time`, the interrupt handler | `IbexTimer` |
| Test harness | `libtest/main.c`, `testing.h`, `getcycles.c`, `random.c` | counts in `.bss`, locals, what was printed | `testing_run_test`, `testing_run_bench`, `main`, `assert`, `get_cycles` | `Harness`, `CycleCounter` |
| Start-up code | `libtest/crt0.c`, `verilator_ibex/crt0.S` | RAM, pointer of the loop | reset, clearing of `.bss`, halt, `exit`, `memcmp` | `Harness` |
| Simulated system | `libtest/verilator_ibex/common.c` | performance counters | `pcount_reset`, `pcount_enable`, `sim_halt`, `simple_exc_handler` | `CycleCounter`, `Harness` |
| `printf` | `printf/printf.c` | index, conversion buffer, caller's buffer | `printf_`, `sprintf_`, `snprintf_`, `fctprintf`, the `va_list` variants | `Printf` |
| Test data, tests, benchmarks | `ascon_tests`, `isap_tests`, `ascon-p/tests`, `*_bench` | none | known answers, lists of tests | `AsconVectors`, `IsapVectors`, `TestPrograms` (a selection) |
| Build files | `CMakeLists.txt` | | | not modelled |

An application calls encryption or decryption; these call the permutation on a
state of their own, through macros that depend on the build, and read and write
the caller's buffers. Nothing is shared between calls but the caller's memory.
In the repository the application is a test executable: the start-up code clears
`.bss` and calls `main`, which calls the tests or benchmarks that `setup_tests`
lists, each of which calls the library; `main` counts results in two globals and
prints through `printf`, which calls back `_putchar` for every character. Under the
proxy kernel it then exits with `main`'s value, on the simulator the start-up code
tells the simulation to halt. The code is sequential; what happens beside it are the
timer interrupt, the counters of the core, exceptions and resets.

### Builds

`TARGET_ARCH` selects one of four RISC-V builds (`rv32`, `rv32_zbkb`, `rv64`,
`rv64_zbkb`). The portable round (`permutation.c:38-66`) belongs to none of them: `s_box.h:62` stops a build for
another architecture with `#error`. Here it serves as the reference for the four, and `generic` names it.
The builds differ in nearly everything: the 32-bit builds hold every word
*bit-interleaved* (even bits in one register, odd bits in the other), with
initial values, round constants, padding, domain bits and masks of their own; the
`zbkb` builds interleave with `zip`/`unzip`, the others by exchanges of bit
blocks; the RISC-V S-box leaves its results in other registers than the portable
one. The test suite compares two implementations on one state; the models compare
them on every state that a session reaches, and the proofs on all states.

### What is hard here

* Boundaries: every remainder of text and of associated data takes its own path
  through the last block, with partial words on top.
* Memory: a call may work in place, or downwards over its own input, so the order
  of loads and stores matters; partial words must not be stored whole.
* Agreement between encryption and decryption, and between the builds: a mistake
  made in both directions alike passes every round trip.
* Release of text: `ascon_decrypt` writes the text before it checks the tag;
  ISAP checks first, except in testing builds (`isap.c:46-49`).
* Termination: loops whose only exit is a length counted by hand, unsigned.
* The timer: 64-bit variables and device registers accessed in halves by a main
  program and a handler that preempts it.
* The cycle counter and the performance counters: 64 bits, read and cleared in halves
  while they count.
* How a run ends: failing checks, a test that returns nothing, exceptions, resets with
  garbage or an earlier run's counts in the RAM, and a halt that is only a request. No
  end may be taken for a success that was not one.
* `printf`: five flags, width, precision and length interact in code that is spread over
  four functions and shares one buffer of 32 places; text, index, count and value
  returned must agree for every entry point.

`PROJECT.json` lists these as hazards with the lines and the properties that cover them.

## 2. The modules

| Module | What it models or states |
|---|---|
| `AsconWord` | Words as sets of bit numbers: loads, stores, padding, clearing, byte reversal, both interleavings, for each build. Constants `W` (bytes of a word, 8 in the code) and `TARGET_ARCH`. |
| `AsconPermutation` | The rounds of the 64-bit builds, of the 32-bit builds and of the portable code, instruction by instruction where registers change roles; `P6`, `P8`, `P12`. |
| `AeadCalls` | A call and its buffers in one memory; what a caller owes (`IsCall`). |
| `AsconAead` | `ascon_encrypt` and `ascon_decrypt`. One action per loop turn or straight line between loops. |
| `IsapAead` | `isap_a_encrypt` and `isap_a_decrypt` with `isap_enc`, `isap_mac` and `isap_rk`, bit by bit. |
| `Aead` | The abstract specification: an ideal scheme with a log of encryptions, decrypting exactly what is in the log. |
| `Callers` | Callers and a channel: encrypt, deliver intact or altered. |
| `AeadSession`, `IsapSession` | The code composed with callers and channel, and the refinement `ImplementsIdeal` of `Aead`. |
| `AsconBuilds`, `IsapBuilds` | The refinement from a build to the portable (Ascon) or 64-bit (ISAP) code, undoing the interleaving. |
| `IbexTimer` | The timer functions, the handler and the clock. |
| `CycleCounter` | `get_cycles`, `pcount_reset` and `pcount_enable`, instruction by instruction, against counters that count. |
| `Harness` | A test executable: start-up code, `main.c`, checks, exceptions, halt and exit. Extends `CycleCounter`. |
| `TestPrograms` | The tests and benchmarks that the executables list. |
| `PrintfFormat` | Directives, types and doubles, for the next three. |
| `Printf` | The formatter: one action per conversion, and one per step where a conversion buffer is filled. |
| `PrintfStandard` | The text that the C standard gives a directive. |
| `PrintfIdeal` | The abstract specification: a call has one text, and leaves as much of it as fits. |
| `PrintfSession` | Where code and standard differ, and the refinement `ImplementsIdeal` of `PrintfIdeal`. |
| `AsconVectors`, `IsapVectors` | Known answers taken from the repository's test data. |
| `MC*` | Instances for TLC. |
| `*_proofs` | Theorems and proofs. `Callers_proofs` holds what those of both ciphers need of callers and loops. |

### How state and actions correspond to the code

*A word* is the set of its bits that are one, so that `^` is symmetric
difference and a rotation an addition to every member. Conversions (byte reversal,
interleaving, `SETBYTE` masks) are modelled by what they do to bits.

*Memory.* The text in, the text out and the tag are places in one array
`mem`, since the order of accesses matters there; key, nonce and associated
data are only read and are values. `entryMem` is history: the memory on entry.

*Control.* In `AsconAead`, `pc` runs through `init`, `ad`, `text`, `tag` and
`returned`; `absorbed` and `pos` stand for the advanced pointers and reduced
lengths. `AbsorbBlock`, `EncryptBlock` and `DecryptBlock` are turns of the loops,
`AbsorbLast`, `EncryptLast` and `DecryptLast` the code after them. In `IsapAead`,
encryption runs `start`, `rk_enc`, `squeeze`, `mac`, `ad`, `ct`, `rk_mac`, and
decryption `start`, `ad`, `ct`, `rk_mac`, `verify`, then `rk_enc` and `squeeze`
if it goes on; `rk` is the state of `isap_rk`, `bit` its loop counter.

*Locals not initialised* (the state arrays, on entry) are arbitrary in `Init`.

*Timer.* One step is one access of a device register or of one half of a 64-bit
variable. `thread` holds, for main and for the handler, the operation, the place in
it and the locals. Once entered, the handler runs to its end before main goes on;
the clock ticks at any time.

*Harness.* `pc` is the place in the start-up code, in `main`, in `testing_run_test`
(`test`, `verdict`), in `testing_run_bench` (`lengths`, `before`, `benchmark`, `after`)
or behind the end (`sleep_loop`, `exception`, `sim_halt`, `spin`). `ram` holds the words
from `_bss_start` on, the two counts among them. `log` is the sequence of lines printed.
What a test computes is any of three outputs, one equal to the reference, one that differs
in its last byte only and one that differs in its first; `truth` is history: whether the checks
of each test really held. `sim` is what the simulator or the kernel makes of the program:
after a write to its control register the simulator is `halting`, and the core may
execute more instructions before it stops. A reset begins again at the reset vector with the RAM
as it is. The program "counters" stands for a program that uses `pcount_reset` and
`pcount_enable`, which `common.h` offers and nothing in the repository calls. `Tick` is
the core's counters, one cycle at a time; the bound `MaxEvents` limits how far they go,
and no call lasts long enough for a half to overflow twice.

*Formatter.* A format is a sequence of plain text and of directives, as records of the
fields that the parser finds; characters are strings of one letter. `conv` is the
numeric conversion under way: the local buffer `buf`, collected backwards as in the code,
and the arguments of `_ntoa_format` and `_out_rev`; `Pad`, `Hash`, `Sign` and `PutReversed` are
its parts in order, and `Exponent` comes back to them for the exponent of `%e`. A double is
a fraction and, for the halfway cases that binary doubles only come near to, the side on which its
product with a power of ten lies. `_etoa` computes its power of ten approximately: its exponent may be
one too low at a power of ten, and what it divides by may be off either way. Both are choices.

## 3. What callers owe

The headers state no conditions and the code checks none. The models assume
`IsCall`: buffers inside the memory; an output that starts at or below its input,
or beyond its end; a tag apart from the text that is written; key, nonce and associated
data not overlapping what is written. The last is essential for ISAP, whose
encryption reads key, nonce and associated data again after it has written the
ciphertext. Word accesses at odd addresses are taken to work, as the code needs.

Callers of the formatter pass arguments that fit their directives, a format that does not end in
a lone `%`, and a buffer of `count` bytes; `%s` reads one byte beyond its precision, which
`Printf` does not tell apart. The linker script puts nothing behind `.bss`
in its region, so that the word behind it, which the start-up code may clear, is unused
(`HarnessAssumption`); `.bss` is never empty, as it holds the counts.

## 4. The runs

The behaviours of the runs of Ascon and ISAP start in a legal first call and end after `MaxCalls = 2`
calls: an encryption, and a second call that encrypts the same again, decrypts its
packet, or decrypts the packet with one alteration (a flipped bit in any byte of tag,
text or associated data, or in the first or last byte of key or nonce; text or
associated data longer or shorter by a byte; the boundary between the two moved).
Two calls are enough because a call depends on earlier ones only through memory
and the log, and the second call meets both with contents left by the first.

| Run | Instance | Shows |
|---|---|---|
| `ascon128` | rv64_zbkb, 128, `W = 2`, AD and text up to 5 bytes | `IntactOpens`, `ImplementsIdeal`, `CallsReturn` (liveness) |
| `ascon128a` | rv32_zbkb, 128a, AD up to 7, text up to 9 | `TypeOK`, `WritesOnlyOutput`, `UnreadInputIntact`, `ImplementsIdeal`, `SameAsPortable`, `EveryStepAdvances` |
| `kat128`, `kat128a` | rv32 and rv32_zbkb, `W = 8` | `KnownAnswers` of the repository; in `kat128`, `SameAsPortable` at the code's word size |
| `isap128a` | rv32_zbkb, 128a, not testing, AD up to 3, text up to 4 | `TypeOK`, `WritesOnlyOutput`, `RefusedMeansUntouched`, `OnlyGenuineReleased`, `ImplementsIdeal`, `SameAsPlain`, `EveryStepAdvances` |
| `isap_kat128` | rv64_zbkb, 128, not testing, `W = 8` | `KnownAnswers` |
| `isap_kat128a` | rv32, 128a, testing, `W = 8` | `KnownAnswers`, `ImplementsIdeal` |
| `ibex_timer` | halves of 3 values, 5 ticks | `TypeOK`, `ReadIsMoment`, `NeverLate`, `NeverEarly`, `AtLeastTimeBase` |
| `ibex_elapsed` | the same | `ElapsedIsCurrent` is violated: see 7 |
| `harness` | permutation tests and benchmarks on both systems, counters of two halves of 3 values | `TypeOK`, `SummaryTrue`, `EndTellsOutcome`, `MeasuredTrue`, `BenchReadsInside`, `ResetIsZero`, `ClearConfined`, `QuietAfterHalt`, `RunEnds` (liveness) |
| `printf` | about 26,000 calls, types of 4, 6, 8 and 16 bits, buffers of 8 and 9 places | `ExactlyStandard`, `BufferBounded`, `Truncated`, `ImplementsIdeal` |
| `printf_rollover` | the fixed format of every double of `printf` | `RollsOver` is violated: see 7 |

*Bounds of Ascon, ISAP and the timer.* With `W = 2`, a word has two bytes, a block of Ascon-128a four, and the
permutation works modulo the shorter word. The lengths reach every case of
the code: empty, less than a word, a word, between a word and a block, a block,
more, and for text twice a block and beyond (in `isap128a`, up to two lanes). Texts are one ramp of bytes per length and, for Ascon, one
text of zeros; keys and nonces are fixed, since the code never branches on them. What
the shorter word cannot show is that the constants are right at full width; the
runs with `W = 8` do, against the repository's own vectors, for lengths that
cross each boundary. `isap_rk` absorbs 128 bits there, 32 with `W = 2`.
Layouts are apart, in place, and one byte down; altered packets are decrypted in place
only. The timer's clock passes the overflow of its low half once, and reaches the
least value whose high half is not zero in time base, time set and `time_elapsed`.

*Bounds of the harness.* Two counters stand for the thirty-one, which differ in nothing but
their place in the order; with halves of three values and four events the low half overflows
between any two instructions. `.bss` ends at the end of a word in one executable and within a word in
another, with words of RAM behind it to see what is cleared too much; the RAM holds zeros or
other numbers at power-on; one reset, at any moment before the halt, meets all that a
second could, since nothing but the RAM outlives a reset. The permutation's tests include every kind of test
(values, memory, skipped, without a return); the benchmarks run through all eleven lengths.

*Bounds of the formatter.* As in the code, the buffer has as many places as an `int` has bits, a
`long long` twice as many. Widths and precisions lie below, at and above the number of digits
and the size of the buffer; numbers are zero, one digit, the least, and ones with a zero in
them. Counts go from 0 to beyond the longest text of the harness, with its own lines of several items
among the formats. Doubles are quarters, which are exact, twentieths, which are halfway between
tenths but not exact, and one beyond the range of the fixed format; the
fixed format reaches to 100 where the code has 10^9.

*Standard.* `PrintfStandard` is the C standard's description, with `%b` like `%x`. That the code
differs from it is no defect in itself: `PrintfSession` says for which directives it
does, and `ExactlyStandard` that for integers it is exactly those. Of the rest
`ImplementsIdeal` says one direction: outside the exceptions the text is the standard's.

*Ideal scheme.* `ImplementsIdeal` of Ascon and ISAP says of forgeries only that none
occurs among the packets of the run: it checks the code (lengths, boundaries, padding,
the verdict), and says nothing of the strength of the scheme.

*Fairness.* `SessionSpec` has weak fairness of `Work`, the steps of the call
being executed: the program is sequential, so an unfinished call goes on.
Nothing obliges a caller to call. `EveryStepAdvances` gives the measure behind `CallsReturn`,
its liveness property. `Harness` has weak fairness of `Runs`, the instructions of the program and the
stop of the simulator it asked for: the core executes instructions, and what it calls
returns (which `CallsReturn` and `EveryStepAdvances` say of the library). Time, exceptions and resets may
happen and need not. `IbexTimer` and `Printf` state no fairness.

*Deadlock* is checked in every run but `harness`, where a stopped simulation and a process that has
ended do nothing more; `RunEnds` shows that it stops nowhere else. `Finished` stands for the caller that makes no more
calls.

*Mutants.* Beside the definitions stand operators named `.._<what>`, each a plausible
slip in that piece of code, for every property of every passing run; with the mutant
in place of the definition the property is violated. That of `CallsReturn` is a loop without braces, which repeats one
statement for ever; a loop that repeats its whole body permutes the state each time, through more states than TLC can follow
back to the first, and is the mutant of `EveryStepAdvances`.

## 5. What is proved

All theorems hold for every value of the constants under the named assumptions
`WAssumption` (words of 2, 4 or 8 bytes), `ArchAssumption`, `RateAssumption`,
`MemAssumption`, `InputsAssumption` (messages are bytes and fit in memory), `VariantAssumption`, `BuildAssumption` (ISAP has no portable build) and
`TimerAssumption` (the clock and the times set from it fit in two halves), and
`PrintfAssumption` (buffers have a place, lengths of texts are numbers, the entry points without a count
pass the largest), `CycleCounterAssumption` (the assembly names each counter once, and what is counted of a
call fits in a counter), `HarnessAssumption` (the two counts are different words of `.bss`, the RAM goes on behind it,
and a test ends in one of the three ways the sources have) and `BenchAssumption` (a benchmark reads its message from the
start of the random bytes, and everything else at a place of its own within them).

| Theorem | Statement |
|---|---|
| `AsconAead_proofs!TypeCorrect` | `Spec => []TypeOK` |
| `AsconAead_proofs!WritesConfined` | `Spec => []WritesOnlyOutput`: no byte outside the text written so far, and the tag at the end of an encryption, ever changes |
| `AsconAead_proofs!InputIntact` | `Spec => []UnreadInputIntact`: working in place or downwards is safe |
| `AsconAead_proofs!CallsAreFinite` | every step of a call lowers a measure |
| `AsconAead_proofs!CallsCompute` | `SessionSpec => []AllComputed`: every call, in every build and layout and after whatever was called before, returns the ciphertext and tag that are defined as functions of its arguments; a decryption writes the message whose ciphertext it was given and returns 0 exactly if it was given that message's tag |
| `AsconAead_proofs!IntactPacketsOpen` | `SessionSpec => []IntactOpens`: a packet that arrives as it was made opens to its message with the value 0, in every build, at any lengths, layouts and old contents of memory |
| `AsconAead_proofs!IdealUnlessForged` | `SessionSpec /\ []Unforged => ImplementsIdeal`: as long as nobody presents a forged packet, the code is the ideal scheme |
| `IsapAead_proofs!TypeCorrect`, `WritesConfined`, `CallsAreFinite` | the same for ISAP |
| `IsapAead_proofs!RefusedUntouched` | without testing, nothing is written before the tag was found right |
| `IsapAead_proofs!BuildsImplementPlain` | `SessionSpec => SameAsPlain`: every build of ISAP is step by step the 64-bit code on the words it stands for |
| `IsapAead_proofs!CallsCompute` | the same for ISAP: the text exclusive or the key stream, the tag of the ciphertext, the value 0 exactly for that tag |
| `IsapAead_proofs!IntactPacketsOpen`, `IdealUnlessForged` | as for Ascon |
| `IsapAead_proofs!OnlyGenuineUnlessForged` | `SessionSpec /\ []Unforged => []OnlyGenuineReleased`: no byte of a text is written, not even for a while, that no encryption put into the packet presented |
| `IbexTimer_proofs!TypeCorrect` | `Spec => []TypeOK`: no half leaves its range |
| `IbexTimer_proofs!ReadsAreMoments` | `Spec => []ReadIsMoment`, for halves of any width |
| `IbexTimer_proofs!InterruptsNotLate`, `InterruptsApart` | `Spec => []NeverLate`, `Spec => AtLeastTimeBase`: as long as main leaves a running timer alone, the interrupts come at the set interval |
| `IbexTimer_proofs!InterruptsNotEarly` | `Spec => NeverEarly`: no interrupt comes before every time the timer was set for, also when main sets a running timer |
| `AsconPermutation_proofs!RoundsAgree` | the RISC-V round on 64-bit registers is the portable round, on every state |
| `AsconPermutation_proofs!BuildsAgree` | a round of any build, interleaved or not, takes the words it represents to what the portable round makes of them |
| `AsconBuilds_proofs!PermutationsAgree` | hence `P6`, `P8` and `P12` of every build are the portable ones |
| `AsconBuilds_proofs!BuildsImplementPortable` | `SessionSpec => SameAsPortable`: every build of Ascon is step by step the portable code on the words it stands for |
| `Printf_proofs!BufferBoundedInvariant` | no conversion holds more characters than its buffer has places, for any format, types and buffer sizes |
| `Printf_proofs!TruncatedInvariant` | the value returned is the length of the text, and the buffer its longest start that fits, with a zero behind it and nothing else touched, for every call |
| `Harness_proofs!HarnessTypes` | `Spec => []TypeOK` |
| `Harness_proofs!SummaryIsTrue` | the summary tells of this run, for any tests, any RAM at power-on and any number of resets |
| `Harness_proofs!EndTells` | the last line of an ended run tells its outcome, and so does the exit status |
| `Harness_proofs!OnlyBssWritten` | nothing that begins behind `_bss_end` is written, wherever `.bss` ends |
| `Harness_proofs!SilentAfterHalt` | nothing is printed between `sim_halt` and the stop |
| `Harness_proofs!CountersAreReset` | `pcount_reset` resets all counters, of any number and width, while they count |
| `Harness_proofs!BenchmarksReadInside` | no benchmark reads behind the random bytes, whatever their number |
| `Harness_proofs!MeasuresTrue` | what a benchmark prints is the cycles that passed between the first instructions of the two `get_cycles`, a whole half more or less only where one was torn |

*Invariants.* `TypeOK` is inductive in both AEAD models. For ISAP this needs the
conjuncts on `absorbed`: the counter serves associated data and ciphertext in turn, and
its bound changes with the phase. `WritesOnlyOutput` and `UnreadInputIntact` follow
from `TypeOK` and one lemma per kind of step that says which addresses it touches
(`RateStep`, `RestStep`, `BlockStep`, `LastStep`, `StoreTagFrame`). `RefusedMeansUntouched`
is not inductive: `Gated` adds that a decryption that has reached `rk_enc` or
`squeeze` has the verdict 0, and that before, memory is as on entry.

*Permutations.* The argument goes through the value each register holds at the end of
the S-box and after each linear step (`SBoxAgrees`, `LayerValue`, `RoundValue`). For
interleaved words, `MergeOps` shows that merging two halves commutes with the logical
operations, and `MergeRor` that a rotation of the word is the two rotations of halves, which
for odd counts change places; `ConstantsAgree` checks the twelve round constants.

*Builds.* `SameAsPortable` and `SameAsPlain` are refinements from a build to the code on words as they are, with
`Standard` (undo the interleaving) as the mapping. Below the steps lies one lemma for each thing the code does with a word, saying that it
commutes with the mapping: `ROUND` and the permutations (above), XOR, `LOAD_N`, `STORE_N`, `PAD`,
`CLEAR_N`, the initial values and the domain bit. The exchanges of bit blocks of the builds without Zbkb are shown to be
`zip` and `unzip`, on words of two, four and eight bytes. Each action then has one lemma (`Step...`)
that composes those of its parts. The steps need little of the state, which is the inductive invariant `Shape` of each module: registers
hold words, the counters stay within the lengths, and for ISAP the bit counter within its end. In `IsapAead_proofs`, `ExchangesAgree`
shows that the loads and stores that `isap/interleaving.h` writes out itself are those of Ascon. `Shape` matters there for the words that
`isap_rk` takes from the MAC's state: a 64-bit build holds them in the byte order of memory, an interleaved build
does not, and the two stand for the same bits.

*What a call computes.* For each cipher the proofs define ciphertext and tag as functions of a message, a key, a nonce and
associated data, in which memory, layouts and counters have no part: `CipherOf` and `TagOf` for Ascon, `Crypt` and `TagOf` for ISAP. The
loops over the blocks become a *walk* (`Walk` in `Callers_proofs`): the states from turn to turn, as a function on the natural numbers. That
a walk exists and is unique (`WalkIs`), and below, that two walks over the same bytes agree, goes by induction: `Induction` states it for a set
of numbers and derives it from the order of the numbers having no infinite descent. The invariant `Computes` of each
module says that a call underway is in the right turn of the right walk and has put out what belongs to the turns so far; `Computed`
says what that makes of a call that has returned, and `CallsCompute` that it holds of every call of a session.

For Ascon the state runs over the text, which the two calls see from two sides. `OpenWord` is about one word: what `CLEAR_N` and
XOR with the ciphertext leave of a state word is what encryption left of it, for any number of bytes and also with words interleaved, and the bytes
stored are the message. `WordIs`, `RateIs` and `RestIs` make of it one statement on both calls: where `b` is the message and `c` the ciphertext, of
which one is read and the other written, the step takes the state from one turn of the walk over `b` to the next, and `c` is what that
turn puts out. `UnreadInputIntact` gives the loads what the caller passed, in place too. A decryption does not know its message before it
has written it: so `Computes` speaks of all `b` and `c` that agree with what was passed in and with what has been written so far
(`Texts`), and is no weaker for it, as at the end there is one of each. `WritesOnlyOutput` keeps the tag as it arrived until it is compared, and `Verdict` shows that the
comparison without branches gives 0 for equal tags and -1 for any difference.

For ISAP, `Keys` is the walk of `isap_rk` over the bits of a nonce or of a MAC state, `Text` the key stream, and `Mac` the walks over
associated data and ciphertext. In an encryption in place the ciphertext that the MAC absorbs is read back from where the text was, so
that the order of the two phases matters (`Places`).

*Ideal scheme.* `IntactPacketsOpen` follows from `CallsCompute` and from one ciphertext belonging to one message: `CryptTwice` for ISAP, and for
Ascon `SameText`, by induction over the blocks. Together they give all of `ImplementsIdeal` but one thing, that what was accepted had been made.
This is the strength of the ciphers and no proof about the code can have it. It is the hypothesis `Unforged`: who presents
to a decryption the ciphertext and tag of some message, as the functions above define them, has got them from an encryption. It
speaks of what callers present and not of what the code answers; that no other packet is accepted, and that different messages never
have one packet, is proved. TLC meets the hypothesis in every state of its runs: with `CallsCompute`, a forged packet there would be
accepted, and `ImplementsIdeal` would fail.

*Timer.* `ReadInv` says what a thread holds between the loads of `timer_read`: the high half
of the moment it began, and the low half of some moment since. When the high half is the
same at the end, it was the same at that moment too (`DivMono`), so the two belong together
(`PassedCheck`). `TypeOK` is inductive by itself.

The properties of the interrupts need three more invariants, which TLC found to hold of `ibex_timer` before they were proved. `ControlInv`
says where each thread can be: the handler runs only with the timer's interrupt enabled, and main reaches the loads and stores of
`timer_read` and `timecmp_update` only from the functions that have them. `WindowInv` says, as long as main left a running timer
alone, that main sets the compare register only while the interrupt is off, and that with the handler at rest the register holds
a time at least one time base after the last interrupt and at most one from now; its parts for a thread underway say what the
halves loaded and stored so far add up to. `EarlyInv` says that the compare value lies at or behind one of the times set wherever
the interrupt can be taken; between the last two stores of `timecmp_update` the low half is the greatest, so that
the mixture of an old and a new value is never early. That is the point of storing the low half
twice, and it fails only for a handler that comes between (`overlapped`).

*Formatter.* `Inv` says of the conversion that its buffer is a sequence within its size at every step,
of the caller's memory that it is the text passed so far, cut off at the count (`Memory`), and of the
index that it is the length of that text. Each function that stores into the buffer has a lemma on what it adds; each action, one
step that composes them. `Truncated` then follows at the step that writes the terminator.

*Counters.* `CounterStep` is what any program that calls the functions does to the counters, and
`CounterInv` is inductive for it: a counter whose low half is cleared holds in that half what it has counted since,
which is no more than the function has lasted (`ClearsHalves`). So no carry can spoil the high half between
the two instructions (`CountsLow`). Every action of `Harness` is such a step (`CountersOfNext`).
`ReadsInv` is the same for `get_cycles`: at most a half has been counted between its instructions, so the result is the first
count, and a whole half more when the low one overflowed in between (`TornSum`). With it `BenchInv` knows what
`testing_run_bench` holds as `before`, and the difference of the two counts (`MeasuredTrue`) follows modulo the
counter's width. It also keeps the length of the message within the random bytes, which is `BenchReadsInside`.

*Harness.* Four invariants build on each other. `RamInv` bounds the pointer of the start-up code. `RunInv` relates what a test will
return to its checks, from the correctness of the comparisons (`EqualIsReference`). `TallyInv` says that the words behind the
pointer are zero, and from `main` on that the two counts are those of the tests that returned (`VerdictTally`,
over `CountAppend`). `FlowInv` and `SummaryInv` say where the program is when it has ended, what it printed last, and
that the summary still says what the counts hold.

*Only model-checked*:

* `CallsReturn` and `RunEnds`: liveness under fairness, which the prover does not reach.
* `KnownAnswers`: concrete values.
* `ExactlyStandard` and `ImplementsIdeal` of the formatter: they compare with a numeral defined by recursion and with powers,
  which the provers do not interpret.

## 6. The timer

Nothing in the repository calls the timer functions, although the start-up code installs the
handler; the model calls them in any order. Three properties are conditional, since the
code promises nothing otherwise:

* `AtLeastTimeBase` and `NeverLate` exclude a timer that main sets while it is
  running (`meddled`). There `timer_enable` and the handler compute and write the same
  compare value, and the handler may see half of a new `time_increment`: an interrupt may
  come early or late, until the next call of `timer_enable` on a stopped timer.
* `NeverEarly` does include setting a running timer, and excludes only the one
  interrupt after an update that the handler interrupted (`overlapped`), which may
  leave a compare value of two updates.

Time stays below the 64-bit limit (`TimerAssumption`). The two stores to `time_increment`, not a volatile
variable, are taken in program order; the assembly that enables the
interrupt does not order them, so a compiler might move them behind it.

## 7. Where code and words differ

Checked here:

* `common.h:84` says `get_elapsed_time` "Returns current global time value". On the
  32-bit core the 64-bit variable is loaded in halves, and an interrupt in between can carry from the
  low half to the high one: run `ibex_elapsed` returns a value that was not current at any moment of the call,
  wrong by 2^32. It takes 2^32 interrupts, and `timer_read` in the same file guards against the
  same case.
* `printf.c:390` says "handle rollover, e.g. case 0.99 with prec 1 is 1.0", but the branch for
  halfway cases (`printf.c:400`) increments the fraction without a carry. When all its digits are nines, it has one digit too
  many, the count of digits left wraps, and the rest of the buffer fills with zeros: `%.1f` of 0.95 prints
  `00000000000000000000000000000010`. Run `printf_rollover` shows it. The harness prints multiples of
  1/16384, which do not meet it.

Met while modelling, stated as exceptions of `ExactlyStandard` or `ImplementsIdeal`:

* `printf.c:244`: `#` takes characters for padding that are digits when they are as many as the
  width: `%#4x` of 0x1234 prints `0x34`.
* `printf.c:230`: a precision adds no zeros to a number in a field filled up on the right (`%-8.5d`).
* `printf.c:641`: a negative precision given by `*` counts as 0, not as none.
* `printf.c:735`: `%hhd` converts to `char`, which is unsigned on RISC-V.
* `printf.c:506`: `_etoa` computes the decimal exponent -308 for 0, so that `%e` of 0 prints `0.000000e-308`.
* `printf.c:785`: `%c` of a zero character is counted in the value returned but not sent, by `printf` and
  `fctprintf`. `printf.h:58` and `:107` say "written" and "sent".

Met while reading, outside the models:

* `README.md:11` names rv32 and rv64 without Zbkb as targets, but those builds link only with
  `TESTING`: `U64BIG` (`common.h:23-27`) and the masks `B` (`common/interleaving.c:4`)
  are defined only then. The models give them the meaning they have when testing.
* `CMakeLists.txt:32`: `if(DEFINED OPT_SPEED)` holds whatever its value; `CMakeLists.txt:84-86`:
  `PROXY_KERNEL_PATH` has no effect.
* `ascon-p/tests/test_integration.c:73`: the test ends without `return`; `SummaryTrue` has to allow for it.
* `crt0.S:64`: the loop that clears `.bss` clears one word more when `.bss` ends with a word; `ClearConfined`
  allows for it.
* `common.h:41` says `sim_halt` "Immediately halts the simulation"; `simple_exc_handler` does not rely
  on it and loops behind it, `exit` (`common.c:40`, which nobody calls) runs on into nothing.
* `crt0.S:72`: the value of `main` is ignored, so that a simulation tells of failed tests in its output only.
* `common.h:31` and `:38` declare `puts` and `puthex`, which are commented out.
* `ascon/interleaving.h:50-67`: assembly changes a register declared as input only.

## 8. Not modelled

* Parsing of a directive's letters (`_atoi`, `_strnlen_s`, the order of flags), which keeps no state
  that a property could tell apart from the fields it finds; a width or precision beyond 2^32; a
  format that ends in the middle of a directive.
* The bits of a double: `_etoa`'s approximation is a choice of its possible results. A precision
  beyond 41 makes `_ftoa` read behind its table of powers; the buffer is then full of zeros, and the
  model takes the table's last entry.
* `memcpy` of `crt0.c` is part of the word accesses of `AsconWord`. The registers that the reset code clears, `state.c` and
  the contents of `random.c` (data), and `regs.h` (addresses).
* What the kernel does with an exception is taken to be the end of the process; the tests of the
  ciphers, which differ from the permutation's in their checks only, are not listed as programs.
* The compiler's freedom after the assembly of `interleave32` (above): the models take
  the result that the instructions compute.
* `ASCON_80PQ`: constants without code.
* Timing side channels and cryptographic strength.

## 9. Plan

Done: words, permutations, Ascon, ISAP, the refinements between their builds with their proofs,
the timer, the harness with its start-up code and counters, and the formatter. In order of weight, what is left:

1. `ImplementsIdeal` of the formatter as far as it concerns counts, memory and values returned.
2. A model of `interleave32` in which the compiler reuses the changed register.
