------------------------------ MODULE MCHarness ------------------------------
(***************************************************************************)
(* Instances of Harness: the permutation's tests on each system, the       *)
(* benchmarks of one cipher, and a program that uses the counters.         *)
(***************************************************************************)
EXTENDS Harness, TestPrograms

(* .bss ends at the end of a word, or within one. *)
Whole  == [end |-> 8, passed |-> 1, failed |-> 0]
Broken == [end |-> 10, passed |-> 0, failed |-> 1]

Executable(system, arch, bss_, jobs_) ==
  [system |-> system, arch |-> arch, bss |-> bss_, main |-> "harness", jobs |-> jobs_]

MCPrograms ==
  {Executable("verilator", "rv32", Whole, PermTests("rv32")),
   Executable("verilator", "rv32", Broken, PermTests("rv32")),
   Executable("kernel", "rv32", Broken, PermTests("rv32")),
   Executable("kernel", "rv64", Broken, PermTests("rv64")),
   Executable("verilator", "rv32", Whole, Benchmarks("ascon_128")),
   Executable("kernel", "rv64", Broken, Benchmarks("ascon_128")),
   [Executable("verilator", "rv32", Whole, <<>>) EXCEPT !.main = "counters"]}

MCOrder == <<"minstret", "mcycle">>

==============================================================================
