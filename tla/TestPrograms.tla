---------------------------- MODULE TestPrograms -----------------------------
(***************************************************************************)
(* What the setup_tests of the executables list: tests, by their checks    *)
(* and how they end, and benchmarks, by what they read of __RANDOM__.      *)
(***************************************************************************)
EXTENDS Naturals, Sequences

Test(name, checks, compares, ends) ==
  [kind |-> "test", name |-> name, checks |-> checks,
   memcmp |-> compares = "memory", ends |-> ends]

Skipped(name) == Test(name, 0, "values", "skipped")

(* src/ascon-p/tests *)
PermTests(arch) ==
  <<Test("ror/generic_ror", 1, "values", "success"),
    IF arch = "rv32" THEN Test("bi32/ror64", 3, "values", "success")
                     ELSE Skipped("bi32/ror64"),
    Test("perm/s_box", 1, "memory", "success"),
    Test("perm/linear_layer", 1, "memory", "success"),
    Test("perm/integration", 6, "memory", "nothing")>>

Bytes(from, size) == [from |-> from, bytes |-> "fixed", size |-> size]
Message == [from |-> 0, bytes |-> "msg_len", size |-> 0]

Benchmark(name, reads) ==
  [kind |-> "bench", name |-> name,
   reads |-> reads \cup {Message, Bytes(0, 8), Bytes(20, 16), Bytes(39, 16)}]

(* src/ascon_bench and src/isap_bench, for one variant of a cipher; a       *)
(* decryption also reads the tag.                                           *)
Benchmarks(cipher) ==
  <<Benchmark(cipher \o "/encrypt", {}),
    Benchmark(cipher \o "/decrypt", {Bytes(3, 16)})>>

==============================================================================
