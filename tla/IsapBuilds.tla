----------------------------- MODULE IsapBuilds -----------------------------
(***************************************************************************)
(* The 32-bit builds of ISAP read as the 64-bit ones, by undoing the       *)
(* interleaving of every word.  While isap_rk absorbs the first two words  *)
(* of isap_mac's state, the 64-bit builds hold them in the byte order of   *)
(* memory.                                                                 *)
(***************************************************************************)
EXTENDS IsapSession

StandardX ==
  [i \in 0..4 |-> IF TARGET_ARCH \in BI32 /\ pc = "rk_mac" /\ i < 2
                    THEN U64BIG[Standard(x[i])] ELSE Standard(x[i])]

Plain == INSTANCE IsapSession
           WITH TARGET_ARCH <- "rv64", x <- StandardX, rk <- StandardState(rk)

(* Step by step, in every word of both states and every byte of memory, a   *)
(* 32-bit build does what the 64-bit code does, though it loads, pads and   *)
(* re-keys in other ways.                                                   *)
SameAsPlain == Plain!SessionInit /\ [][Plain!SessionNext]_Plain!sessionVars

==============================================================================
