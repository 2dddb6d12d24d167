---------------------------- MODULE AsconBuilds ----------------------------
(***************************************************************************)
(* Whatever TARGET_ARCH is, the session is that of the portable code: the  *)
(* 32-bit builds hold each word of the state interleaved, and the portable *)
(* word is read off it by the refinement mapping.                          *)
(***************************************************************************)
EXTENDS AeadSession

Portable == INSTANCE AeadSession
              WITH TARGET_ARCH <- "generic", x <- StandardState(x)

(* Step by step, and in every word of the state, this build does what the   *)
(* portable code does: loads, stores, padding, partial words, initial       *)
(* value, domain bit and permutation all agree.                             *)
SameAsPortable == Portable!SessionInit /\ [][Portable!SessionNext]_Portable!sessionVars

==============================================================================
