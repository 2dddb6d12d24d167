------------------------------- MODULE MCIsap -------------------------------
(***************************************************************************)
(* Instances of IsapSession with words of two bytes: isap_rk absorbs 32    *)
(* bits, and short texts are empty, shorter than a lane, a lane, and       *)
(* longer.                                                                 *)
(***************************************************************************)
EXTENDS IsapBuilds

CONSTANTS MaxAd, MaxMsg   \* bounds: bytes of associated data and of message

Ramp(n, from) == [i \in 0..(n - 1) |-> ByteOf((from + 29 * i) % 256)]

MCInputs ==
  {[key |-> Ramp(2 * W, 1), nonce |-> Ramp(2 * W, 77), ad |-> a, msg |-> m] :
     a \in {Ramp(n, 100) : n \in 0..MaxAd}, m \in {Ramp(n, 200) : n \in 0..MaxMsg}}

Room == MaxMsg + 1   \* the channel may add a byte

MCLayouts ==
  {[src |-> 0, dst |-> Room, tag |-> 2 * Room],      \* buffers apart
   [src |-> 0, dst |-> 0, tag |-> Room],             \* in place
   [src |-> 1, dst |-> 0, tag |-> Room + 1]}         \* one byte down

==============================================================================
