------------------------------- MODULE MCAscon -------------------------------
(***************************************************************************)
(* Instances of AeadSession with words of two bytes, so that short texts   *)
(* meet every boundary: empty, below a word, a word, below a block, a      *)
(* block, and beyond.                                                      *)
(***************************************************************************)
EXTENDS AsconBuilds

CONSTANTS MaxAd, MaxMsg   \* bounds: bytes of associated data and of message

Ramp(n, from) == [i \in 0..(n - 1) |-> ByteOf((from + 29 * i) % 256)]
Zeros(n)      == [i \in 0..(n - 1) |-> {}]

MCInputs ==
  {[key |-> Ramp(2 * W, 1), nonce |-> Ramp(2 * W, 77), ad |-> a, msg |-> m] :
     a \in {Ramp(n, 100) : n \in 0..MaxAd},
     m \in {Ramp(n, 200) : n \in 0..MaxMsg} \cup {Zeros(MaxMsg)}}

Room == MaxMsg + 1   \* the channel may add a byte

MCLayouts ==
  {[src |-> 0, dst |-> Room, tag |-> 2 * Room],      \* buffers apart
   [src |-> 0, dst |-> 0, tag |-> Room],             \* in place
   [src |-> 1, dst |-> 0, tag |-> Room + 1]}         \* one byte down

==============================================================================
