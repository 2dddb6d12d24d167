---------------------------- MODULE CycleCounter -----------------------------
(***************************************************************************)
(* The performance counters and the functions that read, clear and stop    *)
(* them: get_cycles (src/libtest/getcycles.c), pcount_reset and            *)
(* pcount_enable (src/libtest/verilator_ibex/common.c).  A counter has 64  *)
(* bits; a 32 bit core accesses one half at a time while it counts.        *)
(***************************************************************************)
EXTENDS Integers, Sequences

CONSTANTS R,         \* values of one half: 2^32 on the core
          Order,     \* the counters, in the order pcount_reset clears them
          MaxEvents  \* bound: events of a counter that are told apart

Counters == {Order[i] : i \in DOMAIN Order}

(* The assembly names each counter once. *)
ASSUME CycleCounterAssumption ==
  /\ R \in Nat \ {0, 1}
  /\ Order \in Seq(Counters) /\ "mcycle" \in Counters
  /\ \A i, j \in DOMAIN Order : Order[i] = Order[j] => i = j
  /\ MaxEvents \in 0..(R * R - 1)

VARIABLES counter,    \* the counters of the core
          inhibited,  \* mcountinhibit, all of whose bits are written alike
          call,       \* the function being executed
          since       \* history: events since the counter was started

counting == <<counter, inhibited, call, since>>

High(n) == n \div R
Low(n) == n % R

Idle == [op |-> "none", at |-> 0, result |-> 0,
         first |-> 0, last |-> 0, spent |-> 0]

------------------------------------------------------------------------------
(* One cycle: mcycle counts it, the other counters their own events.  No    *)
(* function below lasts as long as one half takes to overflow twice.        *)
Tick(counted) ==
  /\ call.op # "none" => call.spent < R - 1
  /\ "mcycle" \in counted /\ ~inhibited
  /\ \A c \in counted : since[c] < MaxEvents
  /\ counter' = [c \in Counters |-> IF c \in counted THEN (counter[c] + 1) % (R * R)
                                                     ELSE counter[c]]
  /\ since' = [c \in Counters |-> IF c \in counted THEN since[c] + 1 ELSE since[c]]
  /\ call' = IF call.op = "none" THEN call ELSE [call EXCEPT !.spent = @ + 1]
  /\ UNCHANGED inhibited

------------------------------------------------------------------------------
(* get_cycles *)

(* Mutant of Reads: the high half first. *)
Reads_HighFirst == <<"high", "low">>

(* csrr %0, mcycle; csrr %1, mcycleh *)
Reads == <<"low", "high">>

(* The result so far; first and last are the counts that the two            *)
(* instructions see.                                                        *)
ReadHalf ==
  LET now == counter["mcycle"]
      half == Reads[call.at]
  IN  /\ call.op = "get_cycles" /\ call.at \in DOMAIN Reads
      /\ call' = [call EXCEPT
                    !.result = @ + IF half = "low" THEN Low(now) ELSE High(now) * R,
                    !.first = IF call.at = 1 THEN now ELSE @,
                    !.last = now, !.at = @ + 1]
      /\ UNCHANGED <<counter, inhibited, since>>

(* rdcycle on a 64 bit core *)
ReadWhole ==
  /\ call.op = "get_cycles" /\ call.at = 1
  /\ call' = [call EXCEPT !.result = counter["mcycle"], !.first = counter["mcycle"],
                          !.last = counter["mcycle"], !.at = 3]
  /\ UNCHANGED <<counter, inhibited, since>>

GotCycles == call.op = "get_cycles" /\ call.at = 3

(* The low half has overflowed between the two instructions. *)
Torn == Low(call.last) < Low(call.first)

------------------------------------------------------------------------------
(* pcount_reset *)

(* Mutant of Clears: the high halves first. *)
Clears_HighFirst ==
  [i \in 1..(2 * Len(Order)) |->
     IF i <= Len(Order) THEN [name |-> Order[i], half |-> "high"]
                        ELSE [name |-> Order[i - Len(Order)], half |-> "low"]]

(* The instructions: minstret, mcycle, ..., then minstreth, mcycleh, ... *)
Clears ==
  [i \in 1..(2 * Len(Order)) |->
     IF i <= Len(Order) THEN [name |-> Order[i], half |-> "low"]
                        ELSE [name |-> Order[i - Len(Order)], half |-> "high"]]

ClearHalf ==
  /\ call.op = "pcount_reset" /\ call.at \in DOMAIN Clears
  /\ LET c == Clears[call.at].name
         half == Clears[call.at].half
     IN  /\ counter' = [counter EXCEPT
                          ![c] = IF half = "low" THEN High(@) * R ELSE Low(@)]
         /\ since' = IF half = "low" THEN [since EXCEPT ![c] = 0] ELSE since
  /\ call' = [call EXCEPT !.at = @ + 1]
  /\ UNCHANGED inhibited

PcountIsReset == call.op = "pcount_reset" /\ call.at = Len(Clears) + 1

------------------------------------------------------------------------------
(* The functions are called, and return, one at a time. *)

CallCounters(op) ==
  /\ call.op = "none"
  /\ call' = [Idle EXCEPT !.op = op, !.at = 1]

Return == call' = Idle

(* csrw 0x320 *)
PcountEnable(enable) ==
  /\ call.op = "none"
  /\ inhibited' = ~enable
  /\ UNCHANGED <<counter, call, since>>

------------------------------------------------------------------------------

CounterTypeOK ==
  /\ counter \in [Counters -> 0..(R * R - 1)] /\ inhibited \in BOOLEAN
  /\ call.op \in {"none", "get_cycles", "pcount_reset"}
  /\ call.result \in 0..(R * R - 1) /\ call.spent \in 0..(R - 1)
  /\ since \in [Counters -> 0..MaxEvents]

(* common.h: pcount_reset "Resets all performance counters": when it        *)
(* returns, each counter holds what happened since its low half was         *)
(* cleared, although it counted, and may have overflowed, all the while.    *)
ResetIsZero ==
  PcountIsReset => \A c \in Counters : counter[c] = since[c]

==============================================================================
