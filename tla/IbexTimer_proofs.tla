--------------------------- MODULE IbexTimer_proofs ---------------------------
(***************************************************************************)
(* Theorems about IbexTimer, for halves of any number of values.           *)
(***************************************************************************)
EXTENDS IbexTimer, TLAPS

(* Arithmetic of halves. *)
LEMMA DivMod ==
  ASSUME NEW n \in Nat
  PROVE  /\ n \div R \in Nat /\ n % R \in 0..(R - 1)
         /\ n = R * (n \div R) + (n % R)
  BY TimerAssumption, SMT

LEMMA DivMono ==
  ASSUME NEW a \in Nat, NEW b \in Nat, a <= b
  PROVE  a \div R <= b \div R
  BY TimerAssumption, DivMod, SMT

LEMMA DivSmall ==
  ASSUME NEW n \in Nat, n < R * R
  PROVE  n \div R \in 0..(R - 1)
  BY TimerAssumption, DivMod, SMT

LEMMA ModSmall ==
  ASSUME NEW n \in 0..(R - 1)
  PROVE  n % R = n
  BY TimerAssumption, SMT

LEMMA SplitType == ASSUME NEW n \in Nat PROVE Split(n) \in Double
<1>1. n % R \in 0..(R - 1) /\ n \div R \in Nat
  BY DivMod
<1>2. (n \div R) % R \in 0..(R - 1)
  BY <1>1, DivMod
<1> QED BY <1>1, <1>2 DEF Split, Double, Halves

(* The halves of a number in range, and the number again. *)
LEMMA SplitValue ==
  ASSUME NEW n \in Nat, n < R * R
  PROVE  /\ Split(n)["hi"] = n \div R /\ Split(n)["lo"] = n % R
         /\ Value(Split(n)) = n
<1>1. Split(n)["hi"] = n \div R /\ Split(n)["lo"] = n % R
  BY DivSmall, ModSmall DEF Split, Halves
<1> QED BY <1>1, DivMod, TimerAssumption, SMT DEF Value

LEMMA ValueType == ASSUME NEW v \in Double PROVE Value(v) \in 0..(R * R - 1)
<1>1. v["hi"] \in 0..(R - 1) /\ v["lo"] \in 0..(R - 1)
  BY DEF Double, Halves
<1> QED BY <1>1, TimerAssumption, SMT DEF Value

LEMMA ModType ==
  ASSUME NEW n \in Nat PROVE Split(n % (R * R)) \in Double
<1>1. R * R \in Nat /\ R * R > 0
  BY TimerAssumption, SMT
<1>2. n % (R * R) \in Nat
  BY <1>1, SMT
<1> QED BY <1>2, SplitType

LEMMA ZeroType == 0 \in 0..(R * R - 1) /\ Split(0) \in Double /\ {} \in SUBSET Halves
<1>1. 0 \in 0..(R * R - 1)
  BY TimerAssumption, SMT
<1> QED BY <1>1, SplitType

LEMMA IdleType == Idle \in ThreadState
  BY ZeroType DEF Idle, ThreadState, Ops, Pcs

------------------------------------------------------------------------------
(* Type correctness. *)

LEMMA ThreadType ==
  ASSUME thread \in [Threads -> ThreadState], NEW t \in Threads,
         NEW r \in ThreadState, Thread(t, r)
  PROVE  thread' \in [Threads -> ThreadState]
  BY DEF Thread

LEMMA GotoType ==
  ASSUME thread \in [Threads -> ThreadState], NEW t \in Threads,
         NEW pc \in Pcs, Goto(t, pc)
  PROVE  thread' \in [Threads -> ThreadState]
<1>1. [thread[t] EXCEPT !.pc = pc] \in ThreadState
  BY DEF ThreadState
<1> QED BY <1>1, ThreadType DEF Goto

LEMMA TimeType == ASSUME TypeOK PROVE mtime \in Nat /\ mtime < R * R /\ mtime \in 0..(R * R - 1)
  BY TimerAssumption, SMT DEF TypeOK

LEMMA ReadStep ==
  ASSUME TypeOK, NEW t \in Threads, ReadHigh(t) \/ ReadLow(t) \/ Recheck(t)
  PROVE  thread' \in [Threads -> ThreadState]
<1>1. mtime \in 0..(R * R - 1) /\ Split(mtime) \in Double
  BY TimeType, SplitType
<1>2. thread \in [Threads -> ThreadState] /\ thread[t] \in ThreadState
  BY DEF TypeOK
<1>3. Split(mtime)["hi"] \in 0..(R - 1) /\ Split(mtime)["lo"] \in 0..(R - 1)
  BY <1>1 DEF Double, Halves
<1>4. CASE ReadHigh(t)
  <2>1. [thread[t] EXCEPT !.read["hi"] = Split(mtime)["hi"],
                          !.from = mtime, !.pc = "read_lo"] \in ThreadState
    BY <1>1, <1>2, <1>3 DEF ThreadState, Double, Halves, Pcs
  <2> QED BY <2>1, <1>2, <1>4, ThreadType DEF ReadHigh
<1>5. CASE ReadLow(t)
  <2>1. [thread[t] EXCEPT !.read["lo"] = Split(mtime)["lo"], !.pc = "recheck"]
          \in ThreadState
    BY <1>1, <1>2, <1>3 DEF ThreadState, Double, Halves, Pcs
  <2> QED BY <2>1, <1>2, <1>5, ThreadType DEF ReadLow
<1>6. CASE Recheck(t)
  <2> DEFINE r == thread[t]
             new == NewTime(r.read, r.base)
  <2>1. new \in Double
    <3>1. r.read \in Double /\ r.base \in Double
      BY <1>2 DEF ThreadState
    <3>2. Value(r.read) + Value(r.base) \in Nat
      BY <3>1, ValueType
    <3> QED BY <3>2, ModType DEF NewTime
  <2>2. [Idle EXCEPT !.op = r.op, !.pc = "cmp_max", !.new = new] \in ThreadState
    BY <2>1, <1>2, IdleType DEF ThreadState, Pcs
  <2>3. "read_hi" \in Pcs
    BY DEF Pcs
  <2>4. \/ Goto(t, "read_hi") \/ Thread(t, Idle)
        \/ Thread(t, [Idle EXCEPT !.op = r.op, !.pc = "cmp_max", !.new = new])
    BY <1>6 DEF Recheck
  <2> QED BY <2>2, <2>3, <2>4, <1>2, IdleType, ThreadType, GotoType
<1> QED BY <1>4, <1>5, <1>6

LEMMA StoreStep ==
  ASSUME TypeOK, NEW t \in Threads, StoreCompare(t)
  PROVE  /\ thread' \in [Threads -> ThreadState] /\ mtimecmp' \in Double
         /\ due' \subseteq 0..(R * R - 1)
<1> DEFINE new == thread[t].new
<1>1. thread \in [Threads -> ThreadState] /\ new \in Double
  BY DEF TypeOK, ThreadState
<1>2. PICK pc \in {"cmp_max", "cmp_hi", "cmp_lo"} :
        LET store == CompareStores(new)[pc]
        IN  /\ mtimecmp' = [mtimecmp EXCEPT ![store.half] = store.value]
            /\ Goto(t, store.next)
            /\ due' = (IF store.next = "set" THEN {} ELSE due) \cup {Value(new)}
  BY DEF StoreCompare
<1> DEFINE store == CompareStores(new)[pc]
<1>3. store.half \in Halves /\ store.value \in 0..(R - 1) /\ store.next \in Pcs
  BY <1>1, TimerAssumption DEF CompareStores, Halves, Double, Pcs
<1>4. mtimecmp' \in Double
  BY <1>2, <1>3 DEF TypeOK, Double
<1>5. due' \subseteq 0..(R * R - 1)
  BY <1>1, <1>2, ValueType DEF TypeOK
<1> HIDE DEF store
<1> QED BY <1>1, <1>2, <1>3, <1>4, <1>5, GotoType DEF store

LEMMA AccessStep ==
  ASSUME TypeOK, NEW pc \in Pcs, NEW h \in Halves, NEW next \in Pcs,
         NEW then \in SUBSET Halves, NEW r \in ThreadState,
         AccessHalf(pc, h, next, then, r)
  PROVE  thread' \in [Threads -> ThreadState]
<1>1. /\ [r EXCEPT !.pc = next, !.todo = then] \in ThreadState
      /\ [r EXCEPT !.todo = @ \ {h}] \in ThreadState
  BY DEF ThreadState
<1> QED BY <1>1, ThreadType DEF AccessHalf, TypeOK, Threads

LEMMA CallStep ==
  ASSUME TypeOK, NEW op \in Ops, NEW pc \in Pcs, NEW todo \in SUBSET Halves,
         NEW base \in Double, NEW from \in 0..(R * R - 1),
         Call(op, pc, todo, base, from)
  PROVE  thread' \in [Threads -> ThreadState]
<1>1. [Idle EXCEPT !.op = op, !.pc = pc, !.todo = todo, !.base = base, !.from = from]
        \in ThreadState
  BY IdleType DEF ThreadState
<1> QED BY <1>1, ThreadType DEF Call, TypeOK, Threads

LEMMA InitType == Init => TypeOK
<1> SUFFICES ASSUME Init PROVE TypeOK
  OBVIOUS
<1>1. Split(0) \in Double /\ Idle \in ThreadState
  BY SplitType, IdleType
<1>2. 0 \in 0..MaxTime
  BY TimerAssumption
<1> QED BY <1>1, <1>2 DEF Init, TypeOK

LEMMA StepType == TypeOK /\ [Next]_vars => TypeOK'
<1> SUFFICES ASSUME TypeOK, [Next]_vars PROVE TypeOK'
  OBVIOUS
<1> USE DEF TypeOK, device, shared, history
<1>1. CASE CallTimerEnable
  <2>1. PICK b \in TimeBases : Call("timer_enable", "clear", Halves, Split(b), 0)
    BY <1>1 DEF CallTimerEnable
  <2>2. Split(b) \in Double
    BY TimerAssumption, SplitType
  <2>3. thread' \in [Threads -> ThreadState]
    BY <2>1, <2>2, ZeroType, CallStep DEF Ops, Pcs
  <2>4. meddled' \in BOOLEAN
    BY <1>1 DEF CallTimerEnable, Enabled
  <2> QED BY <1>1, <2>3, <2>4 DEF CallTimerEnable
<1>2. CASE CallTimecmpUpdate
  <2>1. PICK n \in NewTimes :
          Thread("main", [Idle EXCEPT !.op = "timecmp_update", !.pc = "cmp_max",
                                      !.new = Split(n)])
    BY <1>2 DEF CallTimecmpUpdate
  <2>2. Split(n) \in Double
    BY TimerAssumption, SplitType
  <2>3. thread' \in [Threads -> ThreadState]
    BY <2>1, <2>2, IdleType, ThreadType DEF ThreadState, Ops, Pcs, Threads
  <2> QED BY <1>2, <2>3 DEF CallTimecmpUpdate, Enabled
<1>3. CASE CallTimerRead
  <2>1. thread' \in [Threads -> ThreadState]
    BY <1>3, ZeroType, CallStep DEF CallTimerRead, Ops, Pcs
  <2> QED BY <1>3, <2>1 DEF CallTimerRead
<1>4. CASE CallGetElapsedTime
  <2>1. thread' \in [Threads -> ThreadState]
    BY <1>4, SplitType, ValueType, CallStep DEF CallGetElapsedTime, Ops, Pcs
  <2> QED BY <1>4, <2>1 DEF CallGetElapsedTime
<1>5. CASE TimerDisable
  BY <1>5 DEF TimerDisable
<1>6. CASE ClearElapsed
  <2>1. thread["main"] \in ThreadState
    BY DEF Threads
  <2>2. thread' \in [Threads -> ThreadState]
    BY <1>6, <2>1, AccessStep DEF ClearElapsed, Pcs
  <2>3. time_elapsed' \in Double
    BY <1>6, TimerAssumption DEF ClearElapsed, Double
  <2> QED BY <1>6, <2>2, <2>3 DEF ClearElapsed
<1>7. CASE StoreIncrement
  <2>1. thread["main"] \in ThreadState
    BY DEF Threads
  <2>2. thread' \in [Threads -> ThreadState]
    BY <1>7, <2>1, AccessStep DEF StoreIncrement, Pcs
  <2>3. time_increment' \in Double
    BY <1>7, <2>1 DEF StoreIncrement, Double, ThreadState
  <2> QED BY <1>7, <2>2, <2>3 DEF StoreIncrement
<1>8. CASE LoadElapsed
  <2>1. PICK h \in Halves :
          AccessHalf("load", h, "loaded", {},
                     [thread["main"] EXCEPT !.read[h] = time_elapsed[h]])
    BY <1>8 DEF LoadElapsed
  <2>2. [thread["main"] EXCEPT !.read[h] = time_elapsed[h]] \in ThreadState
    BY DEF Threads, ThreadState, Double
  <2>3. thread' \in [Threads -> ThreadState]
    BY <2>1, <2>2, AccessStep DEF Pcs
  <2> QED BY <1>8, <2>3 DEF LoadElapsed
<1>9. CASE EnableTimerInterrupt
  <2>1. thread' \in [Threads -> ThreadState]
    BY <1>9, GotoType DEF EnableTimerInterrupt, Threads, Pcs
  <2> QED BY <1>9, <2>1 DEF EnableTimerInterrupt
<1>10. CASE EnableInterrupts \/ ReturnOthers
  <2>1. thread' \in [Threads -> ThreadState]
    BY <1>10, IdleType, ThreadType DEF EnableInterrupts, ReturnOthers, Return, Threads
  <2> QED BY <1>10, <2>1 DEF EnableInterrupts, ReturnOthers
<1>11. CASE \E t \in Threads : ReadHigh(t) \/ ReadLow(t) \/ Recheck(t)
  <2>1. thread' \in [Threads -> ThreadState]
    BY <1>11, ReadStep
  <2> QED BY <1>11, <2>1 DEF ReadHigh, ReadLow, Recheck
<1>12. CASE \E t \in Threads : StoreCompare(t)
  <2>1. /\ thread' \in [Threads -> ThreadState] /\ mtimecmp' \in Double
        /\ due' \subseteq 0..(R * R - 1)
    BY <1>12, StoreStep
  <2> QED BY <1>12, <2>1 DEF StoreCompare
<1>13. CASE Enter
  <2>1. [Idle EXCEPT !.op = "handler", !.pc = "read_hi", !.base = time_increment]
          \in ThreadState
    BY IdleType DEF ThreadState, Ops, Pcs
  <2>2. thread' \in [Threads -> ThreadState]
    BY <1>13, <2>1, ThreadType DEF Enter, Threads
  <2>3. overlapped' \in BOOLEAN
    BY <1>13 DEF Enter
  <2>4. mstatus' \in BOOLEAN /\ since' \in 0..MaxTime
    BY <1>13 DEF Enter
  <2> QED BY <1>13, <2>2, <2>3, <2>4 DEF Enter
<1>14. CASE Leave
  <2>1. thread' \in [Threads -> ThreadState]
    BY <1>14, IdleType, ThreadType DEF Leave, Threads
  <2>2. Value(time_elapsed) + 1 \in Nat
    BY ValueType
  <2>3. time_elapsed' \in Double
    BY <1>14, <2>2, ModType DEF Leave, Successor
  <2> QED BY <1>14, <2>1, <2>3 DEF Leave
<1>15. CASE Tick
  BY <1>15, TimerAssumption DEF Tick
<1>16. CASE UNCHANGED vars
  BY <1>16 DEF vars
<1> QED BY <1>1, <1>2, <1>3, <1>4, <1>5, <1>6, <1>7, <1>8, <1>9, <1>10, <1>11,
           <1>12, <1>13, <1>14, <1>15, <1>16 DEF Next, Main, Either

(* Every variable keeps its type whatever main and the handler do and       *)
(* however their accesses interleave; no half leaves its range.             *)
THEOREM TypeCorrect == Spec => []TypeOK
  BY InitType, StepType, PTL DEF Spec

------------------------------------------------------------------------------
(* timer_read.  Between its loads, a thread holds the high half as it was   *)
(* at the moment "from", and the low half of one moment since.              *)

Reading(r) == r.pc \in {"read_lo", "recheck"}

HoldsHalves(r, now) ==
  /\ Reading(r) => r.from <= now /\ r.read["hi"] = r.from \div R
  /\ r.pc = "recheck" => \E m \in Nat : /\ r.from <= m /\ m <= now
                                        /\ r.read["lo"] = m % R

ReadInv == \A t \in Threads : HoldsHalves(thread[t], mtime)

LEMMA KeepHalves ==
  ASSUME TypeOK, ReadInv, NEW t \in Threads, NEW r, Thread(t, r),
         HoldsHalves(r, mtime'), mtime' = mtime
  PROVE  ReadInv'
  BY DEF TypeOK, ReadInv, Thread

(* The halves agree when the high one is the same again. *)
LEMMA PassedCheck ==
  ASSUME TypeOK, ReadInv, NEW t \in Threads, thread[t].pc = "recheck",
         ~ReadAgain(thread[t])
  PROVE  thread[t].from <= Value(thread[t].read) /\ Value(thread[t].read) <= mtime
<1> DEFINE r == thread[t]
<1>1. /\ r.from <= mtime /\ r.read["hi"] = r.from \div R
      /\ r.from \in Nat /\ mtime \in Nat /\ mtime < R * R
  BY TimeType DEF ReadInv, HoldsHalves, Reading, TypeOK, ThreadState
<1>2. PICK m \in Nat : r.from <= m /\ m <= mtime /\ r.read["lo"] = m % R
  BY DEF ReadInv, HoldsHalves
<1>3. r.read["hi"] = mtime \div R
  BY <1>1, SplitValue DEF ReadAgain
<1>4. r.from \div R <= m \div R /\ m \div R <= mtime \div R
  BY <1>1, <1>2, DivMono
<1>5. r.from \div R = mtime \div R
  BY <1>1, <1>3
<1> HIDE DEF r
<1>6. m \div R = r.read["hi"]
  <2>1. r.from \div R \in Nat /\ m \div R \in Nat
    BY <1>1, <1>2, DivMod
  <2> QED BY <2>1, <1>1, <1>4, <1>5
<1>7. Value(r.read) = m
  <2>1. m = R * (m \div R) + (m % R) /\ m \div R \in Nat /\ m % R \in Nat
    BY DivMod
  <2>2. Value(r.read) = (m \div R) * R + (m % R)
    BY <1>2, <1>6 DEF Value
  <2> QED BY <2>1, <2>2, TimerAssumption
<1> QED BY <1>2, <1>7 DEF r

LEMMA ReadInvStep == TypeOK /\ ReadInv /\ [Next]_vars => ReadInv'
<1> SUFFICES ASSUME TypeOK, ReadInv, [Next]_vars PROVE ReadInv'
  OBVIOUS
<1> USE DEF Threads
<1>1. ASSUME NEW t \in Threads, ReadHigh(t) PROVE ReadInv'
  <2> DEFINE r == [thread[t] EXCEPT !.read["hi"] = Split(mtime)["hi"],
                                    !.from = mtime, !.pc = "read_lo"]
  <2>1. Thread(t, r) /\ mtime' = mtime
    BY <1>1 DEF ReadHigh
  <2>2. thread[t] \in ThreadState /\ mtime \in Nat /\ mtime < R * R
    BY TimeType DEF TypeOK
  <2>3. r.pc = "read_lo" /\ r.from = mtime /\ r.read["hi"] = mtime \div R
    BY <2>2, SplitValue DEF ThreadState, Double, Halves
  <2> HIDE DEF r
  <2>4. HoldsHalves(r, mtime')
    BY <2>1, <2>2, <2>3 DEF HoldsHalves, Reading
  <2> QED BY <2>1, <2>4, KeepHalves
<1>2. ASSUME NEW t \in Threads, ReadLow(t) PROVE ReadInv'
  <2> DEFINE r == [thread[t] EXCEPT !.read["lo"] = Split(mtime)["lo"], !.pc = "recheck"]
  <2>1. Thread(t, r) /\ mtime' = mtime /\ thread[t].pc = "read_lo"
    BY <1>2 DEF ReadLow, At
  <2>2. thread[t] \in ThreadState /\ mtime \in Nat /\ mtime < R * R
    BY TimeType DEF TypeOK
  <2>3. thread[t].from <= mtime /\ thread[t].read["hi"] = thread[t].from \div R
    BY <2>1 DEF ReadInv, HoldsHalves, Reading
  <2>4. /\ r.pc = "recheck" /\ r.from = thread[t].from
        /\ r.read["hi"] = thread[t].read["hi"] /\ r.read["lo"] = mtime % R
    BY <2>2, SplitValue DEF ThreadState, Double, Halves
  <2> HIDE DEF r
  <2>5. HoldsHalves(r, mtime')
    BY <2>1, <2>2, <2>3, <2>4 DEF HoldsHalves, Reading
  <2> QED BY <2>1, <2>5, KeepHalves
<1>3. CASE Tick
  <2>1. mtime' = mtime + 1 /\ mtime \in Nat /\ UNCHANGED thread
    BY <1>3, TimeType DEF Tick
  <2>2. \A t \in Threads : thread[t].from \in Nat
    BY DEF TypeOK, ThreadState
  <2> QED BY <2>1, <2>2 DEF ReadInv, HoldsHalves
<1>4. ASSUME mtime' = mtime,
             NEW t \in Threads, NEW r, Thread(t, r), ~Reading(r)
      PROVE  ReadInv'
  <2>1. HoldsHalves(r, mtime')
    BY <1>4 DEF HoldsHalves, Reading
  <2> QED BY <1>4, <2>1, KeepHalves
<1>5. CASE TimerDisable \/ UNCHANGED vars
  BY <1>5 DEF TimerDisable, vars, ReadInv
<1>6. ASSUME mtime' = mtime, NEW t \in Threads,
             NEW pc \in Pcs \ {"read_lo", "recheck"}, Goto(t, pc)
      PROVE  ReadInv'
  <2>1. ~Reading([thread[t] EXCEPT !.pc = pc])
    BY DEF Reading, TypeOK, ThreadState
  <2> QED BY <1>4, <1>6, <2>1 DEF Goto
<1>7. ASSUME mtime' = mtime, Thread("main", Idle) \/ Thread("handler", Idle)
      PROVE  ReadInv'
  <2>1. ~Reading(Idle)
    BY DEF Idle, Reading
  <2> QED BY <1>4, <1>7, <2>1
<1>8. ASSUME mtime' = mtime, NEW op, NEW pc \in Pcs \ {"read_lo", "recheck"},
             NEW todo, NEW base, NEW from, Call(op, pc, todo, base, from)
      PROVE  ReadInv'
  <2>1. ~Reading([Idle EXCEPT !.op = op, !.pc = pc, !.todo = todo,
                              !.base = base, !.from = from])
    BY DEF Reading, Idle
  <2> QED BY <1>4, <1>8, <2>1 DEF Call
<1>9. CASE CallTimerEnable \/ CallTimerRead \/ CallGetElapsedTime
  BY <1>8, <1>9 DEF CallTimerEnable, CallTimerRead, CallGetElapsedTime, Pcs
<1>10. CASE CallTimecmpUpdate
  <2>1. \A n : ~Reading([Idle EXCEPT !.op = "timecmp_update", !.pc = "cmp_max",
                                     !.new = Split(n)])
    BY DEF Reading, Idle
  <2> QED BY <1>4, <1>10, <2>1 DEF CallTimecmpUpdate
<1>11. ASSUME mtime' = mtime, NEW h, NEW then, NEW r \in ThreadState,
              NEW pc \in Pcs \ {"read_lo", "recheck"},
              NEW next \in Pcs \ {"read_lo", "recheck"}, r.pc = thread["main"].pc,
              AccessHalf(pc, h, next, then, r)
       PROVE  ReadInv'
  <2>1. /\ ~Reading([r EXCEPT !.pc = next, !.todo = then])
        /\ ~Reading([r EXCEPT !.todo = @ \ {h}])
    BY <1>11 DEF Reading, ThreadState, AccessHalf, At
  <2> QED BY <1>4, <1>11, <2>1 DEF AccessHalf
<1>12. CASE ClearElapsed \/ StoreIncrement \/ LoadElapsed
  <2>1. thread["main"] \in ThreadState /\ time_elapsed \in Double /\ mtime' = mtime
    BY <1>12 DEF TypeOK, ClearElapsed, StoreIncrement, LoadElapsed
  <2>2. \A h \in Halves :
          LET r == [thread["main"] EXCEPT !.read[h] = time_elapsed[h]]
          IN  r \in ThreadState /\ r.pc = thread["main"].pc
    BY <2>1 DEF ThreadState, Double
  <2>3. PICK h \in Halves :
          \/ AccessHalf("clear", h, "store", Halves, thread["main"])
          \/ AccessHalf("store", h, "read_hi", {}, thread["main"])
          \/ AccessHalf("load", h, "loaded", {},
                        [thread["main"] EXCEPT !.read[h] = time_elapsed[h]])
    BY <1>12 DEF ClearElapsed, StoreIncrement, LoadElapsed
  <2> QED BY <1>11, <2>1, <2>2, <2>3 DEF Pcs
<1>13. CASE EnableTimerInterrupt
  BY <1>6, <1>13 DEF EnableTimerInterrupt, Pcs
<1>14. CASE EnableInterrupts \/ ReturnOthers \/ Leave
  BY <1>7, <1>14 DEF EnableInterrupts, ReturnOthers, Return, Leave
<1>15. ASSUME NEW t \in Threads, Recheck(t) PROVE ReadInv'
  <2>1. ~Reading(Idle)
    BY DEF Idle, Reading
  <2>2. \A op, new : ~Reading([Idle EXCEPT !.op = op, !.pc = "cmp_max", !.new = new])
    BY DEF Idle, Reading
  <2> QED BY <1>4, <1>6, <1>15, <2>1, <2>2 DEF Recheck, Pcs
<1>16. ASSUME NEW t \in Threads, StoreCompare(t) PROVE ReadInv'
  <2>1. \E next \in {"cmp_hi", "cmp_lo", "set"} : Goto(t, next) /\ mtime' = mtime
    BY <1>16 DEF StoreCompare, CompareStores
  <2> QED BY <1>6, <2>1 DEF Pcs
<1>17. CASE Enter
  <2>1. ~Reading([Idle EXCEPT !.op = "handler", !.pc = "read_hi", !.base = time_increment])
    BY DEF Idle, Reading
  <2> QED BY <1>4, <1>17, <2>1 DEF Enter
<1> QED BY <1>1, <1>2, <1>3, <1>5, <1>9, <1>10, <1>12, <1>13, <1>14, <1>15, <1>16,
           <1>17 DEF Next, Main, Either

LEMMA ReadInvHolds == Spec => []ReadInv
<1>1. Init => ReadInv
  BY DEF Init, ReadInv, HoldsHalves, Reading, Idle
<1> QED BY <1>1, ReadInvStep, TypeCorrect, PTL DEF Spec

(* What timer_read takes for the time was the time at one moment of the     *)
(* call, whatever overflows or interrupts it, for halves of any width.      *)
THEOREM ReadsAreMoments == Spec => []ReadIsMoment
<1>1. TypeOK /\ ReadInv => ReadIsMoment
  BY PassedCheck DEF ReadIsMoment, At
<1> QED BY <1>1, ReadInvHolds, TypeCorrect, PTL


------------------------------------------------------------------------------
(* What each step does to the threads. *)

main == thread["main"]
handler == thread["handler"]
Busy == handler.pc # "idle"

LEMMA Acting ==
  ASSUME NEW pc
  PROVE  /\ At("main", pc) => ~Busy /\ main.pc = pc
         /\ At("handler", pc) => Busy /\ handler.pc = pc
  BY DEF At, Running, Busy, main, handler

LEMMA MainSets ==
  ASSUME TypeOK, NEW r, Thread("main", r)
  PROVE  main' = r /\ handler' = handler
  BY DEF TypeOK, Thread, Threads, main, handler

LEMMA HandlerSets ==
  ASSUME TypeOK, NEW r, Thread("handler", r)
  PROVE  handler' = r /\ main' = main
  BY DEF TypeOK, Thread, Threads, main, handler

LEMMA ThreadStates ==
  ASSUME TypeOK
  PROVE  /\ main \in ThreadState /\ handler \in ThreadState
         /\ \A t \in Threads : thread[t] \in ThreadState
  BY DEF TypeOK, Threads, main, handler

LEMMA Accessed ==
  ASSUME TypeOK, NEW pc, NEW h, NEW next, NEW then, NEW r \in ThreadState,
         AccessHalf(pc, h, next, then, r)
  PROVE  /\ ~Busy /\ main.pc = pc /\ h \in r.todo /\ handler' = handler
         /\ main'.op = r.op /\ main'.base = r.base /\ main'.new = r.new
         /\ \/ r.todo = {h} /\ main'.pc = next /\ main'.todo = then
            \/ main'.pc = r.pc /\ main'.todo = r.todo \ {h}
<1> DEFINE last == [r EXCEPT !.pc = next, !.todo = then]
           more == [r EXCEPT !.todo = @ \ {h}]
<1>1. /\ last.op = r.op /\ last.base = r.base /\ last.new = r.new
      /\ last.pc = next /\ last.todo = then
      /\ more.op = r.op /\ more.base = r.base /\ more.new = r.new
      /\ more.pc = r.pc /\ more.todo = r.todo \ {h}
  BY DEF ThreadState
<1>2. /\ At("main", pc) /\ h \in r.todo
      /\ Thread("main", IF r.todo = {h} THEN last ELSE more)
  BY DEF AccessHalf
<1> HIDE DEF last, more
<1>3. main' = (IF r.todo = {h} THEN last ELSE more) /\ handler' = handler
  BY <1>2, MainSets
<1> QED BY <1>1, <1>2, <1>3, Acting

(* One thread moves, the other stays as it is. *)
Moves(t) ==
  /\ Running(t)
  /\ t = "main" => handler' = handler
  /\ t = "handler" => main' = main

LEMMA Moved ==
  ASSUME TypeOK, NEW t \in Threads, NEW r, Running(t), Thread(t, r)
  PROVE  Moves(t) /\ thread'[t] = r
  BY MainSets, HandlerSets DEF Moves, Threads, main, handler

LEMMA ReadMoves ==
  ASSUME TypeOK, NEW t \in Threads, ReadHigh(t) \/ ReadLow(t)
  PROVE  /\ Moves(t)
         /\ thread[t].pc \in {"read_hi", "read_lo"}
         /\ thread'[t].op = thread[t].op /\ thread'[t].base = thread[t].base
         /\ thread'[t].pc = IF thread[t].pc = "read_hi" THEN "read_lo" ELSE "recheck"
         /\ thread'[t].from = IF thread[t].pc = "read_hi" THEN mtime ELSE thread[t].from
<1>1. thread[t] \in ThreadState
  BY ThreadStates
<1>2. CASE ReadHigh(t)
  <2> DEFINE r == [thread[t] EXCEPT !.read["hi"] = Split(mtime)["hi"],
                                    !.from = mtime, !.pc = "read_lo"]
  <2>1. Running(t) /\ thread[t].pc = "read_hi" /\ Thread(t, r)
    BY <1>2 DEF ReadHigh, At
  <2>2. r.op = thread[t].op /\ r.base = thread[t].base /\ r.pc = "read_lo" /\ r.from = mtime
    BY <1>1 DEF ThreadState
  <2> HIDE DEF r
  <2> QED BY <2>1, <2>2, Moved
<1>3. CASE ReadLow(t)
  <2> DEFINE r == [thread[t] EXCEPT !.read["lo"] = Split(mtime)["lo"], !.pc = "recheck"]
  <2>1. Running(t) /\ thread[t].pc = "read_lo" /\ Thread(t, r)
    BY <1>3 DEF ReadLow, At
  <2>2. /\ r.op = thread[t].op /\ r.base = thread[t].base /\ r.pc = "recheck"
        /\ r.from = thread[t].from
    BY <1>1 DEF ThreadState
  <2> HIDE DEF r
  <2> QED BY <2>1, <2>2, Moved
<1> QED BY <1>2, <1>3

LEMMA RecheckMoves ==
  ASSUME TypeOK, NEW t \in Threads, Recheck(t)
  PROVE  /\ Moves(t) /\ thread[t].pc = "recheck"
         /\ \/ /\ thread'[t].pc = "read_hi"
               /\ thread'[t].op = thread[t].op /\ thread'[t].base = thread[t].base
            \/ thread'[t] = Idle /\ thread[t].op = "timer_read"
            \/ /\ ~ReadAgain(thread[t]) /\ thread[t].op # "timer_read"
               /\ thread'[t].op = thread[t].op /\ thread'[t].pc = "cmp_max"
               /\ thread'[t].new = NewTime(thread[t].read, thread[t].base)
<1> DEFINE again == [thread[t] EXCEPT !.pc = "read_hi"]
           new == NewTime(thread[t].read, thread[t].base)
           on == [Idle EXCEPT !.op = thread[t].op, !.pc = "cmp_max", !.new = new]
<1>1. Running(t) /\ thread[t].pc = "recheck" /\ thread[t] \in ThreadState
  BY ThreadStates DEF Recheck, At
<1>2. again.pc = "read_hi" /\ again.op = thread[t].op /\ again.base = thread[t].base
  BY <1>1 DEF ThreadState
<1>3. on.op = thread[t].op /\ on.pc = "cmp_max" /\ on.new = new
  BY DEF Idle
<1>4. \/ Thread(t, again)
      \/ Thread(t, Idle) /\ thread[t].op = "timer_read"
      \/ ~ReadAgain(thread[t]) /\ thread[t].op # "timer_read" /\ Thread(t, on)
  <2>1. CASE ReadAgain(thread[t])
    BY <2>1, Zenon DEF Recheck, Goto
  <2>2. CASE ~ReadAgain(thread[t]) /\ thread[t].op = "timer_read"
    BY <2>2, Zenon DEF Recheck
  <2>3. CASE ~ReadAgain(thread[t]) /\ thread[t].op # "timer_read"
    BY <2>3, Zenon DEF Recheck
  <2> QED BY <2>1, <2>2, <2>3
<1> HIDE DEF again, on, new
<1>5. \A r : Thread(t, r) => Moves(t) /\ thread'[t] = r
  BY <1>1, Moved
<1> QED BY <1>1, <1>2, <1>3, <1>4, <1>5 DEF new

LEMMA StoreMoves ==
  ASSUME TypeOK, NEW t \in Threads, StoreCompare(t)
  PROVE  LET new == thread[t].new
         IN  /\ Moves(t) /\ thread'[t].op = thread[t].op /\ thread'[t].new = new
             /\ new["hi"] \in 0..(R - 1) /\ new["lo"] \in 0..(R - 1)
             /\ \/ /\ thread[t].pc = "cmp_max" /\ thread'[t].pc = "cmp_hi"
                   /\ mtimecmp'["lo"] = R - 1 /\ mtimecmp'["hi"] = mtimecmp["hi"]
                   /\ due' = due \cup {Value(new)}
                \/ /\ thread[t].pc = "cmp_hi" /\ thread'[t].pc = "cmp_lo"
                   /\ mtimecmp'["hi"] = new["hi"] /\ mtimecmp'["lo"] = mtimecmp["lo"]
                   /\ due' = due \cup {Value(new)}
                \/ /\ thread[t].pc = "cmp_lo" /\ thread'[t].pc = "set"
                   /\ mtimecmp'["lo"] = new["lo"] /\ mtimecmp'["hi"] = mtimecmp["hi"]
                   /\ due' = {Value(new)}
<1> DEFINE new == thread[t].new
           stores == CompareStores(new)
           to(pc) == [thread[t] EXCEPT !.pc = pc]
<1>1. thread[t] \in ThreadState /\ new \in Double /\ mtimecmp \in Double
  BY ThreadStates DEF ThreadState, TypeOK
<1>2. PICK pc \in {"cmp_max", "cmp_hi", "cmp_lo"} :
        /\ Running(t) /\ thread[t].pc = pc
        /\ mtimecmp' = [mtimecmp EXCEPT ![stores[pc].half] = stores[pc].value]
        /\ Goto(t, stores[pc].next)
        /\ due' = (IF stores[pc].next = "set" THEN {} ELSE due) \cup {Value(new)}
  BY DEF StoreCompare, At
<1>3. /\ stores["cmp_max"] = [half |-> "lo", value |-> R - 1, next |-> "cmp_hi"]
      /\ stores["cmp_hi"] = [half |-> "hi", value |-> new["hi"], next |-> "cmp_lo"]
      /\ stores["cmp_lo"] = [half |-> "lo", value |-> new["lo"], next |-> "set"]
  BY DEF CompareStores
<1>4. new["hi"] \in 0..(R - 1) /\ new["lo"] \in 0..(R - 1)
  BY <1>1 DEF Double, Halves
<1>5. \A p : /\ to(p).op = thread[t].op /\ to(p).pc = p /\ to(p).new = new
             /\ Goto(t, p) => Moves(t) /\ thread'[t] = to(p)
  <2> SUFFICES ASSUME NEW p
               PROVE  /\ to(p).op = thread[t].op /\ to(p).pc = p /\ to(p).new = new
                      /\ Goto(t, p) => Moves(t) /\ thread'[t] = to(p)
    OBVIOUS
  <2>1. to(p).op = thread[t].op /\ to(p).pc = p /\ to(p).new = new
    BY <1>1 DEF ThreadState
  <2>2. Goto(t, p) => Thread(t, to(p))
    BY DEF Goto
  <2> HIDE DEF to
  <2> QED BY <1>2, <2>1, <2>2, Moved
<1> HIDE DEF new, stores, to
<1>6. mtimecmp \in [Halves -> 0..(R - 1)] /\ Halves = {"hi", "lo"}
  BY <1>1 DEF Double, Halves
<1>7. CASE pc = "cmp_max"
  <2>1. stores[pc].half = "lo" /\ stores[pc].value = R - 1 /\ stores[pc].next = "cmp_hi"
    BY <1>3, <1>7
  <2>2. Goto(t, "cmp_hi") /\ mtimecmp' = [mtimecmp EXCEPT !["lo"] = R - 1]
    BY <1>2, <2>1, Zenon
  <2>3. due' = due \cup {Value(new)}
    BY <1>2, <2>1
  <2>4. thread'[t].op = thread[t].op /\ thread'[t].new = thread[t].new
        /\ thread'[t].pc = "cmp_hi" /\ Moves(t)
    BY <1>5, <2>2 DEF new
  <2> QED BY <1>2, <1>4, <1>6, <1>7, <2>2, <2>3, <2>4 DEF new
<1>8. CASE pc = "cmp_hi"
  <2>1. stores[pc].half = "hi" /\ stores[pc].value = new["hi"] /\ stores[pc].next = "cmp_lo"
    BY <1>3, <1>8
  <2>2. Goto(t, "cmp_lo") /\ mtimecmp' = [mtimecmp EXCEPT !["hi"] = new["hi"]]
    BY <1>2, <2>1, Zenon
  <2>3. due' = due \cup {Value(new)}
    BY <1>2, <2>1
  <2>4. thread'[t].op = thread[t].op /\ thread'[t].new = thread[t].new
        /\ thread'[t].pc = "cmp_lo" /\ Moves(t)
    BY <1>5, <2>2 DEF new
  <2> QED BY <1>2, <1>4, <1>6, <1>8, <2>2, <2>3, <2>4 DEF new
<1>9. CASE pc = "cmp_lo"
  <2>1. stores[pc].half = "lo" /\ stores[pc].value = new["lo"] /\ stores[pc].next = "set"
    BY <1>3, <1>9
  <2>2. Goto(t, "set") /\ mtimecmp' = [mtimecmp EXCEPT !["lo"] = new["lo"]]
    BY <1>2, <2>1, Zenon
  <2>3. due' = {Value(new)}
    BY <1>2, <2>1
  <2>4. thread'[t].op = thread[t].op /\ thread'[t].new = thread[t].new
        /\ thread'[t].pc = "set" /\ Moves(t)
    BY <1>5, <2>2 DEF new
  <2> QED BY <1>2, <1>4, <1>6, <1>9, <2>2, <2>3, <2>4 DEF new
<1> QED BY <1>2, <1>7, <1>8, <1>9

LEMMA EnterMoves ==
  ASSUME TypeOK, Enter
  PROVE  /\ ~Busy /\ main' = main
         /\ handler'.op = "handler" /\ handler'.pc = "read_hi"
         /\ handler'.base = time_increment
<1> DEFINE r == [Idle EXCEPT !.op = "handler", !.pc = "read_hi", !.base = time_increment]
<1>1. r.op = "handler" /\ r.pc = "read_hi" /\ r.base = time_increment
  BY DEF Idle
<1>2. Thread("handler", r) /\ Running("main")
  BY DEF Enter
<1> HIDE DEF r
<1> QED BY <1>1, <1>2, HandlerSets DEF Running, Busy, handler

LEMMA CallMoves ==
  ASSUME TypeOK, NEW op, NEW pc, NEW todo, NEW base, NEW from,
         Call(op, pc, todo, base, from)
  PROVE  /\ ~Busy /\ main.pc = "idle" /\ handler' = handler
         /\ main'.op = op /\ main'.pc = pc /\ main'.todo = todo /\ main'.base = base
<1> DEFINE r == [Idle EXCEPT !.op = op, !.pc = pc, !.todo = todo, !.base = base,
                             !.from = from]
<1>1. r.op = op /\ r.pc = pc /\ r.todo = todo /\ r.base = base
  BY DEF Idle
<1>2. At("main", "idle") /\ Thread("main", r)
  BY DEF Call
<1> HIDE DEF r
<1> QED BY <1>1, <1>2, Acting, MainSets

LEMMA UpdateMoves ==
  ASSUME TypeOK, CallTimecmpUpdate
  PROVE  /\ ~Busy /\ main.pc = "idle" /\ handler' = handler
         /\ main'.op = "timecmp_update" /\ main'.pc = "cmp_max"
<1>1. PICK n \in NewTimes :
        Thread("main", [Idle EXCEPT !.op = "timecmp_update", !.pc = "cmp_max",
                                    !.new = Split(n)])
  BY DEF CallTimecmpUpdate
<1> DEFINE r == [Idle EXCEPT !.op = "timecmp_update", !.pc = "cmp_max", !.new = Split(n)]
<1>2. r.op = "timecmp_update" /\ r.pc = "cmp_max"
  BY DEF Idle
<1>3. Thread("main", r) /\ At("main", "idle")
  BY <1>1 DEF CallTimecmpUpdate
<1> HIDE DEF r
<1> QED BY <1>2, <1>3, Acting, MainSets

(* Main returns. *)
LEMMA ReturnMoves ==
  ASSUME TypeOK, EnableInterrupts \/ ReturnOthers
  PROVE  /\ ~Busy /\ main' = Idle /\ handler' = handler
         /\ main.pc \in {"csrs_mstatus", "loaded", "set"}
  BY Acting, MainSets DEF EnableInterrupts, ReturnOthers, Return

LEMMA EnableMoves ==
  ASSUME TypeOK, EnableTimerInterrupt
  PROVE  /\ ~Busy /\ main.pc = "set" /\ main.op = "timer_enable" /\ handler' = handler
         /\ main'.pc = "csrs_mstatus" /\ main'.op = main.op
<1> DEFINE r == [main EXCEPT !.pc = "csrs_mstatus"]
<1>1. r.pc = "csrs_mstatus" /\ r.op = main.op
  BY ThreadStates DEF ThreadState
<1>2. At("main", "set") /\ main.op = "timer_enable" /\ Thread("main", r)
  BY DEF EnableTimerInterrupt, Goto, main
<1> HIDE DEF r
<1> QED BY <1>1, <1>2, Acting, MainSets

LEMMA LeaveMoves ==
  ASSUME TypeOK, Leave
  PROVE  Busy /\ handler.pc = "set" /\ handler' = Idle /\ main' = main
  BY Acting, HandlerSets DEF Leave
(* Main runs while the handler is idle. *)
LEMMA Turns ==
  ASSUME NEW t \in Threads, Moves(t)
  PROVE  \/ t = "main" /\ thread[t] = main /\ thread'[t] = main' /\ ~Busy /\ handler' = handler
         \/ t = "handler" /\ thread[t] = handler /\ thread'[t] = handler' /\ Busy
            /\ main' = main
  BY DEF Moves, Running, Busy, Threads, main, handler

ReadPcs == {"read_hi", "read_lo", "recheck"}
SetPcs == {"cmp_max", "cmp_hi", "cmp_lo", "set"}
HandlerPcs == ReadPcs \cup SetPcs

(* Where the threads are: a thread reads the time and sets the timer for    *)
(* one of its functions only, and while the handler runs the timer          *)
(* interrupt is enabled and interrupts are not.                             *)
ControlInv ==
  /\ since <= mtime
  /\ main.pc \in {"clear", "store", "csrs_mstatus"} => main.op = "timer_enable"
  /\ main.pc \in ReadPcs => main.op \in {"timer_enable", "timer_read"}
  /\ main.pc \in SetPcs => main.op \in {"timer_enable", "timecmp_update"}
  /\ Busy => mie /\ ~mstatus /\ handler.op = "handler" /\ handler.pc \in HandlerPcs
  /\ ~Busy /\ mie => mstatus \/ main.pc = "csrs_mstatus"

(* Both threads have the form of ControlInv, for what they are doing. *)
Placed(m) ==
  /\ m.pc \in {"clear", "store", "csrs_mstatus"} => m.op = "timer_enable"
  /\ m.pc \in ReadPcs => m.op \in {"timer_enable", "timer_read"}
  /\ m.pc \in SetPcs => m.op \in {"timer_enable", "timecmp_update"}

LEMMA ControlStep == TypeOK /\ ControlInv /\ [Next]_vars => ControlInv'
<1> SUFFICES ASSUME TypeOK, ControlInv, [Next]_vars PROVE ControlInv'
  OBVIOUS
<1> USE DEF device, shared, history
<1>1. since \in Int /\ mtime \in Int
  BY DEF TypeOK
<1>2. Placed(main) /\ since <= mtime
  BY DEF ControlInv, Placed
<1>3. ASSUME Placed(main'), handler' = handler, ~Busy, UNCHANGED <<since, mtime>>,
             mie' => mstatus' \/ main'.pc = "csrs_mstatus"
      PROVE  ControlInv'
  BY <1>2, <1>3 DEF ControlInv, Placed, Busy
<1>4. ASSUME main' = main, Busy, UNCHANGED <<since, mtime, mie, mstatus>>,
             handler'.op = "handler", handler'.pc \in HandlerPcs
      PROVE  ControlInv'
  <2>1. Busy'
    BY <1>4 DEF Busy, HandlerPcs, ReadPcs, SetPcs
  <2> QED BY <1>2, <1>4, <2>1 DEF ControlInv, Placed
<1>5. Placed(Idle)
  BY DEF Placed, Idle, ReadPcs, SetPcs
<1>6. ~Busy /\ mie => mstatus \/ main.pc = "csrs_mstatus"
  BY DEF ControlInv
<1>7. ASSUME NEW op, NEW pc, NEW todo, NEW base, NEW from,
             Call(op, pc, todo, base, from),
             \/ pc = "clear" /\ op = "timer_enable"
             \/ pc = "read_hi" /\ op = "timer_read"
             \/ pc = "load"
      PROVE  Placed(main') /\ handler' = handler /\ ~Busy /\ main.pc = "idle"
  <2>1. main'.op = op /\ main'.pc = pc /\ handler' = handler /\ ~Busy /\ main.pc = "idle"
    BY <1>7, CallMoves
  <2> QED BY <1>7, <2>1 DEF Placed, ReadPcs, SetPcs
<1>8. CASE CallTimerEnable
  <2>1. Placed(main') /\ handler' = handler /\ ~Busy /\ main.pc = "idle"
    BY <1>7, <1>8 DEF CallTimerEnable
  <2>2. UNCHANGED <<mtime, mie, mstatus>> /\ since' = mtime
    BY <1>8 DEF CallTimerEnable
  <2> QED BY <1>1, <1>6, <2>1, <2>2 DEF ControlInv, Placed, Busy
<1>9. CASE CallTimerRead \/ CallGetElapsedTime
  <2>1. Placed(main') /\ handler' = handler /\ ~Busy /\ main.pc = "idle"
    BY <1>7, <1>9 DEF CallTimerRead, CallGetElapsedTime
  <2> QED BY <1>3, <1>6, <1>9, <2>1 DEF CallTimerRead, CallGetElapsedTime
<1>10. CASE CallTimecmpUpdate
  <2>1. Placed(main') /\ handler' = handler /\ ~Busy /\ main.pc = "idle"
    BY <1>10, UpdateMoves DEF Placed, ReadPcs, SetPcs
  <2> QED BY <1>3, <1>6, <1>10, <2>1 DEF CallTimecmpUpdate
<1>11. CASE TimerDisable
  <2>1. main' = main /\ handler' = handler /\ ~Busy
    BY <1>11, Acting DEF TimerDisable, main, handler
  <2> QED BY <1>2, <1>3, <1>11, <2>1 DEF TimerDisable
<1>12. CASE ClearElapsed \/ StoreIncrement
  <2>1. PICK h \in Halves, pc \in {"clear", "store"}, next \in {"store", "read_hi"},
             then \in SUBSET Halves : AccessHalf(pc, h, next, then, main)
    BY <1>12 DEF ClearElapsed, StoreIncrement, main
  <2>2. /\ ~Busy /\ main.pc = pc /\ handler' = handler /\ main'.op = main.op
        /\ main'.pc = next \/ main'.pc = main.pc
    BY <2>1, ThreadStates, Accessed
  <2>3. main.op = "timer_enable"
    BY <1>2, <2>2 DEF Placed
  <2>4. Placed(main')
    BY <2>2, <2>3 DEF Placed
  <2> QED BY <1>3, <1>6, <1>12, <2>2, <2>4 DEF ClearElapsed, StoreIncrement
<1>13. CASE LoadElapsed
  <2>1. PICK h \in Halves :
          AccessHalf("load", h, "loaded", {}, [main EXCEPT !.read[h] = time_elapsed[h]])
    BY <1>13 DEF LoadElapsed, main
  <2> DEFINE r == [main EXCEPT !.read[h] = time_elapsed[h]]
  <2>2. r \in ThreadState /\ r.pc = main.pc
    BY ThreadStates DEF ThreadState, TypeOK, Double
  <2> HIDE DEF r
  <2>3. AccessHalf("load", h, "loaded", {}, r)
    BY <2>1 DEF r
  <2>4. ~Busy /\ main.pc = "load" /\ handler' = handler /\ main'.pc \in {"load", "loaded"}
    BY <2>2, <2>3, Accessed
  <2>5. Placed(main')
    BY <2>4 DEF Placed, ReadPcs, SetPcs
  <2> QED BY <1>3, <1>6, <1>13, <2>4, <2>5 DEF LoadElapsed
<1>14. CASE EnableTimerInterrupt
  <2>1. ~Busy /\ handler' = handler /\ main'.pc = "csrs_mstatus" /\ main'.op = "timer_enable"
    BY <1>14, EnableMoves
  <2>2. Placed(main')
    BY <2>1 DEF Placed, ReadPcs, SetPcs
  <2> QED BY <1>3, <1>14, <2>1, <2>2 DEF EnableTimerInterrupt
<1>15. CASE EnableInterrupts \/ ReturnOthers
  <2>1. ~Busy /\ main' = Idle /\ handler' = handler
    BY <1>15, ReturnMoves
  <2>2. mie' => mstatus' \/ main'.pc = "csrs_mstatus"
    <3>1. CASE EnableInterrupts
      BY <3>1 DEF EnableInterrupts
    <3>2. CASE ReturnOthers
      <4>1. main.pc # "csrs_mstatus" /\ UNCHANGED <<mie, mstatus>>
        BY <3>2 DEF ReturnOthers, At, main
      <4> QED BY <1>6, <2>1, <4>1
    <3> QED BY <1>15, <3>1, <3>2
  <2> QED BY <1>3, <1>5, <1>15, <2>1, <2>2 DEF EnableInterrupts, ReturnOthers
<1>16. ASSUME NEW t \in Threads, ReadHigh(t) \/ ReadLow(t) PROVE ControlInv'
  <2>1. /\ Moves(t) /\ thread[t].pc \in ReadPcs
        /\ thread'[t].pc \in ReadPcs /\ thread'[t].op = thread[t].op
    BY <1>16, ReadMoves DEF ReadPcs
  <2>2. UNCHANGED <<mtime, since, mie, mstatus>>
    BY <1>16 DEF ReadHigh, ReadLow
  <2>3. CASE t = "main"
    <3>1. main.pc \in ReadPcs /\ main'.pc \in ReadPcs /\ main'.op = main.op
      BY <2>1, <2>3, Turns
    <3>2. Placed(main')
      BY <1>2, <3>1 DEF Placed, ReadPcs, SetPcs
    <3>3. main.pc # "csrs_mstatus"
      BY <3>1 DEF ReadPcs
    <3> QED BY <1>3, <1>6, <2>1, <2>2, <2>3, <3>2, <3>3, Turns
  <2>4. CASE t = "handler"
    <3>1. handler'.op = handler.op /\ handler'.pc \in HandlerPcs /\ Busy /\ main' = main
      BY <2>1, <2>4, Turns DEF HandlerPcs
    <3> QED BY <1>4, <2>2, <3>1 DEF ControlInv
  <2> QED BY <2>3, <2>4 DEF Threads
<1>17. ASSUME NEW t \in Threads, Recheck(t) PROVE ControlInv'
  <2>1. /\ Moves(t) /\ thread[t].pc = "recheck"
        /\ \/ thread'[t].pc = "read_hi" /\ thread'[t].op = thread[t].op
           \/ thread'[t] = Idle /\ thread[t].op = "timer_read"
           \/ /\ thread[t].op # "timer_read" /\ thread'[t].op = thread[t].op
              /\ thread'[t].pc = "cmp_max"
    BY <1>17, RecheckMoves
  <2>2. UNCHANGED <<mtime, since, mie, mstatus>>
    BY <1>17 DEF Recheck
  <2>3. CASE t = "main"
    <3>1. /\ main.pc = "recheck" /\ ~Busy /\ handler' = handler
          /\ \/ main'.pc = "read_hi" /\ main'.op = main.op
             \/ main' = Idle
             \/ main.op # "timer_read" /\ main'.op = main.op /\ main'.pc = "cmp_max"
      BY <2>1, <2>3, Turns
    <3>2. main.op \in {"timer_enable", "timer_read"}
      BY <1>2, <3>1 DEF Placed, ReadPcs
    <3>3. Placed(main')
      BY <1>5, <3>1, <3>2 DEF Placed, ReadPcs, SetPcs
    <3> QED BY <1>3, <1>6, <2>2, <3>1, <3>3
  <2>4. CASE t = "handler"
    <3>1. handler.op = "handler" /\ Busy /\ main' = main
      BY <2>1, <2>4, Turns DEF ControlInv
    <3>2. handler'.op = "handler" /\ handler'.pc \in {"read_hi", "cmp_max"}
      BY <2>1, <2>4, <3>1, Turns
    <3> QED BY <1>4, <2>2, <3>1, <3>2 DEF HandlerPcs, ReadPcs, SetPcs
  <2> QED BY <2>3, <2>4 DEF Threads
<1>18. ASSUME NEW t \in Threads, StoreCompare(t) PROVE ControlInv'
  <2>1. /\ Moves(t) /\ thread[t].pc \in SetPcs
        /\ thread'[t].pc \in SetPcs /\ thread'[t].op = thread[t].op
    BY <1>18, StoreMoves DEF SetPcs
  <2>2. UNCHANGED <<mtime, since, mie, mstatus>>
    BY <1>18 DEF StoreCompare
  <2>3. CASE t = "main"
    <3>1. main.pc \in SetPcs /\ main'.pc \in SetPcs /\ main'.op = main.op
      BY <2>1, <2>3, Turns
    <3>2. Placed(main') /\ main.pc # "csrs_mstatus"
      BY <1>2, <3>1 DEF Placed, ReadPcs, SetPcs
    <3> QED BY <1>3, <1>6, <2>1, <2>2, <2>3, <3>2, Turns
  <2>4. CASE t = "handler"
    <3>1. handler'.op = handler.op /\ handler'.pc \in HandlerPcs /\ Busy /\ main' = main
      BY <2>1, <2>4, Turns DEF HandlerPcs
    <3> QED BY <1>4, <2>2, <3>1 DEF ControlInv
  <2> QED BY <2>3, <2>4 DEF Threads
<1>19. CASE Enter
  <2>1. ~Busy /\ main' = main /\ handler'.op = "handler" /\ handler'.pc = "read_hi"
    BY <1>19, EnterMoves
  <2>2. mie' /\ ~mstatus' /\ since' = mtime /\ mtime' = mtime
    BY <1>19 DEF Enter, Enabled
  <2> QED BY <1>1, <1>2, <2>1, <2>2 DEF ControlInv, Placed, Busy, HandlerPcs, ReadPcs
<1>20. CASE Leave
  <2>1. handler' = Idle /\ main' = main
    BY <1>20, LeaveMoves
  <2>2. ~Busy'
    BY <2>1 DEF Busy, Idle
  <2> QED BY <1>2, <1>20, <2>1, <2>2 DEF ControlInv, Placed, Leave
<1>21. CASE Tick
  <2>1. UNCHANGED <<main, handler, Busy, since, mie, mstatus>> /\ mtime' = mtime + 1
    BY <1>21 DEF Tick, main, handler, Busy
  <2> QED BY <1>1, <2>1 DEF ControlInv
<1>22. CASE UNCHANGED vars
  <2>1. UNCHANGED <<main, handler, Busy, since, mtime, mie, mstatus>>
    BY <1>22 DEF vars, main, handler, Busy
  <2> QED BY <2>1 DEF ControlInv
<1> QED BY <1>8, <1>9, <1>10, <1>11, <1>12, <1>13, <1>14, <1>15, <1>16, <1>17, <1>18,
           <1>19, <1>20, <1>21, <1>22 DEF Next, Main, Either

------------------------------------------------------------------------------
(* The times the timer is set for lie within a time base of the interval.   *)

MaxBase == R * R - 1 - MaxTime

Window(n) == since + Value(time_increment) <= n /\ n <= mtime + Value(time_increment)

(* A thread that sets the timer, timer_enable or the handler: the time base *)
(* is the one in force, the time it read is in the interval, and the halves *)
(* stored are those of the new time.                                        *)
Sets(r) ==
  /\ r.pc \in ReadPcs => r.base = time_increment
  /\ r.pc \in {"read_lo", "recheck"} => since <= r.from
  /\ r.pc \in HandlerPcs => Value(time_increment) <= MaxBase
  /\ r.pc \in SetPcs => Window(Value(r.new))
  /\ r.pc \in {"cmp_lo", "set"} => mtimecmp["hi"] = r.new["hi"]
  /\ r.pc = "set" => mtimecmp["lo"] = r.new["lo"]

(* timer_enable, with the timer off, up to the store of the time base. *)
Starts(r) ==
  /\ r.pc \in {"clear", "store"} => Value(r.base) <= MaxBase
  /\ r.pc = "store" => \A h \in Halves \ r.todo : time_increment[h] = r.base[h]
  /\ r.pc # "csrs_mstatus" => Sets(r)

Setting(r) == r.op \in {"timer_enable", "timecmp_update"} /\ r.pc # "csrs_mstatus"

(* The interval, as long as main leaves a running timer alone. *)
Intervals ==
  /\ Setting(main) => ~mie
  /\ main.op = "timer_enable" => Starts(main)
  /\ Busy => Sets(handler)
  /\ mie => Value(time_increment) <= MaxBase
  /\ mie /\ ~Busy => Window(Value(mtimecmp))

WindowInv == ~meddled => Intervals

(* The sum of a time and a time base is in range. *)
LEMMA NewTimeValue ==
  ASSUME NEW now \in Double, NEW base \in Double,
         Value(now) <= MaxTime, Value(base) <= MaxBase
  PROVE  Value(NewTime(now, base)) = Value(now) + Value(base)
<1> DEFINE n == Value(now) + Value(base)
           S == R * R
<1>1. Value(now) \in 0..(R * R - 1) /\ Value(base) \in 0..(R * R - 1)
  BY ValueType
<1>2. S \in Nat /\ S > 0 /\ MaxTime \in Nat
  BY TimerAssumption, SMT
<1>3. n \in Nat /\ n < S
  <2> HIDE DEF S
  <2>1. S = R * R
    BY DEF S
  <2> QED BY <1>1, <1>2, <2>1 DEF MaxBase
<1>4. n % S = n
  <2> HIDE DEF n, S
  <2> QED BY <1>2, <1>3
<1>5. Value(Split(n)) = n
  BY <1>3, SplitValue
<1> QED BY <1>4, <1>5 DEF NewTime

(* A number is that of its halves. *)
LEMMA SameHalves ==
  ASSUME NEW v, NEW w, v["hi"] = w["hi"], v["lo"] = w["lo"]
  PROVE  Value(v) = Value(w)
  BY Zenon DEF Value

LEMMA SameDouble ==
  ASSUME NEW v \in Double, NEW w \in Double, \A h \in Halves : v[h] = w[h]
  PROVE  v = w
  BY DEF Double

(* The new time of a thread whose reading of the time passes the check. *)
LEMMA NewInWindow ==
  ASSUME TypeOK, ReadInv, NEW t \in Threads, Sets(thread[t]),
         thread[t].pc = "recheck", ~ReadAgain(thread[t])
  PROVE  Window(Value(NewTime(thread[t].read, thread[t].base)))
<1> DEFINE r == thread[t]
<1>1. r.read \in Double /\ r.base \in Double /\ r.from \in Nat
  BY ThreadStates DEF ThreadState
<1>2. r.from <= Value(r.read) /\ Value(r.read) <= mtime
  BY PassedCheck
<1>3. since <= r.from /\ r.base = time_increment /\ Value(time_increment) <= MaxBase
  BY DEF Sets, ReadPcs, HandlerPcs
<1>4. since \in Nat /\ mtime \in Nat /\ mtime <= MaxTime /\ MaxTime \in Nat
  BY TimerAssumption DEF TypeOK
<1>5. Value(r.read) \in Int /\ Value(time_increment) \in Int
  BY <1>1, <1>3, ValueType
<1> HIDE DEF r
<1>6. Value(NewTime(r.read, r.base)) = Value(r.read) + Value(time_increment)
  <2>1. Value(r.read) <= MaxTime
    BY <1>2, <1>4, <1>5
  <2> QED BY <1>1, <1>3, <2>1, NewTimeValue
<1>7. Window(Value(NewTime(r.read, r.base)))
  BY <1>1, <1>2, <1>3, <1>4, <1>5, <1>6 DEF Window
<1> QED BY <1>7 DEF r

LEMMA WindowStep ==
  TypeOK /\ ControlInv /\ ReadInv /\ WindowInv /\ [Next]_vars => WindowInv'
<1> SUFFICES ASSUME TypeOK, ControlInv, ReadInv, WindowInv, [Next]_vars PROVE WindowInv'
  OBVIOUS
<1> USE DEF device, shared, history
<1> DEFINE inc == Value(time_increment)
<1>1. /\ since \in Int /\ mtime \in Int /\ MaxBase \in Int /\ inc \in Int
      /\ Value(mtimecmp) \in Int
  BY ValueType, TimerAssumption DEF TypeOK, MaxBase
<1>2. ASSUME UNCHANGED <<since, mtime, time_increment, mtimecmp, main, handler, meddled>>,
             mie' => mie
      PROVE  WindowInv'
  BY <1>2 DEF WindowInv, Intervals, Starts, Setting, Sets, Window, Busy
(* Main moves, and sets the compare register with the timer off only. *)
<1>3. ASSUME UNCHANGED <<since, mtime, time_increment, mie, handler, meddled>>, ~Busy,
             mie => mtimecmp' = mtimecmp,
             Setting(main') => ~mie,
             Intervals /\ main'.op = "timer_enable" => Starts(main)'
      PROVE  WindowInv'
  <2> SUFFICES ASSUME ~meddled PROVE Intervals'
    BY <1>3 DEF WindowInv
  <2>1. Intervals /\ ~Busy'
    BY <1>3 DEF WindowInv, Busy
  <2>2. Setting(main)' => ~mie'
    BY <1>3 DEF Setting
  <2>3. mie' => Value(time_increment') <= MaxBase /\ Window(Value(mtimecmp))'
    BY <1>3, <2>1 DEF Intervals, Window
  <2> QED BY <1>3, <2>1, <2>2, <2>3 DEF Intervals
(* The handler runs with the timer on, when main sets nothing. *)
<1>4. ASSUME UNCHANGED <<time_increment, mie, main, meddled>>, mie,
             Intervals => IF Busy' THEN Sets(handler)' ELSE Window(Value(mtimecmp))'
      PROVE  WindowInv'
  <2> SUFFICES ASSUME ~meddled PROVE Intervals'
    BY <1>4 DEF WindowInv
  <2>1. Intervals /\ ~Setting(main)
    BY <1>4 DEF WindowInv, Intervals
  <2>2. ~Setting(main)' /\ (main.op = "timer_enable" => Starts(main)')
    BY <1>4, <2>1 DEF Setting, Starts
  <2> QED BY <1>4, <2>1, <2>2 DEF Intervals
<1>5. main.pc = "idle" /\ ~Enabled /\ ~Busy => ~mie
  BY DEF ControlInv, Enabled
<1>6. CASE CallTimerEnable
  <2>1. PICK b \in TimeBases : Call("timer_enable", "clear", Halves, Split(b), 0)
    BY <1>6 DEF CallTimerEnable
  <2>2. /\ ~Busy /\ main.pc = "idle" /\ handler' = handler
        /\ main'.op = "timer_enable" /\ main'.pc = "clear" /\ main'.base = Split(b)
    BY <2>1, CallMoves
  <2>3. Value(Split(b)) <= MaxBase
    <3>1. b \in Nat /\ b <= MaxBase /\ b < R * R
      BY TimerAssumption DEF MaxBase
    <3> QED BY <3>1, SplitValue
  <2>4. Starts(main)'
    BY <2>2, <2>3 DEF Starts, Sets, ReadPcs, SetPcs, HandlerPcs
  <2>5. meddled' = Enabled /\ mie' = mie
    BY <1>6 DEF CallTimerEnable
  <2>6. ~Busy'
    BY <2>2 DEF Busy
  <2> QED BY <1>5, <2>2, <2>4, <2>5, <2>6 DEF WindowInv, Intervals
<1>7. CASE CallTimecmpUpdate
  <2>1. /\ ~Busy /\ main.pc = "idle" /\ handler' = handler
        /\ main'.op = "timecmp_update" /\ main'.pc = "cmp_max"
    BY <1>7, UpdateMoves
  <2>2. meddled' = (meddled \/ Enabled) /\ mie' = mie
    BY <1>7 DEF CallTimecmpUpdate
  <2>3. ~Busy'
    BY <2>1 DEF Busy
  <2> QED BY <1>5, <2>1, <2>2, <2>3 DEF WindowInv, Intervals
<1>8. CASE CallTimerRead \/ CallGetElapsedTime
  <2>1. ~Busy /\ handler' = handler /\ main'.op \in {"timer_read", "get_elapsed_time"}
    BY <1>8, CallMoves DEF CallTimerRead, CallGetElapsedTime
  <2>2. ~Setting(main') /\ main'.op # "timer_enable"
    BY <2>1 DEF Setting
  <2> QED BY <1>3, <1>8, <2>1, <2>2 DEF CallTimerRead, CallGetElapsedTime
<1>9. CASE TimerDisable
  <2>1. UNCHANGED <<main, handler>>
    BY <1>9 DEF TimerDisable, main, handler
  <2> QED BY <1>2, <1>9, <2>1 DEF TimerDisable
<1>10. CASE ClearElapsed
  <2>1. PICK h \in Halves : AccessHalf("clear", h, "store", Halves, main)
    BY <1>10 DEF ClearElapsed, main
  <2>2. /\ ~Busy /\ main.pc = "clear" /\ handler' = handler
        /\ main'.op = main.op /\ main'.base = main.base
        /\ main'.pc = "store" => main'.todo = Halves
        /\ main'.pc \in {"clear", "store"}
    BY <2>1, ThreadStates, Accessed
  <2>3. main.op = "timer_enable"
    BY <2>2 DEF ControlInv
  <2>4. Intervals => ~mie /\ Starts(main)'
    <3>1. Intervals => ~mie /\ Value(main'.base) <= MaxBase
      BY <2>2, <2>3 DEF Intervals, Setting, Starts
    <3> QED BY <2>2, <3>1 DEF Starts, Sets, ReadPcs, SetPcs, HandlerPcs
  <2> QED BY <1>3, <1>10, <2>2, <2>4 DEF ClearElapsed, WindowInv
<1>11. CASE StoreIncrement
  <2>1. PICK h \in Halves :
          /\ AccessHalf("store", h, "read_hi", {}, main)
          /\ time_increment' = [time_increment EXCEPT ![h] = main.base[h]]
    BY <1>11 DEF StoreIncrement, main
  <2>2. /\ ~Busy /\ main.pc = "store" /\ handler' = handler
        /\ main'.op = main.op /\ main'.base = main.base /\ h \in main.todo
        /\ \/ main.todo = {h} /\ main'.pc = "read_hi"
           \/ main'.pc = "store" /\ main'.todo = main.todo \ {h}
    BY <2>1, ThreadStates, Accessed
  <2>3. main.op = "timer_enable"
    BY <2>2 DEF ControlInv
  <2> SUFFICES ASSUME ~meddled' PROVE Intervals'
    BY DEF WindowInv
  <2>4. Intervals /\ Starts(main) /\ ~mie
    BY <1>11, <2>2, <2>3 DEF StoreIncrement, WindowInv, Intervals, Setting
  <2>5. Value(main.base) <= MaxBase /\ \A i \in Halves \ main.todo : time_increment[i] = main.base[i]
    BY <2>2, <2>4 DEF Starts
  <2>6. \A i \in Halves \ (main.todo \ {h}) : time_increment'[i] = main.base[i]
    <3>1. time_increment \in [Halves -> 0..(R - 1)]
      BY DEF TypeOK, Double
    <3> QED BY <2>1, <2>5, <3>1
  <2>7. main'.pc = "read_hi" => main'.base = time_increment'
    <3>1. main.base \in Double /\ time_increment' \in Double
      BY ThreadStates, StepType DEF ThreadState, TypeOK
    <3>2. main'.pc = "read_hi" => \A i \in Halves : time_increment'[i] = main.base[i]
      BY <2>2, <2>6
    <3> QED BY <2>2, <3>1, <3>2, SameDouble
  <2>8. Starts(main)'
    BY <2>2, <2>5, <2>6, <2>7 DEF Starts, Sets, ReadPcs, SetPcs, HandlerPcs
  <2>9. ~mie' /\ ~Busy'
    BY <1>11, <2>2, <2>4 DEF StoreIncrement, Busy
  <2> QED BY <2>8, <2>9 DEF Intervals
<1>12. CASE LoadElapsed
  <2>1. PICK h \in Halves :
          AccessHalf("load", h, "loaded", {}, [main EXCEPT !.read[h] = time_elapsed[h]])
    BY <1>12 DEF LoadElapsed, main
  <2> DEFINE r == [main EXCEPT !.read[h] = time_elapsed[h]]
  <2>2. r \in ThreadState /\ r.pc = main.pc /\ r.op = main.op
    BY ThreadStates DEF ThreadState, TypeOK, Double
  <2> HIDE DEF r
  <2>3. AccessHalf("load", h, "loaded", {}, r)
    BY <2>1 DEF r
  <2>4. /\ ~Busy /\ main.pc = "load" /\ handler' = handler /\ main'.op = main.op
        /\ main'.pc \in {"load", "loaded"}
    BY <2>2, <2>3, Accessed
  <2>5. Starts(main)'
    BY <2>4 DEF Starts, Sets, ReadPcs, SetPcs, HandlerPcs
  <2>6. WindowInv /\ ~meddled => (Setting(main') => ~mie)
    BY <2>4 DEF WindowInv, Intervals, Setting
  <2> QED BY <1>3, <1>12, <2>4, <2>5, <2>6 DEF LoadElapsed, WindowInv
<1>13. CASE EnableTimerInterrupt
  <2>1. /\ ~Busy /\ main.pc = "set" /\ main.op = "timer_enable" /\ handler' = handler
        /\ main'.pc = "csrs_mstatus" /\ main'.op = main.op
    BY <1>13, EnableMoves
  <2> SUFFICES ASSUME ~meddled' PROVE Intervals'
    BY DEF WindowInv
  <2>2. UNCHANGED <<since, mtime, time_increment, mtimecmp, meddled>>
    BY <1>13 DEF EnableTimerInterrupt
  <2>3. Sets(main)
    BY <2>1, <2>2 DEF WindowInv, Intervals, Starts
  <2>4. /\ inc <= MaxBase /\ Window(Value(main.new))
        /\ mtimecmp["hi"] = main.new["hi"] /\ mtimecmp["lo"] = main.new["lo"]
    BY <2>1, <2>3 DEF Sets, HandlerPcs, SetPcs
  <2>5. Window(Value(mtimecmp))
    BY <2>4, SameHalves, Zenon
  <2>6. ~Busy' /\ Starts(main)' /\ ~Setting(main)'
    BY <2>1 DEF Busy, Starts, Setting
  <2> QED BY <2>2, <2>4, <2>5, <2>6 DEF Intervals, Window
<1>14. CASE EnableInterrupts \/ ReturnOthers
  <2>1. ~Busy /\ main' = Idle /\ handler' = handler
    BY <1>14, ReturnMoves
  <2>2. ~Setting(main') /\ main'.op # "timer_enable"
    BY <2>1 DEF Setting, Idle
  <2> QED BY <1>3, <1>14, <2>1, <2>2 DEF EnableInterrupts, ReturnOthers
<1>15. ASSUME NEW t \in Threads, ReadHigh(t) \/ ReadLow(t) PROVE WindowInv'
  <2>1. /\ Moves(t) /\ thread[t].pc \in {"read_hi", "read_lo"}
        /\ thread'[t].op = thread[t].op /\ thread'[t].base = thread[t].base
        /\ thread'[t].pc = IF thread[t].pc = "read_hi" THEN "read_lo" ELSE "recheck"
        /\ thread'[t].from = IF thread[t].pc = "read_hi" THEN mtime ELSE thread[t].from
    BY <1>15, ReadMoves
  <2>2. UNCHANGED <<mtime, since, mie, time_increment, mtimecmp, meddled>>
    BY <1>15 DEF ReadHigh, ReadLow
  <2>3. Sets(thread[t]) => Sets(thread[t])'
    BY <2>1, <2>2 DEF Sets, ReadPcs, SetPcs, HandlerPcs, ControlInv
  <2>4. CASE t = "main"
    <3>1. /\ ~Busy /\ handler' = handler /\ main'.op = main.op
          /\ main.pc \in {"read_hi", "read_lo"} /\ main'.pc \in {"read_lo", "recheck"}
      BY <2>1, <2>4, Turns
    <3>2. Sets(main) => Sets(main)'
      BY <2>3, <2>4 DEF main
    <3>3. Intervals => (Setting(main') => ~mie)
      BY <3>1 DEF Intervals, Setting
    <3>4. Intervals /\ main'.op = "timer_enable" => Starts(main)'
      BY <3>1, <3>2 DEF Intervals, Starts
    <3> QED BY <1>3, <2>2, <3>1, <3>3, <3>4 DEF WindowInv
  <2>5. CASE t = "handler"
    <3>1. Busy /\ main' = main /\ mie
      BY <2>1, <2>5, Turns DEF ControlInv
    <3>2. Busy' /\ handler'.pc \in {"read_lo", "recheck"}
      BY <2>1, <2>5, Turns DEF Busy
    <3>3. Sets(handler) => Sets(handler)'
      BY <2>3, <2>5 DEF handler
    <3> QED BY <1>4, <2>2, <3>1, <3>2, <3>3 DEF Intervals
  <2> QED BY <2>4, <2>5 DEF Threads
<1>16. ASSUME NEW t \in Threads, Recheck(t) PROVE WindowInv'
  <2>1. /\ Moves(t) /\ thread[t].pc = "recheck"
        /\ \/ /\ thread'[t].pc = "read_hi"
              /\ thread'[t].op = thread[t].op /\ thread'[t].base = thread[t].base
           \/ thread'[t] = Idle /\ thread[t].op = "timer_read"
           \/ /\ ~ReadAgain(thread[t]) /\ thread[t].op # "timer_read"
              /\ thread'[t].op = thread[t].op /\ thread'[t].pc = "cmp_max"
              /\ thread'[t].new = NewTime(thread[t].read, thread[t].base)
    BY <1>16, RecheckMoves
  <2>2. UNCHANGED <<mtime, since, mie, time_increment, mtimecmp, meddled>>
    BY <1>16 DEF Recheck
  <2>3. Sets(thread[t]) => Sets(thread[t])'
    <3> SUFFICES ASSUME Sets(thread[t]) PROVE Sets(thread[t])'
      OBVIOUS
    <3>1. CASE /\ thread'[t].pc = "read_hi"
               /\ thread'[t].op = thread[t].op /\ thread'[t].base = thread[t].base
      BY <2>1, <2>2, <3>1 DEF Sets, ReadPcs, SetPcs, HandlerPcs
    <3>2. CASE thread'[t] = Idle
      BY <3>2 DEF Sets, Idle, ReadPcs, SetPcs, HandlerPcs
    <3>3. CASE /\ ~ReadAgain(thread[t]) /\ thread'[t].pc = "cmp_max"
               /\ thread'[t].new = NewTime(thread[t].read, thread[t].base)
      <4>1. Window(Value(thread'[t].new))
        BY <2>1, <3>3, NewInWindow
      <4>2. inc <= MaxBase
        BY <2>1 DEF Sets, ReadPcs, HandlerPcs
      <4> QED BY <2>2, <3>3, <4>1, <4>2 DEF Sets, Window, ReadPcs, SetPcs, HandlerPcs
    <3> QED BY <2>1, <3>1, <3>2, <3>3
  <2>4. CASE t = "main"
    <3>1. /\ ~Busy /\ handler' = handler /\ main.pc = "recheck"
          /\ main'.op = main.op \/ main' = Idle
          /\ main'.pc \in {"read_hi", "cmp_max"} \/ main' = Idle
      BY <2>1, <2>4, Turns
    <3>2. Sets(main) => Sets(main)'
      BY <2>3, <2>4 DEF main
    <3>3. Intervals => (Setting(main') => ~mie)
      BY <3>1 DEF Intervals, Setting, Idle
    <3>4. Intervals /\ main'.op = "timer_enable" => Starts(main)'
      BY <3>1, <3>2 DEF Intervals, Starts, Idle
    <3> QED BY <1>3, <2>2, <3>1, <3>3, <3>4 DEF WindowInv
  <2>5. CASE t = "handler"
    <3>1. Busy /\ main' = main /\ mie /\ handler.op = "handler"
      BY <2>1, <2>5, Turns DEF ControlInv
    <3>2. handler'.pc \in {"read_hi", "cmp_max"}
      BY <2>1, <2>5, <3>1, Turns
    <3>3. Sets(handler) => Sets(handler)'
      BY <2>3, <2>5 DEF handler
    <3>4. Busy'
      BY <3>2 DEF Busy
    <3> QED BY <1>4, <2>2, <3>1, <3>3, <3>4 DEF Intervals
  <2> QED BY <2>4, <2>5 DEF Threads
<1>17. ASSUME NEW t \in Threads, StoreCompare(t) PROVE WindowInv'
  <2>1. /\ Moves(t) /\ thread'[t].op = thread[t].op /\ thread'[t].new = thread[t].new
        /\ \/ thread[t].pc = "cmp_max" /\ thread'[t].pc = "cmp_hi"
           \/ /\ thread[t].pc = "cmp_hi" /\ thread'[t].pc = "cmp_lo"
              /\ mtimecmp'["hi"] = thread[t].new["hi"]
           \/ /\ thread[t].pc = "cmp_lo" /\ thread'[t].pc = "set"
              /\ mtimecmp'["lo"] = thread[t].new["lo"] /\ mtimecmp'["hi"] = mtimecmp["hi"]
    BY <1>17, StoreMoves
  <2>2. UNCHANGED <<mtime, since, mie, time_increment, meddled>>
    BY <1>17 DEF StoreCompare
  <2>3. Sets(thread[t]) => Sets(thread[t])'
    BY <2>1, <2>2 DEF Sets, Window, ReadPcs, SetPcs, HandlerPcs
  <2>4. CASE t = "main"
    <3>1. /\ ~Busy /\ handler' = handler /\ main'.op = main.op
          /\ main.pc \in SetPcs /\ main.pc # "csrs_mstatus" /\ main'.pc # "csrs_mstatus"
          /\ main'.pc \in SetPcs
      BY <2>1, <2>4, Turns DEF SetPcs
    <3>2. Sets(main) => Sets(main)'
      BY <2>3, <2>4 DEF main
    <3>3. Intervals => ~mie
      BY <3>1 DEF Intervals, Setting, ControlInv
    <3>4. Intervals /\ main'.op = "timer_enable" => Starts(main)'
      BY <3>1, <3>2 DEF Intervals, Starts, SetPcs
    <3>5. CASE ~meddled
      BY <1>3, <2>2, <3>1, <3>3, <3>4, <3>5 DEF WindowInv
    <3> QED BY <2>2, <3>5 DEF WindowInv
  <2>5. CASE t = "handler"
    <3>1. Busy /\ main' = main /\ mie /\ handler'.pc \in SetPcs
      BY <2>1, <2>5, Turns DEF ControlInv, SetPcs
    <3>2. Sets(handler) => Sets(handler)'
      BY <2>3, <2>5 DEF handler
    <3>3. Busy'
      BY <3>1 DEF Busy, SetPcs
    <3> QED BY <1>4, <2>2, <3>1, <3>2, <3>3 DEF Intervals
  <2> QED BY <2>4, <2>5 DEF Threads
<1>18. CASE Enter
  <2>1. ~Busy /\ main' = main /\ handler'.pc = "read_hi" /\ handler'.base = time_increment
    BY <1>18, EnterMoves
  <2>2. mie /\ UNCHANGED <<time_increment, mie, meddled>>
    BY <1>18 DEF Enter, Enabled
  <2>3. Intervals => Sets(handler)'
    BY <2>1, <2>2 DEF Intervals, Sets, ReadPcs, SetPcs, HandlerPcs
  <2>4. Busy'
    BY <2>1 DEF Busy
  <2> QED BY <1>4, <2>1, <2>2, <2>3, <2>4
<1>19. CASE Leave
  <2>1. Busy /\ handler.pc = "set" /\ handler' = Idle /\ main' = main
    BY <1>19, LeaveMoves
  <2>2. mie /\ UNCHANGED <<time_increment, mie, meddled, mtimecmp, since, mtime>>
    BY <1>19, <2>1 DEF Leave, ControlInv
  <2>3. Intervals => Window(Value(mtimecmp))
    <3> SUFFICES ASSUME Intervals PROVE Window(Value(mtimecmp))
      OBVIOUS
    <3>1. /\ Window(Value(handler.new))
          /\ mtimecmp["hi"] = handler.new["hi"] /\ mtimecmp["lo"] = handler.new["lo"]
      BY <2>1 DEF Intervals, Sets, SetPcs
    <3> QED BY <3>1, SameHalves, Zenon
  <2>4. ~Busy'
    BY <2>1 DEF Busy, Idle
  <2> QED BY <1>4, <2>1, <2>2, <2>3, <2>4 DEF Window
<1>20. CASE Tick
  <2>1. /\ UNCHANGED <<main, handler, Busy, mie, time_increment, mtimecmp, since, meddled>>
        /\ mtime' = mtime + 1
    BY <1>20 DEF Tick, main, handler, Busy
  <2>2. \A n \in Int : Window(n) => Window(n)'
    BY <1>1, <2>1 DEF Window
  <2>3. Value(main.new) \in Int /\ Value(handler.new) \in Int
    BY ThreadStates, ValueType DEF ThreadState
  <2>4. Sets(main) => Sets(main)'
    BY <2>1, <2>2, <2>3 DEF Sets
  <2>5. Sets(handler) => Sets(handler)'
    BY <2>1, <2>2, <2>3 DEF Sets
  <2>6. Starts(main) => Starts(main)'
    BY <2>1, <2>4 DEF Starts
  <2> QED BY <1>1, <2>1, <2>2, <2>5, <2>6 DEF WindowInv, Intervals, Setting
<1>21. CASE UNCHANGED vars
  <2>1. UNCHANGED <<main, handler, mie, time_increment, mtimecmp, mtime, since, meddled>>
    BY <1>21 DEF vars, main, handler
  <2> QED BY <1>2, <2>1
<1> QED BY <1>6, <1>7, <1>8, <1>9, <1>10, <1>11, <1>12, <1>13, <1>14, <1>15, <1>16, <1>17,
           <1>18, <1>19, <1>20, <1>21 DEF Next, Main, Either

LEMMA IntervalsHold == Spec => [](TypeOK /\ ControlInv /\ WindowInv)
<1>1. Init => ControlInv /\ WindowInv
  <2> SUFFICES ASSUME Init PROVE ControlInv /\ WindowInv
    OBVIOUS
  <2>1. main = Idle /\ handler = Idle /\ ~Busy /\ ~mie /\ since <= mtime
    BY DEF Init, Threads, main, handler, Busy, Idle
  <2>2. ControlInv
    BY <2>1 DEF ControlInv, Idle, ReadPcs, SetPcs
  <2>3. main.op # "timer_enable" /\ ~Setting(main)
    BY <2>1 DEF Idle, Setting
  <2> QED BY <2>1, <2>2, <2>3 DEF WindowInv, Intervals
<1> QED BY <1>1, TypeCorrect, ReadInvHolds, ControlStep, WindowStep, PTL DEF Spec

(* However main's calls and the handler interleave, the next interrupt is   *)
(* at most a time base away whenever it can come: no half set compare       *)
(* register is left behind, for halves and time bases of any width.         *)
THEOREM InterruptsNotLate == Spec => []NeverLate
<1>1. TypeOK /\ ControlInv /\ WindowInv => NeverLate
  BY DEF ControlInv, WindowInv, Intervals, Window, NeverLate, Enabled
<1> QED BY <1>1, IntervalsHold, PTL

(* The interrupts come at least a time base after timer_enable and apart,   *)
(* whatever main calls in between, unless it sets a running timer.          *)
THEOREM InterruptsApart == Spec => AtLeastTimeBase
<1>1. Spec => [](TypeOK /\ ControlInv /\ WindowInv)
  BY TypeCorrect, IntervalsHold, PTL
<1>2. TypeOK /\ ControlInv /\ WindowInv /\ [Next]_vars
        => [Enter /\ ~meddled => since + Value(time_increment) <= mtime]_vars
  <2> SUFFICES ASSUME TypeOK, ControlInv, WindowInv, Enter, ~meddled
               PROVE  since + Value(time_increment) <= mtime
    OBVIOUS
  <2>1. mie /\ ~Busy /\ Value(mtimecmp) <= mtime
    BY EnterMoves DEF Enter, Enabled
  <2>2. since + Value(time_increment) <= Value(mtimecmp)
    BY <2>1 DEF WindowInv, Intervals, Window
  <2>3. /\ since \in Int /\ mtime \in Int /\ Value(mtimecmp) \in Int
        /\ Value(time_increment) \in Int
    BY ValueType DEF TypeOK
  <2> QED BY <2>1, <2>2, <2>3
<1> QED BY <1>1, <1>2, PTL DEF Spec, AtLeastTimeBase

------------------------------------------------------------------------------
(* The compare register is never before a time that is due, unless the      *)
(* handler interrupts timecmp_update between its last two stores.           *)

Good == \E d \in due : d <= Value(mtimecmp)

(* Main in the middle of timecmp_update: the interim low half is greatest.  *)
Between(r) ==
  /\ r.pc \in {"cmp_hi", "cmp_lo"} => mtimecmp["lo"] = R - 1 /\ Value(r.new) \in due
  /\ r.pc = "cmp_lo" => mtimecmp["hi"] = r.new["hi"]

EarlyInv ==
  /\ Busy /\ ~overlapped => main.pc \notin {"cmp_hi", "cmp_lo"}
  /\ Busy /\ handler.pc = "cmp_lo" => mtimecmp["hi"] = handler.new["hi"]
  /\ Busy /\ handler.pc = "set" => Good
  /\ ~Busy /\ ~overlapped =>
       /\ mie \/ main.pc \in {"set", "csrs_mstatus"} => Good
       /\ Between(main)

LEMMA EarlyStep == TypeOK /\ ControlInv /\ EarlyInv /\ [Next]_vars => EarlyInv'
<1> SUFFICES ASSUME TypeOK, ControlInv, EarlyInv, [Next]_vars PROVE EarlyInv'
  OBVIOUS
<1> USE DEF device, shared, history
(* Main moves outside timecmp_update's stores. *)
<1>1. ASSUME UNCHANGED <<mtimecmp, due, overlapped, handler>>, ~Busy,
             mie' => mie \/ main.pc \in {"set", "csrs_mstatus"},
             main'.pc \notin {"cmp_hi", "cmp_lo", "set"},
             main'.pc = "csrs_mstatus" => main.pc \in {"set", "csrs_mstatus"}
      PROVE  EarlyInv'
  <2>1. ~Busy'
    BY <1>1 DEF Busy
  <2>2. Good' <=> Good
    BY <1>1 DEF Good
  <2>3. Between(main)'
    BY <1>1 DEF Between
  <2> QED BY <1>1, <2>1, <2>2, <2>3 DEF EarlyInv
<1>2. ASSUME UNCHANGED <<mtimecmp, due, overlapped, handler, main>>, mie' => mie
      PROVE  EarlyInv'
  BY <1>2 DEF EarlyInv, Busy, Good, Between
<1>3. ASSUME NEW op, NEW pc \in {"clear", "read_hi", "load"}, NEW todo, NEW base, NEW from,
             Call(op, pc, todo, base, from), UNCHANGED <<mtimecmp, due, overlapped, mie>>
      PROVE  EarlyInv'
  <2>1. ~Busy /\ handler' = handler /\ main'.pc = pc
    BY <1>3, CallMoves
  <2> QED BY <1>1, <1>3, <2>1
<1>4. CASE CallTimerEnable \/ CallTimerRead \/ CallGetElapsedTime
  BY <1>3, <1>4 DEF CallTimerEnable, CallTimerRead, CallGetElapsedTime
<1>5. CASE CallTimecmpUpdate
  <2>1. ~Busy /\ handler' = handler /\ main'.pc = "cmp_max"
    BY <1>5, UpdateMoves
  <2> QED BY <1>1, <1>5, <2>1 DEF CallTimecmpUpdate
<1>6. CASE TimerDisable
  <2>1. UNCHANGED <<main, handler>>
    BY <1>6 DEF TimerDisable, main, handler
  <2> QED BY <1>2, <1>6, <2>1 DEF TimerDisable
<1>7. CASE ClearElapsed \/ StoreIncrement
  <2>1. PICK h \in Halves, pc \in {"clear", "store"}, next \in {"store", "read_hi"},
             then \in SUBSET Halves : AccessHalf(pc, h, next, then, main)
    BY <1>7 DEF ClearElapsed, StoreIncrement, main
  <2>2. ~Busy /\ handler' = handler /\ main'.pc \in {"clear", "store", "read_hi"}
    BY <2>1, ThreadStates, Accessed
  <2> QED BY <1>1, <1>7, <2>2 DEF ClearElapsed, StoreIncrement
<1>8. CASE LoadElapsed
  <2>1. PICK h \in Halves :
          AccessHalf("load", h, "loaded", {}, [main EXCEPT !.read[h] = time_elapsed[h]])
    BY <1>8 DEF LoadElapsed, main
  <2> DEFINE r == [main EXCEPT !.read[h] = time_elapsed[h]]
  <2>2. r \in ThreadState /\ r.pc = main.pc
    BY ThreadStates DEF ThreadState, TypeOK, Double
  <2> HIDE DEF r
  <2>3. AccessHalf("load", h, "loaded", {}, r)
    BY <2>1 DEF r
  <2>4. ~Busy /\ handler' = handler /\ main'.pc \in {"load", "loaded"}
    BY <2>2, <2>3, Accessed
  <2> QED BY <1>1, <1>8, <2>4 DEF LoadElapsed
<1>9. CASE EnableTimerInterrupt
  <2>1. ~Busy /\ main.pc = "set" /\ handler' = handler /\ main'.pc = "csrs_mstatus"
    BY <1>9, EnableMoves
  <2> QED BY <1>1, <1>9, <2>1 DEF EnableTimerInterrupt
<1>10. CASE EnableInterrupts \/ ReturnOthers
  <2>1. ~Busy /\ main'.pc = "idle" /\ handler' = handler
    BY <1>10, ReturnMoves DEF Idle
  <2> QED BY <1>1, <1>10, <2>1 DEF EnableInterrupts, ReturnOthers
<1>11. ASSUME NEW t \in Threads, ReadHigh(t) \/ ReadLow(t) \/ Recheck(t) PROVE EarlyInv'
  <2>1. /\ Moves(t)
        /\ thread'[t].pc \in {"read_hi", "read_lo", "recheck", "cmp_max"} \/ thread'[t] = Idle
        /\ t = "handler" => thread'[t] # Idle
    <3>1. CASE ReadHigh(t) \/ ReadLow(t)
      <4>1. Moves(t) /\ thread'[t].pc \in {"read_lo", "recheck"}
        BY <3>1, ReadMoves
      <4> QED BY <4>1 DEF Idle
    <3>2. CASE Recheck(t)
      <4>1. /\ Moves(t)
            /\ \/ thread'[t].pc \in {"read_hi", "cmp_max"}
               \/ thread'[t] = Idle /\ thread[t].op = "timer_read"
        BY <3>2, RecheckMoves
      <4>2. t = "handler" => thread[t].op # "timer_read"
        BY <4>1, Turns DEF ControlInv
      <4> QED BY <4>1, <4>2 DEF Idle
    <3> QED BY <1>11, <3>1, <3>2
  <2>2. UNCHANGED <<mtimecmp, due, overlapped, mie>>
    BY <1>11 DEF ReadHigh, ReadLow, Recheck
  <2>3. thread'[t].pc \in {"idle", "read_hi", "read_lo", "recheck", "cmp_max"}
    BY <2>1 DEF Idle
  <2>4. CASE t = "main"
    <3>1. ~Busy /\ handler' = handler
          /\ main'.pc \in {"idle", "read_hi", "read_lo", "recheck", "cmp_max"}
      BY <2>1, <2>3, <2>4, Turns
    <3> QED BY <1>1, <2>2, <3>1
  <2>5. CASE t = "handler"
    <3>1. Busy /\ main' = main
          /\ handler'.pc \in {"read_hi", "read_lo", "recheck", "cmp_max"}
      BY <2>1, <2>5, Turns
    <3>2. Busy'
      BY <3>1 DEF Busy
    <3> QED BY <2>2, <3>1, <3>2 DEF EarlyInv
  <2> QED BY <2>4, <2>5 DEF Threads
<1>12. ASSUME NEW t \in Threads, StoreCompare(t) PROVE EarlyInv'
  <2> DEFINE new == thread[t].new
  <2>1. /\ Moves(t) /\ thread'[t].op = thread[t].op /\ thread'[t].new = new
        /\ new["hi"] \in 0..(R - 1) /\ new["lo"] \in 0..(R - 1)
        /\ \/ /\ thread[t].pc = "cmp_max" /\ thread'[t].pc = "cmp_hi"
              /\ mtimecmp'["lo"] = R - 1 /\ mtimecmp'["hi"] = mtimecmp["hi"]
              /\ due' = due \cup {Value(new)}
           \/ /\ thread[t].pc = "cmp_hi" /\ thread'[t].pc = "cmp_lo"
              /\ mtimecmp'["hi"] = new["hi"] /\ mtimecmp'["lo"] = mtimecmp["lo"]
              /\ due' = due \cup {Value(new)}
           \/ /\ thread[t].pc = "cmp_lo" /\ thread'[t].pc = "set"
              /\ mtimecmp'["lo"] = new["lo"] /\ mtimecmp'["hi"] = mtimecmp["hi"]
              /\ due' = {Value(new)}
    BY <1>12, StoreMoves
  <2>2. UNCHANGED <<overlapped, mie>>
    BY <1>12 DEF StoreCompare
  <2>3. Value(new) \in Int /\ Value(mtimecmp) \in Int
    BY ThreadStates, ValueType DEF ThreadState, TypeOK
  <2>4. /\ mtimecmp["lo"] \in 0..(R - 1) /\ mtimecmp["hi"] \in 0..(R - 1)
        /\ R \in Nat /\ \A d \in due : d \in Int
    BY TimerAssumption DEF TypeOK, Double, Halves
  <2> HIDE DEF new
  (* The interim low half postpones. *)
  <2>5. thread'[t].pc = "cmp_hi" /\ Good => Good'
    <3>1. thread'[t].pc = "cmp_hi" => Value(mtimecmp) <= Value(mtimecmp')
      BY <2>1, <2>4 DEF Value
    <3>2. thread'[t].pc = "cmp_hi" => Value(mtimecmp') \in Int /\ due \subseteq due'
      BY <2>1, <2>4 DEF Value
    <3> QED BY <2>3, <2>4, <3>1, <3>2 DEF Good
  (* With the new high half it is not before the new time. *)
  <2>6. thread'[t].pc = "cmp_lo" /\ mtimecmp["lo"] = R - 1 => Good'
    <3>1. thread'[t].pc = "cmp_lo" /\ mtimecmp["lo"] = R - 1 => Value(new) <= Value(mtimecmp')
      BY <2>1, <2>4 DEF Value
    <3> QED BY <2>1, <3>1 DEF Good
  <2>7. thread'[t].pc = "set" /\ mtimecmp["hi"] = new["hi"] => Good'
    <3>1. thread'[t].pc = "set" /\ mtimecmp["hi"] = new["hi"] => Value(new) = Value(mtimecmp')
      BY <2>1, SameHalves
    <3> QED BY <2>1, <2>3, <3>1 DEF Good
  <2>8. CASE t = "main"
    <3>1. /\ ~Busy /\ handler' = handler /\ main.pc = thread[t].pc /\ main'.pc = thread'[t].pc
          /\ main.new = new /\ main'.new = new
      BY <2>1, <2>8, Turns DEF new
    <3>2. ~Busy'
      BY <3>1 DEF Busy
    <3>3. ASSUME ~overlapped'
          PROVE  Between(main)' /\ (mie' \/ main'.pc \in {"set", "csrs_mstatus"} => Good')
      <4>1. Between(main) /\ (mie => Good)
        BY <2>2, <3>1, <3>3 DEF EarlyInv
      <4>2. CASE main.pc = "cmp_max"
        BY <2>1, <2>2, <2>5, <3>1, <4>1, <4>2 DEF Between
      <4>3. CASE main.pc = "cmp_hi"
        BY <2>1, <2>2, <2>6, <3>1, <4>1, <4>3 DEF Between
      <4>4. CASE main.pc = "cmp_lo"
        BY <2>1, <2>2, <2>7, <3>1, <4>1, <4>4 DEF Between
      <4> QED BY <2>1, <3>1, <4>2, <4>3, <4>4
    <3> QED BY <3>2, <3>3 DEF EarlyInv
  <2>9. CASE t = "handler"
    <3>1. /\ Busy /\ main' = main /\ handler.pc = thread[t].pc /\ handler'.pc = thread'[t].pc
          /\ handler.new = new /\ handler'.new = new
      BY <2>1, <2>9, Turns DEF new
    <3>2. Busy'
      BY <2>1, <3>1 DEF Busy
    <3>3. handler'.pc = "cmp_lo" => mtimecmp'["hi"] = new["hi"]
      BY <2>1, <3>1
    <3>4. handler'.pc = "set" => Good'
      BY <2>1, <2>7, <3>1 DEF EarlyInv
    <3> QED BY <2>2, <3>1, <3>2, <3>3, <3>4 DEF EarlyInv
  <2> QED BY <2>8, <2>9 DEF Threads
<1>13. CASE Enter
  <2>1. ~Busy /\ main' = main /\ handler'.pc = "read_hi"
    BY <1>13, EnterMoves
  <2>2. overlapped' = (main.pc \in {"cmp_hi", "cmp_lo"})
    BY <1>13 DEF Enter, main
  <2>3. Busy'
    BY <2>1 DEF Busy
  <2> QED BY <2>1, <2>2, <2>3 DEF EarlyInv
<1>14. CASE Leave
  <2>1. Busy /\ handler.pc = "set" /\ handler' = Idle /\ main' = main
    BY <1>14, LeaveMoves
  <2>2. UNCHANGED <<mtimecmp, due, overlapped>>
    BY <1>14 DEF Leave
  <2>3. ~Busy' /\ Good'
    BY <2>1, <2>2 DEF Busy, Idle, Good, EarlyInv
  <2>4. ~overlapped' => Between(main)'
    BY <2>1, <2>2 DEF EarlyInv, Between
  <2> QED BY <2>3, <2>4 DEF EarlyInv
<1>15. CASE Tick
  <2>1. UNCHANGED <<main, handler, mtimecmp, due, overlapped, mie>>
    BY <1>15 DEF Tick, main, handler
  <2> QED BY <1>2, <2>1
<1>16. CASE UNCHANGED vars
  <2>1. UNCHANGED <<main, handler, mtimecmp, due, overlapped, mie>>
    BY <1>16 DEF vars, main, handler
  <2> QED BY <1>2, <2>1
<1> QED BY <1>4, <1>5, <1>6, <1>7, <1>8, <1>9, <1>10, <1>11, <1>12, <1>13, <1>14, <1>15,
           <1>16 DEF Next, Main, Either

(* No interrupt comes before the time it is set for, nor, while main        *)
(* changes the time, before both the old and the new one, unless the        *)
(* handler changes it in the middle: the order of timecmp_update's stores   *)
(* is right for halves of any width.                                        *)
THEOREM InterruptsNotEarly == Spec => NeverEarly
<1>1. Init => EarlyInv
  <2> SUFFICES ASSUME Init PROVE EarlyInv
    OBVIOUS
  <2>1. main = Idle /\ handler = Idle /\ ~Busy /\ ~mie
    BY DEF Init, Threads, main, handler, Busy, Idle
  <2> QED BY <2>1 DEF EarlyInv, Between, Idle
<1>2. TypeOK /\ ControlInv /\ EarlyInv /\ [Next]_vars
        => [Enter /\ ~overlapped => \E d \in due : d <= mtime]_vars
  <2> SUFFICES ASSUME TypeOK, EarlyInv, Enter, ~overlapped
               PROVE  \E d \in due : d <= mtime
    OBVIOUS
  <2>1. mie /\ ~Busy /\ Value(mtimecmp) <= mtime
    BY EnterMoves DEF Enter, Enabled
  <2>2. Good
    BY <2>1 DEF EarlyInv
  <2>3. /\ mtime \in Int /\ Value(mtimecmp) \in Int /\ \A d \in due : d \in Int
    BY ValueType DEF TypeOK
  <2> QED BY <2>1, <2>2, <2>3 DEF Good
<1>3. Spec => [](TypeOK /\ ControlInv)
  BY TypeCorrect, IntervalsHold, PTL
<1> QED BY <1>1, <1>2, <1>3, EarlyStep, PTL DEF Spec, NeverEarly

==============================================================================
