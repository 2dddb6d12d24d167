------------------------------ MODULE IbexTimer ------------------------------
(***************************************************************************)
(* The timer of the simulated Ibex system (src/libtest/verilator_ibex):    *)
(* the main program and the interrupt handler that preempts it share 64    *)
(* bit variables and device registers, which a 32 bit core accesses one    *)
(* half at a time.                                                         *)
(*                                                                         *)
(* time_increment is not volatile; its stores are taken in program order.  *)
(***************************************************************************)
EXTENDS Integers

CONSTANTS R,           \* values of one half: 2^32 on the core
          TimeBases,   \* arguments of timer_enable
          NewTimes,    \* arguments of timecmp_update
          MaxTime      \* bound: mtime

(* The bound keeps the 64 bit time and the times set from it in range. *)
ASSUME TimerAssumption ==
  /\ R \in Nat \ {0, 1} /\ MaxTime \in 0..(R * R - 1)
  /\ TimeBases \subseteq 0..(R * R - 1 - MaxTime)
  /\ NewTimes \subseteq 0..(R * R - 1)

VARIABLES mtime,           \* the device's clock
          mtimecmp,        \* the device's compare register
          mie, mstatus,    \* timer interrupt, global interrupts enabled
          time_elapsed, time_increment,
          thread,          \* what main and the handler are doing
          due,             \* history: the times the interrupt is set for
          since,           \* history: mtime when the interval began
          meddled,         \* history: main set the timer while it was running
          overlapped       \* history: the handler interrupted timecmp_update

device == <<mtimecmp, mie, mstatus>>
shared == <<time_elapsed, time_increment>>
history == <<due, since, meddled, overlapped>>
vars == <<mtime, device, shared, thread, history>>

Threads == {"main", "handler"}
Halves == {"hi", "lo"}
Double == [Halves -> 0..(R - 1)]
Value(v) == v["hi"] * R + v["lo"]
Split(n) == [h \in Halves |-> IF h = "hi" THEN (n \div R) % R ELSE n % R]

Idle == [op |-> "none", pc |-> "idle", todo |-> {}, base |-> Split(0),
         read |-> Split(0), new |-> Split(0), from |-> 0]

Enabled == mie /\ mstatus
Running(t) == IF thread["handler"].pc = "idle" THEN t = "main" ELSE t = "handler"
At(t, pc) == Running(t) /\ thread[t].pc = pc
Thread(t, r) == thread' = [thread EXCEPT ![t] = r]
Goto(t, pc) == Thread(t, [thread[t] EXCEPT !.pc = pc])

------------------------------------------------------------------------------
(* Instructions of both threads: timer_read and timecmp_update. *)

ReadHigh(t) ==
  /\ At(t, "read_hi")
  /\ Thread(t, [thread[t] EXCEPT !.read["hi"] = Split(mtime)["hi"],
                                 !.from = mtime, !.pc = "read_lo"])
  /\ UNCHANGED <<mtime, device, shared, history>>

ReadLow(t) ==
  /\ At(t, "read_lo")
  /\ Thread(t, [thread[t] EXCEPT !.read["lo"] = Split(mtime)["lo"], !.pc = "recheck"])
  /\ UNCHANGED <<mtime, device, shared, history>>

(* Mutant of ReadAgain: take the two halves as they are. *)
ReadAgain_Never(r) == FALSE

(* while (current_timeh != ...) *)
ReadAgain(r) == r.read["hi"] # Split(mtime)["hi"]

(* Mutant of NewTime: the sum in 32 bits. *)
NewTime_Narrow(now, time_base) == Split((Value(now) + Value(time_base)) % R)

(* current_time += time_base *)
NewTime(now, time_base) == Split((Value(now) + Value(time_base)) % (R * R))

Recheck(t) ==
  /\ At(t, "recheck")
  /\ LET r == thread[t]
     IN  CASE ReadAgain(r) -> Goto(t, "read_hi")
           [] ~ReadAgain(r) /\ r.op = "timer_read" -> Thread(t, Idle)
           [] OTHER -> Thread(t, [Idle EXCEPT !.op = r.op, !.pc = "cmp_max",
                                              !.new = NewTime(r.read, r.base)])
  /\ UNCHANGED <<mtime, device, shared, history>>

(* Mutant of CompareStores: the low half of the new time at once. *)
CompareStores_LowFirst(new) ==
  [cmp_max |-> [half |-> "lo", value |-> new["lo"], next |-> "cmp_hi"],
   cmp_hi  |-> [half |-> "hi", value |-> new["hi"], next |-> "cmp_lo"],
   cmp_lo  |-> [half |-> "lo", value |-> new["lo"], next |-> "set"]]

(* Mutant of CompareStores: the low half stays at its interim value. *)
CompareStores_NoLow(new) ==
  [cmp_max |-> [half |-> "lo", value |-> R - 1, next |-> "cmp_hi"],
   cmp_hi  |-> [half |-> "hi", value |-> new["hi"], next |-> "cmp_lo"],
   cmp_lo  |-> [half |-> "lo", value |-> R - 1, next |-> "set"]]

(* The stores of timecmp_update, in order.  The first keeps every time set  *)
(* in between from being earlier than both the old and the new one.         *)
CompareStores(new) ==
  [cmp_max |-> [half |-> "lo", value |-> R - 1, next |-> "cmp_hi"],
   cmp_hi  |-> [half |-> "hi", value |-> new["hi"], next |-> "cmp_lo"],
   cmp_lo  |-> [half |-> "lo", value |-> new["lo"], next |-> "set"]]

StoreCompare(t) ==
  \E pc \in {"cmp_max", "cmp_hi", "cmp_lo"} :
    LET new == thread[t].new
        store == CompareStores(new)[pc]
    IN  /\ At(t, pc)
        /\ mtimecmp' = [mtimecmp EXCEPT ![store.half] = store.value]
        /\ Goto(t, store.next)
        /\ due' = (IF store.next = "set" THEN {} ELSE due) \cup {Value(new)}
        /\ UNCHANGED <<mtime, mie, mstatus, shared, since, meddled, overlapped>>

------------------------------------------------------------------------------
(* The main program, which calls one function at a time. *)

Call(op, pc, todo, base, from) ==
  /\ At("main", "idle")
  /\ Thread("main", [Idle EXCEPT !.op = op, !.pc = pc, !.todo = todo,
                                 !.base = base, !.from = from])

Return == Thread("main", Idle)

CallTimerEnable ==
  /\ \E b \in TimeBases : Call("timer_enable", "clear", Halves, Split(b), 0)
  /\ since' = mtime /\ meddled' = Enabled
  /\ UNCHANGED <<mtime, device, shared, due, overlapped>>

CallTimecmpUpdate ==
  /\ At("main", "idle")
  /\ \E n \in NewTimes :
       Thread("main", [Idle EXCEPT !.op = "timecmp_update", !.pc = "cmp_max",
                                   !.new = Split(n)])
  /\ meddled' = (meddled \/ Enabled)
  /\ UNCHANGED <<mtime, device, shared, due, since, overlapped>>

CallTimerRead ==
  /\ Call("timer_read", "read_hi", {}, Split(0), 0)
  /\ UNCHANGED <<mtime, device, shared, history>>

CallGetElapsedTime ==
  /\ Call("get_elapsed_time", "load", Halves, Split(0), Value(time_elapsed))
  /\ UNCHANGED <<mtime, device, shared, history>>

TimerDisable ==
  /\ At("main", "idle")
  /\ mie' = FALSE
  /\ UNCHANGED <<mtime, mtimecmp, mstatus, shared, thread, history>>

(* Main accesses one half of a 64 bit variable, in the order the compiler   *)
(* chose; after both comes next, which accesses the halves "then".  r is    *)
(* the state of main after this access.                                     *)
AccessHalf(pc, h, next, then, r) ==
  /\ At("main", pc) /\ h \in r.todo
  /\ Thread("main", IF r.todo = {h} THEN [r EXCEPT !.pc = next, !.todo = then]
                                    ELSE [r EXCEPT !.todo = @ \ {h}])

(* time_elapsed = 0 *)
ClearElapsed ==
  /\ \E h \in Halves :
       /\ AccessHalf("clear", h, "store", Halves, thread["main"])
       /\ time_elapsed' = [time_elapsed EXCEPT ![h] = 0]
  /\ UNCHANGED <<mtime, device, time_increment, history>>

(* time_increment = time_base *)
StoreIncrement ==
  /\ \E h \in Halves :
       /\ AccessHalf("store", h, "read_hi", {}, thread["main"])
       /\ time_increment' = [time_increment EXCEPT ![h] = thread["main"].base[h]]
  /\ UNCHANGED <<mtime, device, time_elapsed, history>>

(* return time_elapsed *)
LoadElapsed ==
  /\ \E h \in Halves :
       AccessHalf("load", h, "loaded", {},
                  [thread["main"] EXCEPT !.read[h] = time_elapsed[h]])
  /\ UNCHANGED <<mtime, device, shared, history>>

(* timer_enable: csrs mie *)
EnableTimerInterrupt ==
  /\ At("main", "set") /\ thread["main"].op = "timer_enable"
  /\ mie' = TRUE
  /\ Goto("main", "csrs_mstatus")
  /\ UNCHANGED <<mtime, mtimecmp, mstatus, shared, history>>

(* timer_enable: csrs mstatus *)
EnableInterrupts ==
  /\ At("main", "csrs_mstatus")
  /\ mstatus' = TRUE
  /\ Return
  /\ UNCHANGED <<mtime, mtimecmp, mie, shared, history>>

ReturnOthers ==
  /\ \/ At("main", "loaded")
     \/ At("main", "set") /\ thread["main"].op = "timecmp_update"
  /\ Return
  /\ UNCHANGED <<mtime, device, shared, history>>

------------------------------------------------------------------------------
(* The interrupt and its handler; entering and leaving it switch mstatus. *)

Enter ==
  /\ Enabled /\ Running("main")
  /\ Value(mtimecmp) <= mtime
  /\ mstatus' = FALSE
  /\ Thread("handler", [Idle EXCEPT !.op = "handler", !.pc = "read_hi",
                                    !.base = time_increment])
  /\ since' = mtime
  /\ overlapped' = (thread["main"].pc \in {"cmp_hi", "cmp_lo"})
  /\ UNCHANGED <<mtime, mtimecmp, mie, shared, due, meddled>>

(* Mutant of Successor: no carry into the high half. *)
Successor_NoCarry(v) == [v EXCEPT !["lo"] = @ + 1]

Successor(v) == Split((Value(v) + 1) % (R * R))

(* time_elapsed++ *)
Leave ==
  /\ At("handler", "set")
  /\ time_elapsed' = Successor(time_elapsed)
  /\ mstatus' = TRUE
  /\ Thread("handler", Idle)
  /\ UNCHANGED <<mtime, mtimecmp, mie, time_increment, history>>

Tick ==
  /\ mtime < MaxTime
  /\ mtime' = mtime + 1
  /\ UNCHANGED <<device, shared, thread, history>>

------------------------------------------------------------------------------

(* The start-up code clears the variables, the reset the enables. *)
Init ==
  /\ mtime = 0 /\ mtimecmp \in Double
  /\ mie = FALSE /\ mstatus = FALSE
  /\ time_elapsed = Split(0) /\ time_increment = Split(0)
  /\ thread = [t \in Threads |-> Idle]
  /\ due = {} /\ since = 0 /\ meddled = FALSE /\ overlapped = FALSE

Main ==
  \/ CallTimerEnable \/ CallTimecmpUpdate \/ CallTimerRead \/ CallGetElapsedTime
  \/ TimerDisable \/ ClearElapsed \/ StoreIncrement \/ LoadElapsed
  \/ EnableTimerInterrupt \/ EnableInterrupts \/ ReturnOthers

Either == \E t \in Threads :
            ReadHigh(t) \/ ReadLow(t) \/ Recheck(t) \/ StoreCompare(t)

Next == Main \/ Either \/ Enter \/ Leave \/ Tick

Spec == Init /\ [][Next]_vars

------------------------------------------------------------------------------

Pcs == {"idle", "read_hi", "read_lo", "recheck", "cmp_max", "cmp_hi", "cmp_lo",
        "set", "clear", "store", "csrs_mstatus", "load", "loaded"}
Ops == {"none", "timer_enable", "timecmp_update", "timer_read",
        "get_elapsed_time", "handler"}
ThreadState ==
  [op : Ops, pc : Pcs, todo : SUBSET Halves, base : Double, read : Double,
   new : Double, from : 0..(R * R - 1)]

TypeOK ==
  /\ mtime \in 0..MaxTime /\ mtimecmp \in Double
  /\ mie \in BOOLEAN /\ mstatus \in BOOLEAN
  /\ time_elapsed \in Double /\ time_increment \in Double
  /\ thread \in [Threads -> ThreadState]
  /\ due \subseteq 0..(R * R - 1) /\ since \in 0..MaxTime
  /\ meddled \in BOOLEAN /\ overlapped \in BOOLEAN

(* timer_read: the value that passes the re-check is the time at one moment *)
(* between its two readings of the high half, although the low half may     *)
(* overflow and the handler may run in between.                             *)
ReadIsMoment ==
  \A t \in Threads :
    At(t, "recheck") /\ ~ReadAgain(thread[t]) =>
      thread[t].from <= Value(thread[t].read) /\ Value(thread[t].read) <= mtime

(* timecmp_update: no interrupt comes before the time it is set for, nor,   *)
(* while the time is being changed, before both the old and the new one,    *)
(* unless the handler has changed it in the middle.                         *)
NeverEarly ==
  [][Enter /\ ~overlapped => \E d \in due : d <= mtime]_vars

(* timer_enable: the interrupts come at least a time base after it and      *)
(* apart, whatever is called in between, unless main sets a running timer.  *)
AtLeastTimeBase ==
  [][Enter /\ ~meddled => since + Value(time_increment) <= mtime]_vars

(* The next interrupt is never more than a time base away when it can come: *)
(* no half set compare register is left behind.                             *)
NeverLate ==
  Enabled /\ ~meddled => Value(mtimecmp) <= mtime + Value(time_increment)

(* common.h: get_elapsed_time returns the current value, one that           *)
(* time_elapsed has had since the call.                                     *)
ElapsedIsCurrent ==
  thread["main"].pc = "loaded" =>
    /\ thread["main"].from <= Value(thread["main"].read)
    /\ Value(thread["main"].read) <= Value(time_elapsed)

==============================================================================
