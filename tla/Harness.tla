------------------------------- MODULE Harness -------------------------------
(***************************************************************************)
(* A test executable from reset to its end (src/libtest): the start-up     *)
(* code, the tests or benchmarks that setup_tests lists, the summary, and  *)
(* how the run stops.  On the simulated Ibex system ("verilator") the      *)
(* program owns the machine; under the proxy kernel ("kernel") it is a     *)
(* process.                                                                *)
(*                                                                         *)
(* What is printed is a sequence of lines, without the figures of the      *)
(* benchmarks.  Time passes for the counters only where the program looks  *)
(* at them.                                                                *)
(***************************************************************************)
EXTENDS CycleCounter, FiniteSetsExt

CONSTANTS Programs,   \* [system, arch, bss, main, jobs]: the executables
          RamSize,    \* words of RAM from _bss_start on
          Garbage,    \* what the RAM may be filled with at power-on
          MaxResets   \* bound: resets of a behaviour

TEST_SUCCESS == 0
TEST_FAILURE == 1
TEST_SKIPPED == 2

WordSize == 4
Words == 0..(RamSize - 1)
InBss(w, end) == (w + 1) * WordSize <= end

(* The two counts lie in .bss, and the word behind it in the RAM. *)
ASSUME HarnessAssumption ==
  /\ RamSize \in Nat /\ Garbage \subseteq Nat /\ MaxResets \in Nat
  /\ \A p \in Programs :
       /\ p.system \in {"verilator", "kernel"} /\ p.arch \in {"rv32", "rv64"}
       /\ p.main \in {"harness", "counters"}
       /\ p.bss.end \in 0..(RamSize * WordSize - 1)
       /\ p.bss.passed \in Words /\ InBss(p.bss.passed, p.bss.end)
       /\ p.bss.failed \in Words /\ InBss(p.bss.failed, p.bss.end)
       /\ p.bss.passed # p.bss.failed
       /\ \A i \in DOMAIN p.jobs :
            p.jobs[i].kind = "test" => p.jobs[i].ends \in {"success", "skipped", "nothing"}

VARIABLES program,   \* the executable
          ram,       \* the words from _bss_start on
          ptr,       \* x26 of the start-up code
          pc,        \* what the program does next
          run,       \* the locals of main.c and of the test
          log,       \* what has been printed since the reset
          sim,       \* what the simulator, or the kernel, makes of the program
          status,    \* exit status
          truth,     \* history: [name, held, ends] of the tests that returned
          resets

machine == <<program, ram, ptr, resets>>
output == <<log, sim, status>>
harnessVars == <<machine, pc, run, output, truth, counting>>

bss == program.bss
Job == program.jobs[run.job]
Passed == ram[bss.passed]
Failed == ram[bss.failed]
Say(line) == log' = Append(log, line)
Going == sim \in {"running", "halting"}
At(p) == Going /\ pc = p
Goto(p) == pc' = p

Start == [job |-> 1, check |-> 1, held |-> TRUE, result |-> 0,
          length |-> 0, before |-> 0, first |-> 0, torn |-> FALSE]

------------------------------------------------------------------------------
(* crt0.S, from _start on.  .bss holds the counts: it is never empty.       *)

(* Mutant of ClearsMore: the end taken for the last word. *)
ClearsMore_Short(p, end) == p + WordSize < end

(* Mutant of ClearsMore: one word more. *)
ClearsMore_Further(p, end) == p <= end + WordSize

(* ble x26, x27, zero_loop *)
ClearsMore(p, end) == p <= end

ClearBss ==
  /\ At("clear")
  /\ ram' = [ram EXCEPT ![ptr \div WordSize] = 0]
  /\ ptr' = ptr + WordSize
  /\ Goto(IF ClearsMore(ptr', bss.end) THEN "clear" ELSE "main")
  /\ UNCHANGED <<program, resets, run, output, truth, counting>>

------------------------------------------------------------------------------
(* main *)

Banner ==
  /\ At("main") /\ program.main = "harness"
  /\ Say([line |-> "Running tests"])
  /\ run' = Start
  /\ Goto("setup_tests")
  /\ UNCHANGED <<machine, sim, status, truth, counting>>

BeginTest ==
  /\ At("setup_tests") /\ run.job \in DOMAIN program.jobs
  /\ Job.kind = "test"
  /\ Goto("test")
  /\ UNCHANGED <<machine, run, output, truth, counting>>

(* Mutant of Outcome: the number of failed tests. *)
Outcome_Count(failed) == failed

(* What main returns. *)
Outcome(failed) == IF failed > 0 THEN TEST_FAILURE ELSE TEST_SUCCESS

Summary ==
  /\ At("setup_tests") /\ run.job \notin DOMAIN program.jobs
  /\ Say([line |-> "summary", passed |-> Passed, failed |-> Failed])
  /\ run' = [run EXCEPT !.result = Outcome(Failed)]
  /\ Goto("main_returns")
  /\ UNCHANGED <<machine, sim, status, truth, counting>>

------------------------------------------------------------------------------
(* testing_run_test.  A test makes its checks in order and returns at the   *)
(* first that fails; what the code under test has computed is any output.   *)

(* Mutant of memcmp: while (--count > 0). *)
memcmp_Short(a, b, count) ==
  LET differ == {i \in 1..(count - 1) : a[i] # b[i]}
  IN  IF differ = {} THEN 0
      ELSE IF a[Min(differ)] < b[Min(differ)] THEN -1 ELSE 1

memcmp(a, b, count) ==
  LET differ == {i \in 1..count : a[i] # b[i]}
  IN  IF differ = {} THEN 0
      ELSE IF a[Min(differ)] < b[Min(differ)] THEN -1 ELSE 1

Reference == <<1, 1>>
Outputs == {<<1, 1>>, <<1, 2>>, <<0, 1>>}

Equal(out) == IF Job.memcmp THEN memcmp(out, Reference, Len(Reference)) = 0
                            ELSE out = Reference

(* assert(...) *)
Check ==
  /\ At("test") /\ run.check <= Job.checks
  /\ \E out \in Outputs :
       \/ /\ Equal(out)
          /\ run' = [run EXCEPT !.check = @ + 1, !.held = @ /\ out = Reference]
          /\ UNCHANGED <<pc, log>>
       \/ /\ ~Equal(out)
          /\ run' = [run EXCEPT !.held = @ /\ out = Reference, !.result = TEST_FAILURE]
          /\ Say([line |-> "assertion failed"])
          /\ Goto("verdict")
  /\ UNCHANGED <<machine, sim, status, truth, counting>>

(* The value of a function that ends without a return is what the register  *)
(* happens to hold.                                                         *)
Results(ends) == CASE ends = "success" -> {TEST_SUCCESS}
                   [] ends = "skipped" -> {TEST_SKIPPED}
                   [] ends = "nothing" -> {TEST_SUCCESS, TEST_FAILURE, TEST_SKIPPED, 3}

EndOfTest ==
  /\ At("test") /\ run.check = Job.checks + 1
  /\ \E r \in Results(Job.ends) : run' = [run EXCEPT !.result = r]
  /\ Goto("verdict")
  /\ UNCHANGED <<machine, output, truth, counting>>

Word(result) == CASE result = TEST_SUCCESS -> "passed"
                  [] result = TEST_SKIPPED -> "skipped"
                  [] OTHER                 -> "failed"

Increment(w) == ram' = [ram EXCEPT ![w] = @ + 1]

(* The rest of testing_run_test: tell, and count. *)
Verdict ==
  /\ At("verdict")
  /\ LET word == Word(run.result)
     IN  /\ Say([line |-> "verdict", name |-> Job.name, word |-> word])
         /\ CASE word = "passed"  -> Increment(bss.passed)
              [] word = "failed"  -> Increment(bss.failed)
              [] word = "skipped" -> UNCHANGED ram
  /\ truth' = Append(truth, [name |-> Job.name, held |-> run.held, ends |-> Job.ends])
  /\ run' = [Start EXCEPT !.job = run.job + 1]
  /\ Goto("setup_tests")
  /\ UNCHANGED <<program, ptr, resets, sim, status, counting>>

------------------------------------------------------------------------------
(* testing_run_bench *)

FirstLength == 16
RandomSize == 16 * 1024   \* bytes of __RANDOM__

(* A benchmark reads its message from the first random byte on, everything  *)
(* else at fixed places among them.                                         *)
ASSUME BenchAssumption ==
  \A p \in Programs : \A i \in DOMAIN p.jobs :
    p.jobs[i].kind = "bench" =>
      \A r \in p.jobs[i].reads :
        IF r.bytes = "msg_len" THEN r.from = 0 ELSE r.from + r.size <= RandomSize

(* Mutant of MeasuresMore: a bound beyond the random bytes. *)
MeasuresMore_Further(msg_len) == msg_len <= 2 * RandomSize

MeasuresMore(msg_len) == msg_len <= 16 * 1024

BeginBench ==
  /\ At("setup_tests") /\ run.job \in DOMAIN program.jobs
  /\ Job.kind = "bench"
  /\ Say([line |-> "bench", name |-> Job.name])
  /\ run' = [run EXCEPT !.length = FirstLength]
  /\ Goto("lengths")
  /\ UNCHANGED <<machine, sim, status, truth, counting>>

CallGetCycles(from, to) ==
  /\ At(from) /\ CallCounters("get_cycles") /\ Goto(to)

(* uint64_t before = get_cycles() *)
MeasureBefore ==
  /\ MeasuresMore(run.length)
  /\ CallGetCycles("lengths", "before")
  /\ since' = [c \in Counters |-> 0]
  /\ UNCHANGED <<machine, run, output, truth, counter, inhibited>>

GetCycles ==
  /\ Going /\ pc \in {"before", "after", "calls"}
  /\ IF program.arch = "rv64" THEN ReadWhole ELSE ReadHalf
  /\ UNCHANGED <<machine, pc, run, output, truth>>

Before ==
  /\ At("before") /\ GotCycles /\ Return
  /\ run' = [run EXCEPT !.before = call.result, !.first = call.first,
                        !.torn = Torn]
  /\ Goto("benchmark")
  /\ UNCHANGED <<machine, output, truth, counter, inhibited, since>>

(* b(msg_len) returns; uint64_t after = get_cycles() *)
MeasureAfter ==
  /\ CallGetCycles("benchmark", "after")
  /\ UNCHANGED <<machine, run, output, truth, counter, inhibited, since>>

(* after - before *)
Difference(after, before) == (after - before) % (R * R)

(* Mutant of NextLength: the length is not changed. *)
NextLength_Same(msg_len) == msg_len

(* msg_len *= 2 *)
NextLength(msg_len) == msg_len * 2

After ==
  /\ At("after") /\ GotCycles /\ Return
  /\ run' = [run EXCEPT !.length = NextLength(@), !.before = 0, !.first = 0,
                        !.torn = FALSE]
  /\ Goto("lengths")
  /\ UNCHANGED <<machine, output, truth, counter, inhibited, since>>

EndOfBench ==
  /\ At("lengths") /\ ~MeasuresMore(run.length)
  /\ run' = [Start EXCEPT !.job = run.job + 1]
  /\ Goto("setup_tests")
  /\ UNCHANGED <<machine, output, truth, counting>>

------------------------------------------------------------------------------
(* A program of its own that uses the counters of common.h.                 *)

BeginCalls ==
  /\ At("main") /\ program.main = "counters"
  /\ Goto("calls")
  /\ UNCHANGED <<machine, run, output, truth, counting>>

Calls ==
  /\ At("calls")
  /\ \/ \E op \in {"get_cycles", "pcount_reset"} :
          CallCounters(op) /\ UNCHANGED <<counter, inhibited, since>>
     \/ \E enable \in BOOLEAN : PcountEnable(enable)
     \/ ClearHalf
     \/ /\ GotCycles \/ PcountIsReset
        /\ Return /\ UNCHANGED <<counter, inhibited, since>>
  /\ UNCHANGED <<machine, pc, run, output, truth>>

TimePasses ==
  /\ Going
  /\ \/ pc \in {"before", "benchmark", "after"} /\ Tick({"mcycle"})
     \/ pc = "calls" /\ \E counted \in SUBSET Counters : Tick(counted)
  /\ UNCHANGED <<machine, pc, run, output, truth>>

------------------------------------------------------------------------------
(* How a run ends *)

(* Under the kernel: exit(main()). *)
Exit ==
  /\ At("main_returns") /\ program.system = "kernel"
  /\ sim' = "exited" /\ status' = run.result
  /\ UNCHANGED <<machine, pc, run, log, truth, counting>>

(* On the simulator the value is ignored; the core halts the simulation.    *)
HaltSimulation ==
  /\ At("main_returns") /\ program.system = "verilator"
  /\ sim' = "halting"
  /\ Goto("sleep_loop")
  /\ UNCHANGED <<machine, run, log, status, truth, counting>>

(* The code under test takes an exception. *)
Trap ==
  /\ (At("test") /\ run.check <= Job.checks) \/ At("benchmark")
  /\ IF program.system = "kernel"
       THEN sim' = "killed" /\ UNCHANGED pc
       ELSE Goto("exception") /\ UNCHANGED sim
  /\ UNCHANGED <<machine, run, log, status, truth, counting>>

(* simple_exc_handler *)
ReportException ==
  /\ At("exception")
  /\ Say([line |-> "Exception!"])
  /\ Goto("sim_halt")
  /\ UNCHANGED <<machine, run, sim, status, truth, counting>>

(* Mutant of AfterHalt: the handler returns to where it was called. *)
AfterHalt_Returns == "verdict"

(* while (1); *)
AfterHalt == "spin"

HaltAfterException ==
  /\ At("sim_halt")
  /\ sim' = "halting"
  /\ Goto(AfterHalt)
  /\ UNCHANGED <<machine, run, log, status, truth, counting>>

(* The simulator stops some time after it has been told to. *)
SimulationEnds ==
  /\ sim = "halting"
  /\ sim' = "stopped"
  /\ UNCHANGED <<machine, pc, run, log, status, truth, counting>>

(* The reset line: the RAM keeps its contents, the simulator begins anew.   *)
Reset ==
  /\ sim = "running" /\ program.system = "verilator" /\ resets < MaxResets
  /\ resets' = resets + 1
  /\ pc' = "clear" /\ ptr' = 0 /\ run' = Start
  /\ log' = <<>> /\ truth' = <<>>
  /\ counter' = [c \in Counters |-> 0] /\ since' = counter'
  /\ inhibited' = FALSE /\ call' = Idle
  /\ UNCHANGED <<program, ram, sim, status>>

------------------------------------------------------------------------------

(* The kernel loads .bss as zeros; at power-on the RAM holds anything.      *)
Init ==
  /\ program \in Programs
  /\ \E g \in Garbage :
       ram = [w \in Words |-> IF program.system = "kernel" THEN 0 ELSE g]
  /\ pc = IF program.system = "kernel" THEN "main" ELSE "clear"
  /\ ptr = 0 /\ run = Start /\ log = <<>> /\ sim = "running" /\ status = 0
  /\ truth = <<>> /\ resets = 0
  /\ \E n \in IF program.system = "kernel" THEN 0..(R * R - 1) ELSE {0} :
       counter = [c \in Counters |-> n]
  /\ inhibited = FALSE /\ call = Idle /\ since = [c \in Counters |-> 0]

RunTest == BeginTest \/ Check \/ EndOfTest \/ Verdict
RunBench == \/ BeginBench \/ MeasureBefore \/ GetCycles \/ Before
            \/ MeasureAfter \/ After \/ EndOfBench
Ends == \/ Exit \/ HaltSimulation
        \/ ReportException \/ HaltAfterException \/ SimulationEnds

(* What the program does, and must do; what may happen to it. *)
Runs == ClearBss \/ Banner \/ RunTest \/ RunBench \/ Summary \/ BeginCalls \/ Calls \/ Ends

Next == Runs \/ TimePasses \/ Trap \/ Reset

(* The core executes instructions, and what it executes returns. *)
Spec == Init /\ [][Next]_harnessVars /\ WF_harnessVars(Runs)

------------------------------------------------------------------------------

Locals == [job : Nat, check : Nat, held : BOOLEAN, result : 0..3, length : Nat,
           before : 0..(R * R - 1), first : 0..(R * R - 1), torn : BOOLEAN]

TypeOK ==
  /\ program \in Programs
  /\ ram \in [Words -> Nat] /\ ptr \in Nat /\ resets \in 0..MaxResets
  /\ run \in Locals
  /\ sim \in {"running", "halting", "stopped", "exited", "killed"}
  /\ status \in {TEST_SUCCESS, TEST_FAILURE}
  /\ CounterTypeOK

(* The summary of main tells of this run, whatever the RAM held when it     *)
(* began and however often the core was reset before: every failed check    *)
(* has made its test count as failed, and every test that passed or was     *)
(* skipped is counted as that.  Only test_perm_integration, which returns   *)
(* nothing, may count as anything when its checks hold.                     *)
SummaryTrue ==
  log # <<>> /\ log[Len(log)].line = "summary" =>
    LET Held(ends) == {i \in DOMAIN truth : truth[i].held /\ truth[i].ends = ends}
        failing == Cardinality({i \in DOMAIN truth : ~truth[i].held})
        passing == Cardinality(Held("success"))
        unsure  == Cardinality(Held("nothing"))
    IN  /\ log[Len(log)].failed \in failing..(failing + unsure)
        /\ log[Len(log)].passed \in passing..(passing + unsure)
        /\ log[Len(log)].passed + log[Len(log)].failed <= Len(truth)

(* No run ends without telling its outcome: the last line is the summary or *)
(* the report of an exception, and the exit status is 0 only if every check *)
(* of the run held.                                                         *)
EndTellsOutcome ==
  /\ sim \in {"stopped", "exited"} =>
       log # <<>> /\ log[Len(log)].line \in {"summary", "Exception!"}
  /\ sim = "exited" /\ status = TEST_SUCCESS =>
       \A i \in DOMAIN truth : truth[i].held

(* testing_run_bench: the cycles it divides by the length are those that    *)
(* passed between the first instructions of the two get_cycles, and R more  *)
(* or less only for a get_cycles during which the low half overflowed.      *)
MeasuredTrue ==
  At("after") /\ GotCycles =>
    LET passed == (call.first - run.first) % (R * R)
        tears(torn) == IF torn THEN R ELSE 0
    IN  Difference(call.result, run.before)
          = (passed + tears(Torn) - tears(run.torn)) % (R * R)

(* The benchmarks read within __RANDOM__, at every length that              *)
(* testing_run_bench gives them.                                            *)
BenchReadsInside ==
  pc \in {"before", "benchmark", "after"} =>
    \A r \in Job.reads :
      r.from + (IF r.bytes = "msg_len" THEN run.length ELSE r.size) <= RandomSize

(* The start-up code, which clears one word more when .bss ends with a      *)
(* word, and the program write nothing that begins behind _bss_end.         *)
ClearConfined ==
  [][\A w \in Words : ram'[w] # ram[w] => w * WordSize <= bss.end]_harnessVars

(* Once the program has told the simulator to halt, it prints nothing more, *)
(* although the core goes on until the simulator stops.                     *)
QuietAfterHalt ==
  [][sim = "halting" => log' = log]_harnessVars

(* Every run of a test or benchmark executable comes to its end.            *)
RunEnds ==
  program.main = "harness" => <>(sim \in {"stopped", "exited", "killed"})

==============================================================================
