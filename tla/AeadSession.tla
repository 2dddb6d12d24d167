----------------------------- MODULE AeadSession -----------------------------
(***************************************************************************)
(* AsconAead with callers and a channel between them.                      *)
(*                                                                         *)
(* log and last record the completed calls.  They are the variables of     *)
(* the ideal scheme of module Aead, which this specification implements.   *)
(***************************************************************************)
EXTENDS AsconAead, Callers

VARIABLES log, last, calls

sessionVars == <<vars, log, last, calls>>

SessionInit ==
  /\ \E n \in FirstEntries : call = n.call /\ mem = n.mem
  /\ entryMem = mem
  /\ pc = "init" /\ ret = 0 /\ absorbed = 0 /\ pos = 0
  /\ x = [i \in 0..4 |-> {}]
  /\ log = {} /\ last = [op |-> "none"]
  /\ calls = 1

EnterNext ==
  /\ calls < MaxCalls
  /\ calls' = calls + 1
  /\ \E e \in log : \E n \in NextEntries(mem, e) : EnterCall(n.call, n.mem)
  /\ UNCHANGED <<log, last>>

Work ==
  /\ CallStep
  /\ IF pc' = "returned"
       THEN /\ last' = Transaction(call, entryMem, mem', ret')
            /\ log' = IF call.op = "encrypt" THEN log \cup {last'} ELSE log
       ELSE UNCHANGED <<log, last>>
  /\ UNCHANGED calls

Finished ==
  /\ pc = "returned" /\ calls = MaxCalls
  /\ UNCHANGED sessionVars

SessionNext == Work \/ EnterNext \/ Finished

(* The program is sequential: a call that is not finished goes on.  Nobody  *)
(* has to call it.                                                          *)
SessionSpec == SessionInit /\ [][SessionNext]_sessionVars /\ WF_sessionVars(Work)

------------------------------------------------------------------------------

IdealScheme == INSTANCE Aead

(* The session is the ideal scheme: whatever the layouts, lengths and old   *)
(* contents of memory, a packet opens to its message if it arrives as it    *)
(* was made, and is refused if anything about it differs.                   *)
ImplementsIdeal == IdealScheme!Spec

(* ascon_decrypt opens what ascon_encrypt made, wherever the two calls have *)
(* their buffers and whatever was called in between: a packet that arrives  *)
(* intact gives the value 0 and its message, at any length of text and of   *)
(* associated data.                                                         *)
IntactOpens ==
  last.op = "decrypt" =>
    \A e \in log :
      IdealScheme!Packet(e) = IdealScheme!Packet(last) => last.ret = 0 /\ last.msg = e.msg

(* Every call returns. *)
CallsReturn == pc = "init" ~> pc = "returned"

==============================================================================
