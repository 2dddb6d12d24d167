----------------------------- MODULE IsapSession -----------------------------
(***************************************************************************)
(* IsapAead with callers and a channel between them, as AeadSession is for *)
(* AsconAead.                                                              *)
(***************************************************************************)
EXTENDS IsapAead, Callers

VARIABLES log, last, calls

sessionVars == <<vars, log, last, calls>>

SessionInit ==
  /\ \E n \in FirstEntries : call = n.call /\ mem = n.mem
  /\ entryMem = mem
  /\ pc = "start" /\ ret = 0 /\ bit = 0 /\ absorbed = 0 /\ pos = 0
  /\ x = [i \in 0..4 |-> {}] /\ rk = [i \in 0..4 |-> {}]
  /\ log = {} /\ last = [op |-> "none"]
  /\ calls = 1

EnterNext ==
  /\ calls < MaxCalls
  /\ calls' = calls + 1
  /\ \E e \in log : \E n \in NextEntries(mem, e) : EnterCall(n.call, n.mem)
  /\ UNCHANGED <<log, last>>

Work ==
  /\ CallStep
  /\ IF pc' = "returned"
       THEN /\ last' = Transaction(call, entryMem, mem', ret')
            /\ log' = IF call.op = "encrypt" THEN log \cup {last'} ELSE log
       ELSE UNCHANGED <<log, last>>
  /\ UNCHANGED calls

Finished ==
  /\ pc = "returned" /\ calls = MaxCalls
  /\ UNCHANGED sessionVars

SessionNext == Work \/ EnterNext \/ Finished

SessionSpec == SessionInit /\ [][SessionNext]_sessionVars /\ WF_sessionVars(Work)

------------------------------------------------------------------------------

IdealScheme == INSTANCE Aead

(* The session is the ideal scheme: a packet opens to its message if it     *)
(* arrives as it was made, and is refused if anything about it differs.     *)
ImplementsIdeal == IdealScheme!Spec

(* Unless testing is enabled, no byte of a decryption's output is written   *)
(* unless an encryption made the very packet.                               *)
OnlyGenuineReleased ==
  call.op = "decrypt" /\ ~TESTING_ENABLED /\ mem # entryMem =>
    \E e \in log :
      /\ e.key = call.key /\ e.nonce = call.nonce /\ e.ad = call.ad
      /\ e.ct = Slice(entryMem, call.src, call.len)
      /\ e.tag = Slice(entryMem, call.tag, TagLen)

==============================================================================
