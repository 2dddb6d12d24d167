----------------------------- MODULE PrintfIdeal -----------------------------
(***************************************************************************)
(* What a call of the formatter promises (printf.h).  A call has a text,   *)
(* the same whatever count it is given; it leaves in the buffer as much of *)
(* the text as fits, with a zero character behind it, or on the device the *)
(* whole text but its zero characters, and returns the length of the text. *)
(* The text is the one of the C standard unless the format meets one of    *)
(* the exceptions.                                                         *)
(***************************************************************************)
EXTENDS PrintfStandard

CONSTANTS
  DEFAULT_FLOAT_PRECISION, MemSize,
  Exception(_)   \* the directives that are converted in another way

VARIABLES pc, call, mem, sink, ret, text
vars == <<pc, call, mem, sink, ret, text>>

Fresh == [i \in 0..(MemSize - 1) |-> "fresh"]

NoCall == [entry |-> "snprintf", maxlen |-> 0, null |-> TRUE, format |-> <<>>]

Init ==
  /\ pc = "idle" /\ ret = 0 /\ call = NoCall
  /\ mem = Fresh /\ sink = <<>> /\ text = <<>>

(* The caller passes whatever call' is. *)
Call ==
  /\ pc = "idle" /\ pc' = "busy"
  /\ UNCHANGED <<mem, sink, ret, text>>

Standard(format) == \A n \in DOMAIN format : ~Exception(format[n])

(* The buffer after the text s, of which it may hold maxlen - 1 characters. *)
Written(s, maxlen) ==
  LET end == Smaller(Len(s), maxlen - 1)
  IN  [i \in DOMAIN mem |-> CASE i < end -> s[i + 1] [] i = end -> NUL
                              [] OTHER -> mem[i]]

Return ==
  /\ pc = "busy" /\ pc' = "returned"
  /\ Standard(call.format) =>
       text' \in StdTexts(call.format, DEFAULT_FLOAT_PRECISION)
  /\ mem' = IF call.entry \in {"sprintf", "snprintf"} /\ ~call.null
            THEN Written(text', call.maxlen) ELSE mem
  /\ sink' = IF call.entry \in {"printf", "fctprintf"}
             THEN SelectSeq(text', LAMBDA c : c # NUL) ELSE sink
  /\ ret' = Len(text')
  /\ UNCHANGED call

Take ==
  /\ pc = "returned" /\ pc' = "idle"
  /\ call' = NoCall /\ ret' = 0 /\ mem' = Fresh /\ sink' = <<>> /\ text' = <<>>

Spec == Init /\ [][Call \/ Return \/ Take]_vars

==============================================================================
