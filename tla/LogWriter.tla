------------------------------- MODULE LogWriter --------------------------------
(***************************************************************************)
(* logutil.LogWriter: Write hands the slice it is given over an unbuffered *)
(* channel to a goroutine that cuts the bytes into lines and logs them.    *)
(* A slice is a reference: Write returns as soon as the goroutine has it,  *)
(* and the caller may put new bytes into the memory behind it before they  *)
(* have been appended.  Nobody closes the channel; the goroutine never     *)
(* ends.                                                                   *)
(***************************************************************************)
EXTENDS Naturals, Sequences, Functions

CONSTANTS
  Writers,  \* the LogWriters
  Byte,     \* what a command may print
  NL        \* the newline among them

VARIABLES
  memory,   \* the caller's buffer: the bytes of its last Write
  writer,   \* whether the caller is inside of Write
  reader,   \* where the goroutine is: "receive" or "append"
  slice,    \* the bytes of the received slice when it was handed over
  buffer,   \* this.buffer, the last unterminated line
  logged,   \* the lines logged, each with the newline the logger adds
  torn      \* history: a slice was overwritten before it was appended

logVars == <<memory, writer, reader, slice, buffer, logged, torn>>

LogInit ==
  /\ memory = [w \in Writers |-> <<>>]
  /\ writer = [w \in Writers |-> "free"]
  /\ reader = [w \in Writers |-> "receive"]
  /\ slice  = [w \in Writers |-> <<>>]
  /\ buffer = [w \in Writers |-> <<>>]
  /\ logged = [w \in Writers |-> <<>>]
  /\ torn   = [w \in Writers |-> FALSE]

\* The caller fills its buffer with p and calls Write.
BeginWrite(w, p) ==
  /\ writer[w] = "free"
  /\ memory' = [memory EXCEPT ![w] = p]
  /\ writer' = [writer EXCEPT ![w] = "writing"]
  /\ UNCHANGED <<reader, slice, buffer, logged, torn>>

\* The channel: both sides proceed, and Write returns.
Receive(w) ==
  /\ writer[w] = "writing" /\ reader[w] = "receive"
  /\ writer' = [writer EXCEPT ![w] = "free"]
  /\ reader' = [reader EXCEPT ![w] = "append"]
  /\ slice'  = [slice EXCEPT ![w] = memory[w]]
  /\ UNCHANGED <<memory, buffer, logged, torn>>

\* What a read of the slice may give: of every byte the one handed over or, if
\* the caller has refilled its buffer, the one that is there now.
Copies(w) ==
  {p \in [DOMAIN slice[w] -> Byte] : \A i \in DOMAIN p :
     p[i] = slice[w][i] \/ (i \in DOMAIN memory[w] /\ p[i] = memory[w][i])}

\* The last unterminated line of text begins after position cut.
LastLine(text, cut) ==
  /\ cut # 0 => text[cut] = NL
  /\ \A i \in (cut + 1)..Len(text) : text[i] # NL

\* Mutated: the part after the last newline is not kept.
NoRest(text, cut) == <<>>

\* What the buffer keeps of text: that line.
Rest(text, cut) == SubSeq(text, cut + 1, Len(text))

\* Mutated: the goroutine serves one Write.
OnlyWrite == "gone"

\* The loop over the channel, which nobody closes.
NextWrite == "receive"

\* The loop body: append, log all lines but the last one, keep that.
AppendAndLog(w) ==
  /\ reader[w] = "append"
  /\ reader' = [reader EXCEPT ![w] = NextWrite]
  /\ \E p \in Copies(w), cut \in 0..(Len(buffer[w]) + Len(slice[w])) :
       LET text == buffer[w] \o p IN
       /\ LastLine(text, cut)
       /\ logged' = [logged EXCEPT ![w] = @ \o SubSeq(text, 1, cut)]
       /\ buffer' = [buffer EXCEPT ![w] = Rest(text, cut)]
       /\ torn'   = [torn EXCEPT ![w] = @ \/ p # slice[w]]
  /\ UNCHANGED <<memory, writer, slice>>

\* The bytes on their way: received and not appended, written and not received.
Pending(w) == (IF reader[w] = "append" THEN slice[w] ELSE <<>>) \o
              (IF writer[w] = "writing" THEN memory[w] ELSE <<>>)

LogTypeOK ==
  /\ memory \in [Writers -> Seq(Byte)]
  /\ writer \in [Writers -> {"free", "writing"}]
  /\ reader \in [Writers -> {"receive", "append"}]
  /\ slice  \in [Writers -> Seq(Byte)]
  /\ buffer \in [Writers -> Seq(Byte)]
  /\ logged \in [Writers -> Seq(Byte)]
  /\ torn   \in [Writers -> BOOLEAN]

===============================================================================
