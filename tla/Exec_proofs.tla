------------------------------- MODULE Exec_proofs -------------------------------
(***************************************************************************)
(* Proofs about Exec and LogWriter, for any number of calls, streams and   *)
(* interrupts, any output, and any way to cut it into writes.              *)
(*                                                                         *)
(* IInv is the conjunction of five: the types; where the goroutines of a   *)
(* call can be; that calls end clean, which rests on it; that the log      *)
(* accounts for every byte, an invariant of the writers alone; and when    *)
(* the memory behind a slice is still the slice, on which that rests.      *)
(***************************************************************************)
EXTENDS Exec, SequenceTheorems, TLAPS

\* Two sequences of bytes make one.
LEMMA Joining == \A s, t \in Seq(Byte) :
  s \o t \in Seq(Byte) /\ Len(s \o t) = Len(s) + Len(t)
BY ConcatProperties

\* And it does not matter which of three are joined first.
LEMMA Grouping ==
  \A s, t, u \in Seq(Byte) : s \o (t \o u) = (s \o t) \o u
BY ConcatAssociative

\* Cutting a sequence in two loses nothing.
LEMMA Halves ==
  ASSUME NEW s \in Seq(Byte), NEW n \in 0..Len(s)
  PROVE  /\ SubSeq(s, 1, n) \in Seq(Byte) /\ Len(SubSeq(s, 1, n)) = n
         /\ SubSeq(s, n + 1, Len(s)) \in Seq(Byte)
         /\ SubSeq(s, 1, n) \o SubSeq(s, n + 1, Len(s)) = s
         /\ \A i \in 1..n : SubSeq(s, 1, n)[i] = s[i]
         /\ Len(SubSeq(s, n + 1, Len(s))) = Len(s) - n
         /\ \A i \in 1..(Len(s) - n) : SubSeq(s, n + 1, Len(s))[i] = s[n + i]
<1>1. Len(s) \in Nat
  BY LenProperties
<1>2. \A i \in 1..Len(s) : s[i] \in Byte
  BY ElementOfSeq
<1>3. SubSeq(s, 1, n) \in Seq(Byte) /\ Len(SubSeq(s, 1, n)) = n
      /\ \A i \in 1..n : SubSeq(s, 1, n)[i] = s[i]
  BY <1>1, <1>2, SubSeqProperties
<1>4. /\ SubSeq(s, n + 1, Len(s)) \in Seq(Byte)
      /\ Len(SubSeq(s, n + 1, Len(s))) = Len(s) - n
      /\ \A i \in 1..(Len(s) - n) : SubSeq(s, n + 1, Len(s))[i] = s[n + i]
  BY <1>1, <1>2, SubSeqProperties
<1>5. SubSeq(s, 1, n) \o SubSeq(s, n + 1, Len(s)) = SubSeq(s, 1, Len(s))
  <2>1. 1 \in 1..(Len(s) + 1) /\ n \in (1 - 1)..Len(s) /\ Len(s) \in n..Len(s)
    BY <1>1
  <2> QED
    BY <2>1, ConcatAdjacentSubSeq, Zenon
<1>6. SubSeq(s, 1, Len(s)) = s
  BY SubSeqFull
<1> QED
  BY <1>3, <1>4, <1>5, <1>6

\* A read of the slice gives as many bytes as were handed over.
LEMMA CopyTypes ==
  ASSUME NEW w, slice[w] \in Seq(Byte), NEW p \in Copies(w)
  PROVE  p \in Seq(Byte) /\ Len(p) = Len(slice[w])
<1>1. Len(slice[w]) \in Nat /\ DOMAIN slice[w] = 1..Len(slice[w])
  BY LenProperties
<1>2. p \in [1..Len(slice[w]) -> Byte]
  BY <1>1 DEF Copies
<1> QED
  BY <1>1, <1>2

-------------------------------------------------------------------------------
(* Types.                                                                    *)

\* What each action of a LogWriter does to the types of its state.
LEMMA LogTyped ==
  ASSUME LogTypeOK, NEW w \in Writers
  PROVE  /\ \A p \in Seq(Byte) : BeginWrite(w, p) => LogTypeOK'
         /\ Receive(w) => LogTypeOK'
         /\ AppendAndLog(w) => LogTypeOK'
<1>1. ASSUME NEW p \in Seq(Byte), BeginWrite(w, p) PROVE LogTypeOK'
  BY <1>1 DEF BeginWrite, LogTypeOK
<1>2. ASSUME Receive(w) PROVE LogTypeOK'
  BY <1>2 DEF Receive, LogTypeOK
<1>3. ASSUME AppendAndLog(w) PROVE LogTypeOK'
  <2>1. PICK p \in Copies(w), cut \in 0..(Len(buffer[w]) + Len(slice[w])) :
          /\ logged' = [logged EXCEPT ![w] = @ \o SubSeq(buffer[w] \o p, 1, cut)]
          /\ buffer' = [buffer EXCEPT ![w] =
                          SubSeq(buffer[w] \o p, cut + 1, Len(buffer[w] \o p))]
          /\ torn'   = [torn EXCEPT ![w] = @ \/ p # slice[w]]
    BY <1>3 DEF AppendAndLog, Rest, NextWrite
  <2> DEFINE text == buffer[w] \o p
  <2>2. /\ buffer[w] \in Seq(Byte) /\ slice[w] \in Seq(Byte) /\ logged[w] \in Seq(Byte)
        /\ torn[w] \in BOOLEAN
    BY DEF LogTypeOK
  <2>3. p \in Seq(Byte) /\ Len(p) = Len(slice[w])
    BY <2>2, CopyTypes
  <2>4. text \in Seq(Byte) /\ Len(text) = Len(buffer[w]) + Len(slice[w])
    <3>1. text \in Seq(Byte) /\ Len(text) = Len(buffer[w]) + Len(p)
      BY <2>2, <2>3, Joining, Zenon
    <3> QED
      BY <2>3, <3>1
  <2> HIDE DEF text
  <2>5. SubSeq(text, 1, cut) \in Seq(Byte) /\ SubSeq(text, cut + 1, Len(text)) \in Seq(Byte)
    BY <2>4, Halves
  <2>6. logged[w] \o SubSeq(text, 1, cut) \in Seq(Byte)
    BY <2>2, <2>5, ConcatProperties
  <2>7. logged' \in [Writers -> Seq(Byte)] /\ buffer' \in [Writers -> Seq(Byte)]
    BY <2>1, <2>5, <2>6 DEF LogTypeOK, text
  <2>8. torn' \in [Writers -> BOOLEAN]
    BY <2>1, <2>2 DEF LogTypeOK
  <2> QED
    BY <1>3, <2>7, <2>8 DEF AppendAndLog, Rest, NextWrite, LogTypeOK
<1> QED
  BY <1>1, <1>2, <1>3

\* The initial state has the right types, whatever the children will print.
LEMMA TypedInit == Init => TypeOK
<1> SUFFICES ASSUME Init PROVE TypeOK
  OBVIOUS
<1>1. unread \in [Writers -> Seq(Byte)]
  BY ExecAssumption DEF Init
<1>2. <<>> \in Seq(Byte)
  BY EmptySeq
<1>3. LogTypeOK
  BY <1>2 DEF Init, LogInit, LogTypeOK
<1> QED
  BY <1>1, <1>2, <1>3 DEF Init, TypeOK

\* A process that ends leaves the outputs of the other calls as they are.
LEMMA LeaveType ==
  ASSUME TypeOK, NEW c \in Calls, Leave(c)
  PROVE  /\ held' \in [Writers -> BOOLEAN]
         /\ \A w \in Writers \ Of(c) : held'[w] = held[w]
BY DEF Leave, TypeOK

\* Every step of a call preserves the types.
LEMMA CallTyped ==
  ASSUME TypeOK, NEW c \in Calls, Start(c) \/ CheckExec(c) \/ Exit(c)
  PROVE  TypeOK'
<1>0. LogTypeOK'
  <2>1. UNCHANGED logVars
    BY DEF Start, CheckExec, Select, Wait, Done, Interrupted, Die, Exit
  <2> QED
    BY <2>1 DEF TypeOK, LogTypeOK, logVars
<1>f. ASSUME NEW err, Finish(c, err)
      PROVE  caller' \in [Calls -> {"idle", "started", "select", "ok", "error", "panic"}]
  BY <1>f DEF Finish, TypeOK
<1>1. CASE Start(c)
  <2>1. caller' \in [Calls -> {"idle", "started", "select", "ok", "error", "panic"}]
    <3>1. CASE caller' = [caller EXCEPT ![c] = "started"]
      BY <3>1 DEF TypeOK
    <3>2. CASE Finish(c, TRUE)
      BY <3>2, <1>f, Zenon
    <3> QED
      BY <1>1, <3>1, <3>2 DEF Start
  <2>2. child' \in [Calls -> {"none", "running", "exited", "killed"}]
    BY <1>1 DEF Start, TypeOK
  <2>3. copier' \in [Writers -> {"none", "running", "done"}]
    <3>1. \/ copier' = [v \in Writers |-> IF v \in Of(c) THEN "running" ELSE copier[v]]
          \/ copier' = copier
      BY <1>1 DEF Start
    <3> QED
      BY <3>1 DEF TypeOK
  <2>4. UNCHANGED <<ch, waiter, failed, unread, copied, held, interruptCh, closed, handler, alive>>
    BY <1>1 DEF Start, interruptVars
  <2> QED
    BY <1>0, <2>1, <2>2, <2>3, <2>4 DEF TypeOK
<1>2. CASE Select(c)
  BY <1>0, <1>2 DEF Select, TypeOK, interruptVars, streamVars
<1>3. CASE Wait(c)
  BY <1>0, <1>3 DEF Wait, TypeOK, interruptVars, streamVars
<1>4. CASE Done(c)
  BY <1>0, <1>4, <1>f DEF Done, TypeOK, interruptVars, streamVars
<1>5. CASE Interrupted(c)
  <2>1. held' \in [Writers -> BOOLEAN]
    BY <1>5, LeaveType DEF Interrupted, TypeOK
  <2> QED
    BY <1>0, <1>5, <2>1 DEF Interrupted, TypeOK, interruptVars
<1>6. CASE Die(c)
  BY <1>0, <1>6 DEF Die, TypeOK, interruptVars, streamVars, callVars
<1>7. CASE Exit(c)
  <2>1. held' \in [Writers -> BOOLEAN]
    BY <1>7, LeaveType DEF Exit
  <2> QED
    BY <1>0, <1>7, <2>1 DEF Exit, TypeOK, interruptVars
<1> QED
  BY <1>1, <1>2, <1>3, <1>4, <1>5, <1>6, <1>7 DEF CheckExec

\* Every step of a stream preserves the types.
LEMMA StreamTyped ==
  ASSUME TypeOK, NEW w \in Writers, Stream(w)
  PROVE  TypeOK'
<1>0. LogTypeOK /\ unread[w] \in Seq(Byte) /\ copied[w] \in Seq(Byte)
  BY DEF TypeOK
<1>1. CASE Copy(w)
  <2>1. PICK n \in 1..Len(unread[w]) :
          /\ BeginWrite(w, SubSeq(unread[w], 1, n))
          /\ unread' = [unread EXCEPT ![w] = SubSeq(unread[w], n + 1, Len(unread[w]))]
          /\ copied' = [copied EXCEPT ![w] = @ \o SubSeq(unread[w], 1, n)]
          /\ UNCHANGED <<copier, held, callVars, interruptVars, alive>>
    BY <1>1 DEF Copy
  <2>2. n \in 0..Len(unread[w])
    BY <1>0, LenProperties
  <2>3. /\ SubSeq(unread[w], 1, n) \in Seq(Byte)
        /\ SubSeq(unread[w], n + 1, Len(unread[w])) \in Seq(Byte)
    BY <1>0, <2>2, Halves
  <2>4. copied[w] \o SubSeq(unread[w], 1, n) \in Seq(Byte)
    BY <1>0, <2>3, ConcatProperties
  <2>5. LogTypeOK'
    BY <1>0, <2>1, <2>3, LogTyped
  <2>6. unread' \in [Writers -> Seq(Byte)] /\ copied' \in [Writers -> Seq(Byte)]
    BY <2>1, <2>3, <2>4 DEF TypeOK
  <2> QED
    BY <2>1, <2>5, <2>6 DEF TypeOK, callVars, interruptVars
<1>2. CASE EndOfFile(w)
  <2>1. LogTypeOK'
    BY <1>0, <1>2 DEF EndOfFile, LogTypeOK, logVars
  <2> QED
    BY <1>2, <2>1 DEF EndOfFile, TypeOK, callVars, interruptVars
<1>3. CASE Log(w)
  <2>1. LogTypeOK'
    BY <1>0, <1>3, LogTyped DEF Log
  <2> QED
    BY <1>3, <2>1 DEF Log, TypeOK, callVars, interruptVars, streamVars
<1> QED
  BY <1>1, <1>2, <1>3 DEF Stream

\* Every step of an Interrupt preserves the types.
LEMMA InterruptTyped ==
  ASSUME TypeOK, NEW h \in Handlers, Interrupt(h)
  PROVE  TypeOK'
<1>1. LogTypeOK'
  BY DEF Interrupt, CheckChannel, CloseChannel, ClearChannel, TypeOK, LogTypeOK, logVars
<1>2. CASE CheckChannel(h)
  BY <1>1, <1>2 DEF CheckChannel, TypeOK, callVars, streamVars
<1>3. CASE CloseChannel(h)
  BY <1>1, <1>3 DEF CloseChannel, TypeOK, callVars, streamVars
<1>4. CASE ClearChannel(h)
  BY <1>1, <1>4 DEF ClearChannel, TypeOK, callVars, streamVars
<1> QED
  BY <1>2, <1>3, <1>4 DEF Interrupt

\* So does a descendant that ends.
LEMMA DepartTyped ==
  ASSUME TypeOK, NEW w \in Writers, Depart(w)
  PROVE  TypeOK'
<1>1. LogTypeOK'
  BY DEF Depart, TypeOK, LogTypeOK, logVars
<1> QED
  BY <1>1 DEF Depart, TypeOK, callVars, interruptVars

\* Every step preserves the types.
LEMMA TypedStep == TypeOK /\ [Next]_vars => TypeOK'
<1> SUFFICES ASSUME TypeOK, [Next]_vars PROVE TypeOK'
  OBVIOUS
<1>1. CASE UNCHANGED vars
  BY <1>1 DEF vars, TypeOK, LogTypeOK, interruptVars, callVars, streamVars, logVars
<1> QED
  BY <1>1, CallTyped, StreamTyped, InterruptTyped, DepartTyped DEF Next

-------------------------------------------------------------------------------
(* The goroutines of a call.                                                 *)

\* A step that leaves a call and its streams alone leaves it in step.
LEMMA Frame ==
  ASSUME NEW c \in Calls, CallInStep(c), EndsClean(c),
         caller'[c] = caller[c], waiter'[c] = waiter[c],
         child'[c] = child[c], failed'[c] = failed[c],
         \A w \in Of(c) : /\ copier'[w] = copier[w] /\ unread'[w] = unread[w]
                          /\ held'[w] => held[w]
  PROVE  CallInStep(c)' /\ EndsClean(c)'
BY DEF CallInStep, EndsClean, Over, Of

\* How a call can finish.
LEMMA FinishType ==
  ASSUME TypeOK, NEW c \in Calls, NEW err \in BOOLEAN, Finish(c, err)
  PROVE  /\ caller'[c] \in {"ok", "error", "panic"}
         /\ caller'[c] = "ok" => ~err
         /\ \A e \in Calls \ {c} : caller'[e] = caller[e]
BY DEF Finish, TypeOK

\* A step of one call leaves the other calls alone.
LEMMA OtherCalls ==
  ASSUME TypeOK, NEW e \in Calls, Start(e) \/ CheckExec(e) \/ Exit(e),
         NEW c \in Calls, c # e
  PROVE  /\ caller'[c] = caller[c] /\ waiter'[c] = waiter[c]
         /\ child'[c] = child[c] /\ failed'[c] = failed[c]
         /\ \A w \in Of(c) : /\ copier'[w] = copier[w] /\ unread'[w] = unread[w]
                             /\ held'[w] = held[w]
<1>f. ASSUME NEW err \in BOOLEAN, Finish(e, err) PROVE caller'[c] = caller[c]
  BY <1>f, FinishType
<1>1. CASE Start(e)
  <2>1. caller'[c] = caller[c] /\ child'[c] = child[c]
    BY <1>1, <1>f DEF Start, TypeOK
  <2>2. \A w \in Of(c) : copier'[w] = copier[w]
    <3>1. CASE copier' = [v \in Writers |-> IF v \in Of(e) THEN "running" ELSE copier[v]]
      BY <3>1 DEF Of
    <3>2. CASE copier' = copier
      BY <3>2
    <3> QED
      BY <1>1, <3>1, <3>2 DEF Start
  <2> QED
    BY <1>1, <2>1, <2>2 DEF Start
<1>2. CASE Done(e)
  <2>1. (failed[e] \/ child[e] = "killed") \in BOOLEAN
    BY DEF TypeOK
  <2>2. caller'[c] = caller[c]
    BY <1>2, <1>f, <2>1 DEF Done
  <2> QED
    BY <1>2, <2>2 DEF Done, TypeOK, streamVars
<1>3. CASE Select(e) \/ Wait(e) \/ Die(e)
  BY <1>3 DEF Select, Wait, Die, TypeOK, streamVars, callVars
<1>4. CASE Interrupted(e) \/ Exit(e)
  <2>1. \A w \in Of(c) : w \in Writers \ Of(e)
    BY DEF Of
  <2>2. held' = held \/ Leave(e)
    BY <1>4 DEF Interrupted, Exit
  <2>3. \A w \in Of(c) : held'[w] = held[w]
    BY <2>1, <2>2, LeaveType
  <2> QED
    BY <1>4, <2>3 DEF Interrupted, Exit, TypeOK
<1> QED
  BY <1>1, <1>2, <1>3, <1>4 DEF CheckExec

\* Every step of a call keeps it in step, and lets it end clean only.
LEMMA CallKeeps ==
  ASSUME TypeOK, NEW c \in Calls, CallInStep(c), EndsClean(c),
         Start(c) \/ CheckExec(c) \/ Exit(c)
  PROVE  CallInStep(c)' /\ EndsClean(c)'
<1>t. /\ caller[c] \in {"idle", "started", "select", "ok", "error", "panic"}
      /\ failed[c] \in BOOLEAN
      /\ Of(c) \subseteq Writers
  BY DEF TypeOK, Of
<1>1. CASE Start(c)
  <2>0. /\ caller[c] = "idle" /\ waiter'[c] = "none" /\ unread' = unread /\ held' = held
        /\ child[c] = "none"
        /\ \A w \in Of(c) : copier[w] # "done"
    BY <1>1, <1>t DEF Start, CallInStep
  <2>1. CASE /\ caller' = [caller EXCEPT ![c] = "started"]
             /\ child'  = [child EXCEPT ![c] = "running"]
             /\ copier' = [w \in Writers |-> IF w \in Of(c) THEN "running" ELSE copier[w]]
    <3>1. caller'[c] = "started" /\ \A w \in Of(c) : copier'[w] = "running"
      BY <1>t, <2>1 DEF TypeOK
    <3> QED
      BY <2>0, <3>1 DEF CallInStep, EndsClean, Over, Of
  <2>2. CASE Finish(c, TRUE) /\ UNCHANGED <<child, copier>>
    <3>1. caller'[c] \in {"error", "panic"}
      BY <2>2, FinishType
    <3> QED
      BY <2>0, <2>2, <3>1 DEF CallInStep, EndsClean, Over, Of
  <2> QED
    BY <1>1, <2>1, <2>2 DEF Start
<1>2. CASE Select(c)
  <2>1. /\ caller'[c] = "select" /\ waiter'[c] = "wait"
        /\ UNCHANGED <<child, unread, copier, held>>
    BY <1>2 DEF Select, TypeOK, streamVars
  <2> QED
    BY <2>1 DEF CallInStep, EndsClean, Over, Of
<1>3. CASE Wait(c)
  <2>1. /\ waiter[c] = "wait" /\ waiter'[c] = "send"
        /\ child[c] \in {"exited", "killed"} /\ \A w \in Of(c) : copier[w] = "done"
        /\ UNCHANGED <<caller, child, failed, unread, copier, held>>
    BY <1>3 DEF Wait, TypeOK, streamVars
  <2> QED
    BY <2>1 DEF CallInStep, EndsClean, Over, Of
<1>4. CASE Done(c)
  <2>1. /\ waiter[c] = "send" /\ waiter'[c] = "gone"
        /\ UNCHANGED <<child, failed, unread, copier, held>>
    BY <1>4 DEF Done, TypeOK, streamVars
  <2>2. /\ caller'[c] \in {"ok", "error", "panic"}
        /\ caller'[c] = "ok" => ~failed[c] /\ child[c] # "killed"
    <3>1. (failed[c] \/ child[c] = "killed") \in BOOLEAN
      BY <1>t
    <3> QED
      BY <1>4, <3>1, FinishType DEF Done
  <2> QED
    BY <2>1, <2>2 DEF CallInStep, EndsClean, Over, Of
<1>5. CASE Interrupted(c)
  <2>1. /\ caller'[c] = "panic" /\ UNCHANGED <<waiter, failed, unread, copier>>
        /\ \/ child[c] = "running" /\ child'[c] = "killed"
           \/ child[c] # "running" /\ UNCHANGED <<child, held>>
    BY <1>5 DEF Interrupted, TypeOK
  <2> QED
    BY <2>1 DEF CallInStep, EndsClean, Over, Of
<1>6. CASE Die(c)
  BY <1>6, Frame DEF Die, callVars, streamVars
<1>7. CASE Exit(c)
  <2>1. /\ child[c] = "running" /\ child'[c] = "exited"
        /\ UNCHANGED <<caller, waiter, unread, copier>>
    BY <1>7 DEF Exit, TypeOK
  <2> QED
    BY <1>t, <2>1 DEF CallInStep, EndsClean, Over, Of
<1> QED
  BY <1>1, <1>2, <1>3, <1>4, <1>5, <1>6, <1>7 DEF CheckExec

\* So does every step of a stream.
LEMMA StreamKeeps ==
  ASSUME TypeOK, NEW w \in Writers, Stream(w),
         NEW c \in Calls, CallInStep(c), EndsClean(c)
  PROVE  CallInStep(c)' /\ EndsClean(c)'
<1>0. UNCHANGED <<caller, waiter, child, failed>>
  BY DEF Stream, Copy, EndOfFile, Log, callVars
<1>1. CASE Copy(w)
  <2>1. /\ copier[w] = "running" /\ copier' = copier /\ held' = held
        /\ unread[w] # <<>>
        /\ \A v \in Writers \ {w} : unread'[v] = unread[v]
    <3>1. PICK n \in 1..Len(unread[w]) :
            unread' = [unread EXCEPT ![w] = SubSeq(unread[w], n + 1, Len(unread[w]))]
      BY <1>1 DEF Copy
    <3>2. unread[w] # <<>>
      BY <3>1
    <3> QED
      BY <1>1, <3>1, <3>2 DEF Copy, TypeOK
  <2> QED
    BY <1>0, <2>1 DEF CallInStep, EndsClean, Over, Of
<1>2. CASE EndOfFile(w)
  <2>1. /\ unread' = unread /\ held' = held /\ ~held[w]
        /\ \/ child[w[1]] = "exited" /\ unread[w] = <<>>
           \/ child[w[1]] = "killed"
        /\ \A v \in Writers \ {w} : copier'[v] = copier[v]
        /\ copier'[w] = "done"
    BY <1>2 DEF EndOfFile, TypeOK
  <2> QED
    BY <1>0, <2>1 DEF CallInStep, EndsClean, Over, Of
<1>3. CASE Log(w)
  BY <1>0, <1>3, Frame DEF Log, streamVars
<1> QED
  BY <1>1, <1>2, <1>3 DEF Stream

\* Every step keeps all calls in step.
LEMMA InStepStep ==
  TypeOK /\ InStep /\ CallsEndClean /\ [Next]_vars => InStep' /\ CallsEndClean'
<1> SUFFICES ASSUME TypeOK, InStep, CallsEndClean, [Next]_vars, NEW c \in Calls
             PROVE  CallInStep(c)' /\ EndsClean(c)'
  BY DEF InStep, CallsEndClean
<1>0. CallInStep(c) /\ EndsClean(c)
  BY DEF InStep, CallsEndClean
<1>1. ASSUME NEW e \in Calls, Start(e) \/ CheckExec(e) \/ Exit(e)
      PROVE  CallInStep(c)' /\ EndsClean(c)'
  <2>1. CASE e = c
    BY <1>0, <1>1, <2>1, CallKeeps
  <2>2. CASE e # c
    BY <1>0, <1>1, <2>2, OtherCalls, Frame
  <2> QED
    BY <2>1, <2>2
<1>2. ASSUME NEW w \in Writers, Stream(w) PROVE CallInStep(c)' /\ EndsClean(c)'
  BY <1>0, <1>2, StreamKeeps
<1>3. ASSUME NEW h \in Handlers, Interrupt(h) PROVE CallInStep(c)' /\ EndsClean(c)'
  <2>1. UNCHANGED <<caller, waiter, child, failed, copier, unread, held>>
    BY <1>3 DEF Interrupt, CheckChannel, CloseChannel, ClearChannel, callVars, streamVars
  <2> QED
    BY <1>0, <2>1, Frame
<1>4. CASE UNCHANGED vars
  <2>1. UNCHANGED <<caller, waiter, child, failed, copier, unread, held>>
    BY <1>4 DEF vars, callVars, streamVars
  <2> QED
    BY <1>0, <2>1, Frame
<1>5. ASSUME NEW w \in Writers, Depart(w) PROVE CallInStep(c)' /\ EndsClean(c)'
  <2>1. /\ UNCHANGED <<caller, waiter, child, failed, copier, unread>>
        /\ \A v \in Writers : held'[v] => held[v]
    BY <1>5 DEF Depart, TypeOK, callVars
  <2> QED
    BY <1>0, <2>1, Frame DEF Of
<1> QED
  BY <1>1, <1>2, <1>3, <1>4, <1>5 DEF Next

-------------------------------------------------------------------------------
(* The log.                                                                  *)

\* All that is said of one writer.
Sound(w) == Accounts(w) /\ Printed(w) /\ SliceKept(w)

\* What a writer accounts for does not change with the state of another.
LEMMA SoundFrame ==
  ASSUME NEW w \in Writers, Sound(w),
         logged'[w] = logged[w], buffer'[w] = buffer[w], torn'[w] = torn[w],
         reader'[w] = reader[w], slice'[w] = slice[w], writer'[w] = writer[w],
         memory'[w] = memory[w], copied'[w] = copied[w]
  PROVE  Sound(w)'
<1>1. Pending(w)' = Pending(w) /\ Appended(w)' = Appended(w)
  BY DEF Pending, Appended
<1>2. Accounts(w)'
  BY <1>1 DEF Accounts, Sound
<1>3. Printed(w)'
  BY <1>1 DEF Printed, Sound
<1>4. SliceKept(w)'
  BY DEF SliceKept, Sound
<1> QED
  BY <1>2, <1>3, <1>4 DEF Sound

\* A place beyond the first a of a + b is one of the other b.
LEMMA Beyond ==
  ASSUME NEW a \in Nat, NEW b \in Nat, NEW i \in 1..(a + b), ~(i <= a)
  PROVE  \E k \in 1..b : i = a + k
<1>1. i - a \in 1..b /\ i = a + (i - a)
  OBVIOUS
<1> QED
  BY <1>1

\* Where the bytes of two sequences are in the sequence they make.
LEMMA Places ==
  ASSUME NEW s \in Seq(Byte), NEW t \in Seq(Byte)
  PROVE  /\ Len(s) \in Nat /\ Len(t) \in Nat
         /\ s \o t \in Seq(Byte) /\ Len(s \o t) = Len(s) + Len(t)
         /\ \A i \in 1..Len(s) : (s \o t)[i] = s[i]
         /\ \A i \in 1..Len(t) : (s \o t)[Len(s) + i] = t[i]
<1>1. Len(s) \in Nat /\ Len(t) \in Nat
  BY LenProperties
<1>2. /\ s \o t \in Seq(Byte) /\ Len(s \o t) = Len(s) + Len(t)
      /\ \A i \in 1..(Len(s) + Len(t)) :
           (s \o t)[i] = IF i <= Len(s) THEN s[i] ELSE t[i - Len(s)]
  BY ConcatProperties
<1>3. ASSUME NEW i \in 1..Len(s) PROVE (s \o t)[i] = s[i]
  <2>1. i \in 1..(Len(s) + Len(t)) /\ i <= Len(s)
    BY <1>1
  <2> QED
    BY <1>2, <2>1
<1>4. ASSUME NEW i \in 1..Len(t) PROVE (s \o t)[Len(s) + i] = t[i]
  <2>1. /\ Len(s) + i \in 1..(Len(s) + Len(t)) /\ ~(Len(s) + i <= Len(s))
        /\ Len(s) + i - Len(s) = i
    BY <1>1
  <2> QED
    BY <1>2, <2>1
<1> QED
  BY <1>1, <1>2, <1>3, <1>4

\* The sequences a writer is about.
LEMMA SequencesOf ==
  ASSUME TypeOK, NEW w \in Writers
  PROVE  /\ Appended(w) \in Seq(Byte) /\ copied[w] \in Seq(Byte)
         /\ slice[w] \in Seq(Byte) /\ memory[w] \in Seq(Byte) /\ <<>> \in Seq(Byte)
<1>1. /\ logged[w] \in Seq(Byte) /\ buffer[w] \in Seq(Byte) /\ slice[w] \in Seq(Byte)
      /\ memory[w] \in Seq(Byte) /\ copied[w] \in Seq(Byte) /\ <<>> \in Seq(Byte)
  BY EmptySeq DEF TypeOK, LogTypeOK
<1> QED
  BY <1>1, Joining DEF Appended

\* A byte on its way out of the pipe is on its way into the log.
LEMMA CopySound ==
  ASSUME TypeOK, NEW w \in Writers, Sound(w), Copy(w)
  PROVE  Sound(w)'
<1> DEFINE A == IF reader[w] = "append" THEN slice[w] ELSE <<>>
<1>1. PICK n \in 1..Len(unread[w]) :
        /\ BeginWrite(w, SubSeq(unread[w], 1, n))
        /\ copied' = [copied EXCEPT ![w] = @ \o SubSeq(unread[w], 1, n)]
  BY DEF Copy
<1> DEFINE p == SubSeq(unread[w], 1, n)
<1>2. p \in Seq(Byte)
  <2>1. unread[w] \in Seq(Byte) /\ n \in 0..Len(unread[w])
    BY LenProperties DEF TypeOK
  <2> QED
    BY <2>1, Halves
<1> HIDE DEF p
<1>3. /\ copied'[w] = copied[w] \o p
      /\ memory'[w] = p /\ writer[w] = "free" /\ writer'[w] = "writing"
      /\ UNCHANGED <<reader, slice, buffer, logged, torn>>
  BY <1>1 DEF BeginWrite, TypeOK, LogTypeOK, p
<1>4. Appended(w) \in Seq(Byte) /\ A \in Seq(Byte) /\ copied[w] \in Seq(Byte)
  BY SequencesOf
<1>5. Pending(w) = A
  BY <1>3, <1>4, ConcatEmptySeq DEF Pending
<1>6. Pending(w)' = A \o p /\ Appended(w)' = Appended(w)
  BY <1>3 DEF Pending, Appended
<1> HIDE DEF A
<1>7. /\ Appended(w) \o (A \o p) = (Appended(w) \o A) \o p
      /\ Appended(w) \o A \in Seq(Byte)
  <2>1. Appended(w) \o (A \o p) = (Appended(w) \o A) \o p
    BY <1>2, <1>4, Grouping, Zenon
  <2> QED
    BY <1>4, <2>1, Joining, Zenon
<1>8. /\ Len((Appended(w) \o A) \o p) = Len(Appended(w) \o A) + Len(p)
      /\ Len(copied[w] \o p) = Len(copied[w]) + Len(p)
      /\ Len(Appended(w) \o A) = Len(Appended(w)) + Len(A)
      /\ Len(A \o p) = Len(A) + Len(p)
  BY <1>2, <1>4, <1>7, Joining, Zenon
<1>9. /\ Len(Appended(w) \o A) = Len(copied[w])
      /\ ~torn[w] => Appended(w) \o A = copied[w]
  BY <1>5 DEF Accounts, Sound
<1>10. /\ Len((Appended(w) \o A) \o p) = Len(copied'[w])
       /\ ~torn'[w] => (Appended(w) \o A) \o p = copied'[w]
  BY <1>3, <1>8, <1>9
<1>11. Accounts(w)'
  BY <1>3, <1>6, <1>7, <1>10 DEF Accounts, Sound
<1>12. /\ Len(Appended(w)) \in Nat /\ Len(A) \in Nat /\ Len(p) \in Nat
       /\ Len(copied[w]) \in Nat
  BY <1>2, <1>4, LenProperties
<1>13. ASSUME NEW i \in 1..Len(A \o p)
       PROVE  (A \o p)[i] = copied'[w][Len(Appended(w)) + i]
  <2>1. CASE i <= Len(A)
    <3>1. i \in 1..Len(A) /\ Len(Appended(w)) + i \in 1..Len(copied[w])
      BY <1>8, <1>9, <1>12, <2>1
    <3>2. (A \o p)[i] = A[i]
      BY <1>2, <1>4, <3>1, Places
    <3>3. A[i] = copied[w][Len(Appended(w)) + i]
      BY <1>5, <3>1 DEF Printed, Sound
    <3>4. (copied[w] \o p)[Len(Appended(w)) + i] = copied[w][Len(Appended(w)) + i]
      BY <1>2, <1>4, <3>1, Places
    <3> QED
      BY <1>3, <3>2, <3>3, <3>4
  <2>2. CASE ~(i <= Len(A))
    <3>1. PICK k \in 1..Len(p) : i = Len(A) + k
      <4>1. Len(A) \in Nat /\ Len(p) \in Nat /\ i \in 1..(Len(A) + Len(p))
        BY <1>8, <1>12
      <4> QED
        BY <4>1, <2>2, Beyond
    <3>2. (A \o p)[Len(A) + k] = p[k]
      BY <1>2, <1>4, Places
    <3>3. (copied[w] \o p)[Len(copied[w]) + k] = p[k]
      BY <1>2, <1>4, Places
    <3>4. Len(Appended(w)) + i = Len(copied[w]) + k
      BY <1>8, <1>9, <1>12, <3>1
    <3> QED
      BY <1>3, <3>1, <3>2, <3>3, <3>4
  <2> QED
    BY <2>1, <2>2
<1>14. ASSUME NEW i \in 1..Len(Appended(w))
       PROVE  \E k \in i..Len(copied'[w]) : Appended(w)[i] = copied'[w][k]
  <2>1. PICK k \in i..Len(copied[w]) : Appended(w)[i] = copied[w][k]
    BY DEF Printed, Sound
  <2>2. k \in 1..Len(copied[w]) /\ k \in i..Len(copied'[w])
    BY <1>3, <1>8, <1>12
  <2>3. copied'[w][k] = copied[w][k]
    BY <1>2, <1>3, <1>4, <2>2, Places
  <2> QED
    BY <2>1, <2>2, <2>3
<1>15. Printed(w)'
  BY <1>6, <1>13, <1>14 DEF Printed
<1>16. SliceKept(w)'
  BY <1>3 DEF SliceKept
<1> QED
  BY <1>11, <1>15, <1>16 DEF Sound

\* Handing a slice over leaves all bytes on their way.
LEMMA ReceiveSound ==
  ASSUME TypeOK, NEW w \in Writers, Sound(w), Receive(w), copied'[w] = copied[w]
  PROVE  Sound(w)'
<1>1. memory[w] \in Seq(Byte)
  BY DEF TypeOK, LogTypeOK
<1>2. Pending(w) = memory[w]
  BY <1>1, ConcatEmptySeq DEF Receive, Pending
<1>3. /\ writer'[w] = "free" /\ reader'[w] = "append" /\ slice'[w] = memory[w]
      /\ UNCHANGED <<memory, buffer, logged, torn>>
  BY DEF Receive, TypeOK, LogTypeOK
<1>4. Pending(w)' = Pending(w) /\ Appended(w)' = Appended(w)
  BY <1>1, <1>2, <1>3, ConcatEmptySeq DEF Pending, Appended
<1>5. Accounts(w)'
  BY <1>3, <1>4 DEF Accounts, Sound
<1>6. Printed(w)'
  BY <1>4 DEF Printed, Sound
<1>7. SliceKept(w)'
  BY <1>3 DEF SliceKept
<1> QED
  BY <1>5, <1>6, <1>7 DEF Sound

\* The loop body appends what it reads of the slice, and parts the text where
\* its last newline is.
LEMMA AppendEffect ==
  ASSUME TypeOK, NEW w \in Writers, AppendAndLog(w)
  PROVE  \E p \in Copies(w) :
           /\ p \in Seq(Byte) /\ Len(p) = Len(slice[w])
           /\ Appended(w)' = Appended(w) \o p
           /\ NL \notin Range(buffer'[w])
           /\ logged'[w] = logged[w] \/ logged'[w][Len(logged'[w])] = NL
           /\ torn[w] \in BOOLEAN /\ (torn'[w] <=> torn[w] \/ p # slice[w])
<1> DEFINE L == logged[w]
           B == buffer[w]
           S == slice[w]
<1>1. PICK p \in Copies(w), cut \in 0..(Len(B) + Len(S)) :
        /\ LastLine(B \o p, cut)
        /\ logged' = [logged EXCEPT ![w] = @ \o SubSeq(B \o p, 1, cut)]
        /\ buffer' = [buffer EXCEPT ![w] = SubSeq(B \o p, cut + 1, Len(B \o p))]
        /\ torn'   = [torn EXCEPT ![w] = @ \/ p # S]
  BY DEF AppendAndLog, Rest, NextWrite
<1>2. L \in Seq(Byte) /\ B \in Seq(Byte) /\ S \in Seq(Byte)
  BY DEF TypeOK, LogTypeOK
<1>3. p \in Seq(Byte) /\ Len(p) = Len(S)
  BY <1>2, CopyTypes
<1> DEFINE text == B \o p
           S1 == SubSeq(text, 1, cut)
           S2 == SubSeq(text, cut + 1, Len(text))
<1>4. text \in Seq(Byte) /\ Len(text) = Len(B) + Len(p)
  BY <1>2, <1>3, Joining, Zenon
<1>5. logged'[w] = L \o S1 /\ buffer'[w] = S2
  BY <1>1 DEF TypeOK, LogTypeOK
<1>6. torn[w] \in BOOLEAN /\ (torn'[w] <=> torn[w] \/ p # S)
  <2>1. torn[w] \in BOOLEAN /\ torn'[w] = (torn[w] \/ p # S)
    BY <1>1 DEF TypeOK, LogTypeOK
  <2> QED
    BY <2>1
<1>8. LastLine(text, cut) /\ cut \in 0..Len(text)
  BY <1>1, <1>3, <1>4
<1> HIDE DEF text
<1>9. /\ S1 \in Seq(Byte) /\ S2 \in Seq(Byte) /\ S1 \o S2 = text
      /\ Len(S1) = cut /\ Len(S2) = Len(text) - cut /\ Len(text) \in Nat
      /\ \A i \in 1..cut : S1[i] = text[i]
      /\ \A i \in 1..(Len(text) - cut) : S2[i] = text[cut + i]
  BY <1>4, <1>8, Halves, LenProperties
<1>10. NL \notin Range(S2)
  <2>1. DOMAIN S2 = 1..(Len(text) - cut)
    BY <1>9, LenProperties
  <2>2. ASSUME NEW i \in 1..(Len(text) - cut) PROVE S2[i] # NL
    <3>1. cut + i \in (cut + 1)..Len(text)
      BY <1>8, <1>9
    <3>2. text[cut + i] # NL
      BY <1>8, <3>1 DEF LastLine
    <3> QED
      BY <1>9, <3>2
  <2> HIDE DEF S2
  <2> QED
    BY <2>1, <2>2 DEF Range
<1> HIDE DEF S1, S2, L, B, S
<1>11. (L \o S1)[Len(L \o S1)] = NL \/ L \o S1 = L
  <2>1. Len(L) \in Nat /\ Len(L \o S1) = Len(L) + cut
    BY <1>2, <1>9, ConcatProperties, LenProperties
  <2>2. CASE cut = 0
    <3>1. S1 = <<>>
      BY <1>9, <2>2, EmptySeq
    <3> QED
      BY <1>2, <3>1, ConcatEmptySeq
  <2>3. CASE cut # 0
    <3>1. text[cut] = NL /\ cut \in 1..cut
      BY <1>8, <2>3 DEF LastLine
    <3>2. (L \o S1)[Len(L) + cut] = S1[cut]
      BY <1>2, <1>9, <3>1, Places
    <3> QED
      BY <1>9, <2>1, <3>1, <3>2
  <2> QED
    BY <2>2, <2>3
<1>12. (L \o S1) \o S2 = (L \o B) \o p
  <2>1. (L \o S1) \o S2 = L \o (S1 \o S2)
    BY <1>2, <1>9, Grouping, Zenon
  <2>2. L \o (B \o p) = (L \o B) \o p
    BY <1>2, <1>3, Grouping, Zenon
  <2> QED
    BY <1>9, <2>1, <2>2 DEF text
<1>13. Appended(w)' = Appended(w) \o p
  BY <1>5, <1>12 DEF Appended, L, B
<1>14. logged'[w] = logged[w] \/ logged'[w][Len(logged'[w])] = NL
  BY <1>5, <1>11 DEF L
<1> QED
  BY <1>3, <1>5, <1>6, <1>10, <1>13, <1>14 DEF S

\* Every byte appended was handed over or, if it has been overwritten since, is
\* of the write that is waiting, which comes later.
LEMMA AppendSound ==
  ASSUME TypeOK, NEW w \in Writers, Sound(w), AppendAndLog(w), copied'[w] = copied[w]
  PROVE  Sound(w)'
<1> DEFINE M == IF writer[w] = "writing" THEN memory[w] ELSE <<>>
           S == slice[w]
           G == Appended(w)
           C == copied[w]
<1>1. PICK p \in Copies(w) :
        /\ p \in Seq(Byte) /\ Len(p) = Len(S)
        /\ Appended(w)' = G \o p
        /\ NL \notin Range(buffer'[w])
        /\ logged'[w] = logged[w] \/ logged'[w][Len(logged'[w])] = NL
        /\ torn[w] \in BOOLEAN /\ (torn'[w] <=> torn[w] \/ p # S)
  BY AppendEffect
<1>2. /\ G \in Seq(Byte) /\ S \in Seq(Byte) /\ M \in Seq(Byte) /\ C \in Seq(Byte)
      /\ memory[w] \in Seq(Byte)
  BY SequencesOf
<1>3. reader[w] = "append" /\ reader'[w] = "receive" /\ UNCHANGED <<memory, writer, slice>>
  BY DEF AppendAndLog, Rest, NextWrite, TypeOK, LogTypeOK
<1>4. Pending(w) = S \o M
  BY <1>3 DEF Pending
<1>5. Pending(w)' = M
  BY <1>2, <1>3, ConcatEmptySeq DEF Pending
<1>6. \A i \in 1..Len(p) : \/ p[i] = S[i]
                           \/ i \in 1..Len(M) /\ p[i] = M[i]
  <2> SUFFICES ASSUME NEW i \in 1..Len(p) PROVE p[i] = S[i] \/ (i \in 1..Len(M) /\ p[i] = M[i])
    OBVIOUS
  <2>1. /\ DOMAIN p = 1..Len(p) /\ DOMAIN memory[w] = 1..Len(memory[w])
        /\ writer[w] \in {"free", "writing"}
    BY <1>1, <1>2, LenProperties DEF TypeOK, LogTypeOK
  <2>2. p[i] = slice[w][i] \/ (i \in DOMAIN memory[w] /\ p[i] = memory[w][i])
    BY <2>1 DEF Copies
  <2>3. writer[w] = "free" => memory[w] = slice[w]
    BY <1>3 DEF Sound, SliceKept
  <2> QED
    BY <2>1, <2>2, <2>3
<1> HIDE DEF M, S, G, C
<1>7. /\ G \o (S \o M) = (G \o S) \o M
      /\ G \o p \in Seq(Byte) /\ G \o S \in Seq(Byte) /\ S \o M \in Seq(Byte)
      /\ Len(G \o p) = Len(G) + Len(p) /\ Len(G \o S) = Len(G) + Len(S)
      /\ Len(S \o M) = Len(S) + Len(M)
  <2>1. G \o (S \o M) = (G \o S) \o M
    BY <1>2, Grouping, Zenon
  <2>2. G \o p \in Seq(Byte) /\ Len(G \o p) = Len(G) + Len(p)
    BY <1>1, <1>2, Joining, Zenon
  <2>3. /\ G \o S \in Seq(Byte) /\ Len(G \o S) = Len(G) + Len(S)
        /\ S \o M \in Seq(Byte) /\ Len(S \o M) = Len(S) + Len(M)
    BY <1>2, Joining, Zenon
  <2> QED
    BY <2>1, <2>2, <2>3
<1>8. /\ Len((G \o p) \o M) = Len(G \o p) + Len(M)
      /\ Len((G \o S) \o M) = Len(G \o S) + Len(M)
  BY <1>2, <1>7, Joining, Zenon
<1>9. /\ Len((G \o S) \o M) = Len(C)
      /\ ~torn[w] => (G \o S) \o M = C
  BY <1>4, <1>7 DEF Accounts, Sound, G, C
<1>10. /\ Len((G \o p) \o M) = Len(C)
       /\ ~torn'[w] => (G \o p) \o M = C
  BY <1>1, <1>7, <1>8, <1>9
<1>11. Accounts(w)'
  <2>1. logged'[w] # <<>> => logged'[w][Len(logged'[w])] = NL
    BY <1>1 DEF Accounts, Sound
  <2> QED
    BY <1>1, <1>5, <1>10, <2>1 DEF Accounts, C
<1>12. /\ Len(G) \in Nat /\ Len(S) \in Nat /\ Len(M) \in Nat /\ Len(p) = Len(S)
       /\ Len(C) = Len(G) + Len(S) + Len(M)
  BY <1>1, <1>2, <1>7, <1>8, <1>9, LenProperties
<1>13. ASSUME NEW i \in 1..(Len(S) + Len(M)) PROVE (S \o M)[i] = C[Len(G) + i]
  BY <1>4, <1>7, <1>13 DEF Printed, Sound, G, C
<1>14. \A i \in 1..Len(S) : S[i] = C[Len(G) + i]
  <2> SUFFICES ASSUME NEW i \in 1..Len(S) PROVE S[i] = C[Len(G) + i]
    OBVIOUS
  <2>1. i \in 1..(Len(S) + Len(M))
    BY <1>12
  <2>2. (S \o M)[i] = S[i]
    BY <1>2, Places
  <2> QED
    BY <1>13, <2>1, <2>2
<1>15. \A i \in 1..Len(M) : M[i] = C[Len(G) + Len(S) + i]
  <2> SUFFICES ASSUME NEW i \in 1..Len(M) PROVE M[i] = C[Len(G) + Len(S) + i]
    OBVIOUS
  <2>1. Len(S) + i \in 1..(Len(S) + Len(M)) /\ Len(G) + (Len(S) + i) = Len(G) + Len(S) + i
    BY <1>12
  <2>2. (S \o M)[Len(S) + i] = M[i]
    BY <1>2, Places
  <2> QED
    BY <1>13, <2>1, <2>2
<1>16. ASSUME NEW i \in 1..Len(G \o p)
       PROVE  \E k \in i..Len(C) : (G \o p)[i] = C[k]
  <2>1. CASE i <= Len(G)
    <3>1. i \in 1..Len(G)
      BY <1>12, <2>1
    <3>2. (G \o p)[i] = G[i]
      BY <1>1, <1>2, <3>1, Places
    <3>3. \E k \in i..Len(C) : G[i] = C[k]
      BY <3>1 DEF Printed, Sound, G, C
    <3> QED
      BY <3>2, <3>3
  <2>2. CASE ~(i <= Len(G))
    <3>1. PICK j \in 1..Len(p) : i = Len(G) + j
      BY <1>7, <1>12, <2>2
    <3>2. (G \o p)[i] = p[j]
      BY <1>1, <1>2, <3>1, Places
    <3>3. CASE p[j] = S[j]
      <4>1. p[j] = C[i] /\ i \in i..Len(C)
        BY <1>12, <1>14, <3>1, <3>3
      <4> QED
        BY <3>2, <4>1
    <3>4. CASE j \in 1..Len(M) /\ p[j] = M[j]
      <4>1. p[j] = C[Len(G) + Len(S) + j] /\ Len(G) + Len(S) + j \in i..Len(C)
        BY <1>12, <1>15, <3>1, <3>4
      <4> QED
        BY <3>2, <4>1
    <3> QED
      BY <1>6, <3>3, <3>4
  <2> QED
    BY <2>1, <2>2
<1>17. ASSUME NEW i \in 1..Len(M) PROVE M[i] = C[Len(G \o p) + i]
  BY <1>7, <1>12, <1>15
<1>18. Printed(w)'
  BY <1>1, <1>5, <1>16, <1>17 DEF Printed, C
<1>19. SliceKept(w)'
  BY <1>3 DEF SliceKept
<1> QED
  BY <1>11, <1>18, <1>19 DEF Sound

\* Every step accounts for every byte.
LEMMA SoundStep ==
  TypeOK /\ LogAccounts /\ SlicesKept /\ [Next]_vars => LogAccounts' /\ SlicesKept'
<1> SUFFICES ASSUME TypeOK, LogAccounts, SlicesKept, [Next]_vars, NEW w \in Writers
             PROVE  Sound(w)'
  BY DEF LogAccounts, SlicesKept, Sound
<1>0. Sound(w)
  BY DEF LogAccounts, SlicesKept, Sound
<1>1. ASSUME UNCHANGED <<logVars, copied>> PROVE Sound(w)'
  BY <1>0, <1>1, SoundFrame DEF logVars
<1>2. ASSUME NEW c \in Calls, Start(c) \/ CheckExec(c) \/ Exit(c) PROVE Sound(w)'
  BY <1>1, <1>2
  DEF Start, CheckExec, Select, Wait, Done, Interrupted, Die, Exit, streamVars
<1>3. ASSUME NEW h \in Handlers, Interrupt(h) PROVE Sound(w)'
  BY <1>1, <1>3 DEF Interrupt, CheckChannel, CloseChannel, ClearChannel, streamVars
<1>4. ASSUME NEW v \in Writers, Stream(v) PROVE Sound(w)'
  <2>1. CASE EndOfFile(v)
    BY <1>1, <2>1 DEF EndOfFile
  <2>2. CASE v = w /\ Copy(v)
    BY <1>0, <2>2, CopySound
  <2>3. CASE v = w /\ Log(v)
    <3>1. copied'[w] = copied[w]
      BY <2>3 DEF Log, streamVars
    <3> QED
      BY <1>0, <2>3, <3>1, ReceiveSound, AppendSound DEF Log
  <2>4. CASE v # w /\ (Copy(v) \/ Log(v))
    <3>1. /\ logged'[w] = logged[w] /\ buffer'[w] = buffer[w] /\ torn'[w] = torn[w]
          /\ reader'[w] = reader[w] /\ slice'[w] = slice[w] /\ writer'[w] = writer[w]
          /\ memory'[w] = memory[w] /\ copied'[w] = copied[w]
      BY <2>4 DEF Copy, Log, BeginWrite, Receive, AppendAndLog, Rest, NextWrite,
                  streamVars, TypeOK, LogTypeOK
    <3> QED
      BY <1>0, <3>1, SoundFrame
  <2> QED
    BY <1>4, <2>1, <2>2, <2>3, <2>4 DEF Stream
<1>5. CASE UNCHANGED vars
  BY <1>1, <1>5 DEF vars, streamVars
<1>6. ASSUME NEW v \in Writers, Depart(v) PROVE Sound(w)'
  BY <1>1, <1>6 DEF Depart
<1> QED
  BY <1>2, <1>3, <1>4, <1>5, <1>6 DEF Next

-------------------------------------------------------------------------------
\* Before anything has started, everything is in its place.
LEMMA InvInit == Init => IInv
<1> SUFFICES ASSUME Init PROVE IInv
  OBVIOUS
<1>1. InStep /\ CallsEndClean
  BY DEF Init, InStep, CallsEndClean, CallInStep, EndsClean, Of
<1>2. ASSUME NEW w \in Writers PROVE Sound(w)
  <2>1. Pending(w) = <<>> \o <<>> /\ <<>> \o <<>> = <<>> /\ Len(<<>>) = 0
    BY EmptySeq, ConcatEmptySeq DEF Init, LogInit, Pending
  <2>2. NL \notin Range(<<>>)
    BY DEF Range
  <2>3. Appended(w) = <<>> /\ Pending(w) = <<>>
    BY <2>1 DEF Init, LogInit, Appended
  <2>4. Accounts(w)
    BY <2>1, <2>2, <2>3 DEF Init, LogInit, Accounts
  <2>5. Printed(w)
    BY <2>1, <2>3 DEF Printed
  <2>6. SliceKept(w)
    BY DEF Init, LogInit, SliceKept
  <2> QED
    BY <2>4, <2>5, <2>6 DEF Sound
<1> QED
  BY <1>1, <1>2, TypedInit DEF IInv, LogAccounts, SlicesKept, Sound

\* The five parts of IInv hold in every state of every behaviour.
THEOREM ExecInvariant == Spec => []IInv
<1>1. IInv /\ [Next]_vars => IInv'
  BY TypedStep, InStepStep, SoundStep DEF IInv
<1> QED
  BY InvInit, <1>1, PTL DEF Spec

\* A call of CheckExec that is over does not leave its process running, and one
\* that returns nil has read all of the output, of a command that ended well and
\* of the descendants that held its outputs.
THEOREM CleanEnds == Spec => []CallsEndClean
<1>1. IInv => CallsEndClean
  BY DEF IInv
<1> QED
  BY <1>1, ExecInvariant, PTL

\* However the output is cut into writes and the goroutines interleave, the log has
\* one byte for every byte of the output and ends lines at newlines only; what was
\* not overwritten on its way is the output in its order, and what was is replaced
\* by bytes printed later.
THEOREM NothingLost == Spec => []LogAccounts
<1>1. IInv => LogAccounts
  BY DEF IInv
<1> QED
  BY <1>1, ExecInvariant, PTL

===============================================================================
