---------------------------------- MODULE Exec ----------------------------------
(***************************************************************************)
(* fsutil: CheckExec and its relatives run a command with LogWriters on    *)
(* its output, and Interrupt is to end them all.  Every call has           *)
(*                                                                         *)
(*   the caller       start -> go -> select -> ok, error or panic          *)
(*   a waiter         wait -> send -> gone                                 *)
(*   copiers          one per stream, from the pipe into a LogWriter       *)
(*   the child        running -> exited or killed                          *)
(*   descendants      of the child, which may hold its outputs open longer *)
(*                                                                         *)
(* Calls and Interrupts run concurrently in one program, and nothing       *)
(* guards the variable interruptCh that they share.                        *)
(***************************************************************************)
EXTENDS LogWriter

CONSTANTS
  Calls,     \* calls of CheckExec, CheckExecWithEnv or CheckExecWithOutput
  Must,      \* those made through MustExec and its relatives
  Handlers,  \* calls of Interrupt
  Streams,   \* the outputs of a child
  Outputs    \* what the child of a call may print on each

ASSUME ExecAssumption ==
  /\ Writers = Calls \X Streams
  /\ Must \subseteq Calls
  /\ Outputs \in [Writers -> SUBSET Seq(Byte)]

VARIABLES
  interruptCh, \* the variable: the channel or nil
  closed,      \* whether the channel is closed
  handler,     \* where each Interrupt is
  alive,       \* FALSE once a panic has ended the program
  caller,      \* where each call is
  ch,          \* the channel its select waits on
  waiter,      \* where its waiting goroutine is
  child,       \* its process
  failed,      \* whether the process has exited with an error
  unread,      \* what the copiers have not read yet of the output
  copied,      \* the bytes.Buffers of CheckExecWithOutput
  copier,      \* whether the copying goroutine of a stream still runs
  held         \* whether a stream of a child that has ended is still open in a
               \* descendant that inherited it

interruptVars == <<interruptCh, closed, handler>>
callVars      == <<caller, ch, waiter, child, failed>>
streamVars    == <<unread, copied, copier, held>>
vars == <<interruptVars, alive, callVars, streamVars, logVars>>

Of(c) == {w \in Writers : w[1] = c}

Init ==
  /\ LogInit
  /\ interruptCh = "channel" /\ closed = FALSE /\ alive = TRUE
  /\ handler = [h \in Handlers |-> "idle"]
  /\ caller  = [c \in Calls |-> "idle"]
  /\ ch      = [c \in Calls |-> "nil"]
  /\ waiter  = [c \in Calls |-> "none"]
  /\ child   = [c \in Calls |-> "none"]
  /\ failed  = [c \in Calls |-> FALSE]
  /\ unread  \in {f \in [Writers -> UNION Range(Outputs)] : \A w \in Writers : f[w] \in Outputs[w]}
  /\ copied  = [w \in Writers |-> <<>>]
  /\ copier  = [w \in Writers |-> "none"]
  /\ held    = [w \in Writers |-> FALSE]

-------------------------------------------------------------------------------
(* The call.                                                                 *)

\* Mutated: the error is dropped.
FinishRegardless(c, err) == caller' = [caller EXCEPT ![c] = "ok"]

\* An error is returned, or is the panic of MustExec.
Finish(c, err) ==
  caller' = [caller EXCEPT ![c] =
               IF ~err THEN "ok" ELSE IF c \in Must THEN "panic" ELSE "error"]

\* cmd.Start, which starts the copiers too.
Start(c) ==
  /\ caller[c] = "idle"
  /\ \/ /\ caller' = [caller EXCEPT ![c] = "started"]
        /\ child'  = [child EXCEPT ![c] = "running"]
        /\ copier' = [w \in Writers |-> IF w \in Of(c) THEN "running" ELSE copier[w]]
     \/ /\ Finish(c, TRUE)
        /\ UNCHANGED <<child, copier>>
  /\ UNCHANGED <<ch, waiter, failed, unread, copied, held, interruptVars, alive, logVars>>

\* The waiter is started; select reads interruptCh once, as it is now.
Select(c) ==
  /\ caller[c] = "started"
  /\ caller' = [caller EXCEPT ![c] = "select"]
  /\ waiter' = [waiter EXCEPT ![c] = "wait"]
  /\ ch'     = [ch EXCEPT ![c] = interruptCh]
  /\ UNCHANGED <<child, failed, streamVars, interruptVars, alive, logVars>>

\* Mutated: Wait does not wait for the copiers.
WaitForProcess(c) ==
  /\ waiter[c] = "wait"
  /\ child[c] \in {"exited", "killed"}
  /\ waiter' = [waiter EXCEPT ![c] = "send"]
  /\ UNCHANGED <<caller, ch, child, failed, streamVars, interruptVars, alive, logVars>>

\* cmd.Wait: for the process, and for the copiers to have read everything.
Wait(c) ==
  /\ waiter[c] = "wait"
  /\ child[c] \in {"exited", "killed"}
  /\ \A w \in Of(c) : copier[w] = "done"
  /\ waiter' = [waiter EXCEPT ![c] = "send"]
  /\ UNCHANGED <<caller, ch, child, failed, streamVars, interruptVars, alive, logVars>>

\* select, first case: the channel is unbuffered, so the waiter ends too.
Done(c) ==
  /\ caller[c] = "select" /\ waiter[c] = "send"
  /\ Finish(c, failed[c] \/ child[c] = "killed")
  /\ waiter' = [waiter EXCEPT ![c] = "gone"]
  /\ UNCHANGED <<ch, child, failed, streamVars, interruptVars, alive, logVars>>

\* The process of a call ends.  What it has started goes on, and may hold some
\* of its outputs open.
Leave(c) == \E open \in SUBSET Of(c) :
  held' = [w \in Writers |-> held[w] \/ w \in open]

\* select, second case: kill the process, and only it, and panic.  The waiter
\* will find nobody to send to.
Interrupted(c) ==
  /\ caller[c] = "select" /\ ch[c] = "channel" /\ closed
  /\ \/ child[c] = "running" /\ child' = [child EXCEPT ![c] = "killed"] /\ Leave(c)
     \/ child[c] # "running" /\ UNCHANGED <<child, held>>
  /\ caller' = [caller EXCEPT ![c] = "panic"]
  /\ UNCHANGED <<ch, waiter, failed, unread, copied, copier, interruptVars, alive, logVars>>

\* No function of the repository recovers: having run the deferred functions of
\* its own goroutine, a panic ends the program, and the children go on.
Die(c) ==
  /\ caller[c] = "panic"
  /\ alive' = FALSE
  /\ UNCHANGED <<callVars, streamVars, interruptVars, logVars>>

-------------------------------------------------------------------------------
(* The child and its output.                                                 *)

\* It exits when it likes, or never.
Exit(c) == \E err \in BOOLEAN :
  /\ child[c] = "running"
  /\ child'  = [child EXCEPT ![c] = "exited"]
  /\ failed' = [failed EXCEPT ![c] = err]
  /\ Leave(c)
  /\ UNCHANGED <<caller, ch, waiter, unread, copied, copier, interruptVars, alive, logVars>>

\* The last descendant that holds an output closes it, or ends; or it never does.
Depart(w) ==
  /\ held[w]
  /\ held' = [held EXCEPT ![w] = FALSE]
  /\ UNCHANGED <<callVars, unread, copied, copier, interruptVars, alive, logVars>>

\* The copier reads what is there of the output, and calls Write.  The last
\* bytes of a killed child may never have been printed.  What the descendants
\* print is part of the output.
Copy(w) == \E n \in 1..Len(unread[w]) :
  /\ copier[w] = "running"
  /\ BeginWrite(w, SubSeq(unread[w], 1, n))
  /\ unread' = [unread EXCEPT ![w] = SubSeq(unread[w], n + 1, Len(unread[w]))]
  /\ copied' = [copied EXCEPT ![w] = @ \o SubSeq(unread[w], 1, n)]
  /\ UNCHANGED <<copier, held, callVars, interruptVars, alive>>

\* The pipe ends when nobody has it open: neither the child nor a descendant.
EndOfFile(w) ==
  /\ copier[w] = "running" /\ writer[w] = "free" /\ ~held[w]
  /\ \/ child[w[1]] = "exited" /\ unread[w] = <<>>
     \/ child[w[1]] = "killed"
  /\ copier' = [copier EXCEPT ![w] = "done"]
  /\ UNCHANGED <<unread, copied, held, callVars, interruptVars, alive, logVars>>

Log(w) ==
  /\ Receive(w) \/ AppendAndLog(w)
  /\ UNCHANGED <<interruptVars, alive, callVars, streamVars>>

-------------------------------------------------------------------------------
(* Interrupt.                                                                *)

\* Each of the three lines reads or writes the variable anew.
CheckChannel(h) ==
  /\ handler[h] = "idle"
  /\ handler' = [handler EXCEPT ![h] = IF interruptCh = "nil" THEN "done" ELSE "close"]
  /\ UNCHANGED <<interruptCh, closed, alive, callVars, streamVars, logVars>>

\* Mutated: the variable is cleared, and the channel is not closed.
SkipClose(h) ==
  /\ handler[h] = "close"
  /\ handler' = [handler EXCEPT ![h] = "clear"]
  /\ UNCHANGED <<interruptCh, closed, alive, callVars, streamVars, logVars>>

\* close of a nil or of a closed channel panics, and ends the program.
CloseChannel(h) ==
  /\ handler[h] = "close"
  /\ IF interruptCh = "nil" \/ closed
     THEN /\ alive' = FALSE
          /\ UNCHANGED <<closed, handler>>
     ELSE /\ closed' = TRUE
          /\ handler' = [handler EXCEPT ![h] = "clear"]
          /\ UNCHANGED alive
  /\ UNCHANGED <<interruptCh, callVars, streamVars, logVars>>

ClearChannel(h) ==
  /\ handler[h] = "clear"
  /\ interruptCh' = "nil"
  /\ handler' = [handler EXCEPT ![h] = "done"]
  /\ UNCHANGED <<closed, alive, callVars, streamVars, logVars>>

Interrupt(h) == CheckChannel(h) \/ CloseChannel(h) \/ ClearChannel(h)

-------------------------------------------------------------------------------
CheckExec(c) ==
  Select(c) \/ Wait(c) \/ Done(c) \/ Interrupted(c) \/ Die(c)

Stream(w) == Copy(w) \/ EndOfFile(w) \/ Log(w)

Next ==
  \/ /\ alive
     /\ \/ \E c \in Calls : Start(c) \/ CheckExec(c)
        \/ \E w \in Writers : Stream(w)
        \/ \E h \in Handlers : Interrupt(h)
  \/ \E c \in Calls : Exit(c)
  \/ \E w \in Writers : Depart(w)

Spec == Init /\ [][Next]_vars

\* What the goroutines of the program do of themselves.
Work ==
  \/ \E c \in Calls : CheckExec(c)
  \/ \E w \in Writers : Stream(w)
  \/ \E h \in Handlers : CloseChannel(h) \/ ClearChannel(h)

\* The Go scheduler lets some goroutine go on while one can.  That is enough: each
\* has finitely many steps to take, so that none is passed over for ever.  A child
\* or a descendant may run for ever, and nobody has to start a command or to
\* interrupt one.
Fairness == WF_vars(alive /\ Work)

FairSpec == Spec /\ Fairness

-------------------------------------------------------------------------------
(* Properties.                                                               *)

\* Every variable keeps its type.
TypeOK ==
  /\ interruptCh \in {"channel", "nil"} /\ closed \in BOOLEAN
  /\ alive \in BOOLEAN
  /\ handler \in [Handlers -> {"idle", "close", "clear", "done"}]
  /\ caller \in [Calls -> {"idle", "started", "select", "ok", "error", "panic"}]
  /\ ch     \in [Calls -> {"channel", "nil"}]
  /\ waiter \in [Calls -> {"none", "wait", "send", "gone"}]
  /\ child  \in [Calls -> {"none", "running", "exited", "killed"}]
  /\ failed \in [Calls -> BOOLEAN]
  /\ unread \in [Writers -> Seq(Byte)]
  /\ copied \in [Writers -> Seq(Byte)]
  /\ copier \in [Writers -> {"none", "running", "done"}]
  /\ held   \in [Writers -> BOOLEAN]
  /\ LogTypeOK

\* Why the next property holds: where the goroutines of a call can be.
CallInStep(c) ==
  /\ caller[c] = "idle" => child[c] = "none"
  /\ caller[c] \in {"idle", "started"} => waiter[c] = "none"
  /\ waiter[c] = "send" => /\ child[c] \in {"exited", "killed"}
                           /\ \A w \in Of(c) : copier[w] = "done"
  /\ \A w \in Of(c) : copier[w] = "done" =>
       ~held[w] /\ (child[c] = "killed" \/ (child[c] = "exited" /\ unread[w] = <<>>))

Over(c) == caller[c] \in {"ok", "error", "panic"}

EndsClean(c) ==
  /\ Over(c) => child[c] # "running"
  /\ caller[c] = "ok" => /\ child[c] = "exited" /\ ~failed[c]
                         /\ \A w \in Of(c) : unread[w] = <<>> /\ ~held[w]

InStep == \A c \in Calls : CallInStep(c)

\* A call that is over, whichever way, does not leave its process running; and a
\* call that returns without an error returns all of the output of a command that
\* has ended by itself, and of what it has started: nobody can print any more.
\* The output is read, logged and waited for by four other goroutines.
CallsEndClean == \A c \in Calls : EndsClean(c)

\* What has been appended to the log: the lines, and the unfinished one.
Appended(w) == logged[w] \o buffer[w]

\* Lines are cut at newlines only, no byte is dropped or added, and without a
\* torn write the log is the output.
Accounts(w) ==
  /\ Len(Appended(w) \o Pending(w)) = Len(copied[w])
  /\ NL \notin Range(buffer[w])
  /\ logged[w] # <<>> => logged[w][Len(logged[w])] = NL
  /\ ~torn[w] => Appended(w) \o Pending(w) = copied[w]

\* A byte on its way is the byte of the output in its place.  A byte in the log
\* is that one or, if it was overwritten on its way, one that came later: it was
\* printed, and no older byte comes again.
Printed(w) ==
  /\ \A i \in 1..Len(Pending(w)) :
       Pending(w)[i] = copied[w][Len(Appended(w)) + i]
  /\ \A i \in 1..Len(Appended(w)) :
       \E k \in i..Len(copied[w]) : Appended(w)[i] = copied[w][k]

\* Why: the memory behind a slice is overwritten by the next Write, not before.
SliceKept(w) == reader[w] = "append" /\ writer[w] = "free" => memory[w] = slice[w]

\* However the output is cut into writes, the log has a byte for every byte of
\* it, in lines that end where the logged bytes have a newline.  The bytes are
\* those of the output unless a write has been overwritten while it was on its
\* way; then some are replaced (the log is wrong there), by later bytes only.
LogAccounts == \A w \in Writers : Accounts(w) /\ Printed(w)

SlicesKept == \A w \in Writers : SliceKept(w)

\* The inductive invariant of the proofs: goroutines in step, bytes accounted for.
IInv == TypeOK /\ InStep /\ CallsEndClean /\ LogAccounts /\ SlicesKept

\* Nothing prints any more: the child has ended, and nobody holds its outputs.
Ended(c) == child[c] \in {"exited", "killed"} /\ \A w \in Of(c) : ~held[w]

\* A call that waits on the channel of an interrupt that is over.
Reached(c) == interruptCh = "nil" /\ caller[c] = "select" /\ ch[c] = "channel"

\* An interrupt that is over has reached every call that was waiting: they end,
\* unless the program does first.
InterruptEndsCalls ==
  (\E c \in Calls : Reached(c)) ~> (~alive \/ \A c \in Calls : ~Reached(c))

\* When the command has ended and nobody has its outputs open any more, the call
\* ends: no goroutine waits for another that has gone.  Until then cmd.Wait, and
\* the call with it, waits for the descendants, which may be for ever.
ExitEndsCall ==
  (\E c \in Calls : Ended(c) /\ ~Over(c))
    ~> (~alive \/ \A c \in Calls : Ended(c) => Over(c))

\* fsutil.go:19: Interrupt "causes all executing processes to die": those that
\* run when it closes the channel.
InterruptKillsAll == \A c \in Calls :
  (closed /\ interruptCh = "channel" /\ child[c] = "running")
    ~> (child[c] # "running")

===============================================================================
