------------------------------- MODULE Shell -------------------------------
(***************************************************************************)
(* One session channel: handleSSHRequest serves its requests in order, and *)
(* starts a shell or a command on a pseudo terminal.  Two goroutines copy  *)
(* between the channel and the terminal; the first to return tears the     *)
(* session down, once.  The other services of a channel, the SFTP          *)
(* subsystem and scp, run in goroutines of their own (Handles, Scp).       *)
(***************************************************************************)
EXTENDS Integers, Sequences

CONSTANTS ReqBuffer, \* external: requests that the SSH library buffers for a channel
          MaxAsked   \* bound: requests that the client makes on the channel

VARIABLES chan,    \* the channel: "open" or "closed", and whether the client has sent EOF
          asked,   \* the requests waiting in "in", and how many there were
          reqLoop, \* handleSSHRequest: "loop", "exec" when a command ended it, or "over"
          pty,     \* pty[k]: the k-th terminal opened: are its master and slave open
          mine,    \* the terminal in fPty and tty, 0 for nil
          child,   \* the process: its kind, where it is and its terminal
          copy,    \* the copying goroutines, out of the terminal and in to it
          once,    \* sync.Once: "no", "closing", "done"
          lost     \* the server has panicked

shellVars == <<chan, asked, reqLoop, pty, mine, child, copy, once, lost>>

NoChild == [kind |-> "none", at |-> "none", pty |-> 0]

ShellInit ==
  /\ chan = [open |-> TRUE, eof |-> FALSE]
  /\ asked = [queue |-> << >>, n |-> 0, terminals |-> 0, started |-> FALSE]
  /\ reqLoop = "loop" /\ pty = << >> /\ mine = 0 /\ child = NoChild
  /\ copy = [out |-> "none", in |-> "none"] /\ once = "no" /\ lost = FALSE

-----------------------------------------------------------------------------
(* External: the client asks, at most once for a program, and leaves.      *)

clientAsks ==
  /\ chan.open /\ asked.n < MaxAsked /\ Len(asked.queue) < ReqBuffer
  /\ \E q \in {"pty-req", "shell", "exec", "window-change", "env"} :
       /\ q \in {"shell", "exec"} => ~asked.started
       /\ asked' = [queue |-> Append(asked.queue, q), n |-> asked.n + 1,
                    terminals |-> asked.terminals + (IF q = "pty-req" THEN 1 ELSE 0),
                    started |-> asked.started \/ q \in {"shell", "exec"}]
  /\ UNCHANGED <<chan, reqLoop, pty, mine, child, copy, once, lost>>

clientEnds ==
  /\ chan.open
  /\ \/ ~chan.eof /\ chan' = [chan EXCEPT !.eof = TRUE]
     \/ chan' = [open |-> FALSE, eof |-> TRUE]
  /\ UNCHANGED <<asked, reqLoop, pty, mine, child, copy, once, lost>>

-----------------------------------------------------------------------------
(* handleSSHRequest.                                                       *)

Up(q) == reqLoop = "loop" /\ ~lost /\ asked.queue # << >> /\ Head(asked.queue) = q
Taken == asked' = [asked EXCEPT !.queue = Tail(@)]

Opened == [master |-> TRUE, slave |-> TRUE]
Started == [master |-> TRUE, slave |-> FALSE]  \* PtyRun closes the server's slave

\* Granted with a terminal, without one when pty.Open fails, or refused.
ptyReq ==
  /\ Up("pty-req") /\ Taken
  /\ \/ pty' = Append(pty, Opened) /\ mine' = Len(pty) + 1
     \/ mine' = 0 /\ UNCHANGED pty
     \/ UNCHANGED <<pty, mine>>
  /\ UNCHANGED <<chan, reqLoop, child, copy, once, lost>>

shellRefused == UNCHANGED <<reqLoop, pty, child, copy>>

\* handleShell goes on when the process could not be started.
shell ==
  /\ Up("shell") /\ Taken
  /\ IF mine = 0 THEN shellRefused
     ELSE /\ pty' = [pty EXCEPT ![mine].slave = FALSE]
          /\ child' \in {[kind |-> "shell", at |-> a, pty |-> mine] : a \in {"running", "failed"}}
          /\ copy' = [out |-> "copy", in |-> "copy"]
          /\ UNCHANGED reqLoop
  /\ UNCHANGED <<chan, mine, once, lost>>

\* handleExec, after which handleSSHRequest returns whatever came of it; or permission
\* denied.
exec ==
  /\ Up("exec") /\ Taken
  /\ \/ /\ pty' = Append(pty, Started)
        /\ child' = [kind |-> "exec", at |-> "running", pty |-> Len(pty) + 1]
        /\ copy' = [out |-> "copy", in |-> "copy"] /\ reqLoop' = "exec"
     \/ pty' = Append(pty, Started) /\ reqLoop' = "exec" /\ UNCHANGED <<child, copy>>
     \/ reqLoop' = "exec" /\ UNCHANGED <<pty, child, copy>>
     \/ UNCHANGED <<reqLoop, pty, child, copy>>
  /\ UNCHANGED <<chan, mine, once, lost>>

otherRequest ==
  /\ Up("window-change") \/ Up("env")
  /\ Taken
  /\ UNCHANGED <<chan, reqLoop, pty, mine, child, copy, once, lost>>

Shut == [master |-> FALSE, slave |-> FALSE]

\* The channel is closed and nothing is left to serve.
requestsEnd ==
  /\ reqLoop = "loop" /\ ~lost /\ ~chan.open /\ asked.queue = << >>
  /\ reqLoop' = "over"
  /\ pty' = IF mine = 0 THEN pty ELSE [pty EXCEPT ![mine] = Shut]
  /\ UNCHANGED <<chan, asked, mine, child, copy, once, lost>>

-----------------------------------------------------------------------------
(* The copying goroutines and the teardown.                                *)

Term == pty[child.pty]

\* The terminal ends when nobody holds its slave, or when its master is closed; a write
\* to a closed channel fails.
copyOutReturns ==
  /\ ~lost /\ copy.out = "copy" /\ (child.at # "running" \/ ~Term.master \/ ~chan.open)
  /\ copy' = [copy EXCEPT !.out = "once"]
  /\ UNCHANGED <<chan, asked, reqLoop, pty, mine, child, once, lost>>

\* Mutant: the end of the channel does not end the session.
copyInReturnsNot ==
  /\ ~lost /\ copy.in = "copy" /\ (chan.eof \/ ~Term.master)
  /\ copy' = [copy EXCEPT !.in = "over"]
  /\ UNCHANGED <<chan, asked, reqLoop, pty, mine, child, once, lost>>

copyInReturns ==
  /\ ~lost /\ copy.in = "copy" /\ (chan.eof \/ ~Term.master)
  /\ copy' = [copy EXCEPT !.in = "once"]
  /\ UNCHANGED <<chan, asked, reqLoop, pty, mine, child, once, lost>>

\* once.Do(close): close the channel and the terminal, kill a command, and wait.  There
\* is no process to wait for when it could not be started.
teardown(g) ==
  /\ ~lost /\ copy[g] = "once" /\ once = "no"
  /\ once' = "closing"
  /\ chan' = [open |-> FALSE, eof |-> TRUE]
  /\ pty' = [pty EXCEPT ![child.pty] = Shut]
  /\ lost' = (child.at = "failed")
  /\ UNCHANGED <<asked, reqLoop, mine, child, copy>>

processWait ==
  /\ ~lost /\ once = "closing" /\ child.at = "exited"
  /\ child' = [child EXCEPT !.at = "reaped"] /\ once' = "done"
  /\ UNCHANGED <<chan, asked, reqLoop, pty, mine, copy, lost>>

\* Both goroutines return from once.Do when the teardown is complete.
onceDone(g) ==
  /\ ~lost /\ copy[g] = "once" /\ once = "done"
  /\ copy' = [copy EXCEPT ![g] = "over"]
  /\ UNCHANGED <<chan, asked, reqLoop, pty, mine, child, once, lost>>

\* External: a process exits when it likes, and when it is killed or hung up.
childExits ==
  /\ child.at = "running"
  /\ child' = [child EXCEPT !.at = "exited"]
  /\ UNCHANGED <<chan, asked, reqLoop, pty, mine, copy, once, lost>>

-----------------------------------------------------------------------------
Goroutines == {"out", "in"}
requestSteps == ptyReq \/ shell \/ exec \/ otherRequest \/ requestsEnd
copySteps ==
  copyOutReturns \/ copyInReturns \/ processWait \/ \E g \in Goroutines : teardown(g) \/ onceDone(g)
hungUpChildExits == once = "closing" /\ childExits

ShellNext == clientAsks \/ clientEnds \/ requestSteps \/ copySteps \/ childExits

-----------------------------------------------------------------------------
Quiet == reqLoop # "loop" /\ copy.out \in {"none", "over"} /\ copy.in \in {"none", "over"}

\* When a shell session is over its terminal is closed on both sides, whichever of the
\* request loop, the two goroutines and the client was last.  A command leaves the
\* terminal of an earlier pty-req open, and a second pty-req the first one's.
ShellClosesTerminal ==
  Quiet /\ ~lost /\ reqLoop = "over" /\ asked.terminals <= 1 =>
    \A k \in DOMAIN pty : pty[k] = Shut

\* A process is waited for after its client has left or its output has ended: no zombie
\* is kept, whichever goroutine sees the end first.
ChildIsReaped ==
  (child.at \in {"running", "exited"} /\ (chan.eof \/ child.at = "exited")) ~> (child.at = "reaped" \/ lost)

\* The requests of a channel are always taken from the library, which stops the whole
\* connection when its buffer is full; but not after a command has been started.
RequestsAreTaken ==
  (Len(asked.queue) = ReqBuffer) ~> (Len(asked.queue) < ReqBuffer \/ reqLoop = "exec" \/ lost)
=============================================================================
