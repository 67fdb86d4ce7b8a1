---------------------------- MODULE ChildProcess ----------------------------
(***************************************************************************)
(* One run of another program, in the four ways the source has: exec() of  *)
(* src/devices/device_manager.cpp for POSIX and for Windows, and run_shell *)
(* of the Windows and the macOS system backends (run_shell of Linux is     *)
(* exec).  The other program is outside the source: a sequence of steps    *)
(* that write a bufferful, read one, close their ends of the pipes, start  *)
(* a process that inherits them or never end.  What the pipes carry is     *)
(* counted in bufferfuls: a pipe delivers in order what was written to it. *)
(***************************************************************************)
EXTENDS Integers, Sequences, FiniteSets

CONSTANTS
  Programs,  \* what the programs in play do, sequences of Steps
  Inputs,    \* how much there is to write to their standard input
  Capacity   \* what a pipe holds

Steps == {"out", "err", "in", "close", "fork", "hang"}

ASSUME ProgramsAssumption == Programs \subseteq Seq(Steps)
ASSUME BoundsAssumption == Inputs \subseteq Nat /\ Capacity \in Nat \ {0}

VARIABLES
  caller,    \* rigid: "posix", "windows", "windows_shell" or "mac_shell"
  program,   \* rigid: what the child does
  status,    \* rigid: the code it exits with if it comes to that
  input,     \* rigid: what there is to write to it
  child,     \* "none", "running", "ending" (a signal is on its way),
             \* "exited" or "killed"
  step,      \* the next step of the child
  holders,   \* who holds the far ends of the pipes: "child", "background"
  given,     \* what was written to its standard input
  eaten,     \* what it read of that
  stdinOpen, \* the caller's end of its standard input
  written,   \* what it wrote to each pipe
  taken,     \* what the caller read from each
  reading,   \* the pipes the caller has not closed
  expired,   \* the timeout has run out
  pollFailed,\* history: poll() has failed
  pc,        \* where the caller is
  result     \* ExecResult or ShellResult

rigid == <<caller, program, status, input>>
theirs == <<child, step, holders, eaten, written>>
ours == <<given, stdinOpen, taken, reading, expired, pollFailed, pc, result>>
vars == <<rigid, theirs, ours>>

Pipes == {"out", "err"}
Nothing == [p \in Pipes |-> 0]
IsExec == caller \in {"posix", "windows"}

Init ==
  /\ caller \in {"posix", "windows", "windows_shell", "mac_shell"}
  /\ program \in Programs
  /\ status \in {0, 1}
  /\ input \in Inputs /\ (~IsExec => input = 0)
  /\ child = "none" /\ step = 1 /\ holders = {}
  /\ given = 0 /\ eaten = 0 /\ stdinOpen = IsExec
  /\ written = Nothing /\ taken = Nothing /\ reading = Pipes
  /\ expired = FALSE /\ pollFailed = FALSE
  /\ pc = "start"
  /\ result = [got |-> Nothing, timedOut |-> FALSE, spawnFailed |-> FALSE, exitCode |-> -1]

Waiting(p) == written[p] - taken[p]
AtEnd(p) == Waiting(p) = 0 /\ holders = {}
Ended == child \in {"exited", "killed"}

-----------------------------------------------------------------------------
(* The program, which the source does not contain. *)
Does(what) == child = "running" /\ step <= Len(program) /\ program[step] = what
Holds == "child" \in holders

(* A write fails, or kills with SIGPIPE, where nobody reads any more. *)
ChildWrites(p) ==
  /\ Does(p)
  /\ step' = step + 1
  /\ \/ /\ Holds /\ p \in reading /\ Waiting(p) < Capacity
        /\ written' = [written EXCEPT ![p] = @ + 1]
        /\ UNCHANGED <<child, holders>>
     \/ /\ ~Holds
        /\ UNCHANGED <<child, holders, written>>
     \/ /\ Holds /\ p \notin reading
        /\ child' = "killed" /\ holders' = holders \ {"child"}
        /\ UNCHANGED written
  /\ UNCHANGED <<rigid, eaten, ours>>

ChildReads ==
  /\ Does("in")
  /\ step' = step + 1
  /\ \/ Holds /\ given > eaten /\ eaten' = eaten + 1
     \/ ~Holds /\ UNCHANGED eaten
     \/ given = eaten /\ ~stdinOpen /\ UNCHANGED eaten
  /\ UNCHANGED <<rigid, child, holders, written, ours>>

ChildDetaches ==
  /\ step' = step + 1
  /\ \/ Does("close") /\ holders' = holders \ {"child"}
     \/ Does("fork") /\ Holds /\ holders' = holders \cup {"background"}
     \/ Does("fork") /\ ~Holds /\ UNCHANGED holders
  /\ UNCHANGED <<rigid, child, eaten, written, ours>>

ChildEnds ==
  /\ \/ child = "running" /\ step > Len(program) /\ child' = "exited"
     \/ child = "ending" /\ child' = "killed"
  /\ holders' = holders \ {"child"}
  /\ UNCHANGED <<rigid, step, eaten, written, ours>>

BackgroundEnds ==
  /\ "background" \in holders
  /\ holders' = holders \ {"background"}
  /\ UNCHANGED <<rigid, child, step, eaten, written, ours>>

-----------------------------------------------------------------------------
(* Beginning a call, the same in all four. *)
Spawn ==
  /\ pc = "start"
  /\ \/ /\ child' = "running" /\ holders' = {"child"}
        /\ pc' = IF IsExec THEN "write" ELSE "wait"
        /\ UNCHANGED result
     \/ /\ result' = [result EXCEPT !.spawnFailed = TRUE]
        /\ pc' = "returned"
        /\ UNCHANGED <<child, holders>>
  /\ UNCHANGED <<rigid, step, eaten, written, given, stdinOpen, taken, reading,
                 expired, pollFailed>>

(***************************************************************************)
(* exec writes all of stdin_data before it does anything else.  On POSIX a *)
(* write to a program that is gone raises SIGPIPE, which nothing handles.  *)
(***************************************************************************)
WriteInput ==
  /\ pc = "write"
  /\ \/ /\ given < input /\ holders # {}
        /\ given - eaten < Capacity
        /\ given' = given + 1
        /\ UNCHANGED <<pc, stdinOpen>>
     \/ /\ given < input /\ holders = {} /\ caller = "posix"
        /\ pc' = "killed"
        /\ UNCHANGED <<given, stdinOpen>>
     \/ /\ given = input \/ (holders = {} /\ caller = "windows")
        /\ stdinOpen' = FALSE
        /\ pc' = IF caller = "posix" THEN "poll" ELSE "drain_out"
        /\ UNCHANGED given
  /\ UNCHANGED <<rigid, theirs, taken, reading, expired, pollFailed, result>>

(* The timeout can be found to have run out where the code looks at the    *)
(* clock: neither while exec writes, nor in waitpid, nor in a drain.       *)
Expire ==
  /\ pc \in {"poll", "wait"} /\ ~expired
  /\ expired' = TRUE
  /\ UNCHANGED <<rigid, theirs, given, stdinOpen, taken, reading, pollFailed, pc, result>>

-----------------------------------------------------------------------------
(* exec on POSIX. *)
Take(ready) == [p \in Pipes |-> IF p \in ready /\ Waiting(p) > 0 THEN taken[p] + 1 ELSE taken[p]]

Ready == {p \in reading : Waiting(p) > 0 \/ AtEnd(p)}

(* Mutant of PollReads: a hang-up closes the pipe, whatever is still in it. *)
PollReadsUntilHangUp ==
  /\ caller = "posix" /\ pc = "poll" /\ ~expired
  /\ Ready # {}
  /\ taken' = Take(Ready)
  /\ reading' = reading \ {p \in Ready : holders = {}}
  /\ pc' = IF reading' = {} THEN "reap" ELSE "poll"
  /\ UNCHANGED <<rigid, theirs, given, stdinOpen, expired, pollFailed, result>>

(* Mutant of PollReads: stdout to its end first, stderr after that. *)
PollReadsInTurn ==
  /\ caller = "posix" /\ pc = "poll" /\ ~expired
  /\ LET turn == IF "out" \in reading THEN Ready \cap {"out"} ELSE Ready
     IN /\ turn # {}
        /\ taken' = Take(turn)
        /\ reading' = reading \ {p \in turn : AtEnd(p)}
  /\ pc' = IF reading' = {} THEN "reap" ELSE "poll"
  /\ UNCHANGED <<rigid, theirs, given, stdinOpen, expired, pollFailed, result>>

(* One turn of the loop with something to read or an end to see. *)
PollReads ==
  /\ caller = "posix" /\ pc = "poll" /\ ~expired
  /\ Ready # {}
  /\ taken' = Take(Ready)
  /\ reading' = reading \ {p \in Ready : AtEnd(p)}
  /\ pc' = IF reading' = {} THEN "reap" ELSE "poll"
  /\ UNCHANGED <<rigid, theirs, given, stdinOpen, expired, pollFailed, result>>

PollFails ==
  /\ caller = "posix" /\ pc = "poll" /\ ~expired
  /\ pollFailed' = TRUE
  /\ reading' = {}
  /\ pc' = "reap"
  /\ UNCHANGED <<rigid, theirs, given, stdinOpen, taken, expired, result>>

(* Mutant of PollExpires: the child is left to itself. *)
PollExpiresWithoutKill ==
  /\ caller = "posix" /\ pc = "poll" /\ expired
  /\ result' = [result EXCEPT !.timedOut = TRUE]
  /\ reading' = {}
  /\ pc' = "reap"
  /\ UNCHANGED <<rigid, theirs, given, stdinOpen, taken, expired, pollFailed>>

(* The loop finds the deadline behind it: SIGKILL. *)
PollExpires ==
  /\ caller = "posix" /\ pc = "poll" /\ expired
  /\ result' = [result EXCEPT !.timedOut = TRUE]
  /\ reading' = {}
  /\ child' = IF Ended THEN child ELSE "ending"
  /\ pc' = "reap"
  /\ UNCHANGED <<rigid, step, holders, eaten, written, given, stdinOpen, taken,
                 expired, pollFailed>>

(* Mutant of Reap: WEXITSTATUS of whatever the status is. *)
ReapUnread ==
  /\ caller = "posix" /\ pc = "reap"
  /\ Ended
  /\ result' = [result EXCEPT !.exitCode = IF child = "exited" THEN status ELSE 0,
                              !.got = taken]
  /\ pc' = "returned"
  /\ UNCHANGED <<rigid, theirs, given, stdinOpen, taken, reading, expired, pollFailed>>

(* waitpid without a timeout; WIFEXITED tells an exit from a signal. *)
Reap ==
  /\ caller = "posix" /\ pc = "reap"
  /\ Ended
  /\ result' = [result EXCEPT !.exitCode = IF child = "exited" THEN status ELSE -1,
                              !.got = taken]
  /\ pc' = "returned"
  /\ UNCHANGED <<rigid, theirs, given, stdinOpen, taken, reading, expired, pollFailed>>

-----------------------------------------------------------------------------
(* exec on Windows: one pipe to its end, then the other, then the process. *)
Drain(p, here, next) ==
  /\ pc = here
  /\ \/ /\ Waiting(p) > 0
        /\ taken' = Take({p})
        /\ UNCHANGED <<reading, pc>>
     \/ /\ AtEnd(p)
        /\ reading' = reading \ {p}
        /\ pc' = next
        /\ UNCHANGED taken
  /\ UNCHANGED <<rigid, theirs, given, stdinOpen, expired, pollFailed, result>>

DrainBoth == Drain("out", "drain_out", "drain_err") \/ Drain("err", "drain_err", "wait")

(* TerminateProcess only asks: the exit code may still be STILL_ACTIVE. *)
StillActive == 259
WaitForExec ==
  /\ caller = "windows" /\ pc = "wait"
  /\ \/ /\ Ended
        /\ result' = [result EXCEPT !.got = taken, !.exitCode = status]
        /\ UNCHANGED <<child, holders>>
     \/ /\ ~Ended /\ expired
        /\ \E code \in {1, StillActive} :
             /\ result' = [result EXCEPT !.got = taken, !.timedOut = TRUE, !.exitCode = code]
             /\ child' = IF code = 1 THEN "killed" ELSE "ending"
        /\ holders' = IF child' = "killed" THEN holders \ {"child"} ELSE holders
  /\ pc' = "returned"
  /\ UNCHANGED <<rigid, step, eaten, written, given, stdinOpen, taken, reading,
                 expired, pollFailed>>

-----------------------------------------------------------------------------
(* run_shell: a reader for each pipe beside the wait for the process. *)
ReaderSteps(p) ==
  /\ ~IsExec /\ pc \in {"wait", "grace", "join"} /\ p \in reading
  /\ \/ Waiting(p) > 0 /\ taken' = Take({p}) /\ UNCHANGED reading
     \/ AtEnd(p) /\ reading' = reading \ {p} /\ UNCHANGED taken
  /\ UNCHANGED <<rigid, theirs, given, stdinOpen, expired, pollFailed, pc, result>>

(* A timeout asks the child to end: SIGTERM, which it may ignore, or not. *)
WaitForShell ==
  /\ ~IsExec /\ pc = "wait"
  /\ \/ Ended /\ pc' = "join" /\ UNCHANGED <<child, result>>
     \/ /\ ~Ended /\ expired
        /\ result' = [result EXCEPT !.timedOut = TRUE]
        /\ child' \in IF caller = "mac_shell" THEN {"ending", child} ELSE {"ending"}
        /\ pc' = "grace"
  /\ UNCHANGED <<rigid, step, holders, eaten, written, given, stdinOpen, taken,
                 reading, expired, pollFailed>>

(* Two seconds for it to end; macOS then kills what is still running. *)
Grace ==
  /\ ~IsExec /\ pc = "grace"
  /\ child' = IF caller = "mac_shell" /\ ~Ended THEN "ending" ELSE child
  /\ pc' = "join"
  /\ UNCHANGED <<rigid, step, holders, eaten, written, given, stdinOpen, taken,
                 reading, expired, pollFailed, result>>

(***************************************************************************)
(* Windows waits for its readers however long they take, macOS for two     *)
(* seconds, and the bytes of a reader that has not come to the end of its  *)
(* pipe are lost.                                                          *)
(***************************************************************************)
Join ==
  /\ ~IsExec /\ pc = "join"
  /\ reading = {} \/ caller = "mac_shell"
  /\ result' = [result EXCEPT
                  !.got = [p \in Pipes |-> IF p \in reading THEN 0 ELSE taken[p]],
                  !.exitCode = IF result.timedOut THEN -1 ELSE status]
  /\ pc' = "returned"
  /\ UNCHANGED <<rigid, theirs, given, stdinOpen, taken, reading, expired, pollFailed>>

-----------------------------------------------------------------------------
Program == (\E p \in Pipes : ChildWrites(p)) \/ ChildReads \/ ChildDetaches \/ ChildEnds
Readers == \E p \in Pipes : ReaderSteps(p)
Caller ==
  \/ Spawn \/ WriteInput
  \/ PollReads \/ PollExpires \/ Reap
  \/ DrainBoth \/ WaitForExec
  \/ WaitForShell \/ Grace \/ Join
Next == Program \/ BackgroundEnds \/ Expire \/ PollFails \/ Readers \/ Caller

(***************************************************************************)
(* The processes and the threads run.  Nothing makes a background process  *)
(* end, and no property may count on the timeout to come.                  *)
(***************************************************************************)
Fairness == WF_vars(Program) /\ WF_vars(Readers) /\ WF_vars(Caller)
Spec == Init /\ [][Next]_vars /\ Fairness

-----------------------------------------------------------------------------
Results ==
  [got : [Pipes -> Nat], timedOut : BOOLEAN, spawnFailed : BOOLEAN,
   exitCode : {-1, 0, 1, StillActive}]

(* Type correctness of the pipes, the processes and the caller. *)
TypeOK ==
  /\ caller \in {"posix", "windows", "windows_shell", "mac_shell"}
  /\ program \in Programs /\ status \in {0, 1} /\ input \in Inputs
  /\ child \in {"none", "running", "ending", "exited", "killed"}
  /\ step \in 1 .. Len(program) + 1
  /\ holders \subseteq {"child", "background"}
  /\ given \in 0 .. input /\ eaten \in 0 .. given
  /\ written \in [Pipes -> Nat] /\ taken \in [Pipes -> Nat]
  /\ \A p \in Pipes : Waiting(p) \in 0 .. Capacity
  /\ reading \subseteq Pipes
  /\ stdinOpen \in BOOLEAN /\ expired \in BOOLEAN /\ pollFailed \in BOOLEAN
  /\ pc \in {"start", "write", "poll", "reap", "drain_out", "drain_err", "wait",
             "grace", "join", "returned", "killed"}
  /\ result \in Results

Returned == pc = "returned"

(***************************************************************************)
(* A call that returns without a timeout returns all the program wrote,    *)
(* also what was in the pipes when it ended.  The exceptions are a failed  *)
(* poll, and a reader macOS has given up on: that pipe comes back empty.   *)
(***************************************************************************)
ResultIsComplete ==
  Returned /\ ~result.timedOut /\ ~pollFailed =>
    \A p \in Pipes :
      result.got[p] = IF caller = "mac_shell" /\ p \in reading THEN 0 ELSE written[p]

(* Exit code 0 is only ever reported of a program that exited with it. *)
SuccessIsReal ==
  Returned /\ result.exitCode = 0 => child = "exited" /\ status = 0

(* No call returns leaving its program running and not told to end. *)
NothingLeftRunning == Returned => child # "running"

(***************************************************************************)
(* A report is of a program that has ended: what is reported of it is how  *)
(* it ended, and none is left running behind its report (exec, run_shell). *)
(***************************************************************************)
ReportsAreTrue == SuccessIsReal /\ NothingLeftRunning

(***************************************************************************)
(* A call that finds its timeout run out returns, whatever the program     *)
(* does.  The exception is run_shell of Windows, whose readers also wait   *)
(* for what the program has left in the background.                        *)
(***************************************************************************)
DeadlineEndsTheCall ==
  expired ~> (Returned \/ (caller = "windows_shell" /\ "background" \in holders))

(***************************************************************************)
(* "Poll both pipes so a child that fills stderr while we read stdout      *)
(* cannot deadlock" (comment in exec).  A program that ends by itself ends *)
(* the call, with no timeout to help, however much it writes to both.  Not *)
(* so for exec on Windows beyond a bufferful of stderr, nor where more is  *)
(* to be written to the program than the pipe holds.                       *)
(***************************************************************************)
Times(s) == Cardinality({i \in DOMAIN program : program[i] = s})
EndsByItself ==
  /\ Times("hang") = 0 /\ Times("fork") = 0
  /\ input <= Capacity
  /\ caller = "windows" => Times("err") <= Capacity
OutputNeverDeadlocks == EndsByItself ~> pc \in {"returned", "killed"}
=============================================================================
