------------------------- MODULE ChildProcessProofs -------------------------
(***************************************************************************)
(* Proofs about ChildProcess, for every set of programs, amount of input   *)
(* and capacity of the pipes: its type invariant, and the three things a   *)
(* caller of exec and run_shell reads out of the result.                   *)
(*                                                                         *)
(* The argument: a caller that has neither timed out nor seen poll fail    *)
(* closes a pipe only at its end (AtEnd), and the end of a pipe is final,  *)
(* because only a process that holds its far end could write to it or hand *)
(* it on (ClosedAtEnd).  So what was taken from a closed pipe is all there *)
(* ever was, no program dies of SIGPIPE before its exit code is wanted,    *)
(* and a caller that looks at an exit code looks at a program that ended.  *)
(***************************************************************************)
EXTENDS ChildProcess, TLAPS

(* Where each kind of caller can be, and what it has closed by then. *)
Places ==
  /\ pc \in {"poll", "reap", "killed"} => caller = "posix"
  /\ pc \in {"drain_out", "drain_err"} => caller = "windows"
  /\ pc \in {"grace", "join"} => ~IsExec
  /\ pc = "wait" => caller # "posix"
  /\ pc = "write" => IsExec
  /\ pc = "reap" \/ (pc = "wait" /\ caller = "windows") => reading = {}
  /\ pc = "drain_err" => "out" \notin reading
  /\ pc = "start" => child = "none" /\ reading = Pipes
  /\ pc = "returned" /\ caller # "mac_shell" /\ child # "none" => reading = {}
  /\ child = "none" => pc \in {"start", "returned"}
  /\ child = "none" => holders = {} /\ written = Nothing /\ result.got = Nothing

(* What has gone wrong, and since when. *)
Troubles ==
  /\ result.timedOut => pc \in {"reap", "grace", "join", "returned"}
  /\ pc = "grace" => result.timedOut
  /\ pollFailed => caller = "posix" /\ pc \in {"reap", "returned"}
  /\ pc # "returned" => result.exitCode = -1

InOrder == ~pollFailed /\ ~result.timedOut

(* A pipe is closed at its end, which is final. *)
ClosedAtEnd == InOrder => \A p \in Pipes \ reading : AtEnd(p)

(* How far the program has come when a caller goes by it. *)
Fates ==
  /\ caller # "posix" /\ InOrder => child \notin {"ending", "killed"}
  /\ pc = "join" => child # "running" /\ (InOrder => child = "exited")
  /\ pc = "grace" /\ caller = "windows_shell" => child # "running"

Inv == /\ Places /\ Troubles /\ ClosedAtEnd /\ Fates
       /\ ResultIsComplete /\ SuccessIsReal /\ NothingLeftRunning

-----------------------------------------------------------------------------
(* The types, in parts that a step disturbs few of. *)
ControlTypes ==
  /\ caller \in {"posix", "windows", "windows_shell", "mac_shell"}
  /\ child \in {"none", "running", "ending", "exited", "killed"}
  /\ holders \subseteq {"child", "background"}
  /\ reading \subseteq Pipes
  /\ stdinOpen \in BOOLEAN /\ expired \in BOOLEAN /\ pollFailed \in BOOLEAN
  /\ pc \in {"start", "write", "poll", "reap", "drain_out", "drain_err", "wait",
             "grace", "join", "returned", "killed"}
StepTypes == program \in Programs /\ step \in 1 .. Len(program) + 1
InputTypes == input \in Inputs /\ given \in 0 .. input /\ eaten \in 0 .. given
PipeTypes ==
  /\ written \in [Pipes -> Nat] /\ taken \in [Pipes -> Nat]
  /\ \A p \in Pipes : Waiting(p) \in 0 .. Capacity
ResultTypes == status \in {0, 1} /\ result \in Results

LEMMA TypeParts ==
  TypeOK <=> ControlTypes /\ StepTypes /\ InputTypes /\ PipeTypes /\ ResultTypes
BY DEF TypeOK, ControlTypes, StepTypes, InputTypes, PipeTypes, ResultTypes

(* Taking from pipes that have something leaves the others as they are. *)
LEMMA TakeTypes ==
  ASSUME PipeTypes, NEW ready
  PROVE  /\ Take(ready) \in [Pipes -> Nat]
         /\ \A p \in Pipes : written[p] - Take(ready)[p] \in 0 .. Capacity
BY BoundsAssumption DEF PipeTypes, Take, Waiting

(* What the callers do to a result. *)
LEMMA ResultUpdates ==
  ASSUME NEW r \in Results, NEW g \in [Pipes -> Nat], NEW c \in {-1, 0, 1, StillActive}
  PROVE  /\ [r EXCEPT !.got = g, !.exitCode = c] \in Results
         /\ [r EXCEPT !.exitCode = c, !.got = g] \in Results
         /\ [r EXCEPT !.got = g, !.timedOut = TRUE, !.exitCode = c] \in Results
BY DEF Results

(* Type correctness is inductive by itself. *)
LEMMA TypeInductive == TypeOK /\ [Next]_vars => TypeOK'
<1> DEFINE Types == ControlTypes /\ StepTypes /\ InputTypes /\ PipeTypes /\ ResultTypes
<1> SUFFICES ASSUME Types, [Next]_vars PROVE Types'
  BY DEF TypeOK, ControlTypes, StepTypes, InputTypes, PipeTypes, Waiting, ResultTypes
<1> USE DEF rigid, theirs, ours
<1>1. CASE \E p \in Pipes : ChildWrites(p)
  <2> PICK p \in Pipes : ChildWrites(p)
    BY <1>1
  <2>1. ControlTypes'
    BY DEF ChildWrites, Does, Holds, ControlTypes
  <2>2. StepTypes'
    BY ProgramsAssumption DEF ChildWrites, Does, Holds, StepTypes
  <2>3. PipeTypes'
    <3>1. CASE UNCHANGED written
      BY <3>1 DEF ChildWrites, PipeTypes, Waiting
    <3>2. CASE Waiting(p) < Capacity /\ written' = [written EXCEPT ![p] = @ + 1]
      BY <3>2, BoundsAssumption DEF ChildWrites, PipeTypes, Waiting
    <3>3. QED
      BY <3>1, <3>2 DEF ChildWrites
  <2>4. InputTypes' /\ ResultTypes'
    BY DEF ChildWrites, InputTypes, ResultTypes
  <2>5. QED
    BY <2>1, <2>2, <2>3, <2>4
<1>2. CASE ChildReads
  <2>1. StepTypes'
    BY <1>2, ProgramsAssumption DEF ChildReads, Does, Holds, StepTypes
  <2>2. InputTypes'
    BY <1>2, BoundsAssumption DEF ChildReads, Does, Holds, InputTypes
  <2>3. ControlTypes' /\ PipeTypes' /\ ResultTypes'
    BY <1>2 DEF ChildReads, ControlTypes, PipeTypes, Waiting, ResultTypes
  <2>4. QED
    BY <2>1, <2>2, <2>3
<1>3. CASE ChildDetaches
  <2>1. ControlTypes'
    BY <1>3 DEF ChildDetaches, Does, Holds, ControlTypes
  <2>2. StepTypes'
    BY <1>3, ProgramsAssumption DEF ChildDetaches, Does, Holds, StepTypes
  <2>3. InputTypes' /\ PipeTypes' /\ ResultTypes'
    BY <1>3 DEF ChildDetaches, InputTypes, PipeTypes, Waiting, ResultTypes
  <2>4. QED
    BY <2>1, <2>2, <2>3
<1>4. CASE ChildEnds
  <2>1. ControlTypes'
    BY <1>4 DEF ChildEnds, ControlTypes
  <2>2. StepTypes' /\ InputTypes' /\ PipeTypes' /\ ResultTypes'
    BY <1>4 DEF ChildEnds, StepTypes, InputTypes, PipeTypes, Waiting, ResultTypes
  <2>3. QED
    BY <2>1, <2>2
<1>5. CASE BackgroundEnds
  <2>1. ControlTypes'
    BY <1>5 DEF BackgroundEnds, ControlTypes
  <2>2. StepTypes' /\ InputTypes' /\ PipeTypes' /\ ResultTypes'
    BY <1>5 DEF BackgroundEnds, StepTypes, InputTypes, PipeTypes, Waiting, ResultTypes
  <2>3. QED
    BY <2>1, <2>2
<1>6. CASE Expire
  <2>1. ControlTypes'
    BY <1>6 DEF Expire, ControlTypes
  <2>2. StepTypes' /\ InputTypes' /\ PipeTypes' /\ ResultTypes'
    BY <1>6 DEF Expire, StepTypes, InputTypes, PipeTypes, Waiting, ResultTypes
  <2>3. QED
    BY <2>1, <2>2
<1>7. CASE PollFails
  <2>1. ControlTypes'
    BY <1>7 DEF PollFails, ControlTypes
  <2>2. StepTypes' /\ InputTypes' /\ PipeTypes' /\ ResultTypes'
    BY <1>7 DEF PollFails, StepTypes, InputTypes, PipeTypes, Waiting, ResultTypes
  <2>3. QED
    BY <2>1, <2>2
<1>8. CASE \E p \in Pipes : ReaderSteps(p)
  <2> PICK p \in Pipes : ReaderSteps(p)
    BY <1>8
  <2>1. ControlTypes'
    BY DEF ReaderSteps, Take, AtEnd, ControlTypes
  <2>2. PipeTypes'
    BY BoundsAssumption, TakeTypes DEF ReaderSteps, AtEnd, PipeTypes, Waiting
  <2>3. StepTypes' /\ InputTypes' /\ ResultTypes'
    BY DEF ReaderSteps, StepTypes, InputTypes, ResultTypes
  <2>4. QED
    BY <2>1, <2>2, <2>3
<1>9. CASE Spawn
  <2>1. ControlTypes'
    BY <1>9 DEF Spawn, ControlTypes
  <2>2. ResultTypes'
    <3>1. result' \in {result, [result EXCEPT !.spawnFailed = TRUE]} /\ status' = status
      BY <1>9 DEF Spawn
    <3>2. [result EXCEPT !.spawnFailed = TRUE] \in Results
      BY DEF ResultTypes, Results
    <3>3. QED
      BY <3>1, <3>2 DEF ResultTypes
  <2>3. StepTypes' /\ InputTypes' /\ PipeTypes'
    BY <1>9 DEF Spawn, StepTypes, InputTypes, PipeTypes, Waiting
  <2>4. QED
    BY <2>1, <2>2, <2>3
<1>10. CASE WriteInput
  <2>1. ControlTypes'
    BY <1>10 DEF WriteInput, ControlTypes
  <2>2. InputTypes'
    BY <1>10, BoundsAssumption DEF WriteInput, InputTypes
  <2>3. StepTypes' /\ PipeTypes' /\ ResultTypes'
    BY <1>10 DEF WriteInput, StepTypes, PipeTypes, Waiting, ResultTypes
  <2>4. QED
    BY <2>1, <2>2, <2>3
<1>11. CASE PollReads
  <2>1. ControlTypes'
    BY <1>11 DEF PollReads, Ready, Take, AtEnd, ControlTypes
  <2>2. PipeTypes'
    BY <1>11, BoundsAssumption, TakeTypes DEF PollReads, Ready, AtEnd, PipeTypes, Waiting
  <2>3. StepTypes' /\ InputTypes' /\ ResultTypes'
    BY <1>11 DEF PollReads, StepTypes, InputTypes, ResultTypes
  <2>4. QED
    BY <2>1, <2>2, <2>3
<1>12. CASE PollExpires
  <2>1. ControlTypes'
    BY <1>12 DEF PollExpires, Ended, ControlTypes
  <2>2. ResultTypes'
    <3>1. result' = [result EXCEPT !.timedOut = TRUE] /\ status' = status
      BY <1>12 DEF PollExpires
    <3>2. [result EXCEPT !.timedOut = TRUE] \in Results
      BY DEF ResultTypes, Results
    <3>3. QED
      BY <3>1, <3>2 DEF ResultTypes
  <2>3. StepTypes' /\ InputTypes' /\ PipeTypes'
    BY <1>12 DEF PollExpires, StepTypes, InputTypes, PipeTypes, Waiting
  <2>4. QED
    BY <2>1, <2>2, <2>3
<1>13. CASE Reap
  <2>1. ControlTypes'
    BY <1>13 DEF Reap, Ended, ControlTypes
  <2>2. ResultTypes'
    <3> DEFINE c == IF child = "exited" THEN status ELSE -1
    <3>1. c \in {-1, 0, 1, StillActive}
      BY DEF ResultTypes
    <3>2. result' = [result EXCEPT !.exitCode = c, !.got = taken] /\ status' = status
      BY <1>13 DEF Reap
    <3> HIDE DEF c
    <3>3. QED
      BY <3>1, <3>2, ResultUpdates DEF ResultTypes, PipeTypes
  <2>3. StepTypes' /\ InputTypes' /\ PipeTypes'
    <3>1. StepTypes'
      BY <1>13 DEF Reap, StepTypes
    <3>2. InputTypes'
      BY <1>13 DEF Reap, InputTypes
    <3>3. PipeTypes'
      BY <1>13 DEF Reap, PipeTypes, Waiting
    <3>4. QED
      BY <3>1, <3>2, <3>3
  <2>4. QED
    BY <2>1, <2>2, <2>3
<1>14. CASE DrainBoth
  <2>1. ControlTypes'
    BY <1>14 DEF DrainBoth, Drain, Take, AtEnd, ControlTypes
  <2>2. PipeTypes'
    <3>1. PICK p \in Pipes : taken' \in {Take({p}), taken}
      BY <1>14 DEF DrainBoth, Drain, Pipes
    <3>2. UNCHANGED written
      BY <1>14 DEF DrainBoth, Drain, rigid, theirs
    <3>3. CASE taken' = Take({p})
      BY <3>2, <3>3, TakeTypes DEF PipeTypes, Waiting
    <3>4. CASE taken' = taken
      BY <3>2, <3>4 DEF PipeTypes, Waiting
    <3>5. QED
      BY <3>1, <3>3, <3>4
  <2>3. StepTypes' /\ InputTypes' /\ ResultTypes'
    BY <1>14 DEF DrainBoth, Drain, StepTypes, InputTypes, ResultTypes
  <2>4. QED
    BY <2>1, <2>2, <2>3
<1>15. CASE WaitForExec
  <2>1. ControlTypes'
    BY <1>15 DEF WaitForExec, Ended, ControlTypes
  <2>2. UNCHANGED <<rigid, step, eaten, written, given, taken>>
    BY <1>15 DEF WaitForExec
  <2>3. ResultTypes'
    <3>1. status \in {0, 1} /\ result \in Results /\ taken \in [Pipes -> Nat]
      BY DEF ResultTypes, PipeTypes
    <3>2. CASE Ended
      <4>1. result' = [result EXCEPT !.got = taken, !.exitCode = status]
        BY <3>2, <1>15 DEF WaitForExec
      <4>2. result' \in Results
        BY <3>1, <4>1, ResultUpdates
      <4>3. QED
        BY <2>2, <3>1, <4>2 DEF ResultTypes
    <3>3. CASE ~Ended
      <4>1. PICK code \in {1, StillActive} :
              result' = [result EXCEPT !.got = taken, !.timedOut = TRUE, !.exitCode = code]
        BY <3>3, <1>15 DEF WaitForExec
      <4>2. result' \in Results
        BY <3>1, <4>1, ResultUpdates
      <4>3. QED
        BY <2>2, <3>1, <4>2 DEF ResultTypes
    <3>4. QED
      BY <3>2, <3>3
  <2>4. StepTypes'
    BY <1>15, <2>2 DEF WaitForExec, StepTypes
  <2>5. InputTypes'
    BY <1>15, <2>2 DEF WaitForExec, InputTypes
  <2>6. PipeTypes'
    BY <2>2 DEF PipeTypes, Waiting
  <2>7. QED
    BY <2>1, <2>3, <2>4, <2>5, <2>6
<1>16. CASE WaitForShell
  <2>1. ControlTypes'
    BY <1>16 DEF WaitForShell, Ended, ControlTypes
  <2>2. ResultTypes'
    <3>1. result' \in {result, [result EXCEPT !.timedOut = TRUE]} /\ status' = status
      BY <1>16 DEF WaitForShell
    <3>2. [result EXCEPT !.timedOut = TRUE] \in Results
      BY DEF ResultTypes, Results
    <3>3. QED
      BY <3>1, <3>2 DEF ResultTypes
  <2>3. StepTypes' /\ InputTypes' /\ PipeTypes'
    BY <1>16 DEF WaitForShell, StepTypes, InputTypes, PipeTypes, Waiting
  <2>4. QED
    BY <2>1, <2>2, <2>3
<1>17. CASE Grace
  <2>1. ControlTypes'
    BY <1>17 DEF Grace, Ended, ControlTypes
  <2>2. StepTypes' /\ InputTypes' /\ PipeTypes' /\ ResultTypes'
    BY <1>17 DEF Grace, StepTypes, InputTypes, PipeTypes, Waiting, ResultTypes
  <2>3. QED
    BY <2>1, <2>2
<1>18. CASE Join
  <2>1. ControlTypes'
    BY <1>18 DEF Join, ControlTypes
  <2>2. ResultTypes'
    <3> DEFINE g == [p \in Pipes |-> IF p \in reading THEN 0 ELSE taken[p]]
               c == IF result.timedOut THEN -1 ELSE status
    <3>1. g \in [Pipes -> Nat] /\ c \in {-1, 0, 1, StillActive}
      BY DEF PipeTypes, ResultTypes
    <3>2. result' = [result EXCEPT !.got = g, !.exitCode = c] /\ status' = status
      BY <1>18 DEF Join
    <3> HIDE DEF g, c
    <3>3. QED
      BY <3>1, <3>2, ResultUpdates DEF ResultTypes
  <2>3. StepTypes' /\ InputTypes' /\ PipeTypes'
    BY <1>18 DEF Join, StepTypes, InputTypes, PipeTypes, Waiting
  <2>4. QED
    BY <2>1, <2>2, <2>3
<1>19. CASE UNCHANGED vars
  BY <1>19 DEF vars, ControlTypes, StepTypes, InputTypes, PipeTypes, Waiting, ResultTypes
<1>20. QED
  BY <1>1, <1>2, <1>3, <1>4, <1>5, <1>6, <1>7, <1>8, <1>9, <1>10, <1>11, <1>12, <1>13, <1>14, <1>15, <1>16, <1>17, <1>18, <1>19
     DEF Next, Program, Readers, Caller
-----------------------------------------------------------------------------
(* Each caller is where it can be. *)
LEMMA PlacesKept ==
  ASSUME TypeOK, Inv, [Next]_vars
  PROVE  Places'
<1>a. result \in Results /\ taken \in [Pipes -> Nat] /\ written \in [Pipes -> Nat]
      /\ reading \subseteq Pipes
      /\ caller \in {"posix", "windows", "windows_shell", "mac_shell"}
  BY DEF TypeOK
<1> USE <1>a DEF rigid, theirs, ours, Pipes, IsExec, Inv, Places, Troubles, Nothing, Results
<1>1. CASE \E p \in Pipes : ChildWrites(p)
  BY <1>1 DEF ChildWrites, Does, Holds
<1>2. CASE ChildReads
  BY <1>2 DEF ChildReads, Does, Holds
<1>3. CASE ChildDetaches
  BY <1>3 DEF ChildDetaches, Does, Holds
<1>4. CASE ChildEnds
  BY <1>4 DEF ChildEnds
<1>5. CASE BackgroundEnds
  BY <1>5 DEF BackgroundEnds
<1>6. CASE Expire
  BY <1>6 DEF Expire
<1>7. CASE PollFails
  BY <1>7 DEF PollFails
<1>8. CASE \E p \in Pipes : ReaderSteps(p)
  BY <1>8 DEF ReaderSteps, Take
<1>9. CASE Spawn
  BY <1>9 DEF Spawn
<1>10. CASE WriteInput
  BY <1>10 DEF WriteInput
<1>11. CASE PollReads
  BY <1>11 DEF PollReads, Ready, Take
<1>12. CASE PollExpires
  BY <1>12 DEF PollExpires, Ended
<1>13. CASE Reap
  BY <1>13 DEF Reap, Ended
<1>14. CASE DrainBoth
  <2>1. CASE Drain("out", "drain_out", "drain_err")
    BY <2>1 DEF Drain
  <2>2. CASE Drain("err", "drain_err", "wait")
    <3>1. pc = "drain_err" /\ "out" \notin reading
      BY <2>2 DEF Drain
    <3>2. reading \ {"err"} = {}
      BY <3>1
    <3>3. QED
      BY <3>1, <3>2, <2>2 DEF Drain
  <2>3. QED
    BY <2>1, <2>2, <1>14 DEF DrainBoth
<1>15. CASE WaitForExec
  BY <1>15 DEF WaitForExec, Ended, StillActive
<1>16. CASE WaitForShell
  BY <1>16 DEF WaitForShell, Ended
<1>17. CASE Grace
  BY <1>17 DEF Grace, Ended
<1>18. CASE Join
  BY <1>18 DEF Join
<1>19. CASE UNCHANGED vars
  BY <1>19 DEF vars
<1>20. QED
  BY <1>1, <1>2, <1>3, <1>4, <1>5, <1>6, <1>7, <1>8, <1>9, <1>10, <1>11, <1>12, <1>13, <1>14, <1>15, <1>16, <1>17, <1>18, <1>19
     DEF Next, Program, Readers, Caller

(* Trouble comes in its places. *)
LEMMA TroublesKept ==
  ASSUME TypeOK, Inv, [Next]_vars
  PROVE  Troubles'
<1>a. result \in Results /\ taken \in [Pipes -> Nat] /\ written \in [Pipes -> Nat]
      /\ reading \subseteq Pipes
      /\ caller \in {"posix", "windows", "windows_shell", "mac_shell"}
  BY DEF TypeOK
<1> USE <1>a DEF rigid, theirs, ours, Pipes, IsExec, Inv, Places, Troubles, Results
<1>1. CASE \E p \in Pipes : ChildWrites(p)
  BY <1>1 DEF ChildWrites, Does, Holds
<1>2. CASE ChildReads
  BY <1>2 DEF ChildReads, Does, Holds
<1>3. CASE ChildDetaches
  BY <1>3 DEF ChildDetaches, Does, Holds
<1>4. CASE ChildEnds
  BY <1>4 DEF ChildEnds
<1>5. CASE BackgroundEnds
  BY <1>5 DEF BackgroundEnds
<1>6. CASE Expire
  BY <1>6 DEF Expire
<1>7. CASE PollFails
  BY <1>7 DEF PollFails
<1>8. CASE \E p \in Pipes : ReaderSteps(p)
  BY <1>8 DEF ReaderSteps, Take
<1>9. CASE Spawn
  BY <1>9 DEF Spawn
<1>10. CASE WriteInput
  BY <1>10 DEF WriteInput
<1>11. CASE PollReads
  BY <1>11 DEF PollReads, Ready, Take
<1>12. CASE PollExpires
  BY <1>12 DEF PollExpires, Ended
<1>13. CASE Reap
  BY <1>13 DEF Reap, Ended
<1>14. CASE DrainBoth
  BY <1>14 DEF DrainBoth, Drain, Take
<1>15. CASE WaitForExec
  BY <1>15 DEF WaitForExec, Ended, StillActive
<1>16. CASE WaitForShell
  BY <1>16 DEF WaitForShell, Ended
<1>17. CASE Grace
  BY <1>17 DEF Grace, Ended
<1>18. CASE Join
  BY <1>18 DEF Join
<1>19. CASE UNCHANGED vars
  BY <1>19 DEF vars
<1>20. QED
  BY <1>1, <1>2, <1>3, <1>4, <1>5, <1>6, <1>7, <1>8, <1>9, <1>10, <1>11, <1>12, <1>13, <1>14, <1>15, <1>16, <1>17, <1>18, <1>19
     DEF Next, Program, Readers, Caller

(* The end of a pipe is final. *)
LEMMA ClosedAtEndKept ==
  ASSUME TypeOK, Inv, [Next]_vars
  PROVE  ClosedAtEnd'
<1>a. result \in Results /\ taken \in [Pipes -> Nat] /\ written \in [Pipes -> Nat]
      /\ reading \subseteq Pipes
      /\ caller \in {"posix", "windows", "windows_shell", "mac_shell"}
  BY DEF TypeOK
<1> USE <1>a DEF rigid, theirs, ours, Pipes, IsExec, Inv, Places, Troubles, ClosedAtEnd, InOrder, AtEnd, Waiting, Results
<1>1. CASE \E p \in Pipes : ChildWrites(p)
  BY <1>1 DEF ChildWrites, Does, Holds
<1>2. CASE ChildReads
  BY <1>2 DEF ChildReads, Does, Holds
<1>3. CASE ChildDetaches
  BY <1>3 DEF ChildDetaches, Does, Holds
<1>4. CASE ChildEnds
  BY <1>4 DEF ChildEnds
<1>5. CASE BackgroundEnds
  BY <1>5 DEF BackgroundEnds
<1>6. CASE Expire
  BY <1>6 DEF Expire
<1>7. CASE PollFails
  BY <1>7 DEF PollFails
<1>8. CASE \E p \in Pipes : ReaderSteps(p)
  BY <1>8 DEF ReaderSteps, Take
<1>9. CASE Spawn
  BY <1>9 DEF Spawn
<1>10. CASE WriteInput
  BY <1>10 DEF WriteInput
<1>11. CASE PollReads
  BY <1>11 DEF PollReads, Ready, Take
<1>12. CASE PollExpires
  BY <1>12 DEF PollExpires, Ended
<1>13. CASE Reap
  BY <1>13 DEF Reap, Ended
<1>14. CASE DrainBoth
  BY <1>14 DEF DrainBoth, Drain, Take
<1>15. CASE WaitForExec
  BY <1>15 DEF WaitForExec, Ended, StillActive
<1>16. CASE WaitForShell
  BY <1>16 DEF WaitForShell, Ended
<1>17. CASE Grace
  BY <1>17 DEF Grace, Ended
<1>18. CASE Join
  BY <1>18 DEF Join
<1>19. CASE UNCHANGED vars
  BY <1>19 DEF vars
<1>20. QED
  BY <1>1, <1>2, <1>3, <1>4, <1>5, <1>6, <1>7, <1>8, <1>9, <1>10, <1>11, <1>12, <1>13, <1>14, <1>15, <1>16, <1>17, <1>18, <1>19
     DEF Next, Program, Readers, Caller

(* The program is as far as its caller goes by. *)
LEMMA FatesKept ==
  ASSUME TypeOK, Inv, [Next]_vars
  PROVE  Fates'
<1>a. result \in Results /\ taken \in [Pipes -> Nat] /\ written \in [Pipes -> Nat]
      /\ reading \subseteq Pipes
      /\ caller \in {"posix", "windows", "windows_shell", "mac_shell"}
  BY DEF TypeOK
<1> USE <1>a DEF rigid, theirs, ours, Pipes, IsExec, Inv, Places, Troubles, ClosedAtEnd, InOrder, AtEnd, Waiting, Fates, Results
<1>1. CASE \E p \in Pipes : ChildWrites(p)
  BY <1>1 DEF ChildWrites, Does, Holds
<1>2. CASE ChildReads
  BY <1>2 DEF ChildReads, Does, Holds
<1>3. CASE ChildDetaches
  BY <1>3 DEF ChildDetaches, Does, Holds
<1>4. CASE ChildEnds
  BY <1>4 DEF ChildEnds
<1>5. CASE BackgroundEnds
  BY <1>5 DEF BackgroundEnds
<1>6. CASE Expire
  BY <1>6 DEF Expire
<1>7. CASE PollFails
  BY <1>7 DEF PollFails
<1>8. CASE \E p \in Pipes : ReaderSteps(p)
  BY <1>8 DEF ReaderSteps, Take
<1>9. CASE Spawn
  BY <1>9 DEF Spawn
<1>10. CASE WriteInput
  BY <1>10 DEF WriteInput
<1>11. CASE PollReads
  BY <1>11 DEF PollReads, Ready, Take
<1>12. CASE PollExpires
  BY <1>12 DEF PollExpires, Ended
<1>13. CASE Reap
  BY <1>13 DEF Reap, Ended
<1>14. CASE DrainBoth
  <2>1. UNCHANGED <<caller, child, result, pollFailed>> /\ caller = "windows"
    BY <1>14 DEF DrainBoth, Drain
  <2>2. pc' \in {"drain_out", "drain_err", "wait"}
    BY <1>14 DEF DrainBoth, Drain
  <2>3. QED
    BY <2>1, <2>2 DEF InOrder
<1>15. CASE WaitForExec
  <2>1. pc' = "returned" /\ UNCHANGED <<caller, pollFailed>>
    BY <1>15 DEF WaitForExec
  <2>2. CASE Ended
    <3>1. UNCHANGED child /\ result'.timedOut = result.timedOut
      BY <2>2, <1>15 DEF WaitForExec
    <3>2. QED
      BY <2>1, <3>1
  <2>3. CASE ~Ended
    <3>1. result'.timedOut
      BY <2>3, <1>15 DEF WaitForExec
    <3>2. QED
      BY <2>1, <3>1
  <2>4. QED
    BY <2>2, <2>3
<1>16. CASE WaitForShell
  BY <1>16 DEF WaitForShell, Ended
<1>17. CASE Grace
  <2>1. /\ pc' = "join" /\ ~InOrder'
        /\ UNCHANGED caller
    BY <1>17 DEF Grace
  <2>2. child' # "running"
    <3>1. CASE caller = "mac_shell"
      BY <3>1, <1>17 DEF Grace, Ended
    <3>2. CASE caller = "windows_shell"
      BY <3>2, <1>17 DEF Grace
    <3>3. QED
      BY <3>1, <3>2, <1>17 DEF Grace
  <2>3. QED
    BY <2>1, <2>2
<1>18. CASE Join
  BY <1>18 DEF Join
<1>19. CASE UNCHANGED vars
  BY <1>19 DEF vars
<1>20. QED
  BY <1>1, <1>2, <1>3, <1>4, <1>5, <1>6, <1>7, <1>8, <1>9, <1>10, <1>11, <1>12, <1>13, <1>14, <1>15, <1>16, <1>17, <1>18, <1>19
     DEF Next, Program, Readers, Caller

(* A result is complete when it is returned, and stays so. *)
LEMMA ResultKept ==
  ASSUME TypeOK, Inv, [Next]_vars
  PROVE  ResultIsComplete'
<1>a. result \in Results /\ taken \in [Pipes -> Nat] /\ written \in [Pipes -> Nat]
      /\ reading \subseteq Pipes
      /\ caller \in {"posix", "windows", "windows_shell", "mac_shell"}
  BY DEF TypeOK
<1> USE <1>a DEF rigid, theirs, ours, Pipes, IsExec, Inv, Places, Troubles, ClosedAtEnd, InOrder, AtEnd, Waiting, ResultIsComplete, Returned, Nothing, Results
<1>1. CASE \E p \in Pipes : ChildWrites(p)
  BY <1>1 DEF ChildWrites, Does, Holds
<1>2. CASE ChildReads
  BY <1>2 DEF ChildReads, Does, Holds
<1>3. CASE ChildDetaches
  BY <1>3 DEF ChildDetaches, Does, Holds
<1>4. CASE ChildEnds
  BY <1>4 DEF ChildEnds
<1>5. CASE BackgroundEnds
  BY <1>5 DEF BackgroundEnds
<1>6. CASE Expire
  BY <1>6 DEF Expire
<1>7. CASE PollFails
  BY <1>7 DEF PollFails
<1>8. CASE \E p \in Pipes : ReaderSteps(p)
  BY <1>8 DEF ReaderSteps, Take
<1>9. CASE Spawn
  BY <1>9 DEF Spawn
<1>10. CASE WriteInput
  BY <1>10 DEF WriteInput
<1>11. CASE PollReads
  BY <1>11 DEF PollReads, Ready, Take
<1>12. CASE PollExpires
  BY <1>12 DEF PollExpires, Ended
<1>13. CASE Reap
  BY <1>13 DEF Reap, Ended
<1>14. CASE DrainBoth
  BY <1>14 DEF DrainBoth, Drain, Take
<1>15. CASE WaitForExec
  <2>1. CASE Ended
    <3>1. /\ result' = [result EXCEPT !.got = taken, !.exitCode = status]
          /\ UNCHANGED <<rigid, child, written, taken, reading, pollFailed>>
      BY <2>1, <1>15 DEF WaitForExec, Ended
    <3>2. result'.got = taken /\ result'.exitCode = status
      BY <3>1
    <3>3. pc = "wait" /\ caller = "windows"
      BY <1>15 DEF WaitForExec
    <3>4. QED
      BY <2>1, <3>1, <3>2, <3>3 DEF Ended
  <2>2. CASE ~Ended
    <3>1. PICK code \in {1, StillActive} :
            result' = [result EXCEPT !.got = taken, !.timedOut = TRUE, !.exitCode = code]
      BY <2>2, <1>15 DEF WaitForExec
    <3>2. result'.timedOut /\ result'.exitCode # 0
      BY <3>1 DEF StillActive
    <3>3. QED
      BY <3>2
  <2>3. QED
    BY <2>1, <2>2
<1>16. CASE WaitForShell
  BY <1>16 DEF WaitForShell, Ended
<1>17. CASE Grace
  BY <1>17 DEF Grace, Ended
<1>18. CASE Join
  BY <1>18 DEF Join
<1>19. CASE UNCHANGED vars
  BY <1>19 DEF vars
<1>20. QED
  BY <1>1, <1>2, <1>3, <1>4, <1>5, <1>6, <1>7, <1>8, <1>9, <1>10, <1>11, <1>12, <1>13, <1>14, <1>15, <1>16, <1>17, <1>18, <1>19
     DEF Next, Program, Readers, Caller

(* An exit code is that of a program that ended. *)
LEMMA SuccessKept ==
  ASSUME TypeOK, Inv, [Next]_vars
  PROVE  SuccessIsReal'
<1>a. result \in Results /\ taken \in [Pipes -> Nat] /\ written \in [Pipes -> Nat]
      /\ reading \subseteq Pipes
      /\ caller \in {"posix", "windows", "windows_shell", "mac_shell"}
  BY DEF TypeOK
<1> USE <1>a DEF rigid, theirs, ours, Pipes, IsExec, Inv, Places, Troubles, Fates, InOrder, SuccessIsReal, Returned, Results
<1>1. CASE \E p \in Pipes : ChildWrites(p)
  BY <1>1 DEF ChildWrites, Does, Holds
<1>2. CASE ChildReads
  BY <1>2 DEF ChildReads, Does, Holds
<1>3. CASE ChildDetaches
  BY <1>3 DEF ChildDetaches, Does, Holds
<1>4. CASE ChildEnds
  BY <1>4 DEF ChildEnds
<1>5. CASE BackgroundEnds
  BY <1>5 DEF BackgroundEnds
<1>6. CASE Expire
  BY <1>6 DEF Expire
<1>7. CASE PollFails
  BY <1>7 DEF PollFails
<1>8. CASE \E p \in Pipes : ReaderSteps(p)
  BY <1>8 DEF ReaderSteps, Take
<1>9. CASE Spawn
  BY <1>9 DEF Spawn
<1>10. CASE WriteInput
  BY <1>10 DEF WriteInput
<1>11. CASE PollReads
  BY <1>11 DEF PollReads, Ready, Take
<1>12. CASE PollExpires
  BY <1>12 DEF PollExpires, Ended
<1>13. CASE Reap
  BY <1>13 DEF Reap, Ended
<1>14. CASE DrainBoth
  BY <1>14 DEF DrainBoth, Drain, Take
<1>15. CASE WaitForExec
  <2>1. CASE Ended
    <3>1. /\ result' = [result EXCEPT !.got = taken, !.exitCode = status]
          /\ UNCHANGED <<rigid, child, written, taken, reading, pollFailed>>
      BY <2>1, <1>15 DEF WaitForExec, Ended
    <3>2. result'.got = taken /\ result'.exitCode = status
      BY <3>1
    <3>3. pc = "wait" /\ caller = "windows"
      BY <1>15 DEF WaitForExec
    <3>4. QED
      BY <2>1, <3>1, <3>2, <3>3 DEF Ended
  <2>2. CASE ~Ended
    <3>1. PICK code \in {1, StillActive} :
            result' = [result EXCEPT !.got = taken, !.timedOut = TRUE, !.exitCode = code]
      BY <2>2, <1>15 DEF WaitForExec
    <3>2. result'.timedOut /\ result'.exitCode # 0
      BY <3>1 DEF StillActive
    <3>3. QED
      BY <3>2
  <2>3. QED
    BY <2>1, <2>2
<1>16. CASE WaitForShell
  BY <1>16 DEF WaitForShell, Ended
<1>17. CASE Grace
  BY <1>17 DEF Grace, Ended
<1>18. CASE Join
  BY <1>18 DEF Join
<1>19. CASE UNCHANGED vars
  BY <1>19 DEF vars
<1>20. QED
  BY <1>1, <1>2, <1>3, <1>4, <1>5, <1>6, <1>7, <1>8, <1>9, <1>10, <1>11, <1>12, <1>13, <1>14, <1>15, <1>16, <1>17, <1>18, <1>19
     DEF Next, Program, Readers, Caller

(* A caller that returns has seen its program end or told it to. *)
LEMMA EndingKept ==
  ASSUME TypeOK, Inv, [Next]_vars
  PROVE  NothingLeftRunning'
<1>a. result \in Results /\ taken \in [Pipes -> Nat] /\ written \in [Pipes -> Nat]
      /\ reading \subseteq Pipes
      /\ caller \in {"posix", "windows", "windows_shell", "mac_shell"}
  BY DEF TypeOK
<1> USE <1>a DEF rigid, theirs, ours, Pipes, IsExec, Inv, Places, Fates, NothingLeftRunning, Returned, InOrder
<1>1. CASE \E p \in Pipes : ChildWrites(p)
  BY <1>1 DEF ChildWrites, Does, Holds
<1>2. CASE ChildReads
  BY <1>2 DEF ChildReads, Does, Holds
<1>3. CASE ChildDetaches
  BY <1>3 DEF ChildDetaches, Does, Holds
<1>4. CASE ChildEnds
  BY <1>4 DEF ChildEnds
<1>5. CASE BackgroundEnds
  BY <1>5 DEF BackgroundEnds
<1>6. CASE Expire
  BY <1>6 DEF Expire
<1>7. CASE PollFails
  BY <1>7 DEF PollFails
<1>8. CASE \E p \in Pipes : ReaderSteps(p)
  BY <1>8 DEF ReaderSteps, Take
<1>9. CASE Spawn
  BY <1>9 DEF Spawn
<1>10. CASE WriteInput
  BY <1>10 DEF WriteInput
<1>11. CASE PollReads
  BY <1>11 DEF PollReads, Ready, Take
<1>12. CASE PollExpires
  BY <1>12 DEF PollExpires, Ended
<1>13. CASE Reap
  BY <1>13 DEF Reap, Ended
<1>14. CASE DrainBoth
  BY <1>14 DEF DrainBoth, Drain, Take
<1>15. CASE WaitForExec
  BY <1>15 DEF WaitForExec, Ended, StillActive
<1>16. CASE WaitForShell
  BY <1>16 DEF WaitForShell, Ended
<1>17. CASE Grace
  BY <1>17 DEF Grace, Ended
<1>18. CASE Join
  BY <1>18 DEF Join
<1>19. CASE UNCHANGED vars
  BY <1>19 DEF vars
<1>20. QED
  BY <1>1, <1>2, <1>3, <1>4, <1>5, <1>6, <1>7, <1>8, <1>9, <1>10, <1>11, <1>12, <1>13, <1>14, <1>15, <1>16, <1>17, <1>18, <1>19
     DEF Next, Program, Readers, Caller

-----------------------------------------------------------------------------
(* The pipes, the processes and the caller keep their types. *)
THEOREM ChildTypeCorrect == Spec => []TypeOK
<1>1. Init => TypeOK
  <2> SUFFICES ASSUME Init PROVE TypeOK
    OBVIOUS
  <2>1. Len(program) \in Nat /\ input \in Nat
    BY ProgramsAssumption, BoundsAssumption DEF Init
  <2>2. StepTypes /\ InputTypes
    BY <2>1 DEF Init, StepTypes, InputTypes
  <2>3. ControlTypes
    <3>1. stdinOpen \in BOOLEAN
      BY DEF Init, IsExec
    <3>2. QED
      BY <3>1 DEF Init, ControlTypes
  <2>4. PipeTypes /\ ResultTypes
    BY BoundsAssumption DEF Init, PipeTypes, ResultTypes, Results, Nothing, Waiting
  <2>5. QED
    BY <2>2, <2>3, <2>4, TypeParts
<1>2. QED
  BY <1>1, TypeInductive, PTL DEF Spec

(* The strengthening that makes the promises about a result inductive. *)
THEOREM ChildInvHolds == Spec => []Inv
<1>1. Init => Inv
  <2> SUFFICES ASSUME Init PROVE Inv
    OBVIOUS
  <2>1. /\ pc = "start" /\ child = "none" /\ holders = {} /\ reading = Pipes
        /\ written = Nothing /\ ~pollFailed
        /\ ~result.timedOut /\ result.got = Nothing /\ result.exitCode = -1
    BY DEF Init
  <2>2. Places /\ Troubles /\ ClosedAtEnd
    BY <2>1 DEF Places, Troubles, ClosedAtEnd
  <2>3. Fates /\ ResultIsComplete /\ SuccessIsReal /\ NothingLeftRunning
    BY <2>1 DEF Fates, ResultIsComplete, SuccessIsReal, NothingLeftRunning, Returned
  <2>4. QED
    BY <2>2, <2>3 DEF Inv
<1>2. TypeOK /\ Inv /\ [Next]_vars => Inv'
  BY PlacesKept, TroublesKept, ClosedAtEndKept, FatesKept, ResultKept,
     SuccessKept, EndingKept
     DEF Inv
<1>3. QED
  BY <1>1, <1>2, ChildTypeCorrect, PTL DEF Spec

(***************************************************************************)
(* What exec and run_shell return without a timeout is all the program has *)
(* written, whatever the program and the size of the pipes.                *)
(***************************************************************************)
THEOREM NoOutputIsLost == Spec => []ResultIsComplete
BY ChildInvHolds, PTL DEF Inv

(***************************************************************************)
(* Success is only reported of a program that exited with success, and no  *)
(* call leaves its program running without having told it to end.          *)
(***************************************************************************)
THEOREM ReportsAreOfEndedPrograms == Spec => []ReportsAreTrue
<1>1. Inv => ReportsAreTrue
  BY DEF Inv, ReportsAreTrue
<1>2. QED
  BY <1>1, ChildInvHolds, PTL
=============================================================================
