---------------------------- MODULE StdioServer -----------------------------
(***************************************************************************)
(* One client that has started its own server and talks to it through a    *)
(* pair of pipes: StdioTransport (src/mcp/transport.cpp) and Server::run.  *)
(* Blank lines and line endings are left out.  The client may close the    *)
(* pipe it writes to and wait for the rest of the answers, or hang up,     *)
(* which closes both, at any moment, also while a call is being served.    *)
(***************************************************************************)
EXTENDS Server

VARIABLES
  sent,       \* history: every message the client has sent, in order
  stdin,      \* those the server has not read
  stdinOpen,  \* the client's end of the pipes
  stdoutOpen,
  stdout,     \* the replies written, in order
  pc,         \* where run() is: "read", "handle", "write"; "done"; "killed"
  msg,        \* the message being handled or NoMessage
  reply,      \* what handle_message has returned
  posix       \* rigid: a write to a pipe without a reader kills the process

pipes == <<sent, stdin, stdinOpen, stdoutOpen, stdout>>
vars == <<serverVars, pipes, pc, msg, reply, posix>>

NoMessage == [form |-> "nothing"]

Init ==
  /\ ServerInit
  /\ sent = <<>> /\ stdin = <<>> /\ stdout = <<>>
  /\ stdinOpen = TRUE /\ stdoutOpen = TRUE
  /\ pc = "read" /\ msg = NoMessage /\ reply = NoReply
  /\ posix \in BOOLEAN

Running == pc \notin {"done", "killed"}

-----------------------------------------------------------------------------
(* The client. *)
Send(c, s) ==
  /\ stdinOpen
  /\ Len(sent) < MaxSent
  /\ LET m == Message(c, Len(sent) + 1, s)
     IN sent' = Append(sent, m) /\ stdin' = Append(stdin, m)
  /\ UNCHANGED <<serverVars, stdinOpen, stdoutOpen, stdout, pc, msg, reply, posix>>

CloseStdin ==
  /\ stdinOpen
  /\ stdinOpen' = FALSE
  /\ UNCHANGED <<serverVars, sent, stdin, stdoutOpen, stdout, pc, msg, reply, posix>>

HangUp ==
  /\ stdoutOpen
  /\ stdinOpen' = FALSE /\ stdoutOpen' = FALSE
  /\ UNCHANGED <<serverVars, sent, stdin, stdout, pc, msg, reply, posix>>

-----------------------------------------------------------------------------
(* The loop of run(). *)
Read ==
  /\ pc = "read" /\ stdin # <<>>
  /\ msg' = Head(stdin) /\ stdin' = Tail(stdin)
  /\ pc' = "handle"
  /\ UNCHANGED <<serverVars, sent, stdinOpen, stdoutOpen, stdout, reply, posix>>

Handle ==
  /\ pc = "handle"
  /\ \E r \in {Reply(msg, kind) : kind \in Kinds} \cup {NoReply} :
       HandleMessage(msg, r) /\ reply' = r
  /\ pc' = "write"
  /\ msg' = NoMessage
  /\ UNCHANGED <<pipes, posix>>

(* Mutant of Write: a line nobody can read is kept until somebody can. *)
WriteWaits ==
  /\ pc = "write"
  /\ reply = NoReply \/ stdoutOpen
  /\ stdout' = IF reply = NoReply THEN stdout ELSE Append(stdout, reply)
  /\ pc' = "read"
  /\ reply' = NoReply
  /\ UNCHANGED <<serverVars, sent, stdin, stdinOpen, stdoutOpen, msg, posix>>

(* write() reports success whatever became of the line. *)
Write ==
  /\ pc = "write"
  /\ \/ /\ reply = NoReply \/ (~stdoutOpen /\ ~posix)
        /\ pc' = "read"
        /\ UNCHANGED stdout
     \/ /\ reply # NoReply /\ stdoutOpen
        /\ stdout' = Append(stdout, reply)
        /\ pc' = "read"
     \/ /\ reply # NoReply /\ ~stdoutOpen /\ posix
        /\ pc' = "killed"
        /\ UNCHANGED stdout
  /\ reply' = NoReply
  /\ UNCHANGED <<serverVars, sent, stdin, stdinOpen, stdoutOpen, msg, posix>>

(* Mutant of End: the loop ends without release_all. *)
EndBare ==
  /\ pc = "read" /\ stdin = <<>> /\ ~stdinOpen
  /\ session' = FALSE
  /\ pc' = "done"
  /\ UNCHANGED <<legacySession, ledger, desktop, performed, pipes, msg, reply, posix>>

(* The end of the input ends the loop. *)
End ==
  /\ pc = "read" /\ stdin = <<>> /\ ~stdinOpen
  /\ IF session THEN ReleaseAll ELSE UNCHANGED <<ledger, desktop>>
  /\ session' = FALSE
  /\ pc' = "done"
  /\ UNCHANGED <<legacySession, performed, pipes, msg, reply, posix>>

Client == (\E c \in Clients, s \in Shapes : Send(c, s)) \/ CloseStdin \/ HangUp
Loop == Read \/ Handle \/ Write \/ End
Next == Client \/ Loop

(* The loop takes its next step whenever there is one to take. *)
Spec == Init /\ [][Next]_vars /\ WF_vars(Loop)

-----------------------------------------------------------------------------
(* Type correctness of the server, the pipes and the loop. *)
TypeOK ==
  /\ ServerTypeOK
  /\ sent \in Seq(Messages) /\ stdin \in Seq(Messages) /\ stdout \in Seq(Replies)
  /\ stdinOpen \in BOOLEAN /\ stdoutOpen \in BOOLEAN /\ posix \in BOOLEAN
  /\ pc \in {"read", "handle", "write", "done", "killed"}
  /\ msg \in Messages \cup {NoMessage} /\ reply \in Replies \cup {NoReply}

(* However the client leaves, a loop that ends leaves nothing held. *)
EndReleasesEverything == pc = "done" => desktop = {}

(***************************************************************************)
(* The replies come in the order of the messages, and no message gets two. *)
(***************************************************************************)
RepliesInOrder ==
  \A i, j \in DOMAIN stdout : i < j => stdout[i].n < stdout[j].n

(***************************************************************************)
(* What a reply says of a call is true, whichever way the call went: one   *)
(* that succeeded was run exactly once; an error of the protocol means it  *)
(* was not run and may be sent again, for a tool that throws is reported   *)
(* as one that failed; and one reported as failed was not run at all or    *)
(* failed in its one run.                                                  *)
(***************************************************************************)
TimesRun(n) == {i \in DOMAIN performed : performed[i][2] = n}

RunOnce(n) == \E k \in DOMAIN performed : TimesRun(n) = {k}
IsTrue(r) ==
  LET m == sent[r.n]
  IN m.form = "call" =>
       CASE r.kind = "result" -> RunOnce(m.n) /\ m.does # "fail"
         [] r.kind = "failed" -> \/ TimesRun(m.n) = {}
                                 \/ RunOnce(m.n) /\ m.does = "fail"
         [] OTHER -> TimesRun(m.n) = {}
RepliesAreTrue == \A i \in DOMAIN stdout : IsTrue(stdout[i])

(***************************************************************************)
(* Every request is answered, whatever came before it, unless the client   *)
(* hangs up.  A method of the notifications sent as a request is not.      *)
(***************************************************************************)
Answered(n) == \E i \in DOMAIN stdout : stdout[i].n = n
Owed(n) ==
  /\ n \in DOMAIN sent
  /\ sent[n].id \/ sent[n].form = "garbled"
  /\ sent[n].form \notin {"initialized", "notification"}
RequestsAreAnswered ==
  \A n \in 1 .. MaxSent : Owed(n) ~> (Answered(n) \/ ~stdoutOpen)

(* The process ends once its client has closed the pipe. *)
ServerEnds == ~stdinOpen ~> ~Running

-----------------------------------------------------------------------------
(***************************************************************************)
(* "A notification has no id and must produce no response at all" (comment *)
(* in handle_message).                                                     *)
(***************************************************************************)
NotificationsGetNoReply ==
  \A i \in DOMAIN stdout :
    stdout[i].id \/ sent[stdout[i].n].form = "garbled"
=============================================================================
