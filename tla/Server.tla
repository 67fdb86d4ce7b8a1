------------------------------- MODULE Server -------------------------------
(***************************************************************************)
(* The MCP server (src/mcp/server.cpp and src/mcp/protocol.cpp): how one   *)
(* JSON-RPC message is classified, which tool call it runs, and what is    *)
(* sent back.  StdioServer and SharedService wrap it in a transport.       *)
(*                                                                         *)
(* A message is reduced to what the code branches on: who sent it and as   *)
(* which of his messages (from, n), and its shape.                         *)
(*   form  "garbled", not JSON; "no_method"; "initialize"; "initialized",  *)
(*         the two names of that notification; "notification", another     *)
(*         method of notifications/; "answered", the methods that always   *)
(*         get a result; "call", tools/call; "unknown"                     *)
(*   id    whether it has one that is not null                             *)
(*   meta  the protocol version in its metadata: "none", or it declares    *)
(*         "modern", "unsupported", or "incomplete", a version without the *)
(*         client's capabilities                                           *)
(*   does  for a call, what its tool does: "hold" presses something and    *)
(*         leaves it held, "release" is release_all, "act" anything else,  *)
(*         "fail" a tool that reports an error or throws, perhaps after it *)
(*         has pressed something; "disabled" is a tool the configuration   *)
(*         has turned off                                                  *)
(***************************************************************************)
EXTENDS Integers, Sequences

CONSTANTS
  Clients,     \* those who send messages
  MaxSent,     \* bound on the messages of a client
  Shapes       \* the shapes of message in play

Forms == {"garbled", "no_method", "initialize", "initialized", "notification",
          "answered", "call", "unknown"}
Metas == {"none", "modern", "unsupported", "incomplete"}
Deeds == {"none", "hold", "release", "act", "fail", "disabled"}

ASSUME ShapesAssumption ==
  /\ Shapes \subseteq [form : Forms, id : BOOLEAN, meta : Metas, does : Deeds]
  /\ \A s \in Shapes : /\ s.form = "call" <=> s.does # "none"
                       /\ s.form = "garbled" => ~s.id /\ s.meta = "none"
ASSUME MaxSentAssumption == MaxSent \in Nat

Message(c, n, s) ==
  [from |-> c, n |-> n, form |-> s.form, id |-> s.id, meta |-> s.meta,
   does |-> s.does]
Messages == {Message(c, n, s) : c \in Clients, n \in 1 .. MaxSent, s \in Shapes}

VARIABLES
  legacySession,  \* legacy_session_
  session,        \* session_ has been created
  ledger,         \* whose presses the session's input backend has on record
  desktop,        \* whose presses are down on the desktop
  performed       \* history: <<from, n>> of the calls run, in their order

serverVars == <<legacySession, session, ledger, desktop, performed>>

ServerInit ==
  /\ legacySession = FALSE /\ session = FALSE
  /\ ledger = {} /\ desktop = {}
  /\ performed = <<>>

-----------------------------------------------------------------------------
(***************************************************************************)
(* What is sent back: nothing, or a reply with the id of the message.  One *)
(* that is "failed" is a result whose isError is true.                     *)
(***************************************************************************)
NoReply == [kind |-> "nothing"]
Kinds == {"result", "failed", "rpc_error", "bridge_error"}
Reply(m, kind) == [kind |-> kind, to |-> m.from, n |-> m.n, id |-> m.id]
Replies == {Reply(m, kind) : m \in Messages, kind \in Kinds}

IsNotification(m) == ~m.id

LegacyOnly(form) == form \in {"initialize", "initialized"}

(* classify_request: TRUE when it accepts the request. *)
HasVersion(m) == m.meta # "none"
Classified(m) ==
  IF HasVersion(m) THEN m.meta = "modern"
  ELSE LegacyOnly(m.form) \/ legacySession \/ ~HasVersion(m)

(* Mutant of GetsError: a request without a known method goes unanswered. *)
GetsErrorForVersionOnly(m) ==
  m.form = "garbled" \/ (~IsNotification(m) /\ ~Classified(m))

(***************************************************************************)
(* The paths through handle_message.  A notification is not classified.    *)
(***************************************************************************)
GetsError(m) ==
  \/ m.form = "garbled"
  \/ ~IsNotification(m) /\ (m.form \in {"no_method", "unknown"} \/ ~Classified(m))

GetsResult(m) == ~GetsError(m) /\ m.form \in {"initialize", "answered"}

RunsTool(m) == ~GetsError(m) /\ m.form = "call"

SetsLegacy(m) == LegacyOnly(m.form) /\ ~GetsError(m)

(***************************************************************************)
(* release_all of the session, which knows only of its own presses.        *)
(***************************************************************************)
ReleaseAll == desktop' = desktop \ ledger /\ ledger' = {}

(* Mutant of Run: what a call leaves held is not recorded. *)
RunUnrecorded(m) ==
  /\ performed' = Append(performed, <<m.from, m.n>>)
  /\ \/ /\ m.does \in {"hold", "fail"}
        /\ desktop' = desktop \cup {m.from} /\ UNCHANGED ledger
     \/ m.does = "release" /\ ReleaseAll
     \/ m.does \in {"act", "fail"} /\ UNCHANGED <<ledger, desktop>>

(***************************************************************************)
(* actions::run on a session that exists.  No exception leaves it.         *)
(***************************************************************************)
Run(m) ==
  /\ performed' = Append(performed, <<m.from, m.n>>)
  /\ \/ /\ m.does \in {"hold", "fail"}
        /\ ledger' = ledger \cup {m.from} /\ desktop' = desktop \cup {m.from}
     \/ m.does = "release" /\ ReleaseAll
     \/ m.does \in {"act", "fail"} /\ UNCHANGED <<ledger, desktop>>

(***************************************************************************)
(* Mutant of CallTool: what a tool throws is caught by handle_message only *)
(* and so becomes an error of the protocol.                                *)
(***************************************************************************)
CallToolLetsThrow(m, r) ==
  \/ /\ m.does = "disabled" \/ ~session
     /\ r = Reply(m, "failed")
     /\ UNCHANGED <<session, ledger, desktop, performed>>
  \/ /\ m.does # "disabled"
     /\ session' = TRUE
     /\ Run(m)
     /\ r = IF m.does # "fail" THEN Reply(m, "result")
            ELSE IF IsNotification(m) THEN NoReply ELSE Reply(m, "rpc_error")

(***************************************************************************)
(* handle_tools_call.  The session is created by the first call that gets  *)
(* that far; when that fails the next call tries again.  A call sent as a  *)
(* notification is answered like any other, with an id that is null.       *)
(***************************************************************************)
CallTool(m, r) ==
  \/ /\ m.does = "disabled" \/ ~session
     /\ r = Reply(m, "failed")
     /\ UNCHANGED <<session, ledger, desktop, performed>>
  \/ /\ m.does # "disabled"
     /\ session' = TRUE
     /\ Run(m)
     /\ r = Reply(m, IF m.does = "fail" THEN "failed" ELSE "result")

HandleMessage(m, r) ==
  /\ legacySession' = (legacySession \/ SetsLegacy(m))
  /\ IF RunsTool(m) THEN CallTool(m, r)
     ELSE /\ r = IF GetsError(m) THEN Reply(m, "rpc_error")
                 ELSE IF GetsResult(m) THEN Reply(m, "result") ELSE NoReply
          /\ UNCHANGED <<session, ledger, desktop, performed>>

ServerTypeOK ==
  /\ legacySession \in BOOLEAN /\ session \in BOOLEAN
  /\ ledger \subseteq Clients /\ desktop \subseteq Clients
  /\ performed \in Seq(Clients \X (1 .. MaxSent))
=============================================================================
