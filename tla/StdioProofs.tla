---------------------------- MODULE StdioProofs ----------------------------
(***************************************************************************)
(* Proofs about StdioServer: what one client is told and what it leaves    *)
(* behind, for any shapes and any number of messages, whenever it closes   *)
(* its pipe or hangs up.                                                   *)
(***************************************************************************)
EXTENDS StdioServer, TLAPS

(***************************************************************************)
(* Types.                                                                  *)
(***************************************************************************)
LEMMA MessageFields ==
  ASSUME NEW m \in Messages
  PROVE  /\ m.from \in Clients /\ m.n \in 1 .. MaxSent /\ m.form \in Forms
         /\ m.id \in BOOLEAN /\ m.meta \in Metas /\ m.does \in Deeds
         /\ m.form = "call" => m.does # "none"
<1>1. PICK c \in Clients, n \in 1 .. MaxSent, s \in Shapes : m = Message(c, n, s)
  BY DEF Messages
<1>2. s \in [form : Forms, id : BOOLEAN, meta : Metas, does : Deeds]
  BY ShapesAssumption
<1>3. s.form = "call" <=> s.does # "none"
  BY ShapesAssumption
<1> QED BY <1>1, <1>2, <1>3 DEF Message

LEMMA SentIsMessage ==
  ASSUME sent \in Seq(Messages), NEW c \in Clients, NEW s \in Shapes, Send(c, s)
  PROVE  /\ Message(c, Len(sent) + 1, s) \in Messages
         /\ Len(sent') = Len(sent) + 1 /\ Len(sent) \in Nat
<1> DEFINE m == Message(c, Len(sent) + 1, s)
<1>1. Len(sent) \in Nat /\ Len(sent) + 1 \in 1 .. MaxSent
  BY MaxSentAssumption DEF Send
<1>2. m \in Messages
  BY <1>1 DEF Messages
<1>3. sent' = Append(sent, m)
  BY DEF Send
<1> HIDE DEF m
<1>4. Len(sent') = Len(sent) + 1
  BY <1>2, <1>3
<1> QED BY <1>1, <1>2, <1>4 DEF m

LEMMA ReplyFields ==
  ASSUME NEW m \in Messages, NEW kind \in Kinds
  PROVE  /\ Reply(m, kind) \in Replies /\ Reply(m, kind) # NoReply
         /\ Reply(m, kind).n = m.n /\ Reply(m, kind).kind = kind
<1>1. kind # "nothing"
  BY DEF Kinds
<1>2. Reply(m, kind).kind # NoReply.kind
  BY <1>1 DEF Reply, NoReply
<1> QED BY <1>2 DEF Reply, Replies

\* Between the reading of a message and its handling there is one.
Typed == TypeOK /\ (pc = "handle" => msg \in Messages)

LEMMA ServerStays ==
  ASSUME ServerTypeOK, UNCHANGED serverVars PROVE ServerTypeOK'
BY DEF ServerTypeOK, serverVars

LEMMA HandledTyped ==
  ASSUME ServerTypeOK, NEW m \in Messages, NEW r, HandleMessage(m, r)
  PROVE  ServerTypeOK'
<1> USE MessageFields DEF ServerTypeOK
<1>1. legacySession' \in BOOLEAN
  BY DEF HandleMessage
<1>2. CASE UNCHANGED <<session, ledger, desktop, performed>>
  BY <1>1, <1>2
<1>3. CASE session' = TRUE /\ Run(m)
  <2>1. performed' \in Seq(Clients \X (1 .. MaxSent))
    BY <1>3 DEF Run
  <2> QED BY <1>1, <1>3, <2>1 DEF Run, ReleaseAll
<1> QED BY <1>2, <1>3 DEF HandleMessage, CallTool

LEMMA TypedKept == Typed /\ [Next]_vars => Typed'
<1> SUFFICES ASSUME Typed, [Next]_vars PROVE Typed'
  OBVIOUS
<1> USE DEF Typed, TypeOK
<1>1. ASSUME NEW c \in Clients, NEW s \in Shapes, Send(c, s) PROVE Typed'
  <2>1. Message(c, Len(sent) + 1, s) \in Messages
    BY <1>1, SentIsMessage
  <2> QED BY <1>1, <2>1, ServerStays DEF Send
<1>2. CASE CloseStdin \/ HangUp
  BY <1>2, ServerStays DEF CloseStdin, HangUp
<1>3. CASE Read
  BY <1>3, ServerStays DEF Read
<1>4. CASE Handle
  <2>1. PICK r \in {Reply(msg, kind) : kind \in Kinds} \cup {NoReply} :
          HandleMessage(msg, r) /\ reply' = r
    BY <1>4 DEF Handle
  <2>2. reply' \in Replies \cup {NoReply}
    BY <1>4, <2>1, ReplyFields DEF Handle
  <2>3. ServerTypeOK'
    BY <1>4, <2>1, HandledTyped DEF Handle
  <2> QED BY <1>4, <2>2, <2>3 DEF Handle, pipes
<1>5. CASE Write
  <2>1. stdout' \in Seq(Replies)
    BY <1>5 DEF Write
  <2>2. /\ UNCHANGED <<serverVars, sent, stdin, stdinOpen, stdoutOpen, msg, posix>>
        /\ pc' \in {"read", "killed"} /\ reply' = NoReply
    BY <1>5 DEF Write
  <2> QED BY <2>1, <2>2, ServerStays
<1>6. CASE End
  <2>1. ServerTypeOK'
    BY <1>6 DEF End, ServerTypeOK, ReleaseAll
  <2> QED BY <1>6, <2>1 DEF End, pipes
<1>7. CASE UNCHANGED vars
  BY <1>7, ServerStays DEF vars, pipes
<1> QED BY <1>1, <1>2, <1>3, <1>4, <1>5, <1>6, <1>7 DEF Next, Client, Loop

LEMMA TypedAtFirst == Init => Typed
<1> SUFFICES ASSUME Init PROVE Typed
  OBVIOUS
<1>1. performed \in Seq(Clients \X (1 .. MaxSent))
  BY DEF Init, ServerInit
<1>2. ServerTypeOK
  BY <1>1 DEF Init, ServerInit, ServerTypeOK
<1> QED BY <1>2 DEF Init, Typed, TypeOK

(***************************************************************************)
(* The state of server, pipes and loop is well typed, for any shapes and   *)
(* any number of messages (handle_message and the loop of run).            *)
(***************************************************************************)
THEOREM StdioTypeCorrect == Spec => []TypeOK
<1>1. Typed => TypeOK
  BY DEF Typed
<1> QED BY <1>1, TypedAtFirst, TypedKept, PTL DEF Spec

-----------------------------------------------------------------------------
(***************************************************************************)
(* What is down is in the ledger, and only a session has presses.          *)
(***************************************************************************)
Accounted == /\ desktop = ledger
             /\ ~session => desktop = {}
             /\ pc = "done" => desktop = {}

LEMMA AccountedKept == Accounted /\ [Next]_vars => Accounted'
<1> SUFFICES ASSUME Accounted, [Next]_vars PROVE Accounted'
  OBVIOUS
<1> USE DEF Accounted
<1>1. CASE Client
  BY <1>1 DEF Client, Send, CloseStdin, HangUp, serverVars
<1>2. CASE Read \/ Write
  BY <1>2 DEF Read, Write, serverVars
<1>3. CASE Handle
  <2>1. PICK r : HandleMessage(msg, r)
    BY <1>3 DEF Handle
  <2> QED BY <1>3, <2>1 DEF Handle, HandleMessage, CallTool, Run, ReleaseAll
<1>4. CASE End
  BY <1>4 DEF End, ReleaseAll
<1>5. CASE UNCHANGED vars
  BY <1>5 DEF vars, serverVars
<1> QED BY <1>1, <1>2, <1>3, <1>4, <1>5 DEF Next, Loop

(***************************************************************************)
(* However the client leaves, a loop that ends leaves nothing held: all    *)
(* that any call of it pressed is in the ledger of the one session, which  *)
(* is released when there is one (the end of run()).                       *)
(***************************************************************************)
THEOREM NothingIsLeftHeld == Spec => []EndReleasesEverything
<1>1. Init => Accounted
  BY DEF Init, ServerInit, Accounted
<1>2. Accounted => EndReleasesEverything
  BY DEF Accounted, EndReleasesEverything
<1> QED BY <1>1, <1>2, AccountedKept, PTL DEF Spec

-----------------------------------------------------------------------------
(***************************************************************************)
(* The order of messages.  Those read are the first of those sent, and the *)
(* last of them is in hand until its reply is written.                     *)
(***************************************************************************)
Taken == Len(sent) - Len(stdin)
InHand == pc \in {"handle", "write"}
Settled == IF InHand THEN Taken - 1 ELSE Taken  \* with which run() is through

Queued ==
  /\ Len(stdin) <= Len(sent)
  /\ \A i \in 1 .. Len(sent) : sent[i].n = i
  /\ \A i \in 1 .. Len(stdin) : stdin[i] = sent[Taken + i]
  /\ InHand => Taken >= 1
  /\ pc = "handle" => msg = sent[Taken]
  /\ pc = "write" /\ reply # NoReply => reply.n = Taken
  /\ pc # "write" => reply = NoReply
Ordered ==
  /\ \A i \in 1 .. Len(stdout) : stdout[i].n \in 1 .. Settled
  /\ RepliesInOrder

LEMMA QueuedKept == Typed /\ Queued /\ [Next]_vars => Queued'
<1> SUFFICES ASSUME Typed, Queued, [Next]_vars PROVE Queued'
  OBVIOUS
<1> USE DEF Typed, TypeOK, Queued, InHand, Taken
<1>1. ASSUME NEW c \in Clients, NEW s \in Shapes, Send(c, s) PROVE Queued'
  <2> DEFINE m == Message(c, Len(sent) + 1, s)
  <2>1. m.n = Len(sent) + 1
    BY DEF Message
  <2>2. sent' = Append(sent, m) /\ stdin' = Append(stdin, m)
    BY <1>1 DEF Send
  <2> HIDE DEF m
  <2>3. m \in Messages
    BY <1>1, SentIsMessage DEF m
  <2>4. Len(sent') = Len(sent) + 1 /\ Len(stdin') = Len(stdin) + 1
    BY <2>2, <2>3
  <2>5. \A i \in 1 .. Len(sent') : sent'[i].n = i
    BY <2>1, <2>2, <2>3, <2>4
  <2>6. \A i \in 1 .. Len(stdin') : stdin'[i] = sent'[Taken + i]
    <3> SUFFICES ASSUME NEW i \in 1 .. Len(stdin') PROVE stdin'[i] = sent'[Taken + i]
      BY <2>4
    <3>1. CASE i = Len(stdin) + 1
      BY <2>2, <2>3, <3>1
    <3>2. CASE i \in 1 .. Len(stdin)
      <4>1. Taken + i \in 1 .. Len(sent)
        BY <3>2
      <4> QED BY <2>2, <2>3, <3>2, <4>1
    <3> QED BY <2>4, <3>1, <3>2
  <2>7. Taken' = Taken
    BY <2>4
  <2>8. Taken >= 1 => sent'[Taken] = sent[Taken]
    BY <2>2, <2>3
  <2>9. UNCHANGED <<pc, msg, reply>>
    BY <1>1 DEF Send
  <2>10. InHand' => Taken' >= 1
    BY <2>7, <2>9
  <2>11. pc' = "handle" => msg' = sent'[Taken']
    BY <2>7, <2>8, <2>9
  <2> QED BY <2>4, <2>5, <2>6, <2>7, <2>9, <2>10, <2>11
<1>2. CASE CloseStdin \/ HangUp
  BY <1>2 DEF CloseStdin, HangUp
<1>3. CASE Read
  <2>1. /\ Len(stdin) >= 1 /\ Len(stdin') = Len(stdin) - 1
        /\ sent' = sent
        /\ \A i \in 1 .. Len(stdin') : stdin'[i] = stdin[i + 1]
        /\ msg' = stdin[1] /\ pc' = "handle" /\ reply' = NoReply
    BY <1>3 DEF Read
  <2>2. Taken' = Taken + 1
    BY <2>1
  <2> QED BY <2>1, <2>2
<1>4. CASE Handle
  <2>1. PICK r \in {Reply(msg, kind) : kind \in Kinds} \cup {NoReply} : reply' = r
    BY <1>4 DEF Handle
  <2>2. msg \in Messages /\ pc = "handle" /\ pc' = "write"
    BY <1>4 DEF Handle
  <2>3. reply' # NoReply => reply'.n = msg.n
    BY <2>1, <2>2, ReplyFields
  <2>4. msg.n = Taken
    BY <2>2
  <2>5. UNCHANGED <<sent, stdin>>
    BY <1>4 DEF Handle, pipes
  <2> QED BY <2>2, <2>3, <2>4, <2>5
<1>5. CASE Write
  BY <1>5 DEF Write
<1>6. CASE End
  BY <1>6 DEF End, pipes
<1>7. CASE UNCHANGED vars
  BY <1>7 DEF vars, pipes
<1> QED BY <1>1, <1>2, <1>3, <1>4, <1>5, <1>6, <1>7 DEF Next, Client, Loop

LEMMA OrderedKept == Typed /\ Queued /\ Ordered /\ [Next]_vars => Ordered'
<1> SUFFICES ASSUME Typed, Queued, Ordered, [Next]_vars PROVE Ordered'
  OBVIOUS
<1> USE DEF Typed, TypeOK, Queued, Ordered, InHand, Taken, Settled,
            RepliesInOrder
<1>1. CASE Client
  <2>1. UNCHANGED <<stdout, pc>>
    BY <1>1 DEF Client, Send, CloseStdin, HangUp
  <2>2. Taken' = Taken
    <3>2. ASSUME NEW c \in Clients, NEW s \in Shapes, Send(c, s)
          PROVE  Taken' = Taken
      <4>1. Len(sent') = Len(sent) + 1
        BY <3>2, SentIsMessage
      <4>2. \E m : m \in Messages /\ stdin' = Append(stdin, m)
        BY <3>2, SentIsMessage DEF Send
      <4>3. Len(stdin') = Len(stdin) + 1
        BY <4>2
      <4> QED BY <4>1, <4>3
    <3> QED BY <1>1, <3>2 DEF Client, CloseStdin, HangUp
  <2> QED BY <2>1, <2>2
<1>2. CASE Read
  BY <1>2 DEF Read
<1>3. CASE Handle
  BY <1>3 DEF Handle, pipes
<1>4. CASE Write
  <2>1. UNCHANGED <<sent, stdin>> /\ pc = "write" /\ pc' \in {"read", "killed"}
    BY <1>4 DEF Write
  <2>2. CASE UNCHANGED stdout
    BY <2>1, <2>2
  <2>3. CASE reply # NoReply /\ stdout' = Append(stdout, reply)
    <3>1. reply \in Replies
      BY <2>3
    <3>2. /\ Len(stdout') = Len(stdout) + 1
          /\ \A i \in 1 .. Len(stdout) : stdout'[i] = stdout[i]
          /\ stdout'[Len(stdout) + 1].n = Taken
      BY <2>1, <2>3, <3>1
    <3>3. DOMAIN stdout' = 1 .. Len(stdout) + 1 /\ DOMAIN stdout = 1 .. Len(stdout)
      BY <2>3, <3>1
    <3>4. Settled' = Taken /\ Settled = Taken - 1
          /\ Taken \in Nat /\ Taken >= 1 /\ Len(stdout) \in Nat
      BY <2>1
    <3>5. \A i \in 1 .. Len(stdout) : stdout[i].n \in 1 .. Taken - 1
      BY <3>4
    <3> HIDE DEF Typed, TypeOK, Queued, Ordered, InHand, Taken, Settled
    <3>6. \A i \in 1 .. Len(stdout') : stdout'[i].n \in 1 .. Settled'
      BY <3>2, <3>4, <3>5
    <3>7. RepliesInOrder'
      <4>1. ASSUME NEW i \in 1 .. Len(stdout) + 1,
                   NEW j \in 1 .. Len(stdout) + 1, i < j
            PROVE  stdout'[i].n < stdout'[j].n
        <5>1. i \in 1 .. Len(stdout) /\ stdout'[i] = stdout[i]
          BY <3>2, <3>4, <4>1
        <5>2. CASE j = Len(stdout) + 1
          BY <3>2, <3>4, <3>5, <5>1, <5>2
        <5>3. CASE j \in 1 .. Len(stdout)
          <6>1. stdout'[j] = stdout[j] /\ j \in DOMAIN stdout /\ i \in DOMAIN stdout
            BY <3>2, <3>3, <5>1, <5>3
          <6>2. stdout[i].n < stdout[j].n
            BY <4>1, <6>1 DEF Ordered, RepliesInOrder
          <6> QED BY <5>1, <6>1, <6>2
        <5> QED BY <3>4, <5>2, <5>3
      <4> QED BY <3>3, <4>1 DEF RepliesInOrder
    <3> USE DEF Ordered
    <3> QED BY <3>6, <3>7
  <2> QED BY <1>4, <2>2, <2>3 DEF Write
<1>5. CASE End
  BY <1>5 DEF End, pipes
<1>6. CASE UNCHANGED vars
  BY <1>6 DEF vars, pipes
<1> QED BY <1>1, <1>2, <1>3, <1>4, <1>5, <1>6 DEF Next, Loop

LEMMA QueuesAtFirst == Init => Queued /\ Ordered
BY DEF Init, Queued, Ordered, InHand, Taken, RepliesInOrder

(***************************************************************************)
(* The replies come in the order of the messages and no message gets two,  *)
(* however many are sent and whenever the client stops reading (the loop   *)
(* of run, StdioTransport).                                                *)
(***************************************************************************)
THEOREM RepliesKeepTheOrder == Spec => []RepliesInOrder
<1>1. Ordered => RepliesInOrder
  BY DEF Ordered
<1> QED BY <1>1, TypedAtFirst, TypedKept, QueuesAtFirst, QueuedKept, OrderedKept,
           PTL DEF Spec

-----------------------------------------------------------------------------
(***************************************************************************)
(* The truth of replies.  A message is run at most once, when it is        *)
(* handled, so that what its reply says stays true.                        *)
(***************************************************************************)
Truthful ==
  /\ \A k \in DOMAIN performed :
       performed[k][2] <= IF pc = "handle" THEN Taken - 1 ELSE Taken
  /\ RepliesAreTrue
  /\ pc = "write" /\ reply # NoReply => IsTrue(reply)

\* Running one message does not run another.
LEMMA OthersNotRun ==
  ASSUME performed \in Seq(Clients \X (1 .. MaxSent)),
         NEW c, NEW k, NEW n, n # k, performed' = Append(performed, <<c, k>>)
  PROVE  TimesRun(n)' = TimesRun(n)
<1>1. DOMAIN performed = 1 .. Len(performed) /\ Len(performed) \in Nat
  OBVIOUS
<1>2. /\ DOMAIN performed' = 1 .. Len(performed) + 1
      /\ \A i \in 1 .. Len(performed) : performed'[i] = performed[i]
      /\ performed'[Len(performed) + 1] = <<c, k>>
  OBVIOUS
<1> QED BY <1>1, <1>2 DEF TimesRun

\* A message that is run for the first time has been run once.
LEMMA RunsOnce ==
  ASSUME performed \in Seq(Clients \X (1 .. MaxSent)),
         NEW c, NEW n, TimesRun(n) = {}, performed' = Append(performed, <<c, n>>)
  PROVE  RunOnce(n)'
<1>1. DOMAIN performed = 1 .. Len(performed) /\ Len(performed) \in Nat
  OBVIOUS
<1>2. /\ DOMAIN performed' = 1 .. Len(performed) + 1
      /\ \A i \in 1 .. Len(performed) : performed'[i] = performed[i]
      /\ performed'[Len(performed) + 1] = <<c, n>>
  OBVIOUS
<1>3. TimesRun(n)' = {Len(performed) + 1}
  BY <1>1, <1>2 DEF TimesRun
<1> QED BY <1>1, <1>2, <1>3 DEF RunOnce

\* What a reply of this kind to call n says of the state after its handling.
Says(m, kind, n) ==
  CASE kind = "result" -> RunOnce(n)' /\ m.does # "fail"
    [] kind = "failed" -> \/ TimesRun(n)' = {}
                          \/ RunOnce(n)' /\ m.does = "fail"
    [] OTHER -> TimesRun(n)' = {}

\* What handle_message says of a call it has not run before is true.
LEMMA HandledTruly ==
  ASSUME performed \in Seq(Clients \X (1 .. MaxSent)),
         NEW m \in Messages, NEW kind \in Kinds, NEW n, n = m.n, m.form = "call",
         HandleMessage(m, Reply(m, kind)), TimesRun(n) = {}
  PROVE  Says(m, kind, n)
<1> USE DEF Says
<1>1. \A k \in Kinds : Reply(m, kind) = Reply(m, k) => kind = k
  BY ReplyFields
<1>2. "result" \in Kinds /\ "failed" \in Kinds /\ "rpc_error" \in Kinds
  BY DEF Kinds
<1>4. CASE GetsError(m)
  <2>1. Reply(m, kind) = Reply(m, "rpc_error") /\ UNCHANGED performed
    BY <1>4 DEF HandleMessage, RunsTool
  <2>2. kind = "rpc_error" /\ TimesRun(n)' = {}
    BY <1>1, <1>2, <2>1 DEF TimesRun
  <2> QED BY <2>2
<1>5. CASE ~GetsError(m)
  <2>1. CallTool(m, Reply(m, kind))
    BY <1>5 DEF HandleMessage, RunsTool
  <2>2. CASE Reply(m, kind) = Reply(m, "failed") /\ UNCHANGED performed
    BY <1>1, <1>2, <2>2 DEF TimesRun
  <2>3. CASE /\ Run(m)
             /\ Reply(m, kind) =
                  Reply(m, IF m.does = "fail" THEN "failed" ELSE "result")
    <3>1. RunOnce(n)'
      BY <2>3, RunsOnce DEF Run
    <3>2. kind = IF m.does = "fail" THEN "failed" ELSE "result"
      BY <1>1, <1>2, <2>3
    <3> QED BY <3>1, <3>2
  <2> QED BY <2>1, <2>2, <2>3 DEF CallTool
<1> QED BY <1>4, <1>5

\* What was said of other messages stays true.
LEMMA TruthStays ==
  ASSUME RepliesAreTrue, UNCHANGED stdout,
         \A i \in DOMAIN stdout :
           /\ sent'[stdout[i].n] = sent[stdout[i].n]
           /\ sent[stdout[i].n].n = stdout[i].n
           /\ TimesRun(stdout[i].n)' = TimesRun(stdout[i].n),
         DOMAIN performed \subseteq DOMAIN performed'
  PROVE  RepliesAreTrue'
<1> SUFFICES ASSUME NEW i \in DOMAIN stdout PROVE IsTrue(stdout[i])'
  BY DEF RepliesAreTrue
<1> DEFINE m == sent[stdout[i].n]
<1>1. IsTrue(stdout[i])
  BY DEF RepliesAreTrue
<1>2. m' = m /\ TimesRun(m.n)' = TimesRun(m.n)
  OBVIOUS
<1> QED BY <1>1, <1>2 DEF IsTrue, RunOnce

LEMMA TruthfulKept ==
  Typed /\ Queued /\ Ordered /\ Truthful /\ [Next]_vars => Truthful'
<1> SUFFICES ASSUME Typed, Queued, Ordered, Truthful, [Next]_vars PROVE Truthful'
  OBVIOUS
<1>1. /\ Len(sent) \in Nat /\ Taken \in 0 .. Len(sent)
      /\ DOMAIN stdout = 1 .. Len(stdout)
      /\ performed \in Seq(Clients \X (1 .. MaxSent))
      /\ \A k \in DOMAIN performed : performed[k][2] \in Nat
  BY DEF Typed, TypeOK, ServerTypeOK, Queued, Taken
<1>2. \A i \in DOMAIN stdout :
        stdout[i].n \in 1 .. Settled /\ stdout[i].n \in 1 .. Len(sent)
        /\ sent[stdout[i].n].n = stdout[i].n
  BY <1>1 DEF Ordered, Settled, Queued
<1>3. CASE UNCHANGED <<sent, stdin, stdout, performed, reply, pc>>
  BY <1>3 DEF Truthful, RepliesAreTrue, IsTrue, RunOnce, TimesRun, Taken
<1>4. ASSUME NEW c \in Clients, NEW s \in Shapes, Send(c, s) PROVE Truthful'
  <2>1. UNCHANGED <<performed, stdout, reply, pc>>
    BY <1>4 DEF Send, serverVars
  <2>2. \A i \in 1 .. Len(sent) : sent'[i] = sent[i]
    BY <1>4, SentIsMessage DEF Send, Typed, TypeOK
  <2>3. Taken' = Taken
    <3>1. Len(sent') = Len(sent) + 1
      BY <1>4, SentIsMessage DEF Typed, TypeOK
    <3>2. Len(stdin') = Len(stdin) + 1 /\ Len(stdin) \in Nat
      BY <1>4, SentIsMessage DEF Send, Typed, TypeOK
    <3> QED BY <1>1, <3>1, <3>2 DEF Taken
  <2>4. RepliesAreTrue'
    BY <1>2, <2>1, <2>2, TruthStays DEF Truthful, TimesRun
  <2>5. ASSUME pc' = "write", reply' # NoReply PROVE IsTrue(reply)'
    <3>1. IsTrue(reply) /\ reply.n \in 1 .. Len(sent)
      BY <1>1, <2>1, <2>5 DEF Truthful, Queued, InHand
    <3>2. sent'[reply.n] = sent[reply.n] /\ reply' = reply
      BY <2>1, <2>2, <3>1
    <3> QED BY <2>1, <3>1, <3>2 DEF IsTrue, RunOnce, TimesRun
  <2> QED BY <2>1, <2>3, <2>4, <2>5 DEF Truthful
<1>5. CASE Read
  <2>1. /\ UNCHANGED <<sent, performed, stdout>> /\ pc = "read" /\ pc' = "handle"
        /\ Len(stdin') = Len(stdin) - 1 /\ Len(stdin) \in Nat
    BY <1>5 DEF Read, serverVars, Typed, TypeOK
  <2>2. Taken' = Taken + 1
    BY <1>1, <2>1 DEF Taken
  <2>3. RepliesAreTrue'
    BY <1>2, <2>1, TruthStays DEF Truthful, TimesRun
  <2> QED BY <1>1, <2>1, <2>2, <2>3 DEF Truthful
<1>6. CASE Handle
  <2>1. PICK r \in {Reply(msg, kind) : kind \in Kinds} \cup {NoReply} :
          HandleMessage(msg, r) /\ reply' = r
    BY <1>6 DEF Handle
  <2>2. /\ UNCHANGED <<sent, stdin, stdout>> /\ pc = "handle" /\ pc' = "write"
        /\ msg \in Messages /\ msg = sent[Taken] /\ msg.n = Taken
        /\ Taken >= 1 /\ Taken' = Taken
    BY <1>1, <1>6 DEF Handle, pipes, Typed, Queued, InHand, Taken
  <2>3. performed' = performed \/ performed' = Append(performed, <<msg.from, Taken>>)
    BY <2>1, <2>2 DEF HandleMessage, CallTool, Run
  <2>4. TimesRun(Taken) = {}
    BY <1>1, <2>2 DEF Truthful, TimesRun
  <2>5. /\ DOMAIN performed \subseteq DOMAIN performed'
        /\ \A k \in DOMAIN performed' : performed'[k][2] <= Taken
    <3>1. CASE performed' = performed
      BY <1>1, <2>2, <3>1 DEF Truthful
    <3>2. CASE performed' = Append(performed, <<msg.from, Taken>>)
      BY <1>1, <2>2, <3>2 DEF Truthful
    <3> QED BY <2>3, <3>1, <3>2
  <2>6. \A n \in 1 .. Taken - 1 : TimesRun(n)' = TimesRun(n)
    <3> SUFFICES ASSUME NEW n \in 1 .. Taken - 1
                 PROVE  TimesRun(n)' = TimesRun(n)
      OBVIOUS
    <3>1. n # Taken
      BY <1>1
    <3>2. CASE performed' = performed
      BY <3>2 DEF TimesRun
    <3>3. CASE performed' = Append(performed, <<msg.from, Taken>>)
      BY <1>1, <3>1, <3>3, OthersNotRun
    <3> QED BY <2>3, <3>2, <3>3
  <2>7. RepliesAreTrue'
    <3>1. \A i \in DOMAIN stdout : stdout[i].n \in 1 .. Taken - 1
      BY <1>2, <2>2 DEF Settled, InHand
    <3> QED BY <1>2, <2>2, <2>5, <2>6, <3>1, TruthStays DEF Truthful
  <2>8. ASSUME reply' # NoReply PROVE IsTrue(reply)'
    <3>1. PICK kind \in Kinds : reply' = Reply(msg, kind)
      BY <2>1, <2>8
    <3>2. reply'.n = Taken /\ reply'.kind = kind
      BY <2>2, <3>1, ReplyFields
    <3>3. HandleMessage(msg, Reply(msg, kind))
      BY <2>1, <3>1
    <3>4. sent'[reply'.n] = msg
      BY <2>2, <3>2
    <3> PICK n : n = Taken
      OBVIOUS
    <3>5. n = msg.n /\ TimesRun(n) = {}
      BY <2>2, <2>4
    <3>6. ASSUME msg.form = "call" PROVE Says(msg, kind, n)
      <4>1. performed \in Seq(Clients \X (1 .. MaxSent))
        BY <1>1
      <4>2. msg \in Messages
        BY <2>2
      <4> QED BY <3>3, <3>5, <3>6, <4>1, <4>2, HandledTruly
    <3>7. (sent[reply.n])' = msg /\ TimesRun(sent[reply.n].n)' = TimesRun(n)'
      BY <3>4, <3>5 DEF TimesRun
    <3> QED BY <3>2, <3>6, <3>7 DEF IsTrue, Says, RunOnce
  <2> QED BY <2>2, <2>5, <2>7, <2>8 DEF Truthful
<1>7. CASE Write
  <2>1. /\ UNCHANGED <<sent, stdin, performed>> /\ pc = "write"
        /\ pc' \in {"read", "killed"} /\ Taken' = Taken
    BY <1>7 DEF Write, serverVars, Taken
  <2>2. CASE UNCHANGED stdout
    <3>1. RepliesAreTrue'
      BY <1>2, <2>1, <2>2, TruthStays DEF Truthful, TimesRun
    <3> QED BY <2>1, <3>1 DEF Truthful
  <2>3. CASE reply # NoReply /\ stdout' = Append(stdout, reply)
    <3>1. /\ DOMAIN stdout' = 1 .. Len(stdout) + 1
          /\ \A i \in 1 .. Len(stdout) : stdout'[i] = stdout[i]
          /\ stdout'[Len(stdout) + 1] = reply
          /\ Len(stdout) \in Nat
      BY <2>3 DEF Typed, TypeOK
    <3>2. IsTrue(reply)
      BY <2>1, <2>3 DEF Truthful
    <3>3. ASSUME NEW i \in DOMAIN stdout' PROVE IsTrue(stdout[i])'
      <4>1. CASE i = Len(stdout) + 1
        BY <2>1, <3>1, <3>2, <4>1 DEF IsTrue, RunOnce, TimesRun
      <4>2. CASE i \in 1 .. Len(stdout)
        <5>1. IsTrue(stdout[i])
          BY <1>1, <4>2 DEF Truthful, RepliesAreTrue
        <5>2. stdout'[i] = stdout[i]
          BY <3>1, <4>2
        <5> QED BY <2>1, <5>1, <5>2 DEF IsTrue, RunOnce, TimesRun
      <4> QED BY <3>1, <4>1, <4>2
    <3>4. RepliesAreTrue'
      BY <3>3 DEF RepliesAreTrue
    <3> QED BY <2>1, <3>4 DEF Truthful
  <2> QED BY <1>7, <2>2, <2>3 DEF Write
<1>8. CASE End
  <2>1. /\ UNCHANGED <<sent, stdin, stdout, performed>>
        /\ pc = "read" /\ pc' = "done"
    BY <1>8 DEF End, pipes
  <2>2. RepliesAreTrue'
    BY <1>2, <2>1, TruthStays DEF Truthful, TimesRun
  <2> QED BY <2>1, <2>2 DEF Truthful, Taken
<1>9. CASE CloseStdin \/ HangUp \/ UNCHANGED vars
  BY <1>3, <1>9 DEF CloseStdin, HangUp, vars, pipes, serverVars
<1> QED BY <1>4, <1>5, <1>6, <1>7, <1>8, <1>9 DEF Next, Client, Loop

(***************************************************************************)
(* What a reply says of a call is true, for any messages and any number of *)
(* them: success means that it was run exactly once, an error of the       *)
(* protocol that it was not run, however its tool may throw, and failure   *)
(* that it was not run or failed in its one run (actions::run,             *)
(* handle_tools_call, handle_message).                                     *)
(***************************************************************************)
THEOREM NoReplyLies == Spec => []RepliesAreTrue
<1>1. Init => Truthful
  BY DEF Init, ServerInit, Truthful, RepliesAreTrue
<1>2. Truthful => RepliesAreTrue
  BY DEF Truthful
<1> QED BY <1>1, <1>2, TypedAtFirst, TypedKept, QueuesAtFirst, QueuedKept,
           OrderedKept, TruthfulKept, PTL DEF Spec
=============================================================================
