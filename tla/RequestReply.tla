---------------------------- MODULE RequestReply ----------------------------
(***************************************************************************)
(* What clients are promised by the server they share: their messages are  *)
(* taken one by one in order, a call is run at most once and only while    *)
(* its sender can still be told, a request gets one reply and a            *)
(* notification none, and a reply that says a call was run is right.       *)
(* Nothing is promised to a client that has gone but that what it had not  *)
(* yet handed over will never be run.                                      *)
(***************************************************************************)
EXTENDS Integers, Sequences

CONSTANTS
  Clients,
  Messages,  \* records, with from and n
  Expects(_), \* whether a message is a request
  Runs(_),   \* whether it is a call
  Kinds      \* the kinds of reply; "result" says that the message was served

VARIABLES
  waiting,   \* by client: the messages taken and not settled yet, in order
  replies,   \* by client: the replies, [n, kind], in order
  ran,       \* the <<from, n>> of the calls that have been run
  gone       \* the clients that have gone

rrVars == <<waiting, replies, ran, gone>>

RRInit ==
  /\ waiting = [c \in Clients |-> <<>>]
  /\ replies = [c \in Clients |-> <<>>]
  /\ ran = {} /\ gone = {}

Ask(c) ==
  /\ UNCHANGED <<replies, gone, ran>>
  /\ \E m \in Messages : /\ m.from = c
                         /\ waiting' = [waiting EXCEPT ![c] = Append(@, m)]

RunHead(c) ==
  /\ UNCHANGED <<replies, gone, waiting>>
  /\ waiting[c] # <<>>
  /\ LET m == Head(waiting[c])
     IN /\ Runs(m)
        /\ <<c, m.n>> \notin ran
        /\ ran' = ran \cup {<<c, m.n>>}

Settle(c) ==
  /\ c \notin gone
  /\ UNCHANGED <<gone, ran>>
  /\ waiting[c] # <<>>
  /\ LET m == Head(waiting[c])
     IN \/ /\ Expects(m)
           /\ \E kind \in Kinds :
                /\ kind = "result" /\ Runs(m) => <<c, m.n>> \in ran
                /\ replies' = [replies EXCEPT
                                 ![c] = Append(@, [n |-> m.n, kind |-> kind])]
        \/ ~Expects(m) /\ UNCHANGED replies
  /\ waiting' = [waiting EXCEPT ![c] = Tail(@)]

Go(c) ==
  /\ gone' = gone \cup {c}
  /\ UNCHANGED <<replies, ran, waiting>>

RRNext == \E c \in Clients : Ask(c) \/ RunHead(c) \/ Settle(c) \/ Go(c)

RRSpec == RRInit /\ [][RRNext]_rrVars
=============================================================================
