---------------------------- MODULE SetupProofs ----------------------------
(***************************************************************************)
(* Proofs about Setup: what the user has in the files of his clients, what *)
(* is left after --stop, what running setup once more leaves connected,    *)
(* and what a setup that ends with 0 has done, for any clients, machines,  *)
(* command lines and numbers of runs and faults.                           *)
(***************************************************************************)
EXTENDS Setup, TLAPS

Fields == {"ask", "port", "token", "command", "chosen", "next", "text",
           "failed", "kept", "deceived", "ignored", "back", "out", "code"}
Positive == Nat \ {0}
RunTypes == DOMAIN run = Fields /\ run.next \in Positive /\ shared \in BOOLEAN

LEMMA NoRunTyped == DOMAIN NoRun = Fields /\ NoRun.next \in Positive
                    /\ NoRun.ask.mode = "none" /\ NoRun.back = ""
                    /\ NoRun.code = 0 /\ NoRun.port = 0
BY DEF NoRun, Fields, Positive

(***************************************************************************)
(* The servers the user has entered into a client's file stay there.  A    *)
(* file is either whole or the one that is being written, what is written  *)
(* to it holds what it held, and what Edit has in hand is what is there.   *)
(***************************************************************************)
Writing == pc \in {"open", "fill"}
Plainer == {"open", "fill", "edit"}
Mine == had \ harmed
Guarded ==
  /\ DOMAIN disk = Paths /\ had \subseteq Clients
  /\ \A c \in Mine : (pc = "fill" /\ run.out.path = c) \/ Holds(disk[c])
  /\ Writing => /\ run.out.path \in Mine => Holds(run.out.text)
                /\ run.out.good \notin Plainer /\ run.out.bad \notin Plainer
  /\ pc = "edit" => run.next <= Len(Order) /\ run.text = disk[Client]

\* A step that leaves the files alone and begins no write.
LEMMA QuietKeeps ==
  ASSUME Guarded, UNCHANGED files, pc # "fill", pc' \notin Plainer
  PROVE  Guarded'
BY DEF Guarded, files, Writing, Plainer, Mine, Holds

\* A step of somebody else's.
LEMMA OthersKeep ==
  ASSUME Guarded, UNCHANGED files, UNCHANGED <<pc, run>>
  PROVE  Guarded'
BY DEF Guarded, files, Writing, Mine, Holds, Client

\* The beginning of a write, of whatever file and of a new token.
LEMMA WritesKeep ==
  ASSUME Guarded, RunTypes, NEW p, NEW t, NEW g, NEW b,
         Writes(p, t, g, b), pc # "fill",
         p \in Mine => Holds(t), g \notin Plainer, b \notin Plainer
  PROVE  Guarded'
<1>1. /\ run'.out.path = p /\ run'.out.text = t
      /\ run'.out.good = g /\ run'.out.bad = b
  BY DEF Writes, Does, RunTypes, Fields
<1>2. UNCHANGED files /\ pc' = "open"
  BY DEF Writes, Goes
<1> QED BY <1>1, <1>2 DEF Guarded, files, Writing, Plainer, Mine, Holds

LEMMA GeneratesKeeps ==
  ASSUME Guarded, RunTypes, NEW g, NEW b, Generates(g, b), pc # "fill",
         "token" \notin Clients, g \notin Plainer, b \notin Plainer
  PROVE  Guarded'
<1>1. /\ run'.out.path = "token"
      /\ run'.out.good = g /\ run'.out.bad = b
  BY DEF Generates, Does, RunTypes, Fields
<1>2. UNCHANGED files /\ pc' = "open"
  BY DEF Generates, Goes
<1> QED BY <1>1, <1>2 DEF Guarded, files, Writing, Plainer, Mine, Holds

-----------------------------------------------------------------------------
\* Every step leaves a record of setup's own data.
LEMMA RunTypesKept == RunTypes /\ [Next]_vars => RunTypes'
<1> SUFFICES ASSUME RunTypes, [Next]_vars PROVE RunTypes'
  OBVIOUS
<1>1. CASE Provides
  BY <1>1 DEF Provides, RunTypes, Fields, fixed, Goes, Writes, Does
<1>2. CASE Status
  BY <1>2 DEF Status, RunTypes, Fields, fixed, Goes, Exit, Does
<1>3. CASE Pick
  BY <1>3 DEF Pick, RunTypes, Fields, fixed, Goes, Stays, Does
<1>4. CASE InstalledFirst
  BY <1>4 DEF InstalledFirst, RunTypes, Fields, fixed, Goes, Stays, Exit, Does
<1>5. CASE Load
  BY <1>5 DEF Load, RunTypes, Fields, fixed, Goes, Does, Exit
<1>6. CASE Secret
  BY <1>6 DEF Secret, RunTypes, Fields, fixed, Goes, Generates, Stays, Does
<1>7. CASE NoSecret
  BY <1>7 DEF NoSecret, RunTypes, Fields, fixed, Goes, Does
<1>8. CASE Save
  BY <1>8 DEF Save, RunTypes, Fields, fixed, Goes, Writes, Does
<1>9. CASE Saved
  BY <1>9 DEF Saved, RunTypes, Fields, fixed, Goes, Exit, Stays, Does
<1>10. CASE Keep
  BY <1>10 DEF Keep, RunTypes, Fields, fixed, Goes, Does
<1>11. CASE Store
  BY <1>11 DEF Store, RunTypes, Fields, fixed, Goes, Generates, Writes, Stays, Does
<1>12. CASE WritePlist
  BY <1>12 DEF WritePlist, RunTypes, Fields, fixed, Goes, Writes, Does
<1>13. CASE Bootout
  BY <1>13 DEF Bootout, RunTypes, Fields, fixed, Ignored, Does
<1>14. CASE Clear
  BY <1>14 DEF Clear, RunTypes, Fields, fixed, Ignored, Does
<1>15. CASE Bootstrap
  BY <1>15 DEF Bootstrap, RunTypes, Fields, fixed
<1>16. CASE Poll
  BY <1>16 DEF Poll, RunTypes, Fields, fixed, Goes, Exit, Stays, Does
<1>17. CASE Fail
  BY <1>17 DEF Fail, RunTypes, Fields, fixed, Goes, Exit, Stays, Does
<1>18. CASE NextClient
  BY <1>18 DEF NextClient, RunTypes, Fields, fixed, Goes, Does, Positive
<1>19. CASE Edit
  BY <1>19 DEF Edit, RunTypes, Fields, fixed, Goes, Writes, Stays, Does
<1>20. CASE Wrote
  BY <1>20 DEF Wrote, RunTypes, Fields, fixed, Goes, Does, Positive
<1>21. CASE Written
  BY <1>21 DEF Written, RunTypes, Fields, fixed, Goes, Exit, Stays, Does
<1>22. CASE Permit
  BY <1>22 DEF Permit, RunTypes, Fields, fixed
<1>23. CASE Report
  BY <1>23 DEF Report, RunTypes, Fields, fixed, Goes, Exit, Does
<1>24. CASE Stop
  BY <1>24 DEF Stop, RunTypes, Fields, fixed, Ignored, Does
<1>25. CASE Unload
  BY <1>25 DEF Unload, RunTypes, Fields, fixed, Ignored, Does
<1>26. CASE Remove
  BY <1>26 DEF Remove, RunTypes, Fields, fixed, Ignored, Does
<1>27. CASE Open
  BY <1>27 DEF Open, RunTypes, Fields, fixed
<1>28. CASE Fill
  BY <1>28 DEF Fill, RunTypes, Fields, fixed
<1>29. CASE FillFails
  BY <1>29 DEF FillFails, RunTypes, Fields, fixed
<1>30. CASE Return
  BY <1>30, NoRunTyped DEF Return, RunTypes, fixed
<1>31. CASE Launch
  BY <1>31 DEF Launch, RunTypes, fixed
<1>32. CASE Dies
  BY <1>32 DEF Dies, RunTypes, fixed, Fault
<1>33. CASE LogIn
  BY <1>33 DEF LogIn, RunTypes, fixed, Fault
<1>34. CASE Killed
  BY <1>34, NoRunTyped DEF Killed, RunTypes, fixed
<1>35. CASE Begin
  BY <1>35, NoRunTyped DEF Begin, RunTypes, Fields
<1>36. CASE UNCHANGED vars
  BY <1>36 DEF vars, RunTypes
<1> QED BY
     <1>1, <1>2, <1>3, <1>4, <1>5, <1>6, <1>7, <1>8, <1>9, <1>10, <1>11,
     <1>12, <1>13, <1>14, <1>15, <1>16, <1>17, <1>18, <1>19, <1>20, <1>21,
     <1>22, <1>23, <1>24, <1>25, <1>26, <1>27, <1>28, <1>29, <1>30, <1>31,
     <1>32, <1>33, <1>34, <1>35, <1>36
     DEF Next, SetupSteps

\* What is written to a client's file holds what was read from it.
LEMMA EditKeeps ==
  ASSUME NEW text, NEW c, Holds(text), Editable(text, c)
  PROVE  Holds(Edited(text, c))
<1>1. CASE text = Cut
  BY <1>1 DEF Editable, Edited, Cut, Holds
<1>2. CASE text # Cut
  <2>1. text.form = "text" /\ text.others
    BY <1>2 DEF Holds
  <2>2. Edited(text, c) = ClientFile(TRUE, Ours(c))
    BY <1>2, <2>1 DEF Edited
  <2> QED BY <2>2 DEF Holds, ClientFile
<1> QED BY <1>1, <1>2

LEMMA ClientInOrder ==
  ASSUME RunTypes, run.next <= Len(Order)
  PROVE  Client \in Clients
BY SetupAssumption DEF RunTypes, Positive, Client, Clients

LEMMA NotOfTheirs == "config" \notin Clients /\ "token" \notin Clients
                     /\ "plist" \notin Clients
BY SetupAssumption

LEMMA GuardedKept == Guarded /\ RunTypes /\ [Next]_vars => Guarded'
<1> SUFFICES ASSUME Guarded, RunTypes, [Next]_vars PROVE Guarded'
  OBVIOUS
<1> USE NotOfTheirs DEF Plainer
<1>a. "config" \notin Mine /\ "token" \notin Mine /\ "plist" \notin Mine
  BY DEF Guarded, Mine
<1>1. CASE Status
  BY <1>1, QuietKeeps DEF Status, Goes, Exit
<1>2. CASE Pick
  BY <1>2, QuietKeeps DEF Pick, Goes
<1>3. CASE InstalledFirst
  BY <1>3, QuietKeeps DEF InstalledFirst, Goes, Exit
<1>4. CASE Load
  BY <1>4, QuietKeeps DEF Load, Goes, Exit
<1>5. CASE NoSecret
  BY <1>5, QuietKeeps DEF NoSecret, Goes
<1>6. CASE Saved
  BY <1>6, QuietKeeps DEF Saved, Goes, Exit
<1>7. CASE Keep
  BY <1>7, QuietKeeps DEF Keep, Goes
<1>8. CASE Bootout
  BY <1>8, QuietKeeps DEF Bootout
<1>9. CASE Clear
  BY <1>9, QuietKeeps DEF Clear
<1>10. CASE Bootstrap
  BY <1>10, QuietKeeps DEF Bootstrap
<1>11. CASE Poll
  BY <1>11, QuietKeeps DEF Poll, Goes, Exit
<1>12. CASE Fail
  BY <1>12, QuietKeeps DEF Fail, Goes, Exit
<1>13. CASE Wrote
  BY <1>13, QuietKeeps DEF Wrote, Goes
<1>14. CASE Written
  BY <1>14, QuietKeeps DEF Written, Goes, Exit
<1>15. CASE Permit
  BY <1>15, QuietKeeps DEF Permit
<1>16. CASE Report
  BY <1>16, QuietKeeps DEF Report, Goes, Exit
<1>17. CASE Stop
  BY <1>17, QuietKeeps DEF Stop
<1>18. CASE Unload
  BY <1>18, QuietKeeps DEF Unload
<1>19. CASE Return
  BY <1>19, QuietKeeps DEF Return, Goes
<1>20. CASE Provides
  BY <1>20, <1>a, WritesKeep, QuietKeeps DEF Provides, Asking
<1>21. CASE Secret
  BY <1>21, GeneratesKeeps, QuietKeeps DEF Secret, Goes
<1>22. CASE Save
  BY <1>22, <1>a, WritesKeep, QuietKeeps DEF Save
<1>23. CASE Store
  BY <1>23, <1>a, GeneratesKeeps, WritesKeep, QuietKeeps DEF Store, Goes
<1>24. CASE WritePlist
  BY <1>24, <1>a, WritesKeep, QuietKeeps DEF WritePlist
<1>25. CASE NextClient
  <2>1. CASE Goes("client")
    BY <1>25, <2>1, QuietKeeps DEF NextClient, Goes
  <2>2. CASE Goes("edit") /\ Does([run EXCEPT !.text = disk[Client]])
    <3>1. run'.next = run.next /\ run'.text = disk[Client]
      BY <2>2 DEF Does, RunTypes, Fields
    <3>2. Client' = Client /\ UNCHANGED files /\ pc' = "edit"
      BY <2>2, <3>1 DEF Client, Goes
    <3> QED BY <1>25, <3>1, <3>2 DEF NextClient, Guarded, files, Mine, Writing,
                                      Holds
  <2> QED BY <1>25, <2>1, <2>2 DEF NextClient
<1>26. CASE Edit
  <2>1. run.text = disk[Client] /\ (Client \in Mine => Holds(disk[Client]))
    BY <1>26 DEF Edit, Guarded
  <2>2. CASE \/ Goes("missed") /\ Stays
             \/ Goes("wrote")
    BY <1>26, <2>2, QuietKeeps DEF Edit, Goes
  <2>3. CASE /\ Editable(run.text, Client)
             /\ Writes(Client, Edited(run.text, Client), "wrote", "missed")
    <3>1. Client \in Mine => Holds(Edited(run.text, Client))
      BY <2>1, <2>3, EditKeeps
    <3> QED BY <1>26, <2>3, <3>1, WritesKeep DEF Edit
  <2> QED BY <1>26, <2>2, <2>3 DEF Edit
<1>27. CASE Remove
  <2>1. CASE disk' = [disk EXCEPT !["plist"] = Absent]
    BY <1>27, <1>a, <2>1 DEF Remove, Guarded, Mine, Writing, Holds
  <2>2. CASE UNCHANGED disk
    BY <1>27, <2>2, QuietKeeps DEF Remove, files
  <2> QED BY <1>27, <2>1, <2>2 DEF Remove
<1>28. CASE Open
  <2>1. CASE pc' = "fill" /\ disk' = [disk EXCEPT ![run.out.path] = Emptied]
    BY <1>28, <2>1 DEF Open, Guarded, Mine, Writing, Holds, Paths
  <2>2. CASE pc' = run.out.bad /\ UNCHANGED disk
    BY <1>28, <2>2, QuietKeeps DEF Open, Guarded, Writing, files
  <2> QED BY <1>28, <2>1, <2>2 DEF Open
<1>29. CASE Fill
  <2>1. pc' \notin Plainer /\ pc = "fill"
    BY <1>29 DEF Fill, Guarded, Writing
  <2>2. /\ disk' = [disk EXCEPT ![run.out.path] = run.out.text]
        /\ UNCHANGED <<run, had, harmed>>
    BY <1>29 DEF Fill
  <2>3. \A c \in Mine : Holds(disk'[c])
    BY <2>1, <2>2 DEF Guarded, Mine, Writing, Paths
  <2> QED BY <2>1, <2>2, <2>3 DEF Guarded, Mine, Writing, Holds
<1>30. CASE FillFails
  BY <1>30, <1>a DEF FillFails, Guarded, Mine, Writing
<1>31. CASE Killed
  BY <1>31, <1>a DEF Killed, Guarded, Mine, Writing
<1>32. CASE Begin
  BY <1>32, QuietKeeps, SetupAssumption DEF Begin, FirstStep, RunTypes
<1>33. CASE Launch
  BY <1>33, OthersKeep DEF Launch
<1>34. CASE Dies
  BY <1>34, OthersKeep DEF Dies
<1>35. CASE LogIn
  BY <1>35, OthersKeep DEF LogIn
<1>36. CASE UNCHANGED vars
  BY <1>36, OthersKeep DEF vars, files
<1> QED BY
     <1>1, <1>2, <1>3, <1>4, <1>5, <1>6, <1>7, <1>8, <1>9, <1>10, <1>11,
     <1>12, <1>13, <1>14, <1>15, <1>16, <1>17, <1>18, <1>19, <1>20, <1>21,
     <1>22, <1>23, <1>24, <1>25, <1>26, <1>27, <1>28, <1>29, <1>30, <1>31,
     <1>32, <1>33, <1>34, <1>35, <1>36
     DEF Next, SetupSteps

(***************************************************************************)
(* The servers a user has entered into a client's file stay in it unless a *)
(* write to that very file was cut short: whatever setup is asked for, in  *)
(* whatever order, and wherever it is killed (configure_client).           *)
(***************************************************************************)
THEOREM UsersServersSurvive == Spec => []OthersServersSurvive
<1>1. Init => Guarded /\ RunTypes
  BY NoRunTyped, SetupAssumption
     DEF Init, Guarded, RunTypes, Writing, Plainer, Mine, Clients, Paths
<1>2. Guarded /\ RunTypes /\ [Next]_vars => (Guarded /\ RunTypes)'
  BY GuardedKept, RunTypesKept
<1>3. Guarded => OthersServersSurvive
  BY DEF Guarded, OthersServersSurvive, Mine
<1> QED BY <1>1, <1>2, <1>3, PTL DEF Spec

-----------------------------------------------------------------------------
(***************************************************************************)
(* --stop.  Once the job is gone nothing starts a server of it, and the    *)
(* run that is to end with 0 passes through Unload and Remove.  Until then *)
(* only launchd can put a server where one was stopped.                    *)
(***************************************************************************)
OnTheWay == {"stop", "unload", "remove", "done", "fail", "open", "fill"}
Found == run.port # 0 /\ "listener" \notin run.ignored
OnlyOwn == Found => \A p \in servers : p.port = run.port => p.own
Unloaded ==
  "bootout" \notin run.ignored =>
    /\ job = NoJob /\ \A p \in servers : ~p.own
    /\ Found => \A p \in servers : p.port # run.port
Removed == Unloaded /\ ("remove" \notin run.ignored => Blank(disk["plist"]))
Stopping ==
  run.ask.mode = "stop" =>
    /\ pc \in OnTheWay /\ run.back = ""
    /\ pc = "stop" \/ Writing => run.port = 0
    /\ pc = "unload" => OnlyOwn
    /\ pc = "remove" => Unloaded
    /\ pc = "done" => run.code = 1 \/ Removed
    /\ Writing => run.out.good = "stop" /\ run.out.bad = "stop"

\* A step of a run for something else.
LEMMA ElseKeeps ==
  ASSUME Stopping, pc \notin OnTheWay, run'.ask = run.ask
  PROVE  Stopping'
BY DEF Stopping

LEMMA StoppingKept ==
  Stopping /\ Guarded /\ RunTypes /\ [Next]_vars => Stopping'
<1> SUFFICES ASSUME Stopping, Guarded, RunTypes, [Next]_vars PROVE Stopping'
  OBVIOUS
<1> USE DEF OnTheWay
<1>1. CASE Status
  BY <1>1, ElseKeeps DEF Status, RunTypes, Fields, Does, Exit
<1>2. CASE Pick
  BY <1>2, ElseKeeps DEF Pick, RunTypes, Fields, Does, Stays
<1>3. CASE InstalledFirst
  BY <1>3, ElseKeeps DEF InstalledFirst, RunTypes, Fields, Does, Stays, Exit
<1>4. CASE Load
  BY <1>4, ElseKeeps DEF Load, RunTypes, Fields, Does, Exit
<1>5. CASE NoSecret
  BY <1>5, ElseKeeps DEF NoSecret, RunTypes, Fields, Does
<1>6. CASE Saved
  BY <1>6, ElseKeeps DEF Saved, RunTypes, Fields, Does, Exit, Stays
<1>7. CASE Keep
  BY <1>7, ElseKeeps DEF Keep, RunTypes, Fields, Does
<1>8. CASE Poll
  BY <1>8, ElseKeeps DEF Poll, RunTypes, Fields, Does, Exit, Stays
<1>9. CASE Wrote
  BY <1>9, ElseKeeps DEF Wrote, RunTypes, Fields, Does
<1>10. CASE Written
  BY <1>10, ElseKeeps DEF Written, RunTypes, Fields, Does, Exit, Stays
<1>11. CASE Report
  BY <1>11, ElseKeeps DEF Report, RunTypes, Fields, Does, Exit
<1>12. CASE Secret
  BY <1>12, ElseKeeps DEF Secret, RunTypes, Fields, Does, Generates, Stays
<1>13. CASE Save
  BY <1>13, ElseKeeps DEF Save, RunTypes, Fields, Does, Writes
<1>14. CASE Store
  BY <1>14, ElseKeeps DEF Store, RunTypes, Fields, Does, Generates, Writes, Stays
<1>15. CASE WritePlist
  BY <1>15, ElseKeeps DEF WritePlist, RunTypes, Fields, Does, Writes
<1>16. CASE NextClient
  BY <1>16, ElseKeeps DEF NextClient, RunTypes, Fields, Does
<1>17. CASE Edit
  BY <1>17, ElseKeeps DEF Edit, RunTypes, Fields, Does, Writes, Stays
<1>18. CASE Permit
  BY <1>18, ElseKeeps DEF Permit, RunTypes, Fields
<1>19. CASE Bootout
  BY <1>19, ElseKeeps DEF Bootout, RunTypes, Fields, Ignored, Does
<1>20. CASE Clear
  BY <1>20, ElseKeeps DEF Clear, RunTypes, Fields, Ignored, Does
<1>21. CASE Bootstrap
  BY <1>21, ElseKeeps DEF Bootstrap, RunTypes, Fields
<1>22. CASE Provides
  <2>1. CASE pc = "stop"
    <3> PICK t \in Unused : Writes("token", Token(t), "stop", "stop")
      BY <1>22, <2>1 DEF Provides
    <3>1. run'.ask = run.ask /\ run'.back = run.back /\ run'.port = run.port
          /\ run'.out.good = "stop" /\ run'.out.bad = "stop"
      BY DEF Writes, Does, RunTypes, Fields
    <3>2. pc' = "open"
      BY DEF Writes, Goes
    <3> QED BY <2>1, <3>1, <3>2 DEF Stopping, Writing
  <2>2. CASE pc # "stop"
    BY <1>22, <2>2, ElseKeeps
       DEF Provides, Asking, Writes, Does, RunTypes, Fields
  <2> QED BY <2>1, <2>2
<1>23. CASE Fail
  BY <1>23 DEF Fail, Exit, Goes, Stays, Does, Stopping, Writing, RunTypes,
     Fields
<1>24. CASE Stop
  <2>1. run'.ask = run.ask /\ run'.back = run.back
    BY <1>24 DEF Stop, Ignored, Does, RunTypes, Fields
  <2>2. CASE "listener" \in run'.ignored
    BY <1>24, <2>1, <2>2 DEF Stop, Stopping, Writing, OnlyOwn, Found
  <2>3. CASE "listener" \notin run'.ignored
    <3>1. ~Ignored("listener")
      BY <2>3 DEF Ignored, Does, RunTypes, Fields
    <3>2. pc = "stop" /\ pc' \in {"unload", "fail"} /\ UNCHANGED files
      BY <1>24 DEF Stop
    <3>3. CASE UNCHANGED <<servers, run>>
      BY <2>1, <3>2, <3>3 DEF Stopping, Writing, OnlyOwn, Found
    <3>4. ASSUME NEW port, servers' = {p \in servers : p.port # port},
                 Does([run EXCEPT !.port = port])
          PROVE  Stopping'
      <4>1. run'.port = port
        BY <3>4 DEF Does, RunTypes, Fields
      <4> QED BY <2>1, <3>2, <3>4, <4>1 DEF Stopping, Writing, OnlyOwn, Found
    <3> QED BY <1>24, <3>1, <3>3, <3>4 DEF Stop
  <2> QED BY <2>2, <2>3
<1>25. CASE Unload
  <2>1. /\ run'.ask = run.ask /\ run'.back = run.back /\ run'.port = run.port
        /\ "listener" \in run.ignored => "listener" \in run'.ignored
    BY <1>25 DEF Unload, Ignored, Does, RunTypes, Fields
  <2>2. ASSUME Stopping, run.ask.mode = "stop" PROVE Unloaded'
    <3>1. CASE Ignored("bootout")
      BY <3>1 DEF Ignored, Does, RunTypes, Fields, Unloaded
    <3>2. CASE job' = NoJob /\ servers' = {p \in servers : ~p.own} /\ UNCHANGED run
      BY <1>25, <2>2, <3>2 DEF Unload, Stopping, Unloaded, OnlyOwn, Found
    <3> QED BY <1>25, <3>1, <3>2 DEF Unload
  <2> QED BY <1>25, <2>1, <2>2 DEF Unload, Stopping, Writing
<1>26. CASE Remove
  <2>1. "remove" \notin run'.ignored => Blank(disk'["plist"])
    BY <1>26 DEF Remove, Guarded, Paths, Blank, Absent, Ignored, Does,
       RunTypes, Fields
  <2>2. /\ run'.ask = run.ask /\ run'.back = run.back /\ run'.port = run.port
        /\ run'.ignored \in {run.ignored, run.ignored \cup {"remove"}}
    BY <1>26 DEF Remove, Ignored, Does, RunTypes, Fields
  <2>3. Unloaded => Unloaded'
    BY <1>26, <2>2 DEF Remove, Unloaded, Found, system
  <2> QED BY <1>26, <2>1, <2>2, <2>3 DEF Remove, Stopping, Writing, Removed
<1>27. CASE Open
  BY <1>27 DEF Open, Stopping, Writing
<1>28. CASE Fill
  BY <1>28 DEF Fill, Stopping, Writing
<1>29. CASE FillFails
  BY <1>29 DEF FillFails, Stopping, Writing, RunTypes, Fields
<1>30. CASE Return
  BY <1>30, NoRunTyped DEF Return, Stopping
<1>31. CASE Killed
  BY <1>31, NoRunTyped DEF Killed, Stopping
<1>32. CASE LogIn
  BY <1>32 DEF LogIn, Stopping
<1>33. CASE Launch
  <2>1. UNCHANGED <<files, run, pc, job>> /\ job # NoJob
    BY <1>33 DEF Launch
  <2>2. \A p \in servers' \ servers : p.own
    BY <1>33 DEF Launch
  <2>3. OnlyOwn => OnlyOwn'
    BY <2>1, <2>2 DEF OnlyOwn, Found
  <2>4. Unloaded => Unloaded'
    BY <2>1 DEF Unloaded
  <2> QED BY <2>1, <2>3, <2>4 DEF Stopping, Writing, Removed, Blank, files
<1>34. CASE Dies
  BY <1>34 DEF Dies, Stopping, Writing, Removed, Unloaded, OnlyOwn, Found, files
<1>35. CASE Begin
  BY <1>35, NoRunTyped, SetupAssumption
     DEF Begin, FirstStep, Stopping, Writing, Fields, RunTypes
<1>36. CASE UNCHANGED vars
  BY <1>36 DEF vars, Stopping, Writing, Removed, Unloaded, OnlyOwn, Found, Blank
<1> QED BY
     <1>1, <1>2, <1>3, <1>4, <1>5, <1>6, <1>7, <1>8, <1>9, <1>10, <1>11,
     <1>12, <1>13, <1>14, <1>15, <1>16, <1>17, <1>18, <1>19, <1>20, <1>21,
     <1>22, <1>23, <1>24, <1>25, <1>26, <1>27, <1>28, <1>29, <1>30, <1>31,
     <1>32, <1>33, <1>34, <1>35, <1>36
     DEF Next, SetupSteps

(***************************************************************************)
(* What was stopped stays stopped: when --stop ends with 0 there is no     *)
(* job, no server of the job's or where one answered and no plist that     *)
(* would bring it back at the next login, although launchd restarts what   *)
(* is killed at any moment, but for those of lsof, launchctl bootout and   *)
(* remove that have failed, which --stop does not notice                   *)
(* (stop_agent_listener, uninstall_agent).                                 *)
(***************************************************************************)
THEOREM StoppedStaysStopped == Spec => []StopIsStop
<1>1. Init => Guarded /\ RunTypes /\ Stopping
  BY NoRunTyped, SetupAssumption
     DEF Init, Guarded, RunTypes, Writing, Plainer, Mine, Clients, Paths,
         Stopping
<1>2. Guarded /\ RunTypes /\ Stopping /\ [Next]_vars
      => (Guarded /\ RunTypes /\ Stopping)'
  BY GuardedKept, RunTypesKept, StoppingKept
<1>3. Stopping => StopIsStop
  <2> SUFFICES ASSUME Stopping, pc = "done", run.code = 0,
                      run.ask.mode = "stop"
               PROVE  Removed
    BY DEF StopIsStop, Finished, Listening, Found, Removed, Unloaded, Blank
  <2>1. run.code = 1 \/ Removed
    BY DEF Stopping
  <2> QED BY <2>1
<1> QED BY <1>1, <1>2, <1>3, PTL DEF Spec

-----------------------------------------------------------------------------
(***************************************************************************)
(* Type correctness: each file holds what belongs into it, because what is *)
(* put into it does; there is one server to a port; and the client in turn *)
(* is one of the list as long as its file is being worked at.              *)
(***************************************************************************)
ClientPoints == {"edit", "wrote", "missed"}
WriteForClient == Writing /\ {run.out.good, run.out.bad} \cap ClientPoints # {}

Filed ==
  /\ DOMAIN disk = Paths
  /\ \A path \in Paths : WellFormed(path, disk[path])
  /\ Writing => WellFormed(run.out.path, run.out.text)
Turned ==
  /\ run.next <= Len(Order) + 1
  /\ pc \in ClientPoints \/ WriteForClient => run.next <= Len(Order)
Bounded == runs \in 0 .. MaxRuns /\ faults \in 0 .. MaxFaults

TypeInv == Filed /\ Turned /\ IsJob(job) /\ OneByPort(servers) /\ Bounded

\* Nothing that makes a file empty, unreadable or absent is out of place.
LEMMA RemainsFit ==
  ASSUME NEW path, NEW left \in {Absent, Emptied, Cut}
  PROVE  WellFormed(path, left)
BY DEF WellFormed, Absent, Emptied, Cut

LEMMA ServiceFilesFit ==
  ASSUME NEW port, NEW token, NEW binary
  PROVE  /\ WellFormed("config", Config(port, token))
         /\ WellFormed("token", Token(token))
         /\ WellFormed("plist", Plist(token, binary))
BY NotOfTheirs DEF WellFormed, Config, Token, Plist

LEMMA EditedFits ==
  ASSUME NEW text, NEW c \in Clients
  PROVE  WellFormed(c, Edited(text, c))
<1>1. ASSUME NEW others, NEW entry, c \in Http \ Toml \/ entry.token = NoToken
      PROVE  WellFormed(c, ClientFile(others, entry))
  BY <1>1, NotOfTheirs DEF WellFormed, ClientFile
<1>2. c \in Http \ Toml \/ Ours(c).token = NoToken
  BY DEF Ours, Entry
<1> HIDE DEF Ours
<1> QED BY <1>1, <1>2, RemainsFit DEF Edited

\* A step that leaves the files alone and goes where no file is worked at.
LEMMA QuietTypes ==
  ASSUME TypeInv, disk' = disk, run'.next = run.next, pc' \notin ClientPoints,
         pc' \notin {"open", "fill"},
         IsJob(job'), OneByPort(servers'), Bounded'
  PROVE  TypeInv'
BY DEF TypeInv, Filed, Turned, WriteForClient, Writing

LEMMA SetupTypes ==
  ASSUME TypeInv, RunTypes, run'.next = run.next, NEW to, Goes(to),
         to \notin ClientPoints, to \notin {"open", "fill"}
  PROVE  TypeInv'
BY QuietTypes DEF Goes, files, system, fixed, TypeInv, Bounded

LEMMA WritesTypes ==
  ASSUME TypeInv, RunTypes, NEW p, NEW t, NEW g, NEW b, Writes(p, t, g, b),
         WellFormed(p, t), {g, b} \cap ClientPoints # {} => run.next <= Len(Order)
  PROVE  TypeInv'
<1>1. /\ run'.out.path = p /\ run'.out.text = t /\ run'.out.good = g
      /\ run'.out.bad = b /\ run'.next = run.next
  BY DEF Writes, Does, RunTypes, Fields
<1>2. UNCHANGED <<files, system, runs, faults>> /\ pc' = "open"
  BY DEF Writes, Goes, fixed
<1> QED BY <1>1, <1>2
        DEF TypeInv, Filed, Turned, Bounded, WriteForClient, Writing, ClientPoints, files,
            system

LEMMA GeneratesTypes ==
  ASSUME TypeInv, RunTypes, NEW g, NEW b, Generates(g, b), {g, b} \cap ClientPoints = {}
  PROVE  TypeInv'
<1>1. PICK t : Goes("open") /\ Does([run EXCEPT !.token = t,
                        !.out = [path |-> "token", text |-> Token(t),
                                 good |-> g, bad |-> b]])
  BY DEF Generates
<1>2. /\ run'.out.path = "token" /\ run'.out.text = Token(t) /\ run'.out.good = g
      /\ run'.out.bad = b /\ run'.next = run.next
  BY <1>1 DEF Does, RunTypes, Fields
<1>3. UNCHANGED <<files, system, runs, faults>> /\ pc' = "open"
  BY <1>1 DEF Goes, fixed
<1>4. WellFormed("token", Token(t))
  BY ServiceFilesFit
<1> QED BY <1>2, <1>3, <1>4
        DEF TypeInv, Filed, Turned, Bounded, WriteForClient, Writing, ClientPoints, files,
            system

\* The steps that go from point to point, most with something noted.
LEMMA GoingTypes ==
  ASSUME TypeInv, RunTypes,
         Status \/ Pick \/ InstalledFirst \/ Load \/ NoSecret \/ Saved \/ Keep \/ Poll
           \/ Fail \/ Written \/ Report
  PROVE  TypeInv'
<1> USE DEF ClientPoints
<1>1. CASE Status
  BY <1>1, SetupTypes DEF Status, Exit, Does, RunTypes, Fields
<1>2. CASE Pick
  BY <1>2, SetupTypes DEF Pick, Does, Stays, RunTypes, Fields
<1>3. CASE InstalledFirst
  BY <1>3, SetupTypes DEF InstalledFirst, Exit, Does, Stays, RunTypes, Fields
<1>4. CASE Load
  BY <1>4, SetupTypes DEF Load, Exit, Does, RunTypes, Fields
<1>5. CASE NoSecret
  BY <1>5, SetupTypes DEF NoSecret, Does, RunTypes, Fields
<1>6. CASE Saved
  BY <1>6, SetupTypes DEF Saved, Exit, Does, Stays, RunTypes, Fields
<1>7. CASE Keep
  BY <1>7, SetupTypes DEF Keep, Does, RunTypes, Fields
<1>8. CASE Poll
  BY <1>8, SetupTypes DEF Poll, Exit, Does, Stays, RunTypes, Fields
<1>9. CASE Fail
  BY <1>9, SetupTypes DEF Fail, Exit, Does, Stays, RunTypes, Fields
<1>10. CASE Written
  BY <1>10, SetupTypes DEF Written, Exit, Does, Stays, RunTypes, Fields
<1>11. CASE Report
  BY <1>11, SetupTypes DEF Report, Exit, Does, RunTypes, Fields
<1> QED BY <1>1, <1>2, <1>3, <1>4, <1>5, <1>6, <1>7, <1>8, <1>9, <1>10, <1>11

LEMMA WritingTypes ==
  ASSUME TypeInv, RunTypes,
         Provides \/ Secret \/ Save \/ Store \/ WritePlist
  PROVE  TypeInv'
<1> USE DEF ClientPoints
<1>1. CASE Provides
  BY <1>1, WritesTypes, ServiceFilesFit DEF Provides, Asking
<1>2. CASE Secret
  BY <1>2, SetupTypes, GeneratesTypes DEF Secret, Does, Stays, RunTypes, Fields
<1>3. CASE Save
  BY <1>3, WritesTypes, ServiceFilesFit DEF Save
<1>4. CASE Store
  BY <1>4, SetupTypes, GeneratesTypes, WritesTypes, ServiceFilesFit DEF Store, Stays
<1>5. CASE WritePlist
  BY <1>5, WritesTypes, ServiceFilesFit DEF WritePlist
<1> QED BY <1>1, <1>2, <1>3, <1>4, <1>5

LEMMA ClientTypes ==
  ASSUME TypeInv, RunTypes, Guarded, NextClient \/ Edit \/ Wrote
  PROVE  TypeInv'
<1>0. run.next \in Nat /\ Len(Order) \in Nat
  BY SetupAssumption DEF RunTypes, Positive
<1>1. CASE NextClient
  <2>1. /\ UNCHANGED <<files, system, runs, faults>> /\ run.next <= Len(Order)
        /\ pc' \in {"client", "edit"}
    BY <1>1 DEF NextClient, Goes, fixed
  <2>2. \/ pc' = "client" /\ run'.next = run.next + 1
        \/ run'.next = run.next
    <3>1. CASE Goes("client") /\ Does([run EXCEPT !.next = run.next + 1])
      BY <3>1 DEF Goes, Does, RunTypes, Fields
    <3>2. CASE Does([run EXCEPT !.text = disk[Client]])
      BY <3>2 DEF Does, RunTypes, Fields
    <3> QED BY <1>1, <3>1, <3>2 DEF NextClient
  <2> QED BY <1>0, <2>1, <2>2
          DEF TypeInv, Filed, Turned, Bounded, WriteForClient, Writing, ClientPoints,
              files, system
<1>2. CASE Edit
  <2>1. run.next <= Len(Order) /\ Client \in Clients
    BY <1>2, ClientInOrder DEF Edit, TypeInv, Turned, ClientPoints
  <2>2. CASE \/ Goes("missed") /\ Stays
             \/ Goes("wrote") /\ Does([run EXCEPT !.kept = @ \cup {Client}])
    <3>1. /\ UNCHANGED <<files, system, runs, faults>> /\ run'.next = run.next
          /\ pc' \in {"missed", "wrote"}
      BY <2>2 DEF Goes, fixed, Does, Stays, RunTypes, Fields
    <3> QED BY <2>1, <3>1
            DEF TypeInv, Filed, Turned, Bounded, WriteForClient, Writing, ClientPoints,
                files, system
  <2>3. CASE Writes(Client, Edited(run.text, Client), "wrote", "missed")
    BY <2>1, <2>3, WritesTypes, EditedFits
  <2> QED BY <1>2, <2>2, <2>3 DEF Edit
<1>3. CASE Wrote
  <2>1. /\ UNCHANGED <<files, system, runs, faults>> /\ run.next <= Len(Order)
        /\ pc' = "client" /\ run'.next = run.next + 1
    BY <1>3 DEF Wrote, Goes, fixed, Does, RunTypes, Fields, TypeInv, Turned, ClientPoints
  <2> QED BY <1>0, <2>1
          DEF TypeInv, Filed, Turned, Bounded, WriteForClient, Writing, ClientPoints,
              files, system
<1> QED BY <1>1, <1>2, <1>3

\* A fault is counted, also one that nobody notices.
LEMMA FaultsCount ==
  ASSUME TypeInv, faults' = faults \/ Fault
  PROVE  faults' \in 0 .. MaxFaults
BY SetupAssumption DEF Fault, TypeInv, Bounded

LEMMA FileTypes ==
  ASSUME TypeInv, RunTypes, Guarded, Open \/ Fill \/ FillFails \/ Remove
  PROVE  TypeInv'
<1>0. ASSUME NEW path, NEW text, WellFormed(path, text),
             disk' = [disk EXCEPT ![path] = text]
      PROVE  /\ DOMAIN disk' = Paths
             /\ \A other \in Paths : WellFormed(other, disk'[other])
  BY <1>0 DEF TypeInv, Filed
<1>1. ASSUME DOMAIN disk' = Paths, \A other \in Paths : WellFormed(other, disk'[other]),
             UNCHANGED <<system, runs>>, faults' \in 0 .. MaxFaults,
             run'.next = run.next, run'.out = run.out,
             Writing' => Writing, pc' \in ClientPoints => run.next <= Len(Order)
      PROVE  TypeInv'
  BY <1>1 DEF TypeInv, Filed, Turned, Bounded, WriteForClient, system
<1>2. CASE Open
  <2>1. /\ UNCHANGED <<run, system, runs, faults>> /\ Writing
        /\ \/ pc' = "fill" /\ disk' = [disk EXCEPT ![run.out.path] = Emptied]
           \/ pc' = run.out.bad /\ disk' = disk
    BY <1>2 DEF Open, fixed, Writing
  <2>2. DOMAIN disk' = Paths /\ \A other \in Paths : WellFormed(other, disk'[other])
    BY <1>0, <2>1, RemainsFit DEF TypeInv, Filed
  <2>3. pc' \in ClientPoints => run.next <= Len(Order)
    BY <2>1 DEF TypeInv, Turned, WriteForClient, ClientPoints
  <2> QED BY <1>1, <2>1, <2>2, <2>3 DEF TypeInv, Bounded
<1>3. CASE Fill
  <2>1. /\ UNCHANGED <<run, system, runs, faults>> /\ Writing /\ pc' = run.out.good
        /\ disk' = [disk EXCEPT ![run.out.path] = run.out.text]
    BY <1>3 DEF Fill, fixed, Writing
  <2>2. DOMAIN disk' = Paths /\ \A other \in Paths : WellFormed(other, disk'[other])
    BY <1>0, <2>1 DEF TypeInv, Filed
  <2>3. pc' \in ClientPoints => run.next <= Len(Order)
    BY <2>1 DEF TypeInv, Turned, WriteForClient, ClientPoints
  <2> QED BY <1>1, <2>1, <2>2, <2>3 DEF TypeInv, Bounded
<1>4. CASE FillFails
  <2>1. /\ UNCHANGED <<system, runs>> /\ Writing /\ pc' \in {run.out.good, run.out.bad}
        /\ run'.next = run.next /\ run'.out = run.out
        /\ faults < MaxFaults /\ faults' = faults + 1
    BY <1>4 DEF FillFails, fixed, Writing, RunTypes, Fields
  <2>2. PICK left \in {Emptied, Cut} : disk' = [disk EXCEPT ![run.out.path] = left]
    BY <1>4 DEF FillFails
  <2>3. DOMAIN disk' = Paths /\ \A other \in Paths : WellFormed(other, disk'[other])
    BY <1>0, <2>2, RemainsFit
  <2>4. pc' \in ClientPoints => run.next <= Len(Order)
    BY <2>1 DEF TypeInv, Turned, WriteForClient, ClientPoints
  <2>5. faults' \in 0 .. MaxFaults
    BY <2>1, SetupAssumption DEF TypeInv, Bounded
  <2> QED BY <1>1, <2>1, <2>3, <2>4, <2>5
<1>5. CASE Remove
  <2>1. /\ UNCHANGED <<system, runs>> /\ pc' = "done"
        /\ run'.next = run.next /\ run'.out = run.out
        /\ disk' = disk \/ disk' = [disk EXCEPT !["plist"] = Absent]
    BY <1>5 DEF Remove, fixed, Ignored, Does, RunTypes, Fields
  <2>2. DOMAIN disk' = Paths /\ \A other \in Paths : WellFormed(other, disk'[other])
    BY <1>0, <2>1, RemainsFit DEF TypeInv, Filed
  <2>3. faults' \in 0 .. MaxFaults
    BY <1>5, FaultsCount DEF Remove, Ignored
  <2> QED BY <1>1, <2>1, <2>2, <2>3 DEF Writing, ClientPoints
<1> QED BY <1>2, <1>3, <1>4, <1>5

LEMMA ServiceTypes ==
  ASSUME TypeInv, RunTypes,
         Bootout \/ Clear \/ Bootstrap \/ Permit \/ Stop \/ Unload
  PROVE  TypeInv'
<1>1. /\ UNCHANGED <<disk, runs>> /\ run'.next = run.next
      /\ pc' \in {"clear", "bootstrap", "poll", "fail", "store", "unload", "remove"}
  BY DEF Bootout, Clear, Bootstrap, Permit, Stop, Unload, files, fixed, RunTypes, Fields,
         Ignored, Does
<1>2. servers' \subseteq servers
  BY DEF Bootout, Clear, Bootstrap, Permit, Stop, Unload, system
<1>3. IsJob(job')
  <2>1. job' = job \/ job' = NoJob \/ (Reads("plist") /\ job' = disk["plist"])
    <3>1. CASE Bootstrap
      BY <3>1 DEF Bootstrap
    <3>2. CASE Bootout \/ Clear \/ Permit \/ Stop \/ Unload
      BY <3>2 DEF Bootout, Clear, Permit, Stop, Unload, system
    <3> QED BY <3>1, <3>2
  <2>2. Reads("plist") => IsJob(disk["plist"])
    BY DEF TypeInv, Filed, WellFormed, Reads, Paths, IsJob
  <2> QED BY <2>1, <2>2 DEF TypeInv, IsJob
<1>4. OneByPort(servers')
  BY <1>2 DEF TypeInv, OneByPort
<1>5. Bounded'
  <2>1. faults' = faults \/ Fault
    BY DEF Bootout, Clear, Bootstrap, Permit, Stop, Unload, Ignored
  <2> QED BY <1>1, <2>1, FaultsCount DEF TypeInv, Bounded
<1> QED BY <1>1, <1>3, <1>4, <1>5, QuietTypes DEF ClientPoints

\* launchd and the faults, which come between any two steps.
LEMMA AroundTypes ==
  ASSUME TypeInv, RunTypes, Launch \/ Dies \/ LogIn
  PROVE  TypeInv'
<1>1. UNCHANGED <<disk, run, pc, runs>>
  BY DEF Launch, Dies, LogIn, files, fixed
<1>2. faults' \in 0 .. MaxFaults
  BY FaultsCount DEF Launch, Dies, LogIn
<1>3. IsJob(job')
  <2>1. job' = job \/ job' = NoJob \/ (Reads("plist") /\ job' = disk["plist"])
    <3>1. CASE Launch \/ Dies
      BY <3>1 DEF Launch, Dies
    <3>2. CASE LogIn
      BY <3>2 DEF LogIn
    <3> QED BY <3>1, <3>2
  <2>2. Reads("plist") => IsJob(disk["plist"])
    BY DEF TypeInv, Filed, WellFormed, Reads, Paths, IsJob
  <2> QED BY <2>1, <2>2 DEF TypeInv, IsJob
<1>4. OneByPort(servers')
  <2>1. CASE servers' \subseteq servers
    BY <2>1 DEF TypeInv, OneByPort
  <2>2. CASE Launch
    <3> DEFINE s == [port |-> SavedPort, token |-> job.token, binary |-> job.binary,
                     own |-> TRUE, grants |-> granted]
    <3>1. servers' = servers \cup {s} /\ \A p \in servers : p.port # SavedPort
      BY <2>2 DEF Launch
    <3>2. s.port = SavedPort
      OBVIOUS
    <3> HIDE DEF s
    <3> QED BY <3>1, <3>2 DEF TypeInv, OneByPort
  <2> QED BY <2>1, <2>2 DEF Dies, LogIn
<1> QED BY <1>1, <1>2, <1>3, <1>4
        DEF TypeInv, Filed, Turned, Bounded, WriteForClient, Writing

\* A run begins, returns or is killed.
LEMMA RunsTypes ==
  ASSUME TypeInv, RunTypes, Begin \/ Return \/ Killed
  PROVE  TypeInv'
<1>1. UNCHANGED <<disk, job, servers>>
  BY DEF Begin, Return, Killed, files, system
<1>2. run'.next = 1 /\ 1 <= Len(Order) + 1
  <2>1. 1 <= Len(Order) + 1
    <3>1. Len(Order) \in Nat
      BY SetupAssumption
    <3> QED BY <3>1
  <2>2. CASE Begin
    <3>1. PICK ask : run' = [NoRun EXCEPT !.ask = ask, !.command = ask.command]
      BY <2>2 DEF Begin
    <3> QED BY <2>1, <3>1 DEF NoRun
  <2>3. CASE Return \/ Killed
    <3>1. run' = NoRun
      BY <2>3 DEF Return, Killed
    <3> QED BY <2>1, <3>1 DEF NoRun
  <2> QED BY <2>2, <2>3
<1>3. pc' \in {"idle", "pick", "installed", "stop", "status"}
  <2>1. CASE Begin
    <3>1. PICK ask \in Asks[shared] : pc' = FirstStep(ask.mode)
      BY <2>1 DEF Begin
    <3>2. shared \in BOOLEAN
      BY DEF RunTypes
    <3>3. ask.mode \in {"setup", "restart", "stop", "status"}
      BY <3>1, <3>2, SetupAssumption
    <3> QED BY <3>1, <3>3 DEF FirstStep
  <2> QED BY <2>1 DEF Return, Killed
<1>4. Bounded'
  <2>1. \/ runs' = runs /\ faults' = faults
        \/ runs < MaxRuns /\ runs' = runs + 1 /\ faults' = faults
        \/ runs' = runs /\ faults < MaxFaults /\ faults' = faults + 1
    <3>1. CASE Begin
      BY <3>1 DEF Begin
    <3>2. CASE Return \/ Killed
      BY <3>2 DEF Return, Killed, Fault, fixed
    <3> QED BY <3>1, <3>2
  <2>2. MaxRuns \in Nat /\ MaxFaults \in Nat
    BY SetupAssumption
  <2> QED BY <2>1, <2>2 DEF TypeInv, Bounded
<1> QED BY <1>1, <1>2, <1>3, <1>4
        DEF TypeInv, Filed, Turned, WriteForClient, Writing, ClientPoints

LEMMA TypesKept == TypeInv /\ RunTypes /\ Guarded /\ [Next]_vars => TypeInv'
<1> SUFFICES ASSUME TypeInv, RunTypes, Guarded, [Next]_vars PROVE TypeInv'
  OBVIOUS
<1>1. CASE UNCHANGED vars
  BY <1>1 DEF vars, TypeInv, Filed, Turned, Bounded, WriteForClient, Writing
<1> QED BY <1>1, GoingTypes, WritingTypes, ClientTypes, FileTypes, ServiceTypes,
           AroundTypes, RunsTypes DEF Next, SetupSteps

LEMMA InitTypes == Init => TypeInv /\ Guarded /\ RunTypes
<1> SUFFICES ASSUME Init PROVE TypeInv /\ Guarded /\ RunTypes
  OBVIOUS
<1>1. Guarded /\ RunTypes
  BY NoRunTyped, SetupAssumption
     DEF Init, Guarded, RunTypes, Writing, Plainer, Mine, Clients, Paths
<1>2. /\ \A path \in Paths : WellFormed(path, disk[path])
      /\ IsJob(job) /\ OneByPort(servers)
  BY MachinesAssumption DEF Init
<1>3. run.next = 1 /\ 1 <= Len(Order) + 1 /\ Bounded
  <2>1. run.next = 1
    BY DEF Init, NoRun
  <2>2. Len(Order) \in Nat /\ MaxRuns \in Nat /\ MaxFaults \in Nat
    BY SetupAssumption
  <2>3. Bounded
    BY <2>2 DEF Init, Bounded
  <2> QED BY <2>1, <2>2, <2>3
<1> QED BY <1>1, <1>2, <1>3
        DEF Init, TypeInv, Filed, Turned, WriteForClient, Writing, ClientPoints, Guarded

(***************************************************************************)
(* Type correctness: each file holds what belongs into it or what a write  *)
(* that was cut short has left, launchd has a job of our plist's shape, no *)
(* two servers listen on one port, and configure_clients never goes beyond *)
(* the last client, for any clients, machines and faults.                  *)
(***************************************************************************)
THEOREM SetupTypeCorrect == Spec => []TypeOK
<1>1. Init => TypeInv /\ Guarded /\ RunTypes
  BY InitTypes
<1>2. TypeInv /\ RunTypes => TypeOK
  <2> SUFFICES ASSUME TypeInv, RunTypes PROVE TypeOK
    OBVIOUS
  <2>1. run.next \in 1 .. Len(Order) + 1
    BY SetupAssumption DEF TypeInv, Turned, RunTypes, Positive
  <2> QED BY <2>1 DEF TypeInv, Filed, Bounded, TypeOK
<1>3. TypeInv /\ RunTypes /\ Guarded /\ [Next]_vars => (TypeInv /\ RunTypes /\ Guarded)'
  BY TypesKept, RunTypesKept, GuardedKept
<1> QED BY <1>1, <1>2, <1>3, PTL DEF Spec
-----------------------------------------------------------------------------
(***************************************************************************)
(* Setup again, without a port and a token.  P and T are the service that  *)
(* configuration and token file named when it began: everything that is    *)
(* read, held in hand and written is about that one, and what is stored as *)
(* the token of the service changes to T or was not T before.              *)
(***************************************************************************)
Settled == {"save", "saved", "keep", "store", "plist", "bootout", "clear",
            "bootstrap", "poll", "client", "edit", "wrote", "missed", "permit"}
Leads == Settled \cup {"fail", "status", "stop", "installed", "report"}

\* The run is still about what it was asked for.
LEMMA SameAsk ==
  ASSUME RunTypes, SetupSteps, ~Return
  PROVE  run'.ask = run.ask
BY DEF SetupSteps, RunTypes, Fields, Provides, Status, Pick, InstalledFirst, Load,
       Secret, NoSecret, Save, Saved, Keep, Store, WritePlist, Bootout, Clear,
       Bootstrap, Poll, Fail, NextClient, Edit, Wrote, Written, Permit, Report, Stop,
       Unload, Remove, Open, Fill, FillFails, Exit, Goes, Does, Stays, Writes, Generates,
       Ignored

\* A run that begins is one of those that can be asked for.
LEMMA Begun ==
  ASSUME RunTypes, Begin
  PROVE  /\ run'.ask.mode \in {"setup", "restart", "stop", "status"}
         /\ pc' = FirstStep(run'.ask.mode) /\ UNCHANGED <<shared, files>>
         /\ \/ /\ shared /\ run'.ask.port = 0 /\ run'.ask.token = NoToken
               /\ held' = Connected
            \/ held' = NoneHeld
<1>1. PICK ask \in Asks[shared] :
        /\ run' = [NoRun EXCEPT !.ask = ask, !.command = ask.command]
        /\ pc' = FirstStep(ask.mode)
        /\ held' = IF shared /\ ask.port = 0 /\ ask.token = NoToken
                   THEN Connected ELSE NoneHeld
  BY DEF Begin
<1>2. run'.ask = ask
  BY <1>1, NoRunTyped DEF Fields
<1>3. ask.mode \in {"setup", "restart", "stop", "status"}
  BY <1>1, SetupAssumption DEF RunTypes
<1>4. UNCHANGED <<shared, files>>
  BY DEF Begin
<1> QED BY <1>1, <1>2, <1>3, <1>4

\* A client's file that names the service, and with the token that is stored.
Serves(text, P, T) ==
  /\ text.form = "text" /\ text.entry.how \in {"http", "bridge"}
  /\ text.entry.port = P /\ text.entry.token \in {NoToken, T}
Leaves(text, P, T) ==
  Serves(text, P, T) /\ (text.entry.token = T \/ StoredToken = T)

OnDisk(P, T) ==
  /\ shared /\ held.clients \subseteq Clients /\ T # NoToken
  /\ Reads("config") => disk["config"].port = P
  /\ disk["config"].form = "absent" => P = DefaultPort
  /\ Legible(disk["config"]) => SavedToken = T
  /\ held.served /\ Reads("plist") => disk["plist"].token = T
  /\ \A c \in held.clients \ harmed :
       (pc = "fill" /\ run.out.path = c) \/ Leaves(disk[c], P, T)

OutOf(P, T) ==
  /\ run.out.good \in Leads /\ run.out.bad \in Leads
  /\ run.out.good \in Settled \/ run.out.bad \in Settled =>
       run.port = P /\ run.token = T
  /\ run.out.path = "token" => StoredToken # T
  /\ run.out.path = "config" => run.out.text = Config(P, T)
  /\ run.out.path = "plist" => run.out.text.token = T
  /\ run.out.path \in held.clients \ harmed => Leaves(run.out.text, P, T)
InHand(P, T) ==
  /\ pc # "idle" => run.ask.port = 0 /\ run.ask.token = NoToken
  /\ pc # "untold"
  /\ pc = "secret" => /\ run.port = P
                      /\ \/ run.token = T
                         \/ run.token = NoToken /\ StoredToken = T
  /\ pc \in Settled => run.port = P /\ run.token = T
  /\ Writing => OutOf(P, T)

Same(P, T) == OnDisk(P, T) /\ InHand(P, T)

\* While the files and what a run is compared with stay as they are.
LEMMA StillOnDisk ==
  ASSUME NEW P, NEW T, OnDisk(P, T), UNCHANGED <<files, shared, held>>,
         pc # "fill" \/ UNCHANGED <<pc, run>>
  PROVE  OnDisk(P, T)' /\ StoredToken' = StoredToken
BY DEF OnDisk, files, StoredToken, SavedToken, Reads, Serves, Leaves, Legible

\* A step that leaves the files alone and begins no write.
LEMMA QuietSame ==
  ASSUME NEW P, NEW T, Same(P, T), UNCHANGED <<files, shared, held>>, pc # "fill",
         pc' \notin {"open", "fill", "secret", "untold"},
         pc' # "idle" => pc # "idle" /\ run'.ask = run.ask,
         pc' \in Settled => /\ pc \in Settled
                            /\ run'.port = run.port /\ run'.token = run.token
  PROVE  Same(P, T)'
<1>1. OnDisk(P, T)'
  BY StillOnDisk DEF Same
<1>2. InHand(P, T)'
  BY DEF Same, InHand, Writing
<1> QED BY <1>1, <1>2 DEF Same

\* A step of somebody else's.
LEMMA OthersSame ==
  ASSUME NEW P, NEW T, Same(P, T), UNCHANGED <<files, shared, held>>, UNCHANGED <<pc, run>>
  PROVE  Same(P, T)'
<1>1. OnDisk(P, T)' /\ StoredToken' = StoredToken
  BY StillOnDisk DEF Same
<1>2. OutOf(P, T) => OutOf(P, T)'
  BY <1>1 DEF OutOf, Leaves, Serves, files
<1>3. InHand(P, T)'
  BY <1>1, <1>2 DEF Same, InHand, Writing
<1> QED BY <1>1, <1>3 DEF Same

\* The beginning of a write that is about the same service.
LEMMA WritesSame ==
  ASSUME NEW P, NEW T, Same(P, T), RunTypes, NEW p, NEW t, NEW g, NEW b, Writes(p, t, g, b),
         pc \notin {"idle", "fill"}, UNCHANGED <<shared, held>>,
         g \in Leads, b \in Leads,
         g \in Settled \/ b \in Settled => run.port = P /\ run.token = T,
         p = "token" => StoredToken # T, p = "config" => t = Config(P, T),
         p = "plist" => t.token = T,
         p \in held.clients \ harmed => Leaves(t, P, T)
  PROVE  Same(P, T)'
<1>1. /\ run'.out.path = p /\ run'.out.text = t /\ run'.out.good = g /\ run'.out.bad = b
      /\ run'.port = run.port /\ run'.token = run.token /\ run'.ask = run.ask
  BY DEF Writes, Does, RunTypes, Fields
<1>2. UNCHANGED files /\ pc' = "open"
  BY DEF Writes, Goes
<1>3. OnDisk(P, T)' /\ StoredToken' = StoredToken
  BY <1>2, StillOnDisk DEF Same
<1>4. OutOf(P, T)'
  BY <1>1, <1>2, <1>3 DEF OutOf, Leaves, Serves, files
<1>5. InHand(P, T)'
  BY <1>1, <1>2, <1>4 DEF Same, InHand, Settled
<1> QED BY <1>3, <1>5 DEF Same

\* What is written to a client's file names the service as it did before.
LEMMA EditLeaves ==
  ASSUME NEW P, NEW T, NEW c \in Clients, NEW text, shared, T # NoToken,
         run.port = P, run.token = T, WellFormed(c, text), Leaves(text, P, T)
  PROVE  Leaves(Edited(text, c), P, T)
<1>1. text # Cut /\ text.form = "text" /\ text.entry # NoEntry
  BY DEF Leaves, Serves, Cut, NoEntry
<1>2. Edited(text, c) = ClientFile(text.form = "text" /\ text.others, Ours(c))
  BY <1>1 DEF Edited
<1>3. c \notin Http \ Toml => StoredToken = T
  BY <1>1 DEF WellFormed, Leaves, Serves
<1>4. /\ Ours(c).how \in {"http", "bridge"} /\ Ours(c).port = P
      /\ Ours(c).token = T \/ (Ours(c).token = NoToken /\ StoredToken = T)
  BY <1>3 DEF Ours, Entry
<1> HIDE DEF Ours
<1> QED BY <1>2, <1>4 DEF Leaves, Serves, ClientFile

\* What is written becomes the content of the file, or what is left of it.
LEMMA DiskSame ==
  ASSUME NEW P, NEW T, Same(P, T), Guarded, Writing, UNCHANGED <<shared, held>>, NEW text,
         disk' = [disk EXCEPT ![run.out.path] = text],
         harmed' \in {harmed, harmed \cup {run.out.path}},
         run'.ask = run.ask, run'.port = run.port, run'.token = run.token,
         run'.out = run.out,
         text = run.out.text \/ text.form \notin {"text", "absent"},
         \/ pc' = "fill" /\ text.form # "text"
         \/ /\ pc' \in {run.out.good, run.out.bad}
            /\ text = run.out.text \/ run.out.path \in harmed'
  PROVE  Same(P, T)'
<1> DEFINE path == run.out.path
<1>1. /\ DOMAIN disk = Paths /\ "token" \in Paths /\ "config" \in Paths /\ "plist" \in Paths
      /\ Clients \subseteq Paths
  BY DEF Guarded, Paths
<1>2. OnDisk(P, T) /\ OutOf(P, T) /\ run.ask.port = 0 /\ run.ask.token = NoToken
  BY DEF Same, InHand, Writing
<1>3. /\ \A p \in Paths : p # path => disk'[p] = disk[p]
      /\ path \in Paths => disk'[path] = text
  BY <1>1
<1>4. StoredToken = T => StoredToken' = T
  BY <1>1, <1>2, <1>3 DEF OutOf, StoredToken, Reads
<1>5. /\ Reads("config")' => disk'["config"].port = P
      /\ disk'["config"].form = "absent" => P = DefaultPort
      /\ Legible(disk'["config"]) => SavedToken' = T
  <2>1. CASE path = "config"
    BY <1>1, <1>2, <1>3, <2>1 DEF OnDisk, OutOf, Reads, Config, Legible, SavedToken
  <2>2. CASE path # "config"
    <3>1. disk'["config"] = disk["config"]
      BY <1>1, <1>3, <2>2
    <3> QED BY <1>2, <1>4, <3>1 DEF OnDisk, Reads, Legible, SavedToken
  <2> QED BY <2>1, <2>2
<1>6. held.served /\ Reads("plist")' => disk'["plist"].token = T
  BY <1>1, <1>2, <1>3 DEF OnDisk, OutOf, Reads
<1>7. ASSUME NEW t, Leaves(t, P, T)
      PROVE  Serves(t, P, T) /\ (t.entry.token = T \/ StoredToken' = T)
  BY <1>4, <1>7 DEF Leaves
<1>8. ASSUME NEW c \in held'.clients \ harmed'
      PROVE  (pc' = "fill" /\ run'.out.path = c) \/ Leaves(disk[c], P, T)'
  <2>1. c \in held.clients /\ c \notin harmed /\ c \in Paths
    BY <1>1, <1>2, <1>8 DEF OnDisk
  <2>2. CASE c = path /\ pc' # "fill"
    <3>1. disk'[c] = run.out.text /\ Leaves(run.out.text, P, T)
      BY <1>2, <1>3, <1>8, <2>1, <2>2 DEF OutOf
    <3> QED BY <1>7, <3>1 DEF Leaves, Serves
  <2>3. CASE c # path
    <3>1. disk'[c] = disk[c]
      BY <1>3, <2>1, <2>3
    <3>2. Leaves(disk[c], P, T)
      BY <1>2, <2>1, <2>3 DEF OnDisk
    <3> QED BY <1>7, <3>1, <3>2 DEF Leaves, Serves
  <2> QED BY <2>2, <2>3
<1>9. OnDisk(P, T)'
  BY <1>2, <1>5, <1>6, <1>8 DEF OnDisk, Legible
<1>10. pc' \in Leads \cup {"fill"} /\ (pc' \in Settled => run.port = P /\ run.token = T)
  BY <1>2 DEF OutOf, Settled
<1>11. pc' = "fill" => OutOf(P, T)'
  <2> SUFFICES ASSUME pc' = "fill" PROVE OutOf(P, T)'
    OBVIOUS
  <2>1. path = "token" => StoredToken' # T
    <3>1. text.form # "text"
      <4>1. CASE pc' = "fill" /\ text.form # "text"
        BY <4>1
      <4>2. CASE pc' \in {run.out.good, run.out.bad}
        BY <1>2, <4>2 DEF OutOf, Leads, Settled
      <4> QED BY <4>1, <4>2
    <3> QED BY <1>1, <1>2, <1>3, <3>1 DEF StoredToken, Reads, OnDisk
  <2>2. path \in held'.clients \ harmed' =>
          Serves(run.out.text, P, T) /\ (run.out.text.entry.token = T \/ StoredToken' = T)
    BY <1>2, <1>7 DEF OutOf
  <2> QED BY <1>2, <2>1, <2>2 DEF OutOf, Leaves, Serves
<1>12. InHand(P, T)'
  BY <1>2, <1>10, <1>11 DEF InHand, Writing, Leads, Settled
<1> QED BY <1>9, <1>12 DEF Same

\* Every step of a run that has begun is about the service it began with.
LEMMA SameKept ==
  ASSUME NEW P, NEW T, Same(P, T), Guarded, Guarded', TypeInv, RunTypes, [Next]_vars, ~Begin
  PROVE  Same(P, T)'
<1>0. UNCHANGED <<shared, held>>
  BY DEF Next, SetupSteps, Begin, Launch, Dies, Killed, LogIn, fixed, Goes, Exit, vars,
         Provides, Status, Pick, InstalledFirst, Load, Secret, NoSecret, Save, Saved,
         Keep, Store, WritePlist, Bootout, Clear, Bootstrap, Poll, Fail, NextClient,
         Edit, Wrote, Written, Permit, Report, Stop, Unload, Remove, Open, Fill,
         FillFails, Return, Writes, Generates, Fault
<1> USE <1>0
<1>1. ASSUME SetupSteps, ~Return PROVE run'.ask = run.ask
  BY <1>1, SameAsk
<1>2. T # NoToken /\ shared /\ OnDisk(P, T)
  BY DEF Same, OnDisk
<1>3. pc \in Settled => run.port = P /\ run.token = T
  BY DEF Same, InHand
<1>4. (run.ask.port = 0 /\ run.ask.token = NoToken) \/ pc = "idle"
  BY DEF Same, InHand
<1>a. "config" \notin held.clients /\ "token" \notin held.clients /\ "plist" \notin held.clients
  BY <1>2, NotOfTheirs DEF OnDisk
<1>5. CASE Provides
  <2>1. StoredToken # T /\ pc \in Asking
    BY <1>2, <1>5 DEF Provides
  <2>2. pc \in Leads /\ pc \notin {"idle", "fill"}
    BY <2>1 DEF Asking, Leads, Settled
  <2> QED BY <1>3, <1>5, <1>a, <2>1, <2>2, WritesSame DEF Provides
<1>b. ~NoSecret
  BY DEF NoSecret, Same, InHand
<1>6. CASE \/ Status \/ Pick \/ InstalledFirst \/ Fail \/ Report
  <2>1. /\ UNCHANGED files /\ pc' \in {"load", "done", "report"} /\ pc \notin {"idle", "fill"}
    BY <1>6 DEF Status, Pick, InstalledFirst, Fail, Report, Exit, Goes
  <2> QED BY <1>1, <1>6, <2>1, QuietSame DEF SetupSteps, Return, Settled
<1>7. CASE Stop \/ Unload
  <2>1. UNCHANGED files /\ pc' \in {"unload", "remove", "fail"} /\ pc \notin {"idle", "fill"}
    BY <1>7 DEF Stop, Unload
  <2> QED BY <1>1, <1>7, <2>1, QuietSame DEF SetupSteps, Return, Settled, Stop, Unload
<1>8. CASE Load
  <2>1. CASE Exit(1)
    BY <1>1, <1>8, <2>1, QuietSame DEF SetupSteps, Return, Settled, Load, Exit, Goes
  <2>2. CASE ~Exit(1)
    <3> DEFINE saved == IF Reads("config") THEN disk["config"]
                        ELSE Config(DefaultPort, NoToken)
    <3>1. /\ pc = "load" /\ pc' = "secret" /\ UNCHANGED files /\ run'.ask = run.ask
          /\ run'.port = saved.port /\ run'.token = saved.token
          /\ Legible(disk["config"])
      <4>1. pc = "load" /\ run.ask.port = 0 /\ run.ask.token = NoToken
        BY <1>4, <1>8 DEF Load
      <4> QED BY <1>1, <1>2, <1>8, <2>2, <4>1
           DEF Load, Goes, Does, RunTypes, Fields, SetupSteps, Return
    <3>2. /\ saved.port = P
          /\ saved.token = T \/ (saved.token = NoToken /\ StoredToken = T)
      BY <1>2, <3>1 DEF OnDisk, Reads, Legible, SavedToken, Config
    <3> HIDE DEF saved
    <3>3. OnDisk(P, T)' /\ StoredToken' = StoredToken
      BY <1>2, <3>1, StillOnDisk
    <3>4. InHand(P, T)'
      BY <1>4, <3>1, <3>2, <3>3 DEF InHand, Settled, Writing
    <3> QED BY <3>3, <3>4 DEF Same
  <2> QED BY <2>1, <2>2
<1>9. CASE Secret
  <2>1. pc = "secret" /\ run.port = P
        /\ (run.token = T \/ (run.token = NoToken /\ StoredToken = T))
    BY <1>9 DEF Secret, Same, InHand
  <2>2. /\ Goes("save") /\ run'.port = P /\ run'.token = T /\ run'.ask = run.ask
    BY <1>1, <1>2, <1>9, <2>1 DEF Secret, SetupSteps, Return, Does, Stays, RunTypes, Fields
  <2>3. OnDisk(P, T)' /\ pc' = "save"
    BY <1>2, <2>1, <2>2, StillOnDisk DEF Goes
  <2>4. InHand(P, T)'
    BY <1>4, <2>1, <2>2, <2>3 DEF InHand, Writing
  <2> QED BY <2>3, <2>4 DEF Same
<1>10. CASE Save
  <2>1. run.port = P /\ run.token = T /\ pc = "save"
    BY <1>3, <1>10 DEF Save, Settled
  <2> QED BY <1>10, <2>1, <1>a, WritesSame DEF Save, Settled, Leads
<1>11. CASE \/ Saved \/ Keep \/ Poll \/ NextClient \/ Wrote \/ Written
  <2>1. /\ pc \in Settled /\ UNCHANGED files /\ run'.port = run.port /\ run'.token = run.token
        /\ pc' \in Settled \cup {"done", "fail", "report"}
    BY <1>11
    DEF Saved, Keep, Poll, NextClient, Wrote, Written, Settled, Exit, Goes, Does, Stays,
        RunTypes, Fields
  <2> QED BY <1>1, <1>11, <2>1, QuietSame DEF SetupSteps, Return, Settled
<1>c. CASE Store
  <2>1. pc = "store" /\ run.port = P /\ run.token = T
    BY <1>3, <1>c DEF Store, Settled
  <2>2. CASE StoredToken # T /\ Writes("token", Token(run.token), "plist", "fail")
    BY <1>a, <2>1, <2>2, WritesSame DEF Settled, Leads
  <2>3. CASE Goes("plist") /\ Stays
    BY <2>1, <2>3, QuietSame DEF Settled, Goes, Stays
  <2> QED BY <1>2, <1>c, <2>1, <2>2, <2>3 DEF Store
<1>12. CASE Bootout \/ Clear \/ Bootstrap \/ Permit
  <2>1. /\ pc \in Settled /\ UNCHANGED files /\ run'.port = run.port /\ run'.token = run.token
        /\ pc' \in Settled \cup {"fail"}
    BY <1>12 DEF Bootout, Clear, Bootstrap, Permit, Settled, RunTypes, Fields, Ignored, Does
  <2> QED BY <1>1, <1>12, <2>1, QuietSame DEF SetupSteps, Return, Settled
<1>13. CASE WritePlist
  <2>1. run.port = P /\ run.token = T /\ pc = "plist"
        /\ Plist(run.token, run.command).token = T
    BY <1>3, <1>13 DEF WritePlist, Settled, Plist
  <2> QED BY <1>13, <2>1, <1>a, WritesSame DEF WritePlist, Settled, Leads
<1>14. CASE Edit
  <2>1. pc = "edit" /\ run.port = P /\ run.token = T /\ run.text = disk[Client]
    BY <1>3, <1>14 DEF Edit, Settled, Guarded
  <2>2. CASE UNCHANGED files /\ pc' \in {"missed", "wrote"} /\ UNCHANGED <<run.port, run.token>>
    BY <1>1, <1>14, <2>1, <2>2, QuietSame DEF SetupSteps, Edit, Return, Settled
  <2>3. CASE Writes(Client, Edited(run.text, Client), "wrote", "missed")
    <3>1. Client \in Clients /\ Client \notin {"plist", "token", "config"}
      BY <2>1, ClientInOrder, NotOfTheirs DEF Guarded
    <3>2. Client \in held.clients \ harmed => Leaves(run.text, P, T)
      BY <1>2, <2>1 DEF OnDisk
    <3>3. WellFormed(Client, run.text)
      BY <2>1, <3>1 DEF TypeInv, Filed, Paths
    <3>4. Client \in held.clients \ harmed => Leaves(Edited(run.text, Client), P, T)
      BY <1>2, <2>1, <3>1, <3>2, <3>3, EditLeaves
    <3> QED BY <2>1, <2>3, <3>1, <3>4, WritesSame DEF Settled, Leads
  <2> QED BY <1>14, <2>2, <2>3 DEF Edit, Goes, Stays, Does, RunTypes, Fields
<1>15. CASE Remove
  <2>1. /\ pc' = "done" /\ pc = "remove" /\ UNCHANGED harmed /\ run'.ask = run.ask
        /\ DOMAIN disk = Paths
        /\ disk' = disk \/ disk' = [disk EXCEPT !["plist"] = Absent]
    BY <1>1, <1>15 DEF Remove, Guarded, SetupSteps, Return
  <2>2. \A p \in Paths : p # "plist" => disk'[p] = disk[p]
    BY <2>1
  <2>3. "token" \in Paths /\ "config" \in Paths /\ "plist" \in Paths /\ Clients \subseteq Paths
    BY DEF Paths
  <2>4. Reads("plist")' => disk'["plist"] = disk["plist"]
    BY <2>1, <2>3 DEF Reads, Absent
  <2>5. StoredToken' = StoredToken /\ disk'["config"] = disk["config"]
    BY <2>2, <2>3 DEF StoredToken, Reads
  <2>6. /\ Reads("config")' <=> Reads("config")
        /\ SavedToken' = SavedToken
        /\ Reads("plist")' => Reads("plist")
    BY <2>4, <2>5 DEF SavedToken, Reads
  <2>7. \A c \in held.clients \ harmed : Leaves(disk[c], P, T)'
    BY <1>2, <1>a, <2>1, <2>2, <2>3, <2>5 DEF OnDisk, Leaves, Serves
  <2>8. OnDisk(P, T)'
    BY <1>2, <2>1, <2>4, <2>5, <2>6, <2>7 DEF OnDisk, Legible
  <2>9. InHand(P, T)'
    BY <1>4, <2>1 DEF InHand, Settled, Writing
  <2> QED BY <2>8, <2>9 DEF Same
<1>16. CASE Open
  <2>1. CASE pc' = "fill" /\ disk' = [disk EXCEPT ![run.out.path] = Emptied]
    <3>1. Emptied.form \notin {"text", "absent"}
      BY DEF Emptied
    <3> QED BY <1>16, <2>1, <3>1, DiskSame DEF Open, Writing
  <2>2. CASE pc' = run.out.bad /\ UNCHANGED disk
    <3>1. /\ OutOf(P, T) /\ UNCHANGED <<run, files>> /\ pc = "open"
      BY <1>16, <2>2 DEF Open, Writing, Same, InHand, files
    <3>2. /\ pc' \in Leads /\ (pc' \in Settled => run.port = P /\ run.token = T)
      BY <2>2, <3>1 DEF OutOf
    <3>3. OnDisk(P, T)'
      BY <1>2, <3>1, StillOnDisk
    <3>4. InHand(P, T)'
      BY <1>4, <3>1, <3>2 DEF InHand, Writing, Leads, Settled
    <3> QED BY <3>3, <3>4 DEF Same
  <2> QED BY <1>16, <2>1, <2>2 DEF Open
<1>17. CASE Fill
  BY <1>17, DiskSame DEF Fill, Writing
<1>18. CASE FillFails
  <2>1. PICK left \in {Emptied, Cut} : disk' = [disk EXCEPT ![run.out.path] = left]
    BY <1>18 DEF FillFails
  <2>2. left.form \notin {"text", "absent"}
    BY DEF Emptied, Cut
  <2>3. /\ run'.ask = run.ask /\ run'.port = run.port /\ run'.token = run.token
        /\ run'.out = run.out /\ pc' \in {run.out.good, run.out.bad} /\ Writing
        /\ harmed' = harmed \cup {run.out.path}
    BY <1>18 DEF FillFails, RunTypes, Fields, Writing
  <2> QED BY <2>1, <2>2, <2>3, DiskSame
<1>19. CASE Return
  BY <1>19, QuietSame DEF Return, Goes, Settled
<1>20. CASE Killed
  <2>1. OnDisk(P, T)'
    BY <1>2, <1>20 DEF Killed, OnDisk, StoredToken, SavedToken, Reads, Serves, Leaves, Legible
  <2>2. InHand(P, T)'
    BY <1>20 DEF Killed, InHand, Settled, Writing
  <2> QED BY <2>1, <2>2 DEF Same
<1>21. CASE Launch \/ Dies \/ LogIn
  BY <1>21, OthersSame DEF Launch, Dies, LogIn
<1>22. CASE UNCHANGED vars
  BY <1>22, OthersSame DEF vars, files
<1> QED BY <1>5, <1>b, <1>6, <1>7, <1>8, <1>9, <1>10, <1>11, <1>c, <1>12, <1>13, <1>14, <1>15,
           <1>16, <1>17, <1>18, <1>19, <1>20, <1>21, <1>22
        DEF Next, SetupSteps

AgainInv == held # NoneHeld => \E P, T : Same(P, T)

LEMMA AgainKept ==
  AgainInv /\ Guarded /\ Guarded' /\ TypeInv /\ RunTypes /\ [Next]_vars => AgainInv'
<1> SUFFICES ASSUME AgainInv, Guarded, Guarded', TypeInv, RunTypes, [Next]_vars,
                    held' # NoneHeld
             PROVE  \E P, T : Same(P, T)'
  BY DEF AgainInv, NoneHeld
<1>1. CASE ~Begin
  <2>1. held' = held
    BY <1>1 DEF Next, SetupSteps, Launch, Dies, Killed, LogIn, fixed, Goes, Exit, vars,
         Provides, Status, Pick, InstalledFirst, Load, Secret, NoSecret, Save, Saved,
         Keep, Store, WritePlist, Bootout, Clear, Bootstrap, Poll, Fail, NextClient,
         Edit, Wrote, Written, Permit, Report, Stop, Unload, Remove, Open, Fill,
         FillFails, Return, Writes, Generates, Fault
  <2>2. PICK P, T : Same(P, T)
    BY <2>1 DEF AgainInv
  <2> QED BY <1>1, <2>2, SameKept
<1>2. CASE Begin
  <2>1. PICK P, T : P = SavedPort /\ T = SavedToken
    OBVIOUS
  <2>2. /\ shared /\ held' = Connected /\ run'.ask.port = 0 /\ run'.ask.token = NoToken
        /\ pc' = FirstStep(run'.ask.mode) /\ UNCHANGED <<shared, files>>
        /\ run'.ask.mode \in {"setup", "restart", "stop", "status"}
    BY <1>2, Begun
  <2>3. /\ Legible(disk["config"]) /\ T # NoToken
        /\ held' = [clients |-> {c \in Clients : Agrees(c)}, served |-> InPlist]
    BY <2>1, <2>2 DEF Connected
  <2>4. /\ held'.clients = {c \in Clients : Agrees(c)}
        /\ held'.served => InPlist
    BY <2>3
  <2>5. \A c \in held'.clients : c \in Clients /\ Leaves(disk[c], P, T)
    BY <2>1, <2>3, <2>4 DEF Agrees, Reaches, Leaves, Serves, Reads
  <2>6. /\ Reads("config") => disk["config"].port = P
        /\ disk["config"].form = "absent" => P = DefaultPort
    BY <2>1 DEF SavedPort, Reads
  <2>7. StoredToken' = StoredToken /\ SavedToken' = SavedToken /\ disk' = disk
    BY <2>2 DEF files, StoredToken, SavedToken, Reads
  <2>8. \A c \in held'.clients : Leaves(disk[c], P, T)'
    BY <2>5, <2>7 DEF Leaves, Serves
  <2>9. held'.served /\ Reads("plist") => disk["plist"].token = T
    BY <2>1, <2>4 DEF InPlist
  <2>10. OnDisk(P, T)'
    BY <2>1, <2>2, <2>3, <2>5, <2>6, <2>7, <2>8, <2>9 DEF OnDisk, Reads, Legible
  <2>11. pc' \in {"pick", "installed", "stop", "status"}
    BY <2>2 DEF FirstStep
  <2>12. InHand(P, T)'
    BY <2>2, <2>11 DEF InHand, Settled, Writing
  <2> QED BY <2>10, <2>12 DEF Same
<1> QED BY <1>1, <1>2

(***************************************************************************)
(* Running setup again, without a port and a token, keeps every client     *)
(* whose entry agrees with configuration and token file, and a plist that  *)
(* does, for any clients, selections, machines and faults: whichever step  *)
(* it is killed at they go on agreeing, but for a file that a write was    *)
(* cut short in (setup_config, install_agent, configure_client).  Nothing  *)
(* is said of clients of a service that these files no longer name.        *)
(***************************************************************************)
THEOREM AgainConnected == Spec => []AgainKeepsClients
<1>1. Init => Guarded /\ RunTypes /\ TypeInv /\ AgainInv
  BY InitTypes DEF Init, AgainInv
<1>2. Guarded /\ RunTypes /\ TypeInv /\ AgainInv /\ [Next]_vars
      => (Guarded /\ RunTypes /\ TypeInv /\ AgainInv)'
  BY GuardedKept, RunTypesKept, TypesKept, AgainKept
<1>3. AgainInv => AgainKeepsClients
  <2> SUFFICES ASSUME AgainInv, pc # "fill", Legible(disk["config"])
               PROVE  /\ \A c \in held.clients \ harmed : Agrees(c)
                      /\ held.served /\ Reads("plist") => InPlist
    BY DEF AgainKeepsClients
  <2>1. CASE held = NoneHeld
    BY <2>1 DEF NoneHeld
  <2>2. CASE held # NoneHeld
    <3>1. PICK P, T : Same(P, T)
      BY <2>2 DEF AgainInv
    <3>2. SavedPort = P /\ SavedToken = T /\ T # NoToken
      BY <3>1 DEF Same, OnDisk, Legible, SavedPort, Reads
    <3>3. ASSUME NEW c \in held.clients \ harmed PROVE Agrees(c)
      <4>1. Leaves(disk[c], P, T)
        BY <3>1 DEF Same, OnDisk
      <4> QED BY <3>2, <4>1 DEF Leaves, Serves, Agrees, Reaches, Reads
    <3>4. held.served /\ Reads("plist") => InPlist
      BY <3>1, <3>2 DEF Same, OnDisk, InPlist
    <3> QED BY <3>3, <3>4
  <2> QED BY <2>1, <2>2
<1> QED BY <1>1, <1>2, <1>3, PTL DEF Spec

-----------------------------------------------------------------------------
(***************************************************************************)
(* What a setup that ends with 0 has done.  Each file, the job and the     *)
(* ports are as they are to be from the step on that made them so; the     *)
(* reload after the permissions makes the plist and the job once more.     *)
(***************************************************************************)
Doing == run.ask.mode = "setup" /\ shared /\ ~run.deceived
Again == run.back = "report"

\* What there is to be made.
ConfigIs == run.token # NoToken /\ disk["config"] = Config(run.port, run.token)
TokenIs == StoredToken = run.token
OurPlist == Plist(run.token, run.command)
PlistIs == disk["plist"] = OurPlist
Cleared == "listener" \notin run.ignored
Free == job = NoJob /\ (Cleared => \A p \in servers : p.port # run.port)
Wired == /\ job = OurPlist
         /\ Cleared => \A p \in servers : p.port = run.port =>
              p.own /\ p.token = job.token /\ p.binary = job.binary
Taken == /\ \A p \in servers : p.port = run.port => p.token = run.token
         /\ job \in {NoJob, OurPlist}
Matches == "plist" \notin harmed => job = disk["plist"]
Good(c) == \/ c \in run.kept \/ c \in Toml \cap harmed
           \/ Serves(disk[c], run.port, run.token)
ReachedTo(n) ==
  run.failed \/ \A i \in 1 .. n : Order[i] \in run.chosen => Good(Order[i])
AllReached == run.failed \/ \A c \in run.chosen : Good(c)

\* The writes of a setup, and where they lead.
OutConfig == /\ run.out.path = "config" /\ run.out.good = "saved" /\ run.out.bad = "fail"
             /\ run.out.text = Config(run.port, run.token) /\ run.token # NoToken
OutSecret == /\ run.out.path = "token" /\ run.out.good = "save" /\ run.out.bad = "untold"
             /\ run.token # NoToken
OutOther == run.out.path = "token" /\ run.out.good = "keep" /\ run.out.bad = "keep"
OutToken == /\ run.out.path = "token" /\ run.out.good = "plist" /\ run.out.bad = "fail"
            /\ run.out.text = Token(run.token)
OutPlist == /\ run.out.path = "plist" /\ run.out.good = "bootout" /\ run.out.bad = "fail"
            /\ run.out.text = OurPlist
OutClient == /\ run.next <= Len(Order) /\ run.out.path = Client
             /\ run.out.good = "wrote" /\ run.out.bad = "missed"
             /\ \/ Client \in Toml \cap harmed
                \/ Serves(run.out.text, run.port, run.token)

\* Before the clients, at them, and what may come twice.
Before == {"pick", "load", "secret", "untold", "save", "saved", "keep"}
AtClients == {"client", "edit", "wrote", "missed", "permit"}
Service == {"store", "plist", "bootout", "clear", "bootstrap", "poll"}
Stage ==
  /\ pc \in Before \cup AtClients \cup Service \cup {"fail", "report", "done"} \/ Writing
  /\ pc \in Before \cup AtClients => ~Again
  /\ pc = "report" => Again
  /\ pc \in Before \cup Service /\ ~Again => run.next = 1
  /\ run.chosen \subseteq Clients /\ (pc = "pick" => run.ask.named \subseteq Clients)
  /\ pc = "save" => run.token # NoToken
  /\ Writing => \/ OutPlist /\ (~Again => run.next = 1)
                \/ ~Again /\ OutClient
                \/ ~Again /\ run.next = 1 /\ (OutConfig \/ OutSecret \/ OutOther \/ OutToken)

ConfigSet ==
  \/ pc \in Service \cup AtClients \cup {"saved", "keep", "report"} \/ Again
  \/ Writing /\ run.out.good \in {"keep", "plist", "bootout", "wrote"}
  => ConfigIs
TokenSet ==
  \/ pc \in (Service \ {"store"}) \cup AtClients \/ Again
  \/ Writing /\ run.out.good \in {"bootout", "wrote"}
  => TokenIs
JobSet ==
  /\ pc \in {"bootout", "clear", "bootstrap"} => PlistIs
  /\ pc = "bootstrap" /\ job = NoJob => Free
  /\ Again /\ pc \in {"bootout", "clear", "bootstrap"} => job = NoJob \/ Wired
  /\ \/ pc \in AtClients \/ (Writing /\ run.out.good = "wrote")
     \/ Again /\ pc # "done"
     => Taken
  /\ \/ pc \in AtClients \cup {"poll"}
     \/ Writing /\ run.out.good = "wrote"
     \/ Again /\ (pc \in {"store", "plist"} \/ (Writing /\ run.out.good = "bootout"))
     => Wired /\ (Matches \/ (pc = "fill" /\ run.out.good = "bootout"))
  /\ Again /\ pc \in {"fail", "report"} => (Free /\ PlistIs) \/ (Wired /\ Matches)
Reached ==
  /\ pc \in {"client", "edit"} \/ (pc = "open" /\ run.out.good = "wrote") =>
       ReachedTo(run.next - 1)
  /\ pc = "fill" /\ run.out.good = "wrote" =>
       run.failed \/ \A i \in 1 .. run.next - 1 :
                       Order[i] \in run.chosen /\ Order[i] # Client => Good(Order[i])
  /\ pc = "wrote" => ReachedTo(run.next)
  /\ pc = "permit" \/ Again => AllReached
AllDone == /\ ConfigIs /\ TokenIs /\ Taken /\ (Cleared => Wired /\ Matches)
           /\ ~run.failed /\ AllReached
Ended == pc = "done" /\ run.code = 0 /\ run.chosen # {} => AllDone
Known == Stage /\ ConfigSet /\ TokenSet /\ JobSet /\ Reached /\ Ended

\* Where a TOML file cannot be read, a write to it was cut short.
CutByUs == \A c \in Toml \cap Clients :
             /\ disk[c] = Cut => c \in harmed
             /\ Writing /\ run.out.path = c /\ run.out.text = Cut => c \in harmed
DoneInv == CutByUs /\ (Doing => Known)

SameButIgnored ==
  /\ run'.ask = run.ask /\ run'.port = run.port /\ run'.token = run.token
  /\ run'.command = run.command /\ run'.chosen = run.chosen /\ run'.next = run.next
  /\ run'.failed = run.failed /\ run'.kept = run.kept /\ run'.back = run.back
SameRun == SameButIgnored /\ run'.ignored = run.ignored

\* A step that leaves the files and the system alone changes nothing made.
LEMMA QuietFacts ==
  ASSUME UNCHANGED <<files, system>>, SameRun
  PROVE  /\ ConfigIs' <=> ConfigIs
         /\ TokenIs' <=> TokenIs
         /\ PlistIs' <=> PlistIs
         /\ Free' <=> Free
         /\ Wired' <=> Wired
         /\ Taken' <=> Taken
         /\ Cleared' <=> Cleared
         /\ Matches' <=> Matches
         /\ AllReached' <=> AllReached
         /\ \A n : ReachedTo(n)' <=> ReachedTo(n)
         /\ \A c : Good(c)' <=> Good(c)
<1>1. \A c : Good(c)' <=> Good(c)
  BY DEF SameRun, SameButIgnored, Good, Serves, files
<1>2. /\ AllReached' <=> AllReached
      /\ \A n : ReachedTo(n)' <=> ReachedTo(n)
  BY <1>1 DEF SameRun, SameButIgnored, AllReached, ReachedTo
<1>3. /\ ConfigIs' <=> ConfigIs
      /\ TokenIs' <=> TokenIs
      /\ PlistIs' <=> PlistIs
      /\ Free' <=> Free
      /\ Matches' <=> Matches
  BY DEF SameRun, SameButIgnored, ConfigIs, TokenIs, StoredToken, Reads, OurPlist, PlistIs,
         Free, Cleared, Matches, files, system
<1>4. /\ Wired' <=> Wired
      /\ Taken' <=> Taken
      /\ Cleared' <=> Cleared
  BY DEF SameRun, SameButIgnored, Wired, Taken, Cleared, OurPlist, system
<1> QED BY <1>1, <1>2, <1>3, <1>4

\* A step of setup that only goes on.
LEMMA GoesOn ==
  ASSUME Known, RunTypes, NEW to, Goes(to), SameRun, pc \notin {"fill", "done"},
         to \notin {"open", "fill", "pick"},
         to \in Before \cup AtClients => ~Again, to = "report" => Again,
         to \in Before \cup Service /\ ~Again => run.next = 1,
         to \in Before \cup AtClients \cup Service \cup {"fail", "report", "done"},
         to = "save" => run.token # NoToken,
         to \in Service \cup AtClients \cup {"saved", "keep", "report"} => ConfigIs,
         to \in (Service \ {"store"}) \cup AtClients => TokenIs,
         to \notin {"bootout", "clear", "bootstrap"},
         to \in AtClients \cup {"poll"} => Wired /\ Matches,
         to \in AtClients => Taken,
         Again => to # "store",
         Again /\ to = "plist" => Wired /\ Matches,
         Again /\ to \in {"fail", "report"} => (Free /\ PlistIs) \/ (Wired /\ Matches),
         to \in {"client", "edit"} => ReachedTo(run.next - 1),
         to = "wrote" => ReachedTo(run.next),
         to = "permit" => AllReached,
         to = "done" /\ run'.code = 0 /\ run.chosen # {} => AllDone
  PROVE  Known'
<1> USE QuietFacts
<1>1. pc' = to /\ UNCHANGED <<files, system>>
  BY DEF Goes
<1>2. Stage'
  BY <1>1 DEF Known, Stage, SameRun, SameButIgnored, Writing, Again, Before, AtClients, Service
<1>3. ConfigSet' /\ TokenSet'
  BY <1>1 DEF Known, ConfigSet, TokenSet, SameRun, SameButIgnored, Writing, Again, Before, AtClients, Service
<1>4. JobSet'
  BY <1>1 DEF Known, JobSet, SameRun, SameButIgnored, Writing, Again, Before, AtClients, Service
<1>5. Reached'
  BY <1>1 DEF Known, Reached, SameRun, SameButIgnored, Again
<1>6. Ended'
  BY <1>1 DEF Known, Ended, AllDone, SameRun, SameButIgnored
<1> QED BY <1>2, <1>3, <1>4, <1>5, <1>6 DEF Known

\* The beginning of a write.
LEMMA WritesOn ==
  ASSUME Known, RunTypes, pc \notin {"fill", "done"}, NEW p, NEW t, NEW g, NEW b,
         Writes(p, t, g, b),
         \/ p = "plist" /\ g = "bootout" /\ b = "fail" /\ t = OurPlist
            /\ (~Again => run.next = 1)
         \/ /\ ~Again /\ run.next <= Len(Order) /\ p = Client /\ g = "wrote" /\ b = "missed"
            /\ Client \in Toml \cap harmed \/ Serves(t, run.port, run.token)
         \/ /\ ~Again /\ run.next = 1
            /\ \/ /\ p = "config" /\ g = "saved" /\ b = "fail" /\ run.token # NoToken
                  /\ t = Config(run.port, run.token)
               \/ p = "token" /\ g = "keep" /\ b = "keep"
               \/ p = "token" /\ g = "plist" /\ b = "fail" /\ t = Token(run.token),
         g \in {"keep", "plist", "bootout", "wrote"} => ConfigIs,
         g \in {"bootout", "wrote"} => TokenIs,
         g = "wrote" => Wired /\ Taken /\ Matches /\ ReachedTo(run.next - 1),
         Again => Wired /\ Matches
  PROVE  Known'
<1> USE QuietFacts
<1>1. /\ pc' = "open" /\ UNCHANGED <<files, system>>
      /\ run'.out.path = p /\ run'.out.text = t
      /\ run'.out.good = g /\ run'.out.bad = b
  BY DEF Goes, Writes, Does, RunTypes, Fields
<1>2. SameRun
  BY DEF Writes, Does, RunTypes, Fields, SameRun, SameButIgnored
<1>3. Stage'
  <2>1. Client' = Client /\ OurPlist' = OurPlist /\ harmed' = harmed
        /\ (Serves(t, run.port, run.token) => Serves(t, run'.port, run'.token))
    BY <1>1, <1>2 DEF Client, SameRun, SameButIgnored, OurPlist, files
  <2> QED BY <1>1, <1>2, <2>1
          DEF Known, Stage, SameRun, SameButIgnored, Writing, Again, Before, AtClients, Service, OutConfig,
              OutSecret, OutOther, OutToken, OutPlist, OutClient
<1>4. ConfigSet' /\ TokenSet'
  BY <1>1, <1>2 DEF Known, ConfigSet, TokenSet, SameRun, SameButIgnored, Writing, Again, Before, AtClients, Service
<1>5. JobSet'
  BY <1>1, <1>2 DEF Known, JobSet, SameRun, SameButIgnored, Writing, Again, Before, AtClients, Service
<1>6. Reached'
  BY <1>1, <1>2 DEF Known, Reached, SameRun, SameButIgnored, Again
<1>7. Ended'
  BY <1>1, <1>2 DEF Known, Ended
<1> QED BY <1>3, <1>4, <1>5, <1>6, <1>7 DEF Known


\* What is written to a client's file names the service that is made.
LEMMA EditGood ==
  ASSUME NEW c, NEW text, shared, text # Cut
  PROVE  Serves(Edited(text, c), run.port, run.token)
<1>1. Edited(text, c) = ClientFile(text.form = "text" /\ text.others, Ours(c))
  BY DEF Edited
<1>2. /\ Ours(c).how \in {"http", "bridge"} /\ Ours(c).port = run.port
      /\ Ours(c).token \in {NoToken, run.token}
  BY DEF Ours, Entry
<1> HIDE DEF Ours
<1> QED BY <1>1, <1>2 DEF Serves, ClientFile

\* The steps of setup that only go on, or begin a write.
LEMMA KnownGoesOn ==
  ASSUME Known, CutByUs, Guarded, RunTypes, TypeInv, Doing, Doing',
         \/ Provides \/ Status \/ InstalledFirst \/ Save \/ Saved \/ Store \/ WritePlist
         \/ Poll \/ Fail \/ Written \/ Report
  PROVE  Known'
<1> USE DEF Before, AtClients, Service
<1>1. CASE Provides
  <2>1. pc = "keep" /\ ConfigIs /\ ~Again /\ run.next = 1
    BY <1>1 DEF Provides, Asking, Known, Stage, ConfigSet, TokenSet, TokenIs, ConfigIs, Writing
  <2> QED BY <1>1, <2>1, WritesOn DEF Provides
<1>2. CASE Status \/ InstalledFirst
  BY <1>2 DEF Status, InstalledFirst, Known, Stage, Writing
<1>3. CASE Save
  <2>1. ~Again /\ run.next = 1 /\ run.token # NoToken /\ pc = "save"
    BY <1>3 DEF Save, Known, Stage
  <2> QED BY <1>3, <2>1, WritesOn DEF Save, Doing
<1>4. CASE Saved
  <2>1. ~Again /\ run.next = 1 /\ pc = "saved" /\ ConfigIs /\ shared
    BY <1>4 DEF Saved, Known, Stage, ConfigSet, Doing
  <2>2. CASE run.chosen = {} /\ Exit(0)
    <3>1. SameRun
      BY <2>2 DEF Exit, Does, SameRun, SameButIgnored, RunTypes, Fields
    <3> QED BY <2>1, <2>2, <3>1, GoesOn DEF Exit
  <2>3. CASE Goes("keep") /\ Stays
    BY <2>1, <2>3, GoesOn DEF Stays, SameRun, SameButIgnored
  <2> QED BY <1>4, <2>1, <2>2, <2>3 DEF Saved
<1>5. CASE Store
  <2>1. ConfigIs /\ pc = "store"
    BY <1>5 DEF Store, Known, ConfigSet
  <2>2. run.token # NoToken
    BY <2>1 DEF ConfigIs
  <2>3. Again => TokenIs /\ Wired /\ Matches
    BY <2>1 DEF Known, TokenSet, JobSet
  <2>4. ~Again => run.next = 1
    BY <2>1 DEF Known, Stage
  <2>5. CASE StoredToken # run.token /\ Writes("token", Token(run.token), "plist", "fail")
    <3>1. ~Again
      BY <2>3, <2>5 DEF TokenIs
    <3> QED BY <2>1, <2>4, <2>5, <3>1, WritesOn
  <2>6. CASE StoredToken = run.token /\ Goes("plist") /\ Stays
    <3>1. TokenIs
      BY <2>6 DEF TokenIs
    <3> QED BY <2>1, <2>3, <2>4, <2>6, <3>1, GoesOn DEF Stays, SameRun, SameButIgnored
  <2> QED BY <1>5, <2>2, <2>5, <2>6 DEF Store
<1>6. CASE WritePlist
  <2>1. /\ ConfigIs /\ TokenIs /\ pc = "plist" /\ (~Again => run.next = 1)
        /\ Again => Wired /\ Matches
    BY <1>6 DEF WritePlist, Known, Stage, ConfigSet, TokenSet, JobSet
  <2> QED BY <1>6, <2>1, WritesOn DEF WritePlist, OurPlist
<1>7. CASE Poll
  <2>0. Answers(run.port, run.token) /\ job = OurPlist => Taken
    BY DEF Answers, Taken, TypeInv, OneByPort
  <2>1. /\ ConfigIs /\ TokenIs /\ Wired /\ Matches /\ pc = "poll" /\ (~Again => run.next = 1)
        /\ run.ask.mode = "setup" /\ (Again => AllReached) /\ job = OurPlist
    BY <1>7 DEF Poll, Known, Stage, ConfigSet, TokenSet, JobSet, Reached, Doing, Wired
  <2>2. ~Again => ReachedTo(run.next - 1)
    BY <2>1 DEF ReachedTo
  <2>3. \/ Again /\ Goes("report") /\ Stays
        \/ ~Again /\ Taken /\ Goes("client") /\ Stays
        \/ Goes("fail") /\ Stays
    BY <1>7, <2>0, <2>1 DEF Poll, Again
  <2> QED BY <2>1, <2>2, <2>3, GoesOn DEF Stays, SameRun, SameButIgnored
<1>8. CASE Fail
  <2>1. /\ pc = "fail"
        /\ Again => ConfigIs /\ TokenIs /\ ((Free /\ PlistIs) \/ (Wired /\ Matches))
    BY <1>8 DEF Fail, Known, Stage, ConfigSet, TokenSet, JobSet
  <2>2. CASE Again /\ Goes("report") /\ Stays
    BY <2>1, <2>2, GoesOn DEF Stays, SameRun, SameButIgnored
  <2>3. CASE Exit(1)
    <3>1. SameRun /\ run'.code = 1
      BY <2>3 DEF Exit, Does, SameRun, SameButIgnored, RunTypes, Fields
    <3> QED BY <2>1, <2>3, <3>1, GoesOn DEF Exit
  <2> QED BY <1>8, <2>2, <2>3 DEF Fail, Again
<1>9. CASE Written
  <2>1. /\ pc = "client" /\ ~Again /\ ConfigIs /\ TokenIs /\ Wired /\ Matches /\ Taken
        /\ ReachedTo(run.next - 1) /\ run.chosen \subseteq Clients
        /\ run.next > Len(Order)
    BY <1>9 DEF Written, Known, Stage, ConfigSet, TokenSet, JobSet, Reached
  <2>2. AllReached
    <3> SUFFICES ASSUME ~run.failed, NEW c \in run.chosen PROVE Good(c)
      BY DEF AllReached
    <3>1. PICK i \in DOMAIN Order : Order[i] = c
      BY <2>1 DEF Clients
    <3>2. i \in 1 .. run.next - 1
      BY <2>1, <3>1, SetupAssumption DEF RunTypes, Positive
    <3> QED BY <2>1, <3>1, <3>2 DEF ReachedTo
  <2>3. CASE Goes("permit") /\ Stays
    BY <2>1, <2>2, <2>3, GoesOn DEF Stays, SameRun, SameButIgnored
  <2>4. CASE Exit(IF run.failed THEN 1 ELSE 0)
    <3>1. SameRun /\ (run'.code = 0 => ~run.failed)
      BY <2>4 DEF Exit, Does, SameRun, SameButIgnored, RunTypes, Fields
    <3> QED BY <2>1, <2>2, <2>4, <3>1, GoesOn DEF Exit, AllDone
  <2> QED BY <1>9, <2>3, <2>4 DEF Written
<1>10. CASE Report
  <2>1. /\ pc = "report" /\ Again /\ ConfigIs /\ TokenIs /\ Taken /\ AllReached
        /\ (Free /\ PlistIs) \/ (Wired /\ Matches)
    BY <1>10 DEF Report, Known, Stage, ConfigSet, TokenSet, JobSet, Reached
  <2>2. PICK port \in StatusPorts :
          \/ Exit(1)
          \/ Exit(0) /\ ~run.failed /\ \E p \in servers : p.port = port
    BY <1>10 DEF Report
  <2>3. PlistIs => port = run.port
    BY <2>1 DEF PlistIs, OurPlist, Plist, ConfigIs, StatusPorts, SavedPort, Reads, Config
  <2>4. SameRun /\ Goes("done")
    BY <2>2 DEF Exit, Does, SameRun, SameButIgnored, RunTypes, Fields
  <2>5. CASE Exit(1)
    <3>1. run'.code = 1
      BY <2>5 DEF Exit, Does, RunTypes, Fields
    <3> QED BY <2>1, <2>4, <3>1, GoesOn
  <2>6. CASE ~run.failed /\ \E p \in servers : p.port = port
    <3>1. Cleared => Wired /\ Matches
      BY <2>1, <2>3, <2>6 DEF Free
    <3> QED BY <2>1, <2>4, <2>6, <3>1, GoesOn DEF AllDone
  <2> QED BY <2>2, <2>5, <2>6
<1> QED BY <1>1, <1>2, <1>3, <1>4, <1>5, <1>6, <1>7, <1>8, <1>9, <1>10


\* The steps before the configuration is written.
LEMMA KnownBefore ==
  ASSUME Known, Guarded, RunTypes, Doing, Doing',
         Pick \/ Load \/ Secret \/ NoSecret \/ Keep
  PROVE  Known'
<1> USE DEF Before, AtClients, Service
<1>1. CASE Pick
  <2>1. /\ pc = "pick" /\ pc' = "load" /\ run'.back = run.back /\ run'.next = run.next
        /\ run'.chosen \subseteq Clients
    BY <1>1 DEF Pick, Goes, Does, Stays, RunTypes, Fields, Selections, Known, Stage
  <2> QED BY <2>1 DEF Known, Stage, ConfigSet, TokenSet, JobSet, Reached, Ended, Writing, Again
<1>2. CASE Load
  <2>1. /\ pc = "load" /\ run'.back = run.back /\ run'.next = run.next
        /\ run'.chosen = run.chosen /\ (pc' = "secret" \/ (pc' = "done" /\ run'.code = 1))
    BY <1>2 DEF Load, Exit, Goes, Does, RunTypes, Fields, Doing
  <2> QED BY <2>1 DEF Known, Stage, ConfigSet, TokenSet, JobSet, Reached, Ended, Writing, Again
<1>3. CASE Secret
  <2>1. CASE run.token # NoToken /\ Goes("save") /\ Stays
    BY <1>3, <2>1 DEF Secret, Goes, Stays, Known, Stage, ConfigSet, TokenSet, JobSet, Reached,
                      Ended, Writing, Again
  <2>2. CASE StoredToken # NoToken /\ Goes("save") /\ Does([run EXCEPT !.token = StoredToken])
    <3>1. /\ pc = "secret" /\ pc' = "save" /\ run'.back = run.back /\ run'.next = run.next
          /\ run'.chosen = run.chosen /\ run'.token # NoToken
      BY <1>3, <2>2 DEF Secret, Goes, Does, RunTypes, Fields
    <3> QED BY <3>1 DEF Known, Stage, ConfigSet, TokenSet, JobSet, Reached, Ended, Writing, Again
  <2>3. CASE Generates("save", "untold")
    <3>1. PICK t \in Unused : Does([run EXCEPT !.token = t,
                                   !.out = [path |-> "token", text |-> Token(t),
                                            good |-> "save", bad |-> "untold"]])
      BY <2>3 DEF Generates
    <3>2. t # NoToken
      BY ServiceAssumption DEF Unused
    <3>3. /\ pc = "secret" /\ pc' = "open" /\ run'.back = run.back /\ run'.next = run.next
          /\ run'.chosen = run.chosen /\ run'.token # NoToken
          /\ run'.out.path = "token" /\ run'.out.good = "save" /\ run'.out.bad = "untold"
      BY <1>3, <2>3, <3>1, <3>2 DEF Secret, Generates, Goes, Does, RunTypes, Fields
    <3> QED BY <3>3 DEF Known, Stage, ConfigSet, TokenSet, JobSet, Reached, Ended, Writing,
                        Again, OutSecret
  <2> QED BY <1>3, <2>1, <2>2, <2>3 DEF Secret
<1>4. CASE NoSecret
  <2>1. /\ pc = "untold" /\ pc' = "fail" /\ run'.back = run.back /\ run'.next = run.next
        /\ run'.chosen = run.chosen
    BY <1>4 DEF NoSecret, Goes, Does, RunTypes, Fields, Doing
  <2> QED BY <2>1 DEF Known, Stage, ConfigSet, TokenSet, JobSet, Reached, Ended, Writing, Again
<1>5. CASE Keep
  <2>1. /\ pc = "keep" /\ pc' = "store" /\ run'.back = run.back /\ run'.next = run.next
        /\ run'.chosen = run.chosen /\ run'.token = run.token /\ run'.port = run.port
        /\ disk' = disk
    BY <1>5 DEF Keep, Goes, Does, RunTypes, Fields, files
  <2>2. ConfigIs /\ ~Again
    BY <2>1 DEF Known, Stage, ConfigSet
  <2>3. ConfigIs'
    BY <2>1, <2>2 DEF ConfigIs
  <2> QED BY <2>1, <2>2, <2>3
          DEF Known, Stage, ConfigSet, TokenSet, JobSet, Reached, Ended, Writing, Again
<1> QED BY <1>1, <1>2, <1>3, <1>4, <1>5

\* The steps that go from client to client, and on to the permissions.
LEMMA KnownAtClients ==
  ASSUME Known, CutByUs, Guarded, RunTypes, Doing, Doing',
         NextClient \/ Edit \/ Wrote \/ Permit
  PROVE  Known'
<1> USE DEF Before, AtClients, Service
<1>1. /\ pc \in AtClients /\ ~Again /\ ConfigIs /\ TokenIs /\ Wired /\ Matches /\ Taken
      /\ run.chosen \subseteq Clients
  BY DEF Known, Stage, ConfigSet, TokenSet, JobSet, NextClient, Edit, Wrote, Permit
<1>2. ASSUME UNCHANGED <<files, system>>, run'.port = run.port, run'.token = run.token,
             run'.command = run.command, run'.ignored = run.ignored
      PROVE  ConfigIs' /\ TokenIs' /\ Wired' /\ Matches' /\ Taken'
  <2>1. ConfigIs' /\ TokenIs' /\ Matches'
    BY <1>1, <1>2 DEF ConfigIs, TokenIs, StoredToken, Reads, Matches, files, system
  <2>2. Wired' /\ Taken'
    BY <1>1, <1>2 DEF Wired, Taken, Cleared, OurPlist, system
  <2> QED BY <2>1, <2>2
<1>3. ASSUME pc' \in AtClients, run'.back = run.back, run'.chosen = run.chosen,
             ConfigIs', TokenIs', Wired', Matches', Taken', Reached'
      PROVE  Known'
  BY <1>1, <1>3 DEF Known, Stage, ConfigSet, TokenSet, JobSet, Ended, Writing, Again
<1>4. CASE NextClient
  <2>1. /\ pc = "client" /\ run.next <= Len(Order) /\ UNCHANGED <<files, system>>
        /\ run'.port = run.port /\ run'.token = run.token /\ run'.command = run.command
        /\ run'.back = run.back /\ run'.chosen = run.chosen /\ run'.ignored = run.ignored
        /\ run'.kept = run.kept /\ run'.failed = run.failed
    BY <1>4 DEF NextClient, Goes, Does, RunTypes, Fields
  <2>2. ReachedTo(run.next - 1)
    BY <2>1 DEF Known, Reached
  <2>3. \A c : Good(c) => Good(c)'
    BY <2>1 DEF Good, Serves, files
  <2>4. CASE Client \notin run.chosen /\ pc' = "client" /\ run'.next = run.next + 1
    <3>1. ReachedTo(run.next)
      BY <2>2, <2>4 DEF ReachedTo, Client, RunTypes, Positive
    <3>2. ReachedTo(run.next - 1)'
      BY <2>1, <2>3, <2>4, <3>1 DEF ReachedTo, RunTypes, Positive
    <3>3. Reached'
      BY <1>1, <2>1, <2>4, <3>2 DEF Reached, Again
    <3> QED BY <1>2, <1>3, <2>1, <2>4, <3>3
  <2>5. CASE pc' = "edit" /\ run'.next = run.next
    <3>1. ReachedTo(run.next - 1)'
      BY <2>1, <2>2, <2>3, <2>5 DEF ReachedTo
    <3>2. Reached'
      BY <1>1, <2>1, <2>5, <3>1 DEF Reached, Again
    <3> QED BY <1>2, <1>3, <2>1, <2>5, <3>2
  <2>6. \/ Client \notin run.chosen /\ pc' = "client" /\ run'.next = run.next + 1
        \/ pc' = "edit" /\ run'.next = run.next
    BY <1>4 DEF NextClient, Goes, Does, RunTypes, Fields
  <2> QED BY <2>4, <2>5, <2>6
<1>5. CASE Edit
  <2>1. /\ pc = "edit" /\ run.next <= Len(Order) /\ run.text = disk[Client]
        /\ ReachedTo(run.next - 1) /\ Client \in Clients
    BY <1>5, ClientInOrder DEF Edit, Guarded, Known, Reached
  <2>2. CASE Goes("missed") /\ Stays
    BY <1>1, <2>1, <2>2, GoesOn DEF Stays, SameRun, SameButIgnored
  <2>3. CASE Goes("wrote") /\ Does([run EXCEPT !.kept = @ \cup {Client}])
    <3>1. /\ pc' = "wrote" /\ UNCHANGED <<files, system>>
          /\ run'.port = run.port /\ run'.token = run.token /\ run'.command = run.command
          /\ run'.back = run.back /\ run'.chosen = run.chosen /\ run'.next = run.next
          /\ run'.kept = run.kept \cup {Client} /\ run'.failed = run.failed
          /\ run'.ignored = run.ignored
      BY <2>3 DEF Goes, Does, RunTypes, Fields
    <3>2. \A c : Good(c) => Good(c)'
      BY <3>1 DEF Good, Serves, files
    <3>3. Good(Order[run.next])'
      BY <3>1 DEF Good, Client
    <3>4. ReachedTo(run.next)'
      BY <2>1, <3>1, <3>2, <3>3 DEF ReachedTo, RunTypes, Positive
    <3>5. Reached'
      BY <1>1, <3>1, <3>4 DEF Reached, Again
    <3> QED BY <1>2, <1>3, <3>1, <3>5
  <2>4. CASE Writes(Client, Edited(run.text, Client), "wrote", "missed")
    <3>1. Client \in Toml \cap harmed \/ Serves(Edited(run.text, Client), run.port, run.token)
      <4>1. CASE run.text # Cut
        BY <4>1, EditGood DEF Doing
      <4>2. CASE run.text = Cut
        <5>1. Client \in Toml
          BY <1>5, <2>4, <4>2 DEF Edit, Editable, Cut, Writes, Goes
        <5> QED BY <2>1, <4>2, <5>1 DEF CutByUs
      <4> QED BY <4>1, <4>2
    <3> QED BY <1>1, <2>1, <2>4, <3>1, WritesOn
  <2> QED BY <1>5, <2>2, <2>3, <2>4 DEF Edit
<1>6. CASE Wrote
  <2>1. /\ pc \in {"wrote", "missed"} /\ pc' = "client" /\ UNCHANGED <<files, system>>
        /\ run'.port = run.port /\ run'.token = run.token /\ run'.command = run.command
        /\ run'.back = run.back /\ run'.chosen = run.chosen /\ run'.next = run.next + 1
        /\ run'.kept = run.kept /\ run'.failed = (run.failed \/ pc = "missed")
        /\ run'.ignored = run.ignored
    BY <1>6 DEF Wrote, Goes, Does, RunTypes, Fields
  <2>2. \A c : Good(c) => Good(c)'
    BY <2>1 DEF Good, Serves, files
  <2>3. pc = "wrote" => ReachedTo(run.next)
    BY DEF Known, Reached
  <2>a. run.failed \/ pc = "missed" => run'.failed
    BY <2>1
  <2>b. run'.next - 1 = run.next
    BY <2>1 DEF RunTypes, Positive
  <2>4. ReachedTo(run.next - 1)'
    BY <2>1, <2>2, <2>3, <2>a, <2>b DEF ReachedTo
  <2>5. Reached'
    BY <1>1, <2>1, <2>4 DEF Reached, Again
  <2> QED BY <1>2, <1>3, <2>1, <2>5
<1>7. CASE Permit
  <2>1. /\ pc = "permit" /\ pc' = "store" /\ UNCHANGED <<files, system>>
        /\ run'.port = run.port /\ run'.token = run.token /\ run'.command = run.command
        /\ run'.back = "report" /\ run'.chosen = run.chosen
        /\ run'.kept = run.kept /\ run'.failed = run.failed
        /\ run'.ignored = run.ignored
    BY <1>7 DEF Permit, RunTypes, Fields
  <2>2. AllReached
    BY <2>1 DEF Known, Reached
  <2>3. \A c : Good(c) => Good(c)'
    BY <2>1 DEF Good, Serves, files
  <2>4. AllReached'
    BY <2>1, <2>2, <2>3 DEF AllReached
  <2>5. ConfigIs' /\ TokenIs' /\ Wired' /\ Matches' /\ Taken'
    BY <1>2, <2>1
  <2> QED BY <1>1, <2>1, <2>4, <2>5
          DEF Known, Stage, ConfigSet, TokenSet, JobSet, Reached, Ended, Writing, Again
<1> QED BY <1>4, <1>5, <1>6, <1>7


\* A write to one file leaves what the others say.
LEMMA OtherFiles ==
  ASSUME Guarded, NEW text, disk' = [disk EXCEPT ![run.out.path] = text],
         UNCHANGED system, SameRun, harmed \subseteq harmed'
  PROVE  /\ run.out.path # "config" /\ ConfigIs => ConfigIs'
         /\ run.out.path # "token" /\ TokenIs => TokenIs'
         /\ run.out.path # "plist" /\ PlistIs => PlistIs'
         /\ run.out.path # "plist" /\ Matches => Matches'
         /\ (Wired => Wired') /\ (Taken => Taken') /\ (Free => Free')
         /\ \A c \in Clients : run.out.path # c /\ Good(c) => Good(c)'
<1>1. /\ "config" \in DOMAIN disk /\ "token" \in DOMAIN disk /\ "plist" \in DOMAIN disk
      /\ Clients \subseteq DOMAIN disk
  BY DEF Guarded, Paths
<1>2. \A p \in DOMAIN disk : p # run.out.path => disk'[p] = disk[p]
  OBVIOUS
<1>3. /\ run.out.path # "config" /\ ConfigIs => ConfigIs'
      /\ run.out.path # "token" /\ TokenIs => TokenIs'
      /\ run.out.path # "plist" /\ PlistIs => PlistIs'
      /\ run.out.path # "plist" /\ Matches => Matches'
  BY <1>1, <1>2 DEF SameRun, SameButIgnored, ConfigIs, TokenIs, StoredToken, Reads, PlistIs, OurPlist, Matches,
                    system
<1>4. (Wired => Wired') /\ (Taken => Taken') /\ (Free => Free')
  BY DEF SameRun, SameButIgnored, Wired, Taken, Free, Cleared, OurPlist, system
<1>5. \A c \in Clients : run.out.path # c /\ Good(c) => Good(c)'
  BY <1>1, <1>2 DEF SameRun, SameButIgnored, Good, Serves
<1> QED BY <1>3, <1>4, <1>5

\* The service is made anew: the old job, whoever listens, the new job.
LEMMA KnownService ==
  ASSUME Known, Guarded, RunTypes, Doing, Doing', Bootout \/ Clear \/ Bootstrap
  PROVE  Known'
<1> USE DEF Before, AtClients, Service
<1>1. /\ ConfigIs /\ TokenIs /\ PlistIs /\ UNCHANGED files
      /\ ~Again => run.next = 1
      /\ Again => AllReached /\ Taken /\ (job = NoJob \/ Wired)
  BY DEF Known, Stage, ConfigSet, TokenSet, JobSet, Reached, Bootout, Clear, Bootstrap
<1>2. /\ SameButIgnored
      /\ "listener" \in run.ignored => "listener" \in run'.ignored
  BY DEF SameButIgnored, Bootout, Clear, Bootstrap, Ignored, Does, RunTypes, Fields
<1>3. /\ ConfigIs' /\ TokenIs' /\ PlistIs' /\ (Again => AllReached')
      /\ OurPlist' = OurPlist
  BY <1>1, <1>2 DEF SameButIgnored, ConfigIs, TokenIs, StoredToken, Reads, PlistIs, OurPlist,
                    AllReached, Good, Serves, files
<1>a. PlistIs => job # NoJob \/ Reads("plist")
  BY DEF PlistIs, OurPlist, Plist, Reads
\* Servers go, and the job goes or stays.
<1>4. servers' \subseteq servers
  BY DEF Bootout, Clear, Bootstrap, system
<1>5. job' \in {job, NoJob, OurPlist}
  BY <1>1 DEF Bootout, Clear, Bootstrap, system, PlistIs
<1>6. Taken => Taken'
  BY <1>2, <1>3, <1>4, <1>5 DEF Taken, SameButIgnored
<1>7. Wired /\ job' = job => Wired'
  BY <1>2, <1>3, <1>4 DEF Wired, Cleared, SameButIgnored
<1>8. ASSUME pc' \in {"clear", "bootstrap"}, job' \in {job, NoJob},
             pc' = "bootstrap" /\ job' = NoJob => Free'
      PROVE  Known'
  BY <1>1, <1>2, <1>3, <1>6, <1>7, <1>8
     DEF Known, Stage, ConfigSet, TokenSet, JobSet, Reached, Ended, Writing, Again,
         SameButIgnored
<1>9. CASE Bootout
  BY <1>8, <1>9 DEF Bootout, system
<1>10. CASE Clear
  <2>1. pc' = "bootstrap" /\ job' = job
    BY <1>10 DEF Clear
  <2>2. Cleared' => \A p \in servers' : p.port # run.port
    BY <1>10 DEF Clear, Cleared, Ignored, Does, RunTypes, Fields
  <2>3. job' = NoJob => Free'
    BY <1>2, <2>2 DEF Free, SameButIgnored
  <2> QED BY <1>8, <2>1, <2>3
<1>11. CASE Bootstrap
  <2>1. pc = "bootstrap" /\ UNCHANGED <<servers, run>> /\ (job = NoJob => Free)
    BY <1>11 DEF Bootstrap, Known, JobSet
  <2>2. CASE job = NoJob /\ job' = disk["plist"] /\ pc' = "poll"
    <3>1. Wired' /\ Matches'
      BY <1>1, <1>2, <1>3, <2>1, <2>2
         DEF Wired, Free, Cleared, PlistIs, Matches, SameButIgnored, files
    <3> QED BY <1>1, <1>2, <1>3, <1>6, <2>2, <3>1
            DEF Known, Stage, ConfigSet, TokenSet, JobSet, Reached, Ended, Writing, Again,
                SameButIgnored
  <2>3. CASE pc' = "fail" /\ job' = job
    <3>1. Again => (Free' /\ PlistIs') \/ (Wired' /\ Matches')
      <4>1. job = NoJob => Free'
        BY <1>2, <2>1, <2>3 DEF Free, Cleared, SameButIgnored
      <4>2. Wired => Matches'
        BY <1>1, <2>3 DEF Wired, Matches, PlistIs, files
      <4> QED BY <1>1, <1>3, <1>7, <2>3, <4>1, <4>2
    <3> QED BY <1>1, <1>2, <1>3, <1>6, <2>3, <3>1
            DEF Known, Stage, ConfigSet, TokenSet, JobSet, Reached, Ended, Writing, Again,
                SameButIgnored
  <2> QED BY <1>11, <2>2, <2>3 DEF Bootstrap
<1> QED BY <1>9, <1>10, <1>11

\* What launchd and what kills the server do.
LEMMA KnownOthers ==
  ASSUME Known, RunTypes, Doing, Launch \/ Dies
  PROVE  Known'
<1>1. UNCHANGED <<files, run, pc, job>>
  BY DEF Launch, Dies
<1>2. Free => Free'
  BY <1>1 DEF Free, Cleared, Launch, Dies
<1>0. \A p \in servers' \ servers : /\ p.own /\ p.token = job.token /\ p.binary = job.binary
                                    /\ job # NoJob
  BY DEF Launch, Dies
<1>3. Wired => Wired'
  BY <1>0, <1>1 DEF Wired, Cleared, OurPlist
<1>b. Taken => Taken'
  BY <1>0, <1>1 DEF Taken, OurPlist, Plist
<1>4. /\ ConfigIs' <=> ConfigIs
      /\ TokenIs' <=> TokenIs
      /\ PlistIs' <=> PlistIs
      /\ Matches' <=> Matches
      /\ \A c : Good(c)' <=> Good(c)
  BY <1>1 DEF ConfigIs, TokenIs, StoredToken, Reads, PlistIs, OurPlist, Matches, Good, Serves,
              files
<1>5. /\ AllReached' <=> AllReached
      /\ \A n : ReachedTo(n)' <=> ReachedTo(n)
  BY <1>1, <1>4 DEF AllReached, ReachedTo
<1>6. Stage'
  BY <1>1 DEF Known, Stage, Writing, Again, OutConfig, OutSecret, OutOther, OutToken, OutPlist,
              OutClient, OurPlist, Client, Serves, files
<1>7. ConfigSet' /\ TokenSet' /\ JobSet'
  BY <1>1, <1>2, <1>3, <1>b, <1>4 DEF Known, ConfigSet, TokenSet, JobSet, Writing, Again
<1>8. Reached' /\ Ended'
  BY <1>1, <1>3, <1>b, <1>4, <1>5
     DEF Known, Reached, Ended, AllDone, Cleared, Again, Client
<1> QED BY <1>6, <1>7, <1>8 DEF Known


\* The file is opened, which empties it, or cannot be.
LEMMA KnownOpen ==
  ASSUME Known, Guarded, RunTypes, Doing, Doing', Open
  PROVE  Known'
<1> USE NotOfTheirs DEF Before, AtClients, Service
<1>0. /\ pc = "open" /\ Writing /\ SameRun /\ UNCHANGED <<run, system, harmed>>
  BY DEF Open, Writing, SameRun, SameButIgnored
<1>a. run.out.path = Client => Client \in Clients \/ run.next > Len(Order)
  BY ClientInOrder, SetupAssumption DEF RunTypes, Positive
<1>1. CASE pc' = run.out.bad /\ UNCHANGED disk
  <2>1. Goes(run.out.bad)
    BY <1>1 DEF Open, Goes, files
  <2>2. CASE OutPlist /\ (~Again => run.next = 1)
    <3>1. Again => ConfigIs /\ TokenIs /\ Wired /\ Matches /\ Taken
      BY <1>0, <2>2 DEF Known, ConfigSet, TokenSet, JobSet, OutPlist
    <3> QED BY <1>0, <2>1, <2>2, <3>1, GoesOn DEF OutPlist
  <2>3. CASE ~Again /\ OutClient
    <3>1. ConfigIs /\ TokenIs /\ Wired /\ Matches /\ Taken
      BY <1>0, <2>3 DEF Known, ConfigSet, TokenSet, JobSet, OutClient
    <3> QED BY <1>0, <2>1, <2>3, <3>1, GoesOn DEF OutClient
  <2>4. CASE ~Again /\ run.next = 1 /\ (OutConfig \/ OutSecret \/ OutToken)
    <3>1. run.out.bad \in {"fail", "untold"}
      BY <2>4 DEF OutConfig, OutSecret, OutToken
    <3> QED BY <1>0, <2>1, <2>4, <3>1, GoesOn
  <2>5. CASE ~Again /\ run.next = 1 /\ OutOther
    <3>1. ConfigIs
      BY <1>0, <2>5 DEF Known, ConfigSet, OutOther
    <3> QED BY <1>0, <2>1, <2>5, <3>1, GoesOn DEF OutOther
  <2> QED BY <1>0, <2>2, <2>3, <2>4, <2>5 DEF Known, Stage
<1>2. CASE pc' = "fill" /\ disk' = [disk EXCEPT ![run.out.path] = Emptied]
  <2>1. /\ run.out.path # "config" /\ ConfigIs => ConfigIs'
        /\ run.out.path # "token" /\ TokenIs => TokenIs'
        /\ run.out.path # "plist" /\ Matches => Matches'
        /\ (Wired => Wired') /\ (Taken => Taken')
        /\ \A c \in Clients : run.out.path # c /\ Good(c) => Good(c)'
    BY <1>0, <1>2, OtherFiles
  <2>2. Stage'
    BY <1>0, <1>2 DEF Known, Stage, Writing, Again, OutConfig, OutSecret, OutOther, OutToken,
          OutPlist, OutClient, OurPlist, Client, Serves
  <2>3. /\ Again => run.out.path = "plist" /\ run.out.good = "bootout"
        /\ run.out.good = "wrote" => run.out.path = Client /\ Client \in Clients
        /\ run.out.good = "bootout" => run.out.path = "plist"
        /\ run.out.good \in {"keep", "plist"} => run.out.path = "token"
    BY <1>0, <1>a DEF Known, Stage, OutConfig, OutSecret, OutOther, OutToken, OutPlist, OutClient,
                      RunTypes, Positive
  <2>4. ConfigSet' /\ TokenSet'
    BY <1>0, <1>2, <2>1, <2>3 DEF Known, ConfigSet, TokenSet, Writing, Again
  <2>5. JobSet'
    BY <1>0, <1>2, <2>1, <2>3 DEF Known, JobSet, Writing, Again
  <2>6. run.chosen \subseteq Clients
    BY DEF Known, Stage
  <2>7. Again => AllReached'
    <3> SUFFICES ASSUME Again, ~run.failed, NEW c \in run.chosen PROVE Good(c)'
      BY <1>0 DEF AllReached
    <3> QED BY <2>1, <2>3, <2>6 DEF Known, Reached, AllReached
  <2>8. run.out.good = "wrote" =>
          run.failed \/ \A i \in 1 .. run.next - 1 :
                          Order[i] \in run.chosen /\ Order[i] # Client => Good(Order[i])'
    <3> SUFFICES ASSUME run.out.good = "wrote", ~run.failed, NEW i \in 1 .. run.next - 1,
                        Order[i] \in run.chosen, Order[i] # Client
                 PROVE  Good(Order[i])'
      OBVIOUS
    <3>1. Good(Order[i])
      BY <1>0 DEF Known, Reached, ReachedTo
    <3> QED BY <2>1, <2>3, <2>6, <3>1
  <2>9. Reached' /\ Ended'
    BY <1>0, <1>2, <2>7, <2>8 DEF Reached, Ended, Again, Client
  <2> QED BY <2>2, <2>4, <2>5, <2>9 DEF Known
<1> QED BY <1>1, <1>2 DEF Open

\* The file is filled, or a full disk cuts it short.
LEMMA KnownFill ==
  ASSUME Known, Guarded, RunTypes, Doing, Doing', Fill \/ FillFails
  PROVE  Known'
<1> USE NotOfTheirs DEF Before, AtClients, Service
<1>0. PICK text : /\ disk' = [disk EXCEPT ![run.out.path] = text]
                  /\ \/ pc' = run.out.good /\ text = run.out.text /\ harmed' = harmed
                     \/ pc' = run.out.bad /\ harmed' = harmed \cup {run.out.path}
  BY DEF Fill, FillFails, Doing, RunTypes, Fields
<1>1. pc = "fill" /\ Writing /\ UNCHANGED <<run, system>>
  BY DEF Fill, FillFails, Doing, Writing, RunTypes, Fields
<1>2. SameRun /\ harmed \subseteq harmed' /\ OurPlist' = OurPlist
  BY <1>0, <1>1 DEF SameRun, SameButIgnored, OurPlist
<1>3. /\ run.out.path # "config" /\ ConfigIs => ConfigIs'
      /\ run.out.path # "token" /\ TokenIs => TokenIs'
      /\ run.out.path # "plist" /\ Matches => Matches'
      /\ (Wired => Wired') /\ (Taken => Taken')
      /\ \A c \in Clients : run.out.path # c /\ Good(c) => Good(c)'
  BY <1>0, <1>1, <1>2, OtherFiles
<1>4. run.chosen \subseteq Clients
  BY DEF Known, Stage
<1>5. run.out.path \in Paths => disk'[run.out.path] = text
  BY <1>0 DEF Guarded
<1>6. CASE OutConfig /\ ~Again /\ run.next = 1
  <2>1. pc' = "saved" => ConfigIs'
    BY <1>0, <1>1, <1>5, <1>6 DEF OutConfig, ConfigIs, Paths
  <2> QED BY <1>0, <1>1, <1>4, <1>6, <2>1
          DEF OutConfig, Known, Stage, ConfigSet, TokenSet, JobSet, Reached, Ended, Writing, Again
<1>7. CASE OutSecret /\ ~Again /\ run.next = 1
  BY <1>0, <1>1, <1>4, <1>7
     DEF OutSecret, Known, Stage, ConfigSet, TokenSet, JobSet, Reached, Ended, Writing, Again
<1>8. CASE OutOther /\ ~Again /\ run.next = 1
  <2>1. ConfigIs'
    BY <1>1, <1>3, <1>8 DEF OutOther, Known, ConfigSet
  <2> QED BY <1>0, <1>1, <1>4, <1>8, <2>1
     DEF OutOther, Known, Stage, ConfigSet, TokenSet, JobSet, Reached, Ended, Writing, Again
<1>9. CASE OutToken /\ ~Again /\ run.next = 1
  <2>1. ConfigIs'
    BY <1>1, <1>3, <1>9 DEF OutToken, Known, ConfigSet
  <2>2. pc' = "plist" => TokenIs'
    BY <1>0, <1>1, <1>5, <1>9 DEF OutToken, TokenIs, StoredToken, Reads, Token, Paths
  <2> QED BY <1>0, <1>1, <1>4, <1>9, <2>1, <2>2
     DEF OutToken, Known, Stage, ConfigSet, TokenSet, JobSet, Reached, Ended, Writing, Again
<1>10. CASE OutPlist /\ (~Again => run.next = 1)
  <2>1. /\ ConfigIs' /\ TokenIs' /\ (Again => Wired' /\ Taken')
        /\ run.out.good = "bootout" /\ run.out.bad = "fail" /\ run.out.path = "plist"
    BY <1>1, <1>3, <1>10 DEF OutPlist, Known, ConfigSet, TokenSet, JobSet
  <2>2. pc' = "bootout" => PlistIs'
    BY <1>0, <1>1, <1>2, <1>5, <1>10 DEF OutPlist, PlistIs, Paths
  <2>3. pc' = "fail" => Matches'
    BY <1>0, <2>1 DEF Matches
  <2>4. Again => AllReached'
    <3> SUFFICES ASSUME Again, ~run.failed, NEW c \in run.chosen PROVE Good(c)'
      BY <1>1 DEF AllReached
    <3> QED BY <1>3, <1>4, <2>1 DEF Known, Reached, AllReached
  <2> QED BY <1>0, <1>1, <1>4, <1>10, <2>1, <2>2, <2>3, <2>4
     DEF Known, Stage, ConfigSet, TokenSet, JobSet, Reached, Ended, Writing, Again
<1>11. CASE OutClient /\ ~Again
  <2>1. Client \in Clients /\ run.out.path = Client
    BY <1>11, ClientInOrder DEF OutClient
  <2>2. /\ ConfigIs' /\ TokenIs' /\ Wired' /\ Matches' /\ Taken'
        /\ run.out.good = "wrote" /\ run.out.bad = "missed"
    BY <1>1, <1>3, <1>11, <2>1 DEF OutClient, Known, ConfigSet, TokenSet, JobSet
  <2>3. pc' = "wrote" => Good(Client)'
    <3>1. pc' = "wrote" => disk'[Client] = run.out.text /\ harmed' = harmed
      BY <1>0, <1>5, <2>1, <2>2 DEF Paths
    <3> QED BY <1>1, <1>11, <3>1 DEF OutClient, Good, Serves, Client
  <2>4. pc' = "wrote" => ReachedTo(run.next)'
    <3> SUFFICES ASSUME pc' = "wrote", ~run.failed, NEW i \in 1 .. run.next,
                        Order[i] \in run.chosen
                 PROVE  Good(Order[i])'
      BY <1>1 DEF ReachedTo
    <3>1. CASE Order[i] = Client
      BY <2>3, <3>1, <1>1 DEF Client
    <3>2. CASE Order[i] # Client
      <4>1. i \in 1 .. run.next - 1
        BY <3>2 DEF Client, RunTypes, Positive
      <4>2. Good(Order[i])
        BY <1>1, <2>2, <3>2, <4>1 DEF Known, Reached
      <4> QED BY <1>3, <1>4, <2>1, <3>2, <4>2
    <3> QED BY <3>1, <3>2
  <2> QED BY <1>0, <1>1, <1>4, <1>11, <2>2, <2>4
     DEF Known, Stage, ConfigSet, TokenSet, JobSet, Reached, Ended, Writing, Again
<1> QED BY <1>1, <1>6, <1>7, <1>8, <1>9, <1>10, <1>11 DEF Known, Stage


LEMMA QuietCuts ==
  ASSUME CutByUs, UNCHANGED files, pc' \notin {"open", "fill"}
  PROVE  CutByUs'
BY DEF CutByUs, files, Writing

LEMMA WritesCuts ==
  ASSUME CutByUs, RunTypes, NEW p, NEW t, NEW g, NEW b, Writes(p, t, g, b),
         p \in Toml \cap Clients /\ t = Cut => p \in harmed
  PROVE  CutByUs'
<1>1. run'.out.path = p /\ run'.out.text = t /\ UNCHANGED files
  BY DEF Writes, Goes, Does, RunTypes, Fields
<1> QED BY <1>1 DEF CutByUs, files

LEMMA GeneratesCuts ==
  ASSUME CutByUs, RunTypes, NEW g, NEW b, Generates(g, b)
  PROVE  CutByUs'
<1>1. run'.out.path = "token" /\ UNCHANGED files
  BY DEF Generates, Goes, Does, RunTypes, Fields
<1> QED BY <1>1, NotOfTheirs DEF CutByUs, files

LEMMA CutByUsKept == CutByUs /\ Guarded /\ RunTypes /\ [Next]_vars => CutByUs'
<1> SUFFICES ASSUME CutByUs, Guarded, RunTypes, [Next]_vars PROVE CutByUs'
  OBVIOUS
<1> USE NotOfTheirs
<1>1. CASE Provides \/ Save \/ WritePlist
  BY <1>1, WritesCuts DEF Provides, Save, WritePlist
<1>2. CASE Status \/ Pick \/ InstalledFirst \/ NoSecret \/ Saved \/ Keep \/ Load
  BY <1>2, QuietCuts DEF Status, Pick, InstalledFirst, NoSecret, Saved, Keep, Load, Goes, Exit
<1>3. CASE Secret \/ Store
  BY <1>3, GeneratesCuts, WritesCuts, QuietCuts DEF Secret, Store, Goes
<1>4. CASE Bootout \/ Clear \/ Bootstrap \/ Permit \/ Stop \/ Unload
  BY <1>4, QuietCuts DEF Bootout, Clear, Bootstrap, Permit, Stop, Unload
<1>5. CASE Poll \/ Fail \/ Wrote \/ Written \/ Report \/ Return \/ NextClient
  BY <1>5, QuietCuts DEF Poll, Fail, Wrote, Written, Report, Return, NextClient, Goes, Exit
<1>6. CASE Edit
  <2>1. /\ run.text = disk[Client] /\ Client \in Clients
    BY <1>6, ClientInOrder DEF Edit, Guarded
  <2>2. CASE Goes("missed") \/ Goes("wrote")
    BY <2>2, QuietCuts DEF Goes
  <2>3. CASE Writes(Client, Edited(run.text, Client), "wrote", "missed")
    <3>1. Edited(run.text, Client) = Cut => run.text = Cut
      BY DEF Edited, ClientFile, Cut
    <3>2. Client \in Toml /\ run.text = Cut => Client \in harmed
      BY <2>1 DEF CutByUs
    <3> QED BY <2>3, <3>1, <3>2, WritesCuts
  <2> QED BY <1>6, <2>2, <2>3 DEF Edit
<1>7. CASE Remove
  BY <1>7 DEF Remove, CutByUs, Writing, Guarded, Paths
<1>8. CASE Open
  BY <1>8 DEF Open, CutByUs, Writing, Guarded, Paths, Emptied, Cut
<1>9. CASE Fill
  <2>1. Writing
    BY <1>9 DEF Fill, Writing
  <2> QED BY <1>9, <2>1 DEF Fill, CutByUs, Guarded, Paths
<1>10. CASE FillFails
  <2>1. Writing /\ run'.out = run.out
    BY <1>10 DEF FillFails, Writing, RunTypes, Fields
  <2> QED BY <1>10, <2>1 DEF FillFails, CutByUs, Guarded, Paths
<1>11. CASE Killed
  BY <1>11 DEF Killed, CutByUs, Writing
<1>12. CASE Begin
  <2>1. pc' \notin {"open", "fill"} /\ UNCHANGED files
    BY <1>12, SetupAssumption DEF Begin, FirstStep, RunTypes
  <2> QED BY <2>1, QuietCuts
<1>13. CASE Launch \/ Dies \/ LogIn
  BY <1>13 DEF Launch, Dies, LogIn, CutByUs, files, Writing
<1>14. CASE UNCHANGED vars
  BY <1>14 DEF vars, CutByUs, Writing
<1> QED BY <1>1, <1>2, <1>3, <1>4, <1>5, <1>6, <1>7, <1>8, <1>9, <1>10, <1>11, <1>12, <1>13,
           <1>14
        DEF Next, SetupSteps

\* A disk that was full unnoticed stays known to have been.
LEMMA StaysDeceived ==
  ASSUME RunTypes, SetupSteps, ~Return, run.deceived
  PROVE  run'.deceived
BY DEF SetupSteps, RunTypes, Fields, Provides, Status, Pick, InstalledFirst, Load,
       Secret, NoSecret, Save, Saved, Keep, Store, WritePlist, Bootout, Clear,
       Bootstrap, Poll, Fail, NextClient, Edit, Wrote, Written, Permit, Report, Stop,
       Unload, Remove, Open, Fill, FillFails, Exit, Goes, Does, Stays, Writes, Generates,
       Ignored

LEMMA KnownKept ==
  ASSUME Doing => Known, CutByUs, Guarded, RunTypes, TypeInv, [Next]_vars, Doing'
  PROVE  Known'
<1>1. shared' = shared
  BY DEF Next, SetupSteps, Begin, Launch, Dies, Killed, LogIn, fixed, Goes, Exit, vars,
         Provides, Status, Pick, InstalledFirst, Load, Secret, NoSecret, Save, Saved,
         Keep, Store, WritePlist, Bootout, Clear, Bootstrap, Poll, Fail, NextClient,
         Edit, Wrote, Written, Permit, Report, Stop, Unload, Remove, Open, Fill,
         FillFails, Return, Writes, Generates, Fault
<1>2. CASE SetupSteps
  <2>1. ~Return
    BY NoRunTyped DEF Return, Doing
  <2>2. Doing
    BY <1>1, <1>2, <2>1, SameAsk, StaysDeceived DEF Doing
  <2>3. pc \notin {"stop", "unload", "remove"}
    BY <2>2 DEF Known, Stage, Before, AtClients, Service, Writing
  <2>4. ~(Stop \/ Unload \/ Remove)
    BY <2>3 DEF Stop, Unload, Remove
  <2> QED BY <1>2, <2>1, <2>2, <2>4, KnownGoesOn, KnownBefore, KnownAtClients, KnownService,
             KnownOpen, KnownFill DEF SetupSteps
<1>3. CASE Begin
  <2>1. PICK ask \in Asks[shared] : run' = [NoRun EXCEPT !.ask = ask, !.command = ask.command]
                                    /\ pc' = FirstStep(ask.mode)
    BY <1>3 DEF Begin
  <2>a. DOMAIN NoRun = Fields
    BY NoRunTyped
  <2>b. run'.ask = ask
    BY <2>1, <2>a DEF Fields
  <2>c. run'.back = NoRun.back /\ run'.next = NoRun.next /\ run'.chosen = NoRun.chosen
    BY <2>1, <2>a DEF Fields
  <2>2. run'.ask = ask /\ run'.back = NoRun.back /\ run'.next = NoRun.next
        /\ run'.chosen = NoRun.chosen
    BY <2>b, <2>c
  <2>3. NoRun.back = "" /\ NoRun.next = 1 /\ NoRun.chosen = {}
    BY DEF NoRun
  <2>4. ask.mode = "setup" /\ ask.named \subseteq Clients
    BY <2>2, SetupAssumption DEF Doing, RunTypes
  <2>5. pc' = "pick"
    BY <2>1, <2>4 DEF FirstStep
  <2> QED BY <2>2, <2>3, <2>4, <2>5
          DEF Known, Stage, ConfigSet, TokenSet, JobSet, Reached, Ended, Writing, Again, Before,
              AtClients, Service
<1>4. CASE Launch \/ Dies
  <2>1. Doing
    BY <1>1, <1>4 DEF Doing, Launch, Dies
  <2> QED BY <1>4, <2>1, KnownOthers
<1>5. ~Killed
  BY NoRunTyped DEF Killed, Doing
<1>6. CASE LogIn
  <2>1. Doing /\ pc = "idle"
    BY <1>1, <1>6 DEF Doing, LogIn
  <2> QED BY <2>1 DEF Known, Stage, Before, AtClients, Service, Writing
<1>7. CASE UNCHANGED vars
  <2>1. Doing
    BY <1>7 DEF vars, Doing
  <2>2. UNCHANGED <<files, system>> /\ SameRun
    BY <1>7 DEF vars, files, system, SameRun, SameButIgnored
  <2>3. Stage'
    BY <1>7, <2>1 DEF vars, Known, Stage, Writing, Again, OutConfig, OutSecret, OutOther, OutToken,
       OutPlist, OutClient, OurPlist, Client, Serves
  <2>4. ConfigSet' /\ TokenSet'
    BY <1>7, <2>1, <2>2, QuietFacts
       DEF vars, Known, ConfigSet, TokenSet, Writing, Again
  <2>5. JobSet'
    BY <1>7, <2>1, <2>2, QuietFacts DEF vars, Known, JobSet, Writing, Again
  <2>6. Reached' /\ Ended'
    BY <1>7, <2>1, <2>2, QuietFacts
       DEF vars, Known, Reached, Ended, AllDone, Again, Client
  <2> QED BY <2>3, <2>4, <2>5, <2>6 DEF Known
<1> QED BY <1>2, <1>3, <1>4, <1>5, <1>6, <1>7 DEF Next

(***************************************************************************)
(* When setup says that it is done, the clients it was asked for reach the *)
(* service: for any clients, selections, machines and faults, and from     *)
(* whatever state runs that were killed have left (run_setup,              *)
(* install_agent, configure_client, guide_permissions and the reload).     *)
(***************************************************************************)
THEOREM DoneIsConnected == Spec => []DoneMeansConnected
<1>1. Init => Guarded /\ RunTypes /\ TypeInv /\ DoneInv
  <2> SUFFICES ASSUME Init PROVE DoneInv
    BY InitTypes
  <2>1. ~Doing
    BY NoRunTyped DEF Init, Doing
  <2>2. CutByUs
    BY FilesAssumption DEF Init, CutByUs, Writing, Cut
  <2> QED BY <2>1, <2>2 DEF DoneInv
<1>2. Guarded /\ RunTypes /\ TypeInv /\ DoneInv /\ [Next]_vars
      => (Guarded /\ RunTypes /\ TypeInv /\ DoneInv)'
  BY GuardedKept, RunTypesKept, TypesKept, CutByUsKept, KnownKept DEF DoneInv
<1>3. DoneInv => DoneMeansConnected
  <2> SUFFICES ASSUME DoneInv, pc = "done", run.code = 0, run.ask.mode = "setup", shared,
                      run.chosen # {}, ~run.deceived
               PROVE  /\ StoredToken = run.token
                      /\ disk["config"] = Config(run.port, run.token)
                      /\ \A c \in run.chosen \ (run.kept \cup (Toml \cap harmed)) :
                           Reaches(c, run.port, run.token)
                      /\ \A p \in servers : p.port = run.port => p.token = run.token
                      /\ Cleared =>
                           /\ job # NoJob /\ job.token = run.token
                           /\ "plist" \notin harmed => job = disk["plist"]
                           /\ \A p \in servers : p.port = run.port =>
                                p.own /\ p.binary = job.binary
    BY DEF DoneMeansConnected, Finished, Listening, Cleared
  <2>1. /\ ConfigIs /\ TokenIs /\ Taken /\ (Cleared => Wired /\ Matches) /\ ~run.failed
        /\ \A c \in run.chosen : Good(c)
    BY DEF DoneInv, Doing, Known, Ended, AllDone, AllReached
  <2>2. job = OurPlist => job # NoJob /\ job.token = run.token
    BY DEF OurPlist, Plist, NoJob
  <2>3. ASSUME NEW c \in run.chosen \ (run.kept \cup (Toml \cap harmed))
        PROVE  Reaches(c, run.port, run.token)
    <3>1. Serves(disk[c], run.port, run.token)
      BY <2>1, <2>3 DEF Good
    <3> QED BY <2>1, <3>1 DEF Serves, Reaches, Reads, TokenIs
  <2> QED BY <2>1, <2>2, <2>3 DEF ConfigIs, TokenIs, Taken, Wired, Matches
<1> QED BY <1>1, <1>2, <1>3, PTL DEF Spec
=============================================================================
