---------------------------- MODULE HelperProofs ----------------------------
(* Theorems about Helper, for any set of connections, any set of cleaners  *)
(* and any number of crashes.                                              *)
EXTENDS Helper, TLAPS

-----------------------------------------------------------------------------
(* Inductive invariants.                                                   *)

Down == pc[Main] \in {"crashed", "stopped"} \/ Starting

\* Strengthens CleanStart: while the process is down or starting, no task of
\* it is left and no session is.
StartInv ==
    /\ TypeOK
    /\ CleanStart
    /\ Starting => pc[Main] \in CleanupPoints
    /\ Down => /\ state = None
               /\ \A c \in Clients : pc[c] = "none" /\ ~owns[c]

\* Strengthens FailedApplyRollsBack: where in an Apply that has not loaded its
\* table yet, or failed, the rules and the device of c cannot be there.
NoRules(c) ==
    \/ pc[c] \in {"a_create", "a_configure", "a_flush", "a_load", "e_link", "e_reply"}
    \/ pc[c] \in {"c_link", "c_journal"} /\ ret[c] = "a_create"

NoDevice(c) ==
    \/ pc[c] \in {"a_create", "e_reply"}
    \/ pc[c] = "c_journal" /\ ret[c] = "a_create"

RollbackInv ==
    /\ TypeOK
    /\ \A c \in Clients : (NoRules(c) => c \notin nft) /\ (NoDevice(c) => tun # c)

-----------------------------------------------------------------------------
(* Type correctness.                                                       *)

Sub == CleanupPoints \cup TeardownPoints

\* A task of a connection that moves as its stream does keeps the types.
LEMMA ClientMoves ==
  ASSUME TypeOK, NEW c \in Clients,
         NEW l \in ClientPoints, NEW r \in ClientReturns,
         pc' = [pc EXCEPT ![c] = l], ret' = [ret EXCEPT ![c] = r],
         l \in Sub <=> r # "none",
         conn' \in [Clients -> {"none", "open", "gone", "lost"}],
         \A d \in Clients : d # c => conn'[d] = conn[d],
         l # "none" <=> conn'[c] \in {"open", "gone"}
  PROVE  TasksOK'
<1>1. Main \notin Clients /\ Clients \cap Cleaners = {} /\ c \in Tasks
  BY Zenon, HelperAssumption DEF Distinct, Tasks
<1>2. /\ pc' \in [Tasks -> ClientPoints \cup MainPoints]
      /\ ret' \in [Tasks -> ClientReturns \cup MainReturns]
  BY Zenon, <1>1 DEF TypeOK, TasksOK
<1>3. \A u \in Tasks : u # c => pc'[u] = pc[u] /\ ret'[u] = ret[u]
  BY Zenon DEF TypeOK, TasksOK
<1>4. pc'[c] = l /\ ret'[c] = r
  BY Zenon, <1>1 DEF TypeOK, TasksOK
<1> QED
  BY <1>1, <1>2, <1>3, <1>4 DEF TypeOK, TasksOK, InSubroutine, Sub, Tasks

\* The same for a step between two points outside the subroutines ...
LEMMA ClientGoto ==
  ASSUME TypeOK, NEW c \in Clients, ~InSubroutine(c), pc[c] # "none",
         NEW l \in ClientPoints \ (Sub \cup {"none"}), Goto(c, l),
         UNCHANGED conn
  PROVE  TasksOK'
<1>1. ret[c] = "none" /\ ret' = [ret EXCEPT ![c] = "none"]
  BY Zenon DEF TypeOK, TasksOK, Goto, Tasks
<1>2. "none" \in ClientReturns
  BY Zenon DEF ClientReturns
<1> QED
  BY ZenonT(40), <1>1, <1>2, ClientMoves DEF Goto, TypeOK, TasksOK

\* ... for a call of a subroutine ...
LEMMA ClientCall ==
  ASSUME TypeOK, NEW c \in Clients, pc[c] # "none", NEW l \in Sub,
         NEW back \in ClientReturns \ {"none"}, Call(c, l, back),
         UNCHANGED conn
  PROVE  TasksOK'
<1>1. l \in ClientPoints /\ l # "none"
  BY Zenon DEF Sub, ClientPoints, CleanupPoints, TeardownPoints
<1> QED
  BY Zenon, <1>1, ClientMoves DEF Call, TypeOK, TasksOK

\* ... for the end of a task ...
LEMMA ClientEnds ==
  ASSUME TypeOK, NEW c \in Clients, ~InSubroutine(c), Goto(c, "none"),
         conn' = [conn EXCEPT ![c] = IF @ = "open" THEN "lost" ELSE "none"]
  PROVE  TasksOK'
<1>1. ret[c] = "none" /\ ret' = [ret EXCEPT ![c] = "none"]
  BY Zenon DEF TypeOK, TasksOK, Goto, Tasks
<1>2. "none" \in ClientReturns /\ "none" \in ClientPoints /\ "none" \notin Sub
  BY Zenon DEF ClientReturns, ClientPoints, Sub, CleanupPoints, TeardownPoints
<1>3. /\ conn' \in [Clients -> {"none", "open", "gone", "lost"}]
      /\ \A d \in Clients : d # c => conn'[d] = conn[d]
      /\ conn'[c] \notin {"open", "gone"}
  BY Zenon DEF TypeOK, TasksOK
<1> QED
  BY ZenonT(40), <1>1, <1>2, <1>3, ClientMoves DEF Goto

\* ... and for a step inside a subroutine, of any task.
LEMMA SubroutineStep ==
  ASSUME TypeOK, NEW t \in Tasks, InSubroutine(t), NEW l \in Sub,
         pc[t] \in CleanupPoints => l \in CleanupPoints,
         Goto(t, l), UNCHANGED conn
  PROVE  TasksOK'
<1>1. Main \notin Clients /\ Main \notin Cleaners /\ Clients \cap Cleaners = {}
  BY Zenon, HelperAssumption DEF Distinct
<1>2. /\ l \in ClientPoints /\ l \in MainPoints /\ l # "none"
      /\ pc[t] # "none"
      /\ t \in Cleaners => l \in CleanupPoints
  BY Zenon DEF Sub, InSubroutine, ClientPoints, MainPoints, CleanupPoints,
     TeardownPoints, TypeOK, TasksOK
<1>3. pc' \in [Tasks -> ClientPoints \cup MainPoints] /\ ret' = ret
  BY Zenon, <1>2 DEF TypeOK, TasksOK, Goto
<1>4. /\ \A u \in Tasks : u # t => pc'[u] = pc[u]
      /\ pc'[t] = l
  BY Zenon DEF TypeOK, TasksOK, Goto
<1> QED
  BY Zenon, <1>1, <1>2, <1>3, <1>4 DEF TypeOK, TasksOK, InSubroutine, Sub, Tasks

\* cleanup_stale returns to its caller.
LEMMA ReturnStep ==
  ASSUME TypeOK, NEW t \in Tasks, pc[t] = "c_journal", Return(t),
         UNCHANGED conn
  PROVE  TasksOK'
<1>1. pc[t] \in Sub /\ pc[t] # "none"
  BY Zenon DEF Sub, CleanupPoints
<1>2. CASE t \in Clients
  <2>1. ret[t] \in ClientReturns \ {"none"} /\ conn[t] \in {"open", "gone"}
    BY Zenon, <1>1, <1>2 DEF TypeOK, TasksOK, InSubroutine, Sub
  <2>2. ret[t] \in ClientPoints \ (Sub \cup {"none"})
    BY Zenon, <2>1 DEF ClientReturns, ClientPoints, Sub, CleanupPoints, TeardownPoints
  <2>3. "none" \in ClientReturns
    BY Zenon DEF ClientReturns
  <2> QED
    BY Zenon, <1>2, <2>1, <2>2, <2>3, ClientMoves DEF Return, TypeOK, TasksOK
<1>3. CASE t \notin Clients
  <2>1. t = Main \/ t \in Cleaners
    BY Zenon, <1>3 DEF Tasks
  <2>2. t = Main => ret[t] \in MainReturns \ {"none"}
    BY Zenon, <1>1 DEF TypeOK, TasksOK, InSubroutine, Sub
  <2>3. /\ t = Main => ret[t] \in MainPoints \ Sub
        /\ t \in Cleaners => ret[t] = "none"
        /\ "none" \in ClientPoints /\ "none" \in MainReturns
    BY Zenon, <2>2 DEF TypeOK, TasksOK, MainReturns, MainPoints, ClientPoints, Sub,
       CleanupPoints, TeardownPoints
  <2>4. /\ pc' \in [Tasks -> ClientPoints \cup MainPoints]
        /\ ret' \in [Tasks -> ClientReturns \cup MainReturns]
    BY Zenon, <2>1, <2>3 DEF TypeOK, TasksOK, Return
  <2>5. /\ \A u \in Tasks : u # t => pc'[u] = pc[u] /\ ret'[u] = ret[u]
        /\ pc'[t] = ret[t] /\ ret'[t] = "none"
    BY Zenon DEF TypeOK, TasksOK, Return
  <2>6. Main \notin Cleaners
    BY Zenon, HelperAssumption DEF Distinct
  <2> QED
    BY <1>3, <2>1, <2>3, <2>4, <2>5, <2>6 DEF TypeOK, TasksOK, InSubroutine,
       Sub, Tasks
<1> QED
  BY Zenon, <1>2, <1>3

\* The end of the process.
LEMMA ProcessEndsType ==
  ASSUME TypeOK, NEW how \in {"stopped", "crashed"}, ProcessEnds(how)
  PROVE  TasksOK'
<1>1. /\ conn' \in [Clients -> {"none", "open", "gone", "lost"}]
      /\ \A c \in Clients : conn'[c] \notin {"open", "gone"}
  BY Zenon DEF TypeOK, TasksOK, ProcessEnds
<1>2. /\ how \in MainPoints /\ how \notin Sub
      /\ "none" \in ClientPoints /\ "none" \notin Sub
      /\ "none" \in ClientReturns /\ "none" \in MainReturns
  BY Zenon DEF MainPoints, ClientPoints, Sub, CleanupPoints, TeardownPoints,
     ClientReturns, MainReturns
<1>3. /\ pc' \in [Tasks -> ClientPoints \cup MainPoints]
      /\ ret' \in [Tasks -> ClientReturns \cup MainReturns]
  BY Zenon, <1>2 DEF TypeOK, TasksOK, ProcessEnds
<1>4. /\ pc'[Main] = how /\ ret'[Main] = "none"
      /\ \A c \in Clients : pc'[c] = "none" /\ ret'[c] = "none"
      /\ \A k \in Cleaners : pc'[k] = pc[k] /\ ret'[k] = ret[k]
  BY Zenon, HelperAssumption DEF ProcessEnds, Tasks, Distinct
<1> QED
  BY <1>1, <1>2, <1>3, <1>4 DEF TypeOK, TasksOK, InSubroutine, Sub

\* Start and Signal, which call from main, and CleanerStart.
LEMMA OutsideCall ==
  ASSUME TypeOK, Start \/ Signal \/ \E k \in Cleaners : CleanerStart(k)
  PROVE  TasksOK'
<1>1. Main \notin Clients /\ Main \notin Cleaners /\ Clients \cap Cleaners = {}
  BY Zenon, HelperAssumption DEF Distinct
<1>2. /\ {"c_revert", "t_revert"} \subseteq MainPoints \cap Sub
      /\ "c_revert" \in CleanupPoints
      /\ {"none", "listen", "exit"} \subseteq MainReturns
  BY Zenon DEF MainPoints, Sub, CleanupPoints, TeardownPoints, MainReturns
<1>3. CASE Start \/ Signal
  <2>1. PICK l \in {"c_revert", "t_revert"}, back \in {"listen", "exit"} :
           Call(Main, l, back) /\ UNCHANGED conn
    BY Zenon, <1>3 DEF Start, Signal
  <2>2. /\ pc' \in [Tasks -> ClientPoints \cup MainPoints]
        /\ ret' \in [Tasks -> ClientReturns \cup MainReturns]
        /\ pc'[Main] = l /\ ret'[Main] = back
        /\ \A u \in Tasks : u # Main => pc'[u] = pc[u] /\ ret'[u] = ret[u]
    BY Zenon, <1>2, <2>1 DEF TypeOK, TasksOK, Call, Tasks
  <2> QED
    BY <1>1, <1>2, <2>1, <2>2 DEF TypeOK, TasksOK, InSubroutine, Sub, Tasks
<1>4. ASSUME NEW k \in Cleaners, CleanerStart(k) PROVE TasksOK'
  <2>1. /\ pc' \in [Tasks -> ClientPoints \cup MainPoints]
        /\ pc'[k] = "c_revert" /\ ret' = ret
        /\ \A u \in Tasks : u # k => pc'[u] = pc[u]
    BY <1>2, <1>4 DEF TypeOK, TasksOK, CleanerStart, Call, Tasks
  <2> QED
    BY <1>1, <1>2, <1>4, <2>1 DEF TypeOK, TasksOK, InSubroutine, CleanerStart,
       Tasks
<1> QED
  BY Zenon, <1>3, <1>4

\* The task of a connection, at each of its steps.
LEMMA ClientTasks ==
  ASSUME TypeOK, NEW c \in Clients, HandleClient(c) \/ Peer(c)
  PROVE  TasksOK'
<1>1. c \in Tasks
  BY Zenon DEF Tasks
<1>2. /\ \A l \in {"c_revert", "c_nft", "c_link", "c_journal"} :
           l \in Sub /\ l \in CleanupPoints
      /\ "t_revert" \in Sub /\ "t_take" \in Sub
      /\ "t_revert" \notin CleanupPoints /\ "t_take" \notin CleanupPoints
      /\ {"recv", "reply", "e_reply"} \subseteq ClientPoints \ (Sub \cup {"none"})
      /\ FdPoints \subseteq ClientPoints \ (Sub \cup {"none"})
      /\ \A l \in {"recv", "reply", "e_reply", "t_done", "r_done", "a_create",
                   "end"} \cup FdPoints : l \notin Sub /\ l # "none"
  BY Zenon DEF Sub, CleanupPoints, TeardownPoints, ClientPoints, FdPoints
<1>3. CASE TeardownSession(c)
  BY Zenon, <1>1, <1>2, <1>3, SubroutineStep, ReturnStep DEF TeardownSession,
     CleanupStale, CleanupRevert, CleanupNft, CleanupLink, CleanupJournal,
     TeardownRevert, TeardownTake, InSubroutine, Sub
<1>4. CASE ApplySpec(c)
  BY Zenon, <1>2, <1>4, ClientGoto DEF ApplySpec, CreateTun, ConfigureTun, FlushTable,
     LoadTable, ApplyFails, ConfigureResolved, WriteJournal, SetState, ReplyFd,
     FdPoints, InSubroutine, Sub
<1>5. CASE Reply(c) \/ RecvPing(c) \/ TeardownDone(c)
  BY Zenon, <1>2, <1>5, ClientGoto DEF Reply, RecvPing, TeardownDone, InSubroutine, Sub
<1>6. CASE TaskEnds(c)
  BY Zenon, <1>2, <1>6, ClientEnds DEF TaskEnds, InSubroutine, Sub
<1>7. CASE Disconnected(c) \/ RecvMalformed(c)
  <2>1. pc[c] = "recv" /\ LeaveLoop(c) /\ "end" \in ClientReturns \ {"none"}
    BY Zenon, <1>7 DEF Disconnected, RecvMalformed, ClientReturns
  <2> QED
    BY Zenon, <1>2, <2>1, ClientEnds, ClientCall DEF LeaveLoop, InSubroutine, Sub
<1>8. CASE RecvTeardown(c) \/ RecvRestore(c) \/ RecvApply(c) \/ RestoreDone(c)
  <2>1. {"t_done", "r_done", "a_create", "reply"} \subseteq ClientReturns \ {"none"}
    BY Zenon DEF ClientReturns
  <2> QED
    BY Zenon, <1>2, <1>8, <2>1, ClientGoto, ClientCall DEF RecvTeardown, RecvRestore,
       RecvApply, RestoreDone, InSubroutine, Sub
<1>9. CASE Accept(c)
  <2>1. /\ conn' \in [Clients -> {"none", "open", "gone", "lost"}]
        /\ conn'[c] = "open" /\ \A d \in Clients : d # c => conn'[d] = conn[d]
    BY Zenon, <1>9 DEF Accept, TypeOK, TasksOK
  <2>2. pc[c] = "none" /\ "none" \notin Sub
    BY Zenon, <1>9 DEF Accept, TypeOK, TasksOK, Sub, CleanupPoints, TeardownPoints
  <2>3. ret' = [ret EXCEPT ![c] = "none"] /\ "none" \in ClientReturns
    BY Zenon, <1>1, <1>9, <2>2 DEF Accept, Goto, TypeOK, TasksOK, InSubroutine, Sub,
       ClientReturns
  <2> QED
    BY Zenon, <1>2, <1>9, <2>1, <2>3, ClientMoves DEF Accept, Goto
<1>10. CASE PeerClosesFd(c)
  BY Zenon, <1>10 DEF PeerClosesFd, TypeOK, TasksOK, InSubroutine
<1>11. CASE PeerGone(c)
  <2>1. /\ conn' \in [Clients -> {"none", "open", "gone", "lost"}]
        /\ \A d \in Clients : conn'[d] \in {"open", "gone"}
                                <=> conn[d] \in {"open", "gone"}
    BY Zenon, <1>11 DEF PeerGone, TypeOK, TasksOK
  <2> QED
    BY Zenon, <1>11, <2>1 DEF PeerGone, TypeOK, TasksOK, InSubroutine
<1> QED
  BY Zenon, <1>3, <1>4, <1>5, <1>6, <1>7, <1>8, <1>9, <1>10, <1>11
     DEF HandleClient, Peer

\* The shared objects, at each step.
LEMMA Objects == ASSUME TypeOK, [Next]_vars PROVE ObjectsOK'
<1> USE DEF TypeOK, ObjectsOK
<1>1. ASSUME NEW t \in Tasks, CleanupRevert(t) PROVE ObjectsOK'
  BY Zenon, <1>1 DEF CleanupRevert
<1>2. ASSUME NEW t \in Tasks, CleanupNft(t) PROVE ObjectsOK'
  BY Zenon, <1>2 DEF CleanupNft
<1>3. ASSUME NEW t \in Tasks, CleanupLink(t) PROVE ObjectsOK'
  BY Zenon, <1>3 DEF CleanupLink, LoseDevice
<1>4. ASSUME NEW t \in Tasks, CleanupJournal(t) PROVE ObjectsOK'
  BY Zenon, <1>4 DEF CleanupJournal
<1>5. ASSUME NEW t \in Tasks, TeardownRevert(t) PROVE ObjectsOK'
  BY Zenon, <1>5 DEF TeardownRevert
<1>6. ASSUME NEW t \in Tasks, TeardownTake(t) PROVE ObjectsOK'
  BY Zenon, <1>6 DEF TeardownTake, kernel
<1>7. CASE Start
  BY Zenon, <1>7 DEF Start, kernel
<1>8. CASE Signal
  BY Zenon, <1>8 DEF Signal, kernel
<1>9. CASE Exit
  BY Zenon, <1>9 DEF Exit, ProcessEnds, LoseDevice
<1>10. CASE Crash
  <2>1. crashes' \in 0..MaxCrashes
    BY <1>10, HelperAssumption DEF Crash
  <2>2. ProcessEnds("crashed")
    BY Zenon, <1>10 DEF Crash
  <2>3. /\ tun' \in Clients \cup {None} /\ dns' \in BOOLEAN
        /\ dns' => tun' # None
    BY Zenon, <2>2 DEF ProcessEnds, LoseDevice
  <2> QED
    BY Zenon, <2>1, <2>2, <2>3 DEF ProcessEnds
<1>11. ASSUME NEW k \in Cleaners, CleanerStart(k) PROVE ObjectsOK'
  BY Zenon, <1>11 DEF CleanerStart, kernel
<1>12. ASSUME NEW c \in Clients, Accept(c) PROVE ObjectsOK'
  BY Zenon, <1>12 DEF Accept, kernel
<1>13. ASSUME NEW c \in Clients, PeerClosesFd(c) PROVE ObjectsOK'
  BY Zenon, <1>13 DEF PeerClosesFd, CloseLastFd, LoseDevice
<1>14. ASSUME NEW c \in Clients, PeerGone(c) PROVE ObjectsOK'
  BY Zenon, <1>14 DEF PeerGone, CloseLastFd, LoseDevice
<1>15. ASSUME NEW c \in Clients, Disconnected(c) PROVE ObjectsOK'
  BY Zenon, <1>15 DEF Disconnected, LeaveLoop, kernel
<1>16. ASSUME NEW c \in Clients, RecvMalformed(c) PROVE ObjectsOK'
  BY Zenon, <1>16 DEF RecvMalformed, LeaveLoop, kernel
<1>17. ASSUME NEW c \in Clients, RecvPing(c) PROVE ObjectsOK'
  BY Zenon, <1>17 DEF RecvPing, kernel
<1>18. ASSUME NEW c \in Clients, RecvTeardown(c) PROVE ObjectsOK'
  BY Zenon, <1>18 DEF RecvTeardown, kernel
<1>19. ASSUME NEW c \in Clients, RecvRestore(c) PROVE ObjectsOK'
  BY Zenon, <1>19 DEF RecvRestore, kernel
<1>20. ASSUME NEW c \in Clients, RecvApply(c) PROVE ObjectsOK'
  BY Zenon, <1>20 DEF RecvApply, kernel
<1>21. ASSUME NEW c \in Clients, TaskEnds(c) PROVE ObjectsOK'
  BY Zenon, <1>21 DEF TaskEnds, kernel
<1>22. ASSUME NEW c \in Clients, TeardownDone(c) PROVE ObjectsOK'
  BY Zenon, <1>22 DEF TeardownDone, kernel
<1>23. ASSUME NEW c \in Clients, RestoreDone(c) PROVE ObjectsOK'
  BY Zenon, <1>23 DEF RestoreDone, kernel
<1>24. ASSUME NEW c \in Clients, Reply(c) PROVE ObjectsOK'
  BY Zenon, <1>24 DEF Reply, kernel
<1>25. ASSUME NEW c \in Clients, CreateTun(c) PROVE ObjectsOK'
  BY Zenon, <1>25 DEF CreateTun
<1>26. ASSUME NEW c \in Clients, ConfigureTun(c) PROVE ObjectsOK'
  BY Zenon, <1>26 DEF ConfigureTun, kernel
<1>27. ASSUME NEW c \in Clients, FlushTable(c) PROVE ObjectsOK'
  BY Zenon, <1>27 DEF FlushTable
<1>28. ASSUME NEW c \in Clients, LoadTable(c) PROVE ObjectsOK'
  BY Zenon, <1>28 DEF LoadTable
<1>29. ASSUME NEW c \in Clients, ApplyFails(c) PROVE ObjectsOK'
  BY Zenon, <1>29 DEF ApplyFails, LoseDevice
<1>30. ASSUME NEW c \in Clients, ConfigureResolved(c) PROVE ObjectsOK'
  BY Zenon, <1>30 DEF ConfigureResolved
<1>31. ASSUME NEW c \in Clients, WriteJournal(c) PROVE ObjectsOK'
  BY Zenon, <1>31 DEF WriteJournal, CloseLastFd, LoseDevice
<1>32. ASSUME NEW c \in Clients, SetState(c) PROVE ObjectsOK'
  BY Zenon, <1>32 DEF SetState, kernel
<1>33. ASSUME NEW c \in Clients, ReplyFd(c) PROVE ObjectsOK'
  BY Zenon, <1>33 DEF ReplyFd, CloseLastFd, LoseDevice
<1>34. CASE UNCHANGED vars
  BY Zenon, <1>34 DEF vars
<1> HIDE DEF TypeOK, ObjectsOK
<1> QED
  BY Zenon, <1>1, <1>2, <1>3, <1>4, <1>5, <1>6, <1>7, <1>8, <1>9, <1>10, <1>11, <1>12,
     <1>13, <1>14, <1>15, <1>16, <1>17, <1>18, <1>19, <1>20, <1>21, <1>22,
     <1>23, <1>24, <1>25, <1>26, <1>27, <1>28, <1>29, <1>30, <1>31, <1>32,
     <1>33, <1>34 DEF Tasks, Next, MainStep, CleanerStep, HandleClient, Peer,
     ApplySpec, TeardownSession, CleanupStale

\* No step of the helper or of a peer leaves the types, returns to an unknown
\* point, or separates a connection from its task.
LEMMA TypeStep == TypeOK /\ [Next]_vars => TypeOK'
<1> SUFFICES ASSUME TypeOK, [Next]_vars PROVE TasksOK'
  BY Zenon, Objects DEF TypeOK
<1>1. ASSUME NEW t \in Tasks, TeardownSession(t),
             t \in Cleaners => CleanupStale(t)
      PROVE  TasksOK'
  <2>1. /\ {"c_revert", "c_nft", "c_link", "c_journal"} \subseteq CleanupPoints
        /\ {"t_revert", "t_take"} \cap CleanupPoints = {}
        /\ CleanupPoints \subseteq Sub /\ {"t_revert", "t_take"} \subseteq Sub
    BY Zenon DEF CleanupPoints, Sub, TeardownPoints
  <2> QED
    BY Zenon, <1>1, <2>1, SubroutineStep, ReturnStep DEF TeardownSession,
       CleanupStale, CleanupRevert, CleanupNft, CleanupLink, CleanupJournal,
       TeardownRevert, TeardownTake, InSubroutine, Sub
<1>2. CASE MainStep
  BY Zenon, <1>1, <1>2, OutsideCall, ProcessEndsType, HelperAssumption
     DEF MainStep, Exit, Crash, Distinct, Tasks
<1>3. ASSUME NEW k \in Cleaners, CleanerStep(k) PROVE TasksOK'
  BY Zenon, <1>1, <1>3, OutsideCall DEF CleanerStep, TeardownSession, Tasks
<1>4. ASSUME NEW c \in Clients, HandleClient(c) \/ Peer(c) PROVE TasksOK'
  BY Zenon, <1>4, ClientTasks
<1>5. CASE UNCHANGED vars
  BY Zenon, <1>5 DEF vars, TypeOK, TasksOK, InSubroutine
<1> QED
  BY Zenon, <1>2, <1>3, <1>4, <1>5 DEF Next

LEMMA InitType == Init => TypeOK
<1> SUFFICES ASSUME Init PROVE TypeOK
  BY Zenon
<1>1. /\ "none" \in ClientPoints /\ "none" \in ClientReturns
      /\ "none" \in MainReturns /\ "none" \notin Sub
      /\ "stopped" \in MainPoints /\ "stopped" \notin Sub
  BY Zenon DEF ClientPoints, MainPoints, ClientReturns, MainReturns, Sub,
     CleanupPoints, TeardownPoints
<1>2. /\ pc \in [Tasks -> ClientPoints \cup MainPoints]
      /\ ret \in [Tasks -> ClientReturns \cup MainReturns]
  BY Zenon, <1>1 DEF Init
<1>3. /\ pc[Main] = "stopped" /\ \A c \in Clients : pc[c] = "none"
      /\ \A k \in Cleaners : pc[k] = "none"
      /\ \A t \in Tasks : ret[t] = "none"
  BY Zenon, HelperAssumption DEF Init, Distinct, Tasks
<1>4. /\ conn \in [Clients -> {"none", "open", "gone", "lost"}]
      /\ \A c \in Clients : conn[c] = "none"
  BY Zenon DEF Init
<1>5. TasksOK
  BY Zenon, <1>1, <1>2, <1>3, <1>4 DEF TasksOK, InSubroutine, Sub, Tasks
<1>6. crashes \in 0..MaxCrashes
  BY HelperAssumption DEF Init
<1>7. ObjectsOK
  BY Zenon, <1>6 DEF Init, ObjectsOK
<1> QED
  BY Zenon, <1>5, <1>7 DEF TypeOK

\* Every variable keeps its type, every subroutine of handle_client and main
\* knows its return point, and a connection has a task exactly while the
\* helper holds its stream: however many connections there are.
THEOREM TypeCorrect == Spec => []TypeOK
<1> QED
  BY InitType, TypeStep, PTL DEF Spec

\* A connection's task and its peer move no other task.
LEMMA OnlyOwnTask ==
  ASSUME TypeOK, NEW c \in Clients, HandleClient(c) \/ Peer(c),
         NEW u \in Tasks, u # c
  PROVE  pc'[u] = pc[u] /\ ret'[u] = ret[u]
<1>1. /\ pc \in [Tasks -> ClientPoints \cup MainPoints]
      /\ ret \in [Tasks -> ClientReturns \cup MainReturns]
      /\ c \in Tasks
  BY Zenon DEF TypeOK, TasksOK, Tasks
<1>2. CASE TeardownSession(c)
  BY Zenon, <1>1, <1>2 DEF TeardownSession, CleanupStale, CleanupRevert, CleanupNft,
     CleanupLink, CleanupJournal, TeardownRevert, TeardownTake, Goto, Return
<1>3. CASE ApplySpec(c)
  BY Zenon, <1>1, <1>3 DEF ApplySpec, CreateTun, ConfigureTun, FlushTable, LoadTable,
     ApplyFails, ConfigureResolved, WriteJournal, SetState, ReplyFd, Goto
<1>4. CASE \/ Disconnected(c) \/ TaskEnds(c) \/ TeardownDone(c)
          \/ RestoreDone(c) \/ Reply(c)
  BY Zenon, <1>1, <1>4 DEF Disconnected, TaskEnds, TeardownDone, RestoreDone, Reply,
     LeaveLoop, Goto, Call
<1>5. CASE Peer(c)
  BY Zenon, <1>1, <1>5 DEF Peer, Accept, PeerClosesFd, PeerGone, RecvMalformed,
     RecvPing, RecvTeardown, RecvRestore, RecvApply, LeaveLoop, Goto, Call
<1> QED
  BY Zenon, <1>2, <1>3, <1>4, <1>5 DEF HandleClient

\* Nor do they create objects in another connection's name.
LEMMA OnlyOwnObjects ==
  ASSUME NEW c \in Clients, HandleClient(c) \/ Peer(c)
  PROVE  nft' \subseteq nft \cup {c} /\ tun' \in {tun, None, c}
<1>1. CASE TeardownSession(c)
  BY Zenon, <1>1 DEF TeardownSession, CleanupStale, CleanupRevert, CleanupNft,
     CleanupLink, CleanupJournal, TeardownRevert, TeardownTake, LoseDevice,
     kernel
<1>2. CASE ApplySpec(c)
  BY Zenon, <1>2 DEF ApplySpec, CreateTun, ConfigureTun, FlushTable, LoadTable,
     ApplyFails, ConfigureResolved, WriteJournal, SetState, ReplyFd,
     LoseDevice, CloseLastFd, kernel
<1>3. CASE \/ Disconnected(c) \/ TaskEnds(c) \/ TeardownDone(c)
          \/ RestoreDone(c) \/ Reply(c)
  BY Zenon, <1>3 DEF Disconnected, TaskEnds, TeardownDone, RestoreDone, Reply, kernel
<1>4. CASE Peer(c)
  BY Zenon, <1>4 DEF Peer, Accept, PeerClosesFd, PeerGone, RecvMalformed, RecvPing,
     RecvTeardown, RecvRestore, RecvApply, CloseLastFd, LoseDevice, kernel
<1> QED
  BY Zenon, <1>1, <1>2, <1>3, <1>4 DEF HandleClient

-----------------------------------------------------------------------------
(* Recovery.                                                               *)

LEMMA StartStep == StartInv /\ [Next]_vars => StartInv'
<1> SUFFICES ASSUME StartInv, [Next]_vars PROVE StartInv'
  BY Zenon
<1>1. TypeOK /\ TypeOK'
  BY Zenon, TypeStep DEF StartInv
<1>2. /\ pc \in [Tasks -> ClientPoints \cup MainPoints]
      /\ ret \in [Tasks -> ClientReturns \cup MainReturns]
      /\ Main \in Tasks /\ Clients \subseteq Tasks
      /\ Main \notin Clients /\ Main \notin Cleaners
  BY Zenon, <1>1, HelperAssumption DEF TypeOK, TasksOK, Tasks, Distinct
<1>3. \A c \in Clients : pc'[c] = "none" => conn'[c] \in {"none", "lost"}
  BY Zenon, <1>1 DEF TypeOK, TasksOK
<1>4. CASE Start
  BY Zenon, <1>1, <1>2, <1>3, <1>4 DEF Start, Call, StartInv, CleanStart, Down,
     Starting, CleanupPoints
<1>5. CASE Exit \/ Crash
  BY Zenon, <1>1, <1>2, <1>5 DEF Exit, Crash, ProcessEnds, StartInv, CleanStart,
     Down, Starting, Tasks
<1>6. CASE Signal
  BY Zenon, <1>1, <1>2, <1>6 DEF Signal, Call, StartInv, CleanStart, Down, Starting
<1>7. CASE TeardownSession(Main)
  <2>1. CASE CleanupJournal(Main)
    <3>1. ret[Main] \in {"listen", "exit"}
      BY Zenon, <1>1, <2>1 DEF CleanupJournal, TypeOK, TasksOK, InSubroutine,
         CleanupPoints, MainReturns
    <3> QED
      BY Zenon, <1>1, <1>2, <2>1, <3>1 DEF CleanupJournal, Return, StartInv,
         CleanStart, Down, Starting
  <2>2. CASE CleanupRevert(Main) \/ CleanupNft(Main) \/ CleanupLink(Main)
    <3>1. pc[Main] \notin {"crashed", "stopped"}
      BY Zenon, <2>2 DEF CleanupRevert, CleanupNft, CleanupLink
    <3>2. /\ ret' = ret /\ UNCHANGED <<state, owns>>
          /\ pc'[Main] \in {"c_nft", "c_link", "c_journal"}
          /\ \A c \in Clients : pc'[c] = pc[c]
      BY Zenon, <1>2, <2>2 DEF CleanupRevert, CleanupNft, CleanupLink, Goto
    <3>3. Starting => CleanStart'
      <4>1. CASE CleanupRevert(Main)
        BY Zenon, <1>2, <1>3, <3>2, <4>1 DEF CleanupRevert, Goto, StartInv, Down,
           Starting, CleanStart
      <4>2. CASE CleanupNft(Main)
        BY Zenon, <1>2, <1>3, <3>2, <4>2 DEF CleanupNft, Goto, StartInv, Down,
           Starting, CleanStart
      <4>3. CASE CleanupLink(Main)
        BY Zenon, <1>2, <1>3, <3>2, <4>3 DEF CleanupLink, LoseDevice, Goto, StartInv,
           Down, Starting, CleanStart
      <4> QED
        BY Zenon, <2>2, <4>1, <4>2, <4>3
    <3> QED
      BY Zenon, <1>1, <3>1, <3>2, <3>3 DEF StartInv, CleanStart, Down, Starting,
         CleanupPoints
  <2>3. CASE TeardownRevert(Main) \/ TeardownTake(Main)
    BY Zenon, <1>1, <1>2, <2>3 DEF TeardownRevert, TeardownTake, Goto, StartInv,
       CleanStart, Down, Starting, CleanupPoints
  <2> QED
    BY Zenon, <1>7, <2>1, <2>2, <2>3 DEF TeardownSession, CleanupStale
<1>8. ASSUME NEW k \in Cleaners, CleanerStep(k) PROVE StartInv'
  <2>1. k \in Tasks /\ k # Main /\ k \notin Clients
    BY Zenon, HelperAssumption DEF Distinct, Tasks
  <2>2. /\ \A u \in Tasks : u # k => pc'[u] = pc[u] /\ ret'[u] = ret[u]
        /\ UNCHANGED <<conn, owns, state>>
        /\ nft' \in {nft, {}}
        /\ UNCHANGED <<tun, dns>> \/ (~dns' /\ tun' \in {tun, None})
    BY Zenon, <1>2, <1>8, <2>1 DEF CleanerStep, CleanerStart, CleanupStale,
       CleanupRevert, CleanupNft, CleanupLink, CleanupJournal, LoseDevice,
       Goto, Call, Return, kernel
  <2> QED
    BY <1>1, <1>2, <2>1, <2>2 DEF StartInv, CleanStart, Down, Starting
<1>9. ASSUME NEW c \in Clients, HandleClient(c) \/ Peer(c) PROVE StartInv'
  <2>1. pc'[Main] = pc[Main] /\ ret'[Main] = ret[Main]
    BY Zenon, <1>1, <1>2, <1>9, OnlyOwnTask
  <2>2. CASE ~Down
    BY Zenon, <1>1, <2>1, <2>2 DEF StartInv, CleanStart, Down, Starting
  <2>3. CASE Down
    <3>1. pc[c] = "none" /\ pc[Main] # "listen"
      BY Zenon, <2>3 DEF StartInv, Down, CleanupPoints
    <3>2. PeerClosesFd(c) \/ PeerGone(c)
      BY Zenon, <1>9, <3>1 DEF HandleClient, Peer, TeardownSession, CleanupStale,
         ApplySpec, CleanupRevert, CleanupNft, CleanupLink, CleanupJournal,
         TeardownRevert, TeardownTake, TaskEnds, TeardownDone, RestoreDone,
         CreateTun, ConfigureTun, FlushTable, LoadTable, ApplyFails,
         ConfigureResolved, WriteJournal, SetState, ReplyFd, RecvMalformed,
         RecvTeardown, RecvRestore, RecvApply, RecvPing, Reply, Disconnected,
         Accept
    <3>3. /\ UNCHANGED <<pc, ret, owns, state, nft>>
          /\ UNCHANGED <<tun, dns>> \/ (~dns' /\ tun' = None)
      BY Zenon, <3>2 DEF PeerClosesFd, PeerGone, CloseLastFd, LoseDevice
    <3> QED
      BY <1>1, <1>3, <3>3 DEF StartInv, CleanStart, Down, Starting
  <2> QED
    BY Zenon, <2>2, <2>3
<1>10. CASE UNCHANGED vars
  BY Zenon, <1>1, <1>10 DEF vars, StartInv, CleanStart, Down, Starting
<1> QED
  BY Zenon, <1>4, <1>5, <1>6, <1>7, <1>8, <1>9, <1>10 DEF Next, MainStep

\* Wherever the process was killed and whatever --cleanup-and-exit processes do
\* meanwhile, main begins to accept only when the table, the device, the DNS
\* settings and the session of the previous process are gone.
THEOREM StartIsClean == Spec => []CleanStart
<1>1. Init => StartInv
  BY Zenon, InitType, HelperAssumption DEF Init, StartInv, CleanStart, Down, Starting,
     Tasks, Distinct
<1>2. StartInv => CleanStart
  BY Zenon DEF StartInv
<1> QED
  BY <1>1, <1>2, StartStep, PTL DEF Spec

-----------------------------------------------------------------------------
(* Rollback.                                                               *)

RolledBack(c) == (NoRules(c) => c \notin nft) /\ (NoDevice(c) => tun # c)

\* The task of a connection keeps its own rollback.
LEMMA OwnRollback ==
  ASSUME TypeOK, ~JournalCanFail, NEW c \in Clients, RolledBack(c),
         HandleClient(c) \/ Peer(c)
  PROVE  RolledBack(c)'
<1>1. /\ pc \in [Tasks -> ClientPoints \cup MainPoints]
      /\ ret \in [Tasks -> ClientReturns \cup MainReturns]
      /\ c \in Tasks /\ c # None
  BY Zenon, HelperAssumption DEF TypeOK, TasksOK, Tasks, Distinct
<1>2. CASE CleanupJournal(c)
  <2>1. ret[c] \in {"end", "t_done", "r_done", "reply", "a_create"}
    BY Zenon, <1>2 DEF CleanupJournal, TypeOK, TasksOK, InSubroutine, ClientReturns,
       CleanupPoints
  <2> QED
    BY Zenon, <1>1, <1>2, <2>1 DEF CleanupJournal, Return, RolledBack, NoRules,
       NoDevice
<1>3. CASE \/ CleanupRevert(c) \/ CleanupNft(c) \/ CleanupLink(c)
           \/ TeardownRevert(c) \/ TeardownTake(c)
  BY Zenon, <1>1, <1>3 DEF CleanupRevert, CleanupNft, CleanupLink, TeardownRevert,
     TeardownTake, LoseDevice, Goto, kernel, RolledBack, NoRules, NoDevice
<1>4. CASE CreateTun(c) \/ ConfigureTun(c) \/ FlushTable(c) \/ LoadTable(c)
  BY Zenon, <1>1, <1>4 DEF CreateTun, ConfigureTun, FlushTable, LoadTable, Goto,
     kernel, RolledBack, NoRules, NoDevice
<1>5. CASE ApplyFails(c) \/ ConfigureResolved(c) \/ SetState(c) \/ ReplyFd(c)
  BY Zenon, <1>1, <1>5 DEF ApplyFails, ConfigureResolved, SetState, ReplyFd, Goto,
     LoseDevice, kernel, RolledBack, NoRules, NoDevice
<1>6. CASE WriteJournal(c)
  BY Zenon, <1>1, <1>6 DEF WriteJournal, Goto, RolledBack, NoRules, NoDevice
<1>7. CASE \/ Disconnected(c) \/ RecvMalformed(c) \/ TaskEnds(c)
          \/ TeardownDone(c) \/ RestoreDone(c) \/ Reply(c)
  BY Zenon, <1>1, <1>7 DEF Disconnected, RecvMalformed, TaskEnds, TeardownDone,
     RestoreDone, Reply, LeaveLoop, Goto, Call, RolledBack, NoRules, NoDevice
<1>8. CASE \/ Accept(c) \/ RecvPing(c) \/ RecvTeardown(c) \/ RecvRestore(c)
           \/ RecvApply(c)
  BY Zenon, <1>1, <1>8 DEF Accept, RecvPing, RecvTeardown, RecvRestore, RecvApply,
     Goto, Call, RolledBack, NoRules, NoDevice
<1>9. CASE PeerClosesFd(c) \/ PeerGone(c)
  BY Zenon, <1>1, <1>9 DEF PeerClosesFd, PeerGone, CloseLastFd, LoseDevice,
     RolledBack, NoRules, NoDevice
<1> QED
  BY Zenon, <1>2, <1>3, <1>4, <1>5, <1>6, <1>7, <1>8, <1>9 DEF HandleClient, Peer,
     ApplySpec, TeardownSession, CleanupStale

LEMMA RollbackStep ==
  ASSUME ~JournalCanFail
  PROVE  RollbackInv /\ [Next]_vars => RollbackInv'
<1> SUFFICES ASSUME RollbackInv, [Next]_vars, NEW e \in Clients
             PROVE  RolledBack(e)'
  BY Zenon, TypeStep DEF RollbackInv, RolledBack
<1>1. TypeOK /\ RolledBack(e)
  BY Zenon DEF RollbackInv, RolledBack
<1>2. /\ pc \in [Tasks -> ClientPoints \cup MainPoints]
      /\ ret \in [Tasks -> ClientReturns \cup MainReturns]
      /\ e \in Tasks /\ e # Main /\ e \notin Cleaners /\ e # None
  BY Zenon, <1>1, HelperAssumption DEF TypeOK, TasksOK, Tasks, Distinct
<1>3. ASSUME NEW t \in Tasks, t # e, TeardownSession(t) PROVE RolledBack(e)'
  <2>1. /\ pc'[e] = pc[e] /\ ret'[e] = ret[e]
        /\ nft' \in {nft, {}} /\ tun' \in {tun, None}
    BY Zenon, <1>2, <1>3 DEF TeardownSession, CleanupStale, CleanupRevert, CleanupNft,
       CleanupLink, CleanupJournal, TeardownRevert, TeardownTake, LoseDevice,
       Goto, Return, kernel
  <2> QED
    BY Zenon, <1>1, <1>2, <2>1 DEF RolledBack, NoRules, NoDevice
<1>4. CASE Exit \/ Crash
  <2>1. pc'[e] = "none"
    BY Zenon, <1>2, <1>4 DEF Exit, Crash, ProcessEnds
  <2> QED
    BY Zenon, <2>1 DEF RolledBack, NoRules, NoDevice
<1>5. CASE Start \/ Signal \/ \E k \in Cleaners : CleanerStart(k)
  <2>1. pc'[e] = pc[e] /\ ret'[e] = ret[e] /\ UNCHANGED <<nft, tun>>
    BY Zenon, <1>2, <1>5 DEF Start, Signal, CleanerStart, Call, kernel, Tasks
  <2> QED
    BY Zenon, <1>1, <2>1 DEF RolledBack, NoRules, NoDevice
<1>6. ASSUME NEW c \in Clients, HandleClient(c) \/ Peer(c) PROVE RolledBack(e)'
  <2>1. CASE c = e
    BY Zenon, <1>1, <1>6, <2>1, OwnRollback
  <2>2. CASE c # e
    <3>1. pc'[e] = pc[e] /\ ret'[e] = ret[e]
      BY Zenon, <1>1, <1>2, <1>6, <2>2, OnlyOwnTask
    <3>2. nft' \subseteq nft \cup {c} /\ tun' \in {tun, None, c}
      BY Zenon, <1>6, OnlyOwnObjects
    <3> QED
      BY Zenon, <1>1, <1>2, <2>2, <3>1, <3>2 DEF RolledBack, NoRules, NoDevice
  <2> QED
    BY Zenon, <2>1, <2>2
<1>7. CASE UNCHANGED vars
  BY Zenon, <1>1, <1>7 DEF vars, RolledBack, NoRules, NoDevice
<1> QED
  BY Zenon, <1>2, <1>3, <1>4, <1>5, <1>6, <1>7 DEF Next, MainStep, CleanerStep,
     TeardownSession, Tasks

\* Of any number of connections that apply, tear down and restore at the same
\* time, none reports a failed Apply with its own rules or device still there,
\* provided that write_journal, the one step without a rollback, succeeds.
THEOREM FailureRollsBack ==
  ASSUME ~JournalCanFail
  PROVE  Spec => []FailedApplyRollsBack
<1>1. Init => RollbackInv
  BY Zenon, InitType, HelperAssumption DEF Init, RollbackInv, NoRules, NoDevice,
     Tasks, Distinct
<1>2. RollbackInv => FailedApplyRollsBack
  BY Zenon DEF RollbackInv, FailedApplyRollsBack, NoRules, NoDevice
<1>3. RollbackInv /\ [Next]_vars => RollbackInv'
  BY Zenon, RollbackStep
<1> QED
  BY <1>1, <1>2, <1>3, PTL DEF Spec

-----------------------------------------------------------------------------
(* The session and the cleanup contract when one connection controls the   *)
(* helper and any number of others are health checks.                      *)

\* Strengthens SessionIsApplied and NothingLeftBehind: the state at each point
\* of the one controlling task.
Clean == nft = {} /\ tun = None /\ ~dns /\ ~journal

Idle(c)   == state = None /\ Clean /\ ~owns[c]
Active(c) == state = c /\ nft = {c} /\ journal /\ owns[c]

Controls(c) ==
    /\ state \in {None, c}
    /\ pc[c] \in {"none", "a_create", "e_reply"} => Idle(c)
    /\ pc[c] \in {"recv", "reply"} => Idle(c) \/ Active(c)
    /\ pc[c] = "a_reply" => Active(c)
    /\ pc[c] \in {"t_done", "r_done", "end"} => state = None /\ Clean
    /\ pc[c] \in {"a_configure", "a_flush", "a_load", "e_link"} =>
         state = None /\ ~owns[c] /\ nft = {} /\ ~journal
    /\ pc[c] \in {"a_resolved", "a_journal", "a_state"} =>
         state = None /\ ~owns[c] /\ nft = {c}
    /\ pc[c] = "a_state" => journal
    /\ pc[c] \in TeardownPoints => ret[c] \in {"end", "t_done", "r_done"}
    /\ pc[c] \in CleanupPoints =>
         state = None /\ (ret[c] \in {"a_create", "reply"} => ~owns[c])
    /\ pc[c] \in {"c_link", "c_journal"} => nft = {}
    /\ pc[c] = "c_journal" => tun = None

SessionInv ==
    /\ StartInv
    /\ \A c \in Clients : HealthCheck(c) =>
          pc[c] \in {"none", "recv", "reply"} /\ ~owns[c]
    /\ pc[Main] = "listen" =>
          /\ \A c \in Clients : HealthCheck(c) \/ Controls(c)
          /\ (\A c \in Clients : HealthCheck(c)) => state = None /\ Clean
-----------------------------------------------------------------------------

\* A health check never enters a subroutine, never owns a session and changes
\* no object; at most it is the last to close a device.
LEMMA HealthCheckStep ==
  ASSUME SessionInv, NEW c \in Clients, HealthCheck(c),
         HandleClient(c) \/ Peer(c)
  PROVE  /\ UNCHANGED <<state, nft, journal, owns>>
         /\ UNCHANGED <<tun, dns>> \/ (tun' = None /\ dns' = FALSE)
         /\ pc'[c] \in {"none", "recv", "reply"}
<1>1. /\ pc[c] \in {"none", "recv", "reply"} /\ ~owns[c]
      /\ Requests[c] \subseteq {"Ping"}
  BY Zenon DEF SessionInv, HealthCheck
<1>2. pc \in [Tasks -> ClientPoints \cup MainPoints] /\ c \in Tasks
  BY Zenon DEF SessionInv, StartInv, TypeOK, TasksOK, Tasks
<1>3. ~TeardownSession(c) /\ ~ApplySpec(c)
  BY Zenon, <1>1 DEF TeardownSession, CleanupStale, ApplySpec, CleanupRevert,
     CleanupNft, CleanupLink, CleanupJournal, TeardownRevert, TeardownTake,
     CreateTun, ConfigureTun, FlushTable, LoadTable, ApplyFails,
     ConfigureResolved, WriteJournal, SetState, ReplyFd
<1>4. /\ ~TaskEnds(c) /\ ~TeardownDone(c) /\ ~RestoreDone(c)
      /\ ~RecvMalformed(c) /\ ~RecvTeardown(c) /\ ~RecvRestore(c)
      /\ ~RecvApply(c)
  BY Zenon, <1>1 DEF TaskEnds, TeardownDone, RestoreDone, RecvMalformed, RecvTeardown,
     RecvRestore, RecvApply
<1>5. CASE Accept(c) \/ RecvPing(c) \/ Reply(c)
  BY Zenon, <1>2, <1>5 DEF Accept, RecvPing, Reply, Goto, kernel
<1>6. CASE Disconnected(c)
  BY Zenon, <1>1, <1>2, <1>6 DEF Disconnected, LeaveLoop, Goto, kernel
<1>7. CASE PeerClosesFd(c) \/ PeerGone(c)
  BY Zenon, <1>1, <1>7 DEF PeerClosesFd, PeerGone, CloseLastFd, LoseDevice
<1> QED
  BY Zenon, <1>3, <1>4, <1>5, <1>6, <1>7 DEF HandleClient, Peer

\* Every step of the controlling connection itself follows its table.
LEMMA ControllerStep ==
  ASSUME TypeOK, ~JournalCanFail, NEW e \in Clients, Controls(e),
         HandleClient(e) \/ Peer(e)
  PROVE  Controls(e)'
<1>1. /\ pc \in [Tasks -> ClientPoints \cup MainPoints]
      /\ ret \in [Tasks -> ClientReturns \cup MainReturns]
      /\ owns \in [Clients -> BOOLEAN]
      /\ e \in Tasks /\ e # None /\ (dns => tun # None)
  BY Zenon, HelperAssumption DEF TypeOK, TasksOK, ObjectsOK, Tasks, Distinct
<1> USE <1>1 DEF Controls, Idle, Active, Clean, CleanupPoints, TeardownPoints
<1>2. CASE CleanupRevert(e)
  BY Zenon, <1>2 DEF CleanupRevert, Goto
<1>3. CASE CleanupNft(e)
  BY Zenon, <1>3 DEF CleanupNft, Goto
<1>4. CASE CleanupLink(e)
  BY Zenon, <1>4 DEF CleanupLink, Goto, LoseDevice
<1>5. CASE CleanupJournal(e)
  <2>1. ret[e] \in {"end", "t_done", "r_done", "reply", "a_create"}
    BY Zenon, <1>5 DEF CleanupJournal, TypeOK, TasksOK, InSubroutine, ClientReturns
  <2>2. state' = None /\ Clean' /\ pc'[e] = ret[e] /\ owns' = owns
    BY Zenon, <1>5 DEF CleanupJournal, Return
  <2>3. CASE ret[e] \in {"end", "t_done", "r_done"}
    BY Zenon, <2>2, <2>3
  <2>4. CASE ret[e] \in {"reply", "a_create"}
    BY Zenon, <1>5, <2>2, <2>4 DEF CleanupJournal
  <2> QED
    BY Zenon, <2>1, <2>3, <2>4
<1>6. CASE TeardownRevert(e)
  BY Zenon, <1>6 DEF TeardownRevert, Goto
<1>7. CASE TeardownTake(e)
  BY Zenon, <1>7 DEF TeardownTake, Goto, kernel
<1>8. CASE Accept(e)
  <2>1. pc[e] = "none"
    BY Zenon, <1>8 DEF Accept, TypeOK, TasksOK
  <2> QED
    BY Zenon, <1>8, <2>1 DEF Accept, Goto, kernel
<1>9. CASE PeerClosesFd(e)
  BY Zenon, <1>9 DEF PeerClosesFd, CloseLastFd, LoseDevice
<1>10. CASE PeerGone(e)
  BY Zenon, <1>10 DEF PeerGone, CloseLastFd, LoseDevice
<1>11. CASE Disconnected(e)
  BY Zenon, <1>11 DEF Disconnected, LeaveLoop, Goto, Call, kernel
<1>12. CASE RecvMalformed(e)
  BY Zenon, <1>12 DEF RecvMalformed, LeaveLoop, Goto, Call, kernel
<1>13. CASE RecvPing(e)
  BY Zenon, <1>13 DEF RecvPing, Goto, kernel
<1>14. CASE RecvTeardown(e)
  BY Zenon, <1>14 DEF RecvTeardown, Call, kernel
<1>15. CASE RecvRestore(e)
  BY Zenon, <1>15 DEF RecvRestore, Call, kernel
<1>16. CASE RecvApply(e)
  BY Zenon, <1>16 DEF RecvApply, Call, Goto, kernel
<1>17. CASE TaskEnds(e)
  BY Zenon, <1>17 DEF TaskEnds, Goto, kernel
<1>18. CASE TeardownDone(e)
  BY Zenon, <1>18 DEF TeardownDone, Goto, kernel
<1>19. CASE RestoreDone(e)
  BY Zenon, <1>19 DEF RestoreDone, Call, kernel
<1>20. CASE Reply(e)
  BY Zenon, <1>20 DEF Reply, Goto, kernel
<1>21. CASE CreateTun(e)
  BY Zenon, <1>21 DEF CreateTun, Goto
<1>22. CASE ConfigureTun(e)
  BY Zenon, <1>22 DEF ConfigureTun, Goto, kernel
<1>23. CASE FlushTable(e)
  BY Zenon, <1>23 DEF FlushTable, Goto
<1>24. CASE LoadTable(e)
  BY Zenon, <1>24 DEF LoadTable, Goto
<1>25. CASE ApplyFails(e)
  BY Zenon, <1>25 DEF ApplyFails, Goto, LoseDevice
<1>26. CASE ConfigureResolved(e)
  BY Zenon, <1>26 DEF ConfigureResolved, Goto
<1>27. CASE WriteJournal(e)
  BY Zenon, <1>27 DEF WriteJournal, Goto, CloseLastFd, LoseDevice
<1>28. CASE SetState(e)
  BY Zenon, <1>28 DEF SetState, Goto, kernel
<1>29. CASE ReplyFd(e)
  BY Zenon, <1>29 DEF ReplyFd, Goto, CloseLastFd, LoseDevice
<1> HIDE DEF Controls
<1> QED
  BY Zenon, <1>2, <1>3, <1>4, <1>5, <1>6, <1>7, <1>8, <1>9, <1>10, <1>11, <1>12,
     <1>13, <1>14, <1>15, <1>16, <1>17, <1>18, <1>19, <1>20, <1>21, <1>22,
     <1>23, <1>24, <1>25, <1>26, <1>27, <1>28, <1>29 DEF HandleClient, Peer,
     ApplySpec, TeardownSession, CleanupStale

\* When main begins or goes on to listen after a step of its own, everything
\* is clean and every task is gone.
LEMMA MainListens ==
  ASSUME StartInv, MainStep, pc'[Main] = "listen"
  PROVE  /\ state' = None /\ Clean'
         /\ \A e \in Clients : pc'[e] = "none" /\ ~owns'[e]
<1>1. /\ pc \in [Tasks -> ClientPoints \cup MainPoints]
      /\ ret \in [Tasks -> ClientReturns \cup MainReturns]
      /\ Main \in Tasks /\ Clients \subseteq Tasks /\ Main \notin Clients
  BY Zenon, HelperAssumption DEF StartInv, TypeOK, TasksOK, Tasks, Distinct
<1>2. ~Start /\ ~Signal /\ ~Exit /\ ~Crash
  BY <1>1 DEF Start, Signal, Exit, Crash, ProcessEnds, Call
<1>3. /\ ~TeardownRevert(Main) /\ ~TeardownTake(Main) /\ ~CleanupRevert(Main)
      /\ ~CleanupNft(Main) /\ ~CleanupLink(Main)
  BY Zenon, <1>1 DEF TeardownRevert, TeardownTake, CleanupRevert, CleanupNft,
     CleanupLink, Goto
<1>4. CleanupJournal(Main)
  BY Zenon, <1>2, <1>3 DEF MainStep, TeardownSession, CleanupStale
<1>5. /\ pc'[Main] = ret[Main] /\ journal' = FALSE
      /\ \A e \in Clients : pc'[e] = pc[e]
      /\ UNCHANGED <<state, nft, tun, dns, owns>>
  BY Zenon, <1>1, <1>4 DEF CleanupJournal, Return
<1>6. pc[Main] = "c_journal" /\ Starting /\ Down
  BY Zenon, <1>4, <1>5 DEF CleanupJournal, Starting, Down
<1>7. state = None /\ \A e \in Clients : pc[e] = "none" /\ ~owns[e]
  BY Zenon, <1>6 DEF StartInv
<1>8. ~dns /\ nft = {} /\ tun = None
  BY Zenon, <1>6 DEF StartInv, CleanStart
<1> QED
  BY Zenon, <1>5, <1>7, <1>8 DEF Clean

\* A step of main moves no client task, unless it ends them all.
LEMMA MainLeavesTasks ==
  ASSUME TypeOK, MainStep, NEW e \in Clients
  PROVE  \/ pc'[e] = pc[e] /\ owns'[e] = owns[e]
         \/ pc'[e] = "none" /\ ~owns'[e]
<1>1. /\ pc \in [Tasks -> ClientPoints \cup MainPoints]
      /\ e \in Tasks /\ e # Main
  BY Zenon, HelperAssumption DEF TypeOK, TasksOK, Tasks, Distinct
<1>2. CASE Exit \/ Crash
  BY Zenon, <1>1, <1>2 DEF Exit, Crash, ProcessEnds
<1>3. CASE Start \/ Signal \/ TeardownSession(Main)
  BY Zenon, <1>1, <1>3 DEF Start, Signal, TeardownSession, CleanupStale,
     CleanupRevert, CleanupNft, CleanupLink, CleanupJournal, TeardownRevert,
     TeardownTake, Goto, Call, Return
<1> QED
  BY Zenon, <1>2, <1>3 DEF MainStep

\* A connection's task changes no other task's owns_session.
LEMMA OnlyOwnSession ==
  ASSUME TypeOK, NEW c \in Clients, HandleClient(c) \/ Peer(c),
         NEW e \in Clients, e # c
  PROVE  owns'[e] = owns[e]
<1>1. owns \in [Clients -> BOOLEAN]
  BY Zenon DEF TypeOK, ObjectsOK
<1>2. CASE TeardownSession(c) \/ ApplySpec(c)
  BY Zenon, <1>1, <1>2 DEF TeardownSession, CleanupStale, CleanupRevert, CleanupNft,
     CleanupLink, CleanupJournal, TeardownRevert, TeardownTake, ApplySpec,
     CreateTun, ConfigureTun, FlushTable, LoadTable, ApplyFails,
     ConfigureResolved, WriteJournal, SetState, ReplyFd
<1>3. CASE \/ Disconnected(c) \/ TaskEnds(c) \/ TeardownDone(c)
          \/ RestoreDone(c) \/ Reply(c)
  BY Zenon, <1>1, <1>3 DEF Disconnected, TaskEnds, TeardownDone, RestoreDone, Reply,
     LeaveLoop
<1>4. CASE Peer(c)
  BY Zenon, <1>1, <1>4 DEF Peer, Accept, PeerClosesFd, PeerGone, RecvMalformed,
     RecvPing, RecvTeardown, RecvRestore, RecvApply, LeaveLoop
<1> QED
  BY Zenon, <1>2, <1>3, <1>4 DEF HandleClient

LEMMA SessionStep ==
  ASSUME SoleController, ~JournalCanFail
  PROVE  SessionInv /\ [Next]_vars => SessionInv'
<1> SUFFICES ASSUME SessionInv, [Next]_vars PROVE SessionInv'
  BY Zenon
<1>1. StartInv /\ StartInv' /\ TypeOK /\ Cleaners = {}
  BY Zenon, StartStep DEF SessionInv, StartInv, SoleController
<1>2. /\ pc \in [Tasks -> ClientPoints \cup MainPoints]
      /\ ret \in [Tasks -> ClientReturns \cup MainReturns]
      /\ Main \in Tasks /\ Clients \subseteq Tasks /\ Main \notin Clients
  BY Zenon, <1>1, HelperAssumption DEF TypeOK, TasksOK, Tasks, Distinct
<1>3. ASSUME NEW c \in Clients, HandleClient(c) \/ Peer(c)
      PROVE  SessionInv'
  <2>1. \A u \in Tasks : u # c => pc'[u] = pc[u] /\ ret'[u] = ret[u]
    BY Zenon, <1>1, <1>3, OnlyOwnTask
  <2>2. CASE HealthCheck(c)
    <3>1. /\ UNCHANGED <<state, nft, journal, owns>>
          /\ UNCHANGED <<tun, dns>> \/ (tun' = None /\ dns' = FALSE)
          /\ pc'[c] \in {"none", "recv", "reply"}
      BY Zenon, <1>3, <2>2, HealthCheckStep
    <3>2. \A e \in Clients : HealthCheck(e) =>
             pc'[e] \in {"none", "recv", "reply"} /\ ~owns'[e]
      BY Zenon, <1>2, <2>1, <3>1 DEF SessionInv
    <3>3. Clean => Clean'
      BY Zenon, <3>1 DEF Clean
    <3>4. ASSUME NEW e \in Clients, ~HealthCheck(e), Controls(e)
          PROVE  Controls(e)'
      <4>1. pc'[e] = pc[e] /\ ret'[e] = ret[e]
        BY Zenon, <1>2, <2>1, <2>2, <3>4
      <4>2. (Idle(e) => Idle(e)') /\ (Active(e) => Active(e)')
        BY ZenonT(40), <3>1, <3>3 DEF Idle, Active
      <4> QED
        BY ZenonT(40), <3>1, <3>3, <3>4, <4>1, <4>2 DEF Controls
    <3> QED
      BY Zenon, <1>1, <1>2, <2>1, <3>1, <3>2, <3>3, <3>4 DEF SessionInv, HealthCheck
  <2>3. CASE ~HealthCheck(c)
    <3>1. \A e \in Clients : e # c => HealthCheck(e)
      BY Zenon, <2>3 DEF SoleController
    <3>2. \A e \in Clients : e # c => owns'[e] = owns[e]
      BY Zenon, <1>1, <1>3, OnlyOwnSession
    <3>3. Controls(c) => Controls(c)'
      BY Zenon, <1>1, <1>3, ControllerStep
    <3> QED
      BY Zenon, <1>1, <1>2, <2>1, <2>3, <3>1, <3>2, <3>3 DEF SessionInv, HealthCheck
  <2> QED
    BY Zenon, <2>2, <2>3
<1>4. CASE MainStep
  <2>1. \A e \in Clients : HealthCheck(e) =>
           pc'[e] \in {"none", "recv", "reply"} /\ ~owns'[e]
    BY Zenon, <1>2, <1>4, MainLeavesTasks DEF SessionInv, StartInv
  <2>2. ASSUME pc'[Main] = "listen", NEW e \in Clients
        PROVE  Controls(e)'
    <3>1. state' = None /\ Clean' /\ pc'[e] = "none" /\ ~owns'[e]
      BY Zenon, <1>1, <1>4, <2>2, MainListens
    <3> QED
      BY Zenon, <3>1 DEF Controls, Idle, CleanupPoints, TeardownPoints
  <2>3. pc'[Main] = "listen" => state' = None /\ Clean'
    BY Zenon, <1>1, <1>4, MainListens
  <2> QED
    BY Zenon, <1>1, <2>1, <2>2, <2>3 DEF SessionInv, HealthCheck
<1>5. CASE UNCHANGED vars
  BY ZenonT(40), <1>1, <1>5 DEF vars, SessionInv, Controls, Idle, Active, Clean, HealthCheck
<1> QED
  BY Zenon, <1>1, <1>3, <1>4, <1>5 DEF Next

LEMMA KernelMatchesSession ==
  ASSUME SoleController, ~JournalCanFail
  PROVE  Spec => [](SessionIsApplied /\ NothingLeftBehind)
<1>1. Init => SessionInv
  <2>1. Init => StartInv
    BY Zenon, InitType, HelperAssumption DEF Init, StartInv, CleanStart, Down,
       Starting, Tasks, Distinct
  <2> QED
    BY Zenon, <2>1, HelperAssumption DEF Init, SessionInv, Tasks, Distinct
<1>2. SessionInv /\ [Next]_vars => SessionInv'
  BY Zenon, SessionStep
<1>3. SessionInv => SessionIsApplied /\ NothingLeftBehind
  <2> SUFFICES ASSUME SessionInv, pc[Main] = "listen"
               PROVE  SessionIsApplied /\ NothingLeftBehind
    BY Zenon DEF SessionIsApplied, NothingLeftBehind
  <2>1. \A c \in Clients : HealthCheck(c) => ~owns[c]
    BY Zenon DEF SessionInv
  <2>2. CASE \A c \in Clients : HealthCheck(c)
    BY Zenon, <2>1, <2>2 DEF SessionInv, SessionIsApplied, NothingLeftBehind, Clean
  <2>3. ASSUME NEW e \in Clients, ~HealthCheck(e)
        PROVE  SessionIsApplied /\ NothingLeftBehind
    <3>1. Controls(e) /\ e # None
      BY Zenon, <2>3, HelperAssumption DEF SessionInv, Distinct
    <3>2. \A c \in Clients : c # e => ~owns[c]
      BY Zenon, <2>1, <2>3 DEF SoleController
    <3>3. ~Busy(e) => Idle(e) \/ Active(e)
      BY Zenon, <3>1 DEF Busy, Controls
    <3>4. SessionIsApplied
      BY Zenon, <3>1, <3>3 DEF SessionIsApplied, Controls, Idle, Active
    <3>5. NothingLeftBehind
      BY Zenon, <3>1, <3>2, <3>3 DEF NothingLeftBehind, Idle, Active, Clean
    <3> QED
      BY Zenon, <3>4, <3>5
  <2> QED
    BY Zenon, <2>2, <2>3
<1> QED
  BY <1>1, <1>2, <1>3, PTL DEF Spec

\* One application and any number of health checks, with crashes at any point:
\* while the helper listens, an active session has its table, its journal and
\* an owner.
THEOREM SessionMatchesKernel ==
  ASSUME SoleController, ~JournalCanFail
  PROVE  Spec => []SessionIsApplied
BY KernelMatchesSession, PTL

\* Under the same conditions a helper that listens without a session, and is not
\* about to make or to end one, has left no table, device, DNS setting or journal.
THEOREM NothingStaysBehind ==
  ASSUME SoleController, ~JournalCanFail
  PROVE  Spec => []NothingLeftBehind
BY KernelMatchesSession, PTL

-----------------------------------------------------------------------------
(* The helper implements TunnelLease, whatever write_journal does.         *)

\* A session has an owner whose task has not yet taken it down.
LeaseInv ==
    /\ TypeOK
    /\ \A c \in Clients : HealthCheck(c) =>
          pc[c] \in {"none", "recv", "reply"} /\ ~owns[c]
    /\ \A c \in Clients : state = c =>
          owns[c] /\ pc[c] \in {"recv", "reply", "a_reply", "t_revert", "t_take"}

Alive == state # None /\ conn[state] = "open"

\* The ways in which a step of the helper may change the lease.
LeaseMove ==
    \/ state' = state /\ (Alive' => Alive)
    \/ state = None /\ state' \in Clients
    \/ state' = None

\* Every such change is a step of TunnelLease.
LEMMA LeaseMoves == LeaseMove => [Lease!Next]_(Lease!lease)
<1> SUFFICES ASSUME LeaseMove
             PROVE  [Lease!Next]_(Lease!lease)
  BY Zenon
<1>1. CASE state' = state /\ (Alive' => Alive)
  <2>1. CASE Alive' <=> Alive
    <3>1. (state' # None /\ conn'[state'] = "open") = (state # None /\ conn[state] = "open")
      BY Zenon, <2>1 DEF Alive
    <3> QED
      BY Zenon, <1>1, <3>1 DEF Lease!lease
  <2>2. CASE Alive /\ ~Alive'
    <3>1. (state' # None /\ conn'[state'] = "open") = FALSE /\ state # None /\ conn[state] = "open"
      BY Zenon, <2>2 DEF Alive
    <3>2. Lease!Lose
      BY Zenon, <1>1, <3>1 DEF Lease!Lose
    <3> QED
      BY Zenon, <3>2 DEF Lease!Next
  <2> QED
    BY Zenon, <1>1, <2>1, <2>2
<1>2. CASE state = None /\ state' \in Clients
  <2>1. (state' # None /\ conn'[state'] = "open") \in BOOLEAN
    BY Zenon
  <2>2. Lease!Grant(state')
    BY Zenon, <1>2, <2>1 DEF Lease!Grant
  <2> QED
    BY Zenon, <1>2, <2>2 DEF Lease!Next
<1>3. CASE state' = None
  <2>1. (state' # None /\ conn'[state'] = "open") = FALSE
    BY Zenon, <1>3
  <2>2. CASE state = None
    <3>1. (state # None /\ conn[state] = "open") = FALSE
      BY Zenon, <2>2
    <3> QED
      BY Zenon, <1>3, <2>1, <2>2, <3>1 DEF Lease!lease
  <2>3. CASE state # None
    <3>1. Lease!End
      BY Zenon, <1>3, <2>1, <2>3 DEF Lease!End
    <3> QED
      BY Zenon, <3>1 DEF Lease!Next
  <2> QED
    BY Zenon, <2>2, <2>3
<1> QED
  BY Zenon, <1>1, <1>2, <1>3 DEF LeaseMove

\* A step of a connection's task that neither sets nor takes the session
\* leaves it and, of the connections, changes at most its own: it opens one
\* only when there is no task for it.
LEMMA OtherStep ==
  ASSUME LeaseInv, NEW c \in Clients, HandleClient(c) \/ Peer(c),
         ~SetState(c), ~TeardownTake(c)
  PROVE  /\ state' = state
         /\ \A e \in Clients : e # c => conn'[e] = conn[e]
         /\ conn'[c] = "open" => conn[c] = "open" \/ pc[c] = "none"
         /\ state = c => /\ owns'[c]
                         /\ pc'[c] \in {"recv", "reply", "a_reply", "t_revert", "t_take"}
         /\ HealthCheck(c) => pc'[c] \in {"none", "recv", "reply"} /\ ~owns'[c]
<1>1. /\ pc \in [Tasks -> ClientPoints \cup MainPoints]
      /\ owns \in [Clients -> BOOLEAN]
      /\ conn \in [Clients -> {"none", "open", "gone", "lost"}]
      /\ c \in Tasks
      /\ conn[c] = "none" => pc[c] = "none"
  BY Zenon DEF LeaseInv, TypeOK, TasksOK, ObjectsOK, Tasks
<1>2. /\ state = c => owns[c] /\ pc[c] \in {"recv", "reply", "a_reply", "t_revert", "t_take"}
      /\ HealthCheck(c) => pc[c] \in {"none", "recv", "reply"} /\ ~owns[c]
      /\ HealthCheck(c) => Requests[c] \subseteq {"Ping"}
  BY ZenonT(40) DEF LeaseInv, HealthCheck
<1>3. CASE \/ CleanupRevert(c) \/ CleanupNft(c) \/ CleanupLink(c) \/ CleanupJournal(c)
          \/ TeardownRevert(c)
  BY Zenon, <1>1, <1>2, <1>3 DEF CleanupRevert, CleanupNft, CleanupLink, CleanupJournal,
     TeardownRevert, Goto, Return
<1>4. CASE \/ CreateTun(c) \/ ConfigureTun(c) \/ FlushTable(c) \/ LoadTable(c)
          \/ ApplyFails(c) \/ ConfigureResolved(c) \/ WriteJournal(c)
  BY ZenonT(40), <1>1, <1>2, <1>4 DEF CreateTun, ConfigureTun, FlushTable, LoadTable, ApplyFails,
     ConfigureResolved, WriteJournal, Goto
<1>5. CASE ReplyFd(c) \/ TeardownDone(c) \/ RestoreDone(c) \/ Reply(c)
  BY ZenonT(40), <1>1, <1>2, <1>5 DEF ReplyFd, TeardownDone, RestoreDone, Reply, Goto, Call
<1>6. CASE Disconnected(c) \/ TaskEnds(c)
  BY Zenon, <1>1, <1>2, <1>6 DEF Disconnected, TaskEnds, LeaveLoop, Goto, Call
<1>7. CASE Accept(c) \/ PeerClosesFd(c) \/ PeerGone(c)
  BY Zenon, <1>1, <1>2, <1>7 DEF Accept, PeerClosesFd, PeerGone, Goto
<1>8. CASE \/ RecvMalformed(c) \/ RecvPing(c) \/ RecvTeardown(c) \/ RecvRestore(c)
          \/ RecvApply(c)
  BY Zenon, <1>1, <1>2, <1>8, HelperAssumption DEF RecvMalformed, RecvPing, RecvTeardown, RecvRestore,
     RecvApply, LeaveLoop, Goto, Call, Distinct
<1> QED
  BY Zenon, <1>3, <1>4, <1>5, <1>6, <1>7, <1>8 DEF HandleClient, Peer, TeardownSession,
     CleanupStale, ApplySpec

LEMMA ClientLease ==
  ASSUME SoleController, LeaseInv, TypeOK', NEW c \in Clients, HandleClient(c) \/ Peer(c)
  PROVE  LeaseInv' /\ LeaseMove
<1>1. /\ pc \in [Tasks -> ClientPoints \cup MainPoints]
      /\ owns \in [Clients -> BOOLEAN]
      /\ state \in Clients \cup {None} /\ c # None
      /\ c \in Tasks /\ Clients \subseteq Tasks /\ TypeOK
  BY SMTT(30), HelperAssumption DEF LeaseInv, TypeOK, TasksOK, ObjectsOK, Tasks, Distinct
<1>2. \A e \in Clients : e # c => pc'[e] = pc[e] /\ owns'[e] = owns[e]
  BY Zenon, <1>1, OnlyOwnTask, OnlyOwnSession
<1>3. CASE SetState(c)
  <2>1. state = None /\ ~HealthCheck(c)
    BY Zenon, <1>1, <1>3 DEF SetState, LeaseInv, SoleController
  <2>2. state' = c /\ owns'[c] /\ pc'[c] = "a_reply"
    BY Zenon, <1>1, <1>3 DEF SetState, Goto
  <2> QED
    BY Zenon, <1>2, <2>1, <2>2 DEF LeaseInv, LeaseMove, HealthCheck
<1>4. CASE TeardownTake(c)
  <2>1. state' = None /\ ~HealthCheck(c)
    BY Zenon, <1>4 DEF TeardownTake, LeaseInv
  <2>2. \A e \in Clients : state' # e
    BY Zenon, <2>1, HelperAssumption DEF Distinct
  <2> QED
    BY Zenon, <1>2, <2>1, <2>2 DEF LeaseInv, LeaseMove, HealthCheck
<1>5. CASE ~SetState(c) /\ ~TeardownTake(c)
  <2>1. /\ state' = state
        /\ \A e \in Clients : e # c => conn'[e] = conn[e]
        /\ conn'[c] = "open" => conn[c] = "open" \/ pc[c] = "none"
        /\ state = c => /\ owns'[c]
                        /\ pc'[c] \in {"recv", "reply", "a_reply", "t_revert", "t_take"}
        /\ HealthCheck(c) => pc'[c] \in {"none", "recv", "reply"} /\ ~owns'[c]
    BY Zenon, <1>5, OtherStep
  <2>2. Alive' => Alive
    BY Zenon, <1>1, <2>1 DEF Alive, LeaseInv
  <2> QED
    BY ZenonT(40), <1>2, <2>1, <2>2 DEF LeaseInv, LeaseMove, HealthCheck
<1> QED
  BY Zenon, <1>3, <1>4, <1>5

LEMMA MainLease ==
  ASSUME LeaseInv, TypeOK', MainStep
  PROVE  LeaseInv' /\ LeaseMove
<1>1. ASSUME NEW e \in Clients
      PROVE  \/ pc'[e] = pc[e] /\ owns'[e] = owns[e]
             \/ pc'[e] = "none" /\ ~owns'[e]
  BY Zenon, MainLeavesTasks DEF LeaseInv
<1>2. CASE Exit \/ Crash \/ TeardownTake(Main)
  <2>1. state' = None
    BY Zenon, <1>2 DEF Exit, Crash, ProcessEnds, TeardownTake
  <2>2. \A e \in Clients : state' # e
    BY Zenon, <2>1, HelperAssumption DEF Distinct
  <2> QED
    BY Zenon, <1>1, <2>1, <2>2 DEF LeaseInv, LeaseMove, HealthCheck
<1>3. CASE \/ Start \/ Signal \/ TeardownRevert(Main) \/ CleanupStale(Main)
  <2>1. UNCHANGED <<state, conn, owns>>
    BY Zenon, <1>3 DEF Start, Signal, TeardownRevert, CleanupStale, CleanupRevert, CleanupNft,
       CleanupLink, CleanupJournal
  <2>2. \A e \in Clients : pc'[e] = pc[e]
    <3>1. /\ pc \in [Tasks -> ClientPoints \cup MainPoints]
          /\ Clients \subseteq Tasks /\ Main \notin Clients
      BY Zenon, HelperAssumption DEF LeaseInv, TypeOK, TasksOK, Tasks, Distinct
    <3> QED
      BY Zenon, <1>3, <3>1 DEF Start, Signal, TeardownRevert, CleanupStale, CleanupRevert, CleanupNft,
         CleanupLink, CleanupJournal, Goto, Call, Return
  <2>3. LeaseMove
    BY Zenon, <2>1 DEF LeaseMove, Alive
  <2> QED
    BY Zenon, <2>1, <2>2, <2>3 DEF LeaseInv, HealthCheck
<1> QED
  BY Zenon, <1>2, <1>3 DEF MainStep, TeardownSession

\* One application and any number of health checks: the helper lends its
\* session as TunnelLease says.  apply_spec checks for a session before it
\* sets its own, with awaits in between, and yet replaces none; a connection
\* that ended is never taken for the owner's again.
THEOREM HelperImplementsLease ==
  ASSUME SoleController
  PROVE  Spec => Lease!Spec
<1>1. Init => LeaseInv /\ Lease!Init
  <2> SUFFICES ASSUME Init
               PROVE  LeaseInv /\ Lease!Init
    BY Zenon
  <2>1. state = None /\ (state # None /\ conn[state] = "open") = FALSE
    BY Zenon DEF Init
  <2>2. LeaseInv
    BY Zenon, InitType, HelperAssumption DEF Init, LeaseInv, Tasks, Distinct
  <2> QED
    BY Zenon, <2>1, <2>2 DEF Lease!Init
<1>2. LeaseInv /\ [Next]_vars => LeaseInv' /\ LeaseMove
  <2> SUFFICES ASSUME LeaseInv, [Next]_vars
               PROVE  LeaseInv' /\ LeaseMove
    BY Zenon
  <2>1. TypeOK'
    BY Zenon, TypeStep DEF LeaseInv
  <2>2. CASE MainStep
    BY Zenon, <2>1, <2>2, MainLease
  <2>3. CASE \E c \in Clients : HandleClient(c) \/ Peer(c)
    BY Zenon, <2>1, <2>3, ClientLease
  <2>4. CASE UNCHANGED vars
    BY Zenon, <2>1, <2>4 DEF vars, LeaseInv, LeaseMove, Alive, HealthCheck
  <2> QED
    BY Zenon, <2>2, <2>3, <2>4 DEF Next, SoleController
<1>3. LeaseInv /\ [Next]_vars => [Lease!Next]_(Lease!lease)
  BY Zenon, <1>2, LeaseMoves
<1>4. LeaseInv /\ [Next]_vars => LeaseInv'
  BY Zenon, <1>2
<1> QED
  BY <1>1, <1>3, <1>4, PTL DEF Spec, Lease!Spec
=============================================================================
