------------------------------- MODULE Helper -------------------------------
(***************************************************************************)
(* The privileged helper, services/privileged-helper/src/main.rs.          *)
(*                                                                         *)
(* One main task (startup cleanup, accept loop, signal handling), one      *)
(* spawned task per control connection (handle_client), and other          *)
(* processes that run `easy-helper --cleanup-and-exit` on the same host.   *)
(* All of them work on the same kernel objects: the device easy0, the      *)
(* nftables table inet easy, the systemd-resolved settings of easy0 and    *)
(* the journal /run/easy/session.json.                                     *)
(*                                                                         *)
(* A task runs from one await to the next in one step; each external       *)
(* command (nft, ip, resolvectl) is an await, so every command is a step   *)
(* of its own and tasks interleave between any two of them.  pc[t] is the  *)
(* point a task has reached, ret[t] the point at which the subroutine it   *)
(* is in (teardown_session, cleanup_stale) returns.                        *)
(*                                                                         *)
(* The objects remember which connection made them.  The code keeps no     *)
(* such identity (ActiveSession only holds a list of routes, which         *)
(* apply_spec always leaves empty): it is what the properties talk about.  *)
(***************************************************************************)
EXTENDS Naturals, FiniteSets

CONSTANTS
    Clients,         \* control connections (a slot is reused once it ended)
    Cleaners,        \* processes running easy-helper --cleanup-and-exit
    Main,            \* the helper's main task
    None,            \* no session, no device
    Requests,        \* Requests[c]: what the peer of connection c may send
    JournalCanFail,  \* may write_journal fail (disk full, read-only /run)?
    MaxCrashes       \* bound: crashes of the helper process

RequestKinds == {"Ping", "Apply", "Teardown", "Restore", "Malformed"}

Distinct ==
    /\ Main \notin Clients \cup Cleaners
    /\ None \notin Clients
    /\ Clients \cap Cleaners = {}

ASSUME HelperAssumption ==
    /\ Distinct
    /\ Requests \in [Clients -> SUBSET RequestKinds]
    /\ JournalCanFail \in BOOLEAN
    /\ MaxCrashes \in Nat

VARIABLES
    pc,       \* where each task is
    ret,      \* where its current subroutine returns to
    conn,     \* the connection as the two ends see it
    appFd,    \* appFd[c]: the peer of c holds the TUN descriptor it was sent
    owns,     \* handle_client's local owns_session
    state,    \* Arc<Mutex<Option<ActiveSession>>>: the session's connection
    tun,      \* easy0: the connection whose Apply created the device
    nft,      \* table inet easy: the connections whose rules it holds
    dns,      \* systemd-resolved has settings for easy0
    journal,  \* session.json exists
    crashes

kernel == <<tun, nft, dns, journal>>
vars == <<pc, ret, conn, appFd, owns, state, tun, nft, dns, journal, crashes>>

Tasks == Clients \cup Cleaners \cup {Main}

CleanupPoints  == {"c_revert", "c_nft", "c_link", "c_journal"}
TeardownPoints == {"t_revert", "t_take"}
\* Points of apply_spec at which its local tun_fd is open.
FdPoints       == {"a_configure", "a_flush", "a_load", "a_resolved",
                   "a_journal", "a_state", "a_reply", "e_link"}
ClientPoints   == {"none", "recv", "reply", "t_done", "r_done", "a_create",
                   "e_reply", "end"} \cup FdPoints \cup CleanupPoints \cup TeardownPoints
MainPoints     == {"crashed", "stopped", "listen", "exit"}
                   \cup CleanupPoints \cup TeardownPoints

Init ==
    /\ pc = [t \in Tasks |-> IF t = Main THEN "stopped" ELSE "none"]
    /\ ret = [t \in Tasks |-> "none"]
    /\ conn = [c \in Clients |-> "none"]
    /\ appFd = [c \in Clients |-> FALSE]
    /\ owns = [c \in Clients |-> FALSE]
    /\ state = None
    /\ tun = None
    /\ nft = {}
    /\ dns = FALSE
    /\ journal = FALSE
    /\ crashes = 0

Goto(t, l) ==
    /\ pc' = [pc EXCEPT ![t] = l]
    /\ UNCHANGED ret

Call(t, l, back) ==
    /\ pc' = [pc EXCEPT ![t] = l]
    /\ ret' = [ret EXCEPT ![t] = back]

Return(t) ==
    /\ pc' = [pc EXCEPT ![t] = ret[t]]
    /\ ret' = [ret EXCEPT ![t] = "none"]

\* The device is not persistent: it goes with its last descriptor, and
\* systemd-resolved forgets the settings of a link that goes.
LoseDevice ==
    /\ tun' = None
    /\ dns' = FALSE

CloseLastFd(c) ==
    IF tun = c THEN LoseDevice ELSE UNCHANGED <<tun, dns>>

-----------------------------------------------------------------------------
(* cleanup_stale and teardown_session, run by any task.                    *)

\* revert_resolved(TUN_NAME); the journal's routes are always the empty list.
CleanupRevert(t) ==
    /\ pc[t] = "c_revert"
    /\ dns' = FALSE
    /\ Goto(t, "c_nft")
    /\ UNCHANGED <<conn, appFd, owns, state, tun, nft, journal, crashes>>

\* nft_restore: nft delete table inet easy
CleanupNft(t) ==
    /\ pc[t] = "c_nft"
    /\ nft' = {}
    /\ Goto(t, "c_link")
    /\ UNCHANGED <<conn, appFd, owns, state, tun, dns, journal, crashes>>

\* ip link delete easy0, whichever connection created it
CleanupLink(t) ==
    /\ pc[t] = "c_link"
    /\ LoseDevice
    /\ Goto(t, "c_journal")
    /\ UNCHANGED <<conn, appFd, owns, state, nft, journal, crashes>>

CleanupJournal(t) ==
    /\ pc[t] = "c_journal"
    /\ journal' = FALSE
    /\ Return(t)
    /\ UNCHANGED <<conn, appFd, owns, state, tun, nft, dns, crashes>>

CleanupStale(t) ==
    CleanupRevert(t) \/ CleanupNft(t) \/ CleanupLink(t) \/ CleanupJournal(t)

TeardownRevert(t) ==
    /\ pc[t] = "t_revert"
    /\ dns' = FALSE
    /\ Goto(t, "t_take")
    /\ UNCHANGED <<conn, appFd, owns, state, tun, nft, journal, crashes>>

\* Mutant of TeardownTake: no cleanup_stale after the session was taken.
TakeOnly(t) ==
    /\ pc[t] = "t_take"
    /\ state' = None
    /\ Return(t)
    /\ UNCHANGED <<conn, appFd, owns, kernel, crashes>>

\* state.lock().await.take(), whoever's session it is; then cleanup_stale
TeardownTake(t) ==
    /\ pc[t] = "t_take"
    /\ state' = None
    /\ Goto(t, "c_revert")
    /\ UNCHANGED <<conn, appFd, owns, kernel, crashes>>

TeardownSession(t) ==
    TeardownRevert(t) \/ TeardownTake(t) \/ CleanupStale(t)

-----------------------------------------------------------------------------
(* The main task and the process.                                          *)

\* main: state is a fresh None and cleanup_stale runs before the socket is
\* bound.  systemd restarts a crashed helper; a stopped one is started again
\* by the next full-tunnel connect.
Start ==
    /\ pc[Main] \in {"crashed", "stopped"}
    /\ Call(Main, "c_revert", "listen")
    /\ UNCHANGED <<conn, appFd, owns, state, kernel, crashes>>

\* SIGTERM or SIGINT in the accept loop: teardown_session, then break
Signal ==
    /\ pc[Main] = "listen"
    /\ Call(Main, "t_revert", "exit")
    /\ UNCHANGED <<conn, appFd, owns, state, kernel, crashes>>

\* The process ends: its tasks and descriptors go with it.  The peers keep
\* their end of the connection and the TUN descriptor they were sent.
ProcessEnds(how) ==
    /\ pc' = [t \in Tasks |-> IF t = Main THEN how
                              ELSE IF t \in Clients THEN "none" ELSE pc[t]]
    /\ ret' = [t \in Tasks |-> IF t \in Cleaners THEN ret[t] ELSE "none"]
    /\ conn' = [c \in Clients |-> CASE conn[c] = "open" -> "lost"
                                    [] conn[c] = "gone" -> "none"
                                    [] OTHER -> conn[c]]
    /\ owns' = [c \in Clients |-> FALSE]
    /\ state' = None
    /\ IF tun # None /\ ~appFd[tun] THEN LoseDevice ELSE UNCHANGED <<tun, dns>>
    /\ UNCHANGED <<appFd, nft, journal>>

\* The accept loop was left: main returns.
Exit ==
    /\ pc[Main] = "exit"
    /\ ProcessEnds("stopped")
    /\ UNCHANGED crashes

Crash ==
    /\ pc[Main] \notin {"crashed", "stopped"}
    /\ crashes < MaxCrashes
    /\ ProcessEnds("crashed")
    /\ crashes' = crashes + 1

MainStep == Start \/ Signal \/ Exit \/ Crash \/ TeardownSession(Main)

\* easy-helper --cleanup-and-exit: cleanup_stale and nothing else
CleanerStart(k) ==
    /\ pc[k] = "none"
    /\ Call(k, "c_revert", "none")
    /\ UNCHANGED <<conn, appFd, owns, state, kernel, crashes>>

CleanerStep(k) == CleanerStart(k) \/ CleanupStale(k)

-----------------------------------------------------------------------------
(* The peers: the desktop application, the CLI, a health check.            *)

\* Mutant of Accept: the socket is bound before the startup cleanup ended.
AcceptEarly(c) ==
    /\ pc[Main] \in {"listen"} \cup CleanupPoints
    /\ conn[c] = "none"
    /\ conn' = [conn EXCEPT ![c] = "open"]
    /\ Goto(c, "recv")
    /\ UNCHANGED <<appFd, owns, state, kernel, crashes>>

\* accept, and authorized() said yes; a refused peer gets one Error and
\* touches nothing
Accept(c) ==
    /\ pc[Main] = "listen"
    /\ conn[c] = "none"
    /\ conn' = [conn EXCEPT ![c] = "open"]
    /\ Goto(c, "recv")
    /\ UNCHANGED <<appFd, owns, state, kernel, crashes>>

\* The peer closes its TUN descriptor (drain_tun ended) and keeps the
\* connection.
PeerClosesFd(c) ==
    /\ appFd[c]
    /\ appFd' = [appFd EXCEPT ![c] = FALSE]
    /\ IF pc[c] \in FdPoints THEN UNCHANGED <<tun, dns>> ELSE CloseLastFd(c)
    /\ UNCHANGED <<pc, ret, conn, owns, state, nft, journal, crashes>>

\* The peer closes the connection, quits or dies: its descriptors go too.
PeerGone(c) ==
    /\ conn[c] \in {"open", "lost"}
    /\ conn' = [conn EXCEPT ![c] = IF @ = "open" THEN "gone" ELSE "none"]
    /\ appFd' = [appFd EXCEPT ![c] = FALSE]
    /\ IF appFd[c] /\ pc[c] \notin FdPoints THEN CloseLastFd(c)
                                            ELSE UNCHANGED <<tun, dns>>
    /\ UNCHANGED <<pc, ret, owns, state, nft, journal, crashes>>

-----------------------------------------------------------------------------
(* handle_client: a connection's task.                                     *)

\* Mutant of LeaveLoop: the owner's task ends without a teardown.
LeaveWithoutTeardown(c) ==
    /\ Goto(c, "none")
    /\ conn' = [conn EXCEPT ![c] = IF @ = "open" THEN "lost" ELSE "none"]
    /\ owns' = [owns EXCEPT ![c] = FALSE]

\* After the receive loop: an owner tears the session down, then the task
\* and its stream end.
LeaveLoop(c) ==
    IF owns[c]
    THEN /\ Call(c, "t_revert", "end")
         /\ UNCHANGED <<conn, owns>>
    ELSE /\ Goto(c, "none")
         /\ conn' = [conn EXCEPT ![c] = IF @ = "open" THEN "lost" ELSE "none"]
         /\ UNCHANGED owns

\* recv_frame reports the disconnect
Disconnected(c) ==
    /\ pc[c] = "recv"
    /\ conn[c] = "gone"
    /\ LeaveLoop(c)
    /\ UNCHANGED <<appFd, state, kernel, crashes>>

\* A frame that is not a request: serde_json's error leaves the loop.
RecvMalformed(c) ==
    /\ pc[c] = "recv"
    /\ conn[c] = "open"
    /\ "Malformed" \in Requests[c]
    /\ LeaveLoop(c)
    /\ UNCHANGED <<appFd, state, kernel, crashes>>

\* Ping of either version: one reply and no other effect
RecvPing(c) ==
    /\ pc[c] = "recv"
    /\ conn[c] = "open"
    /\ "Ping" \in Requests[c]
    /\ Goto(c, "reply")
    /\ UNCHANGED <<conn, appFd, owns, state, kernel, crashes>>

RecvTeardown(c) ==
    /\ pc[c] = "recv"
    /\ conn[c] = "open"
    /\ "Teardown" \in Requests[c]
    /\ Call(c, "t_revert", "t_done")
    /\ UNCHANGED <<conn, appFd, owns, state, kernel, crashes>>

\* Cleanup and EmergencyRestore
RecvRestore(c) ==
    /\ pc[c] = "recv"
    /\ conn[c] = "open"
    /\ "Restore" \in Requests[c]
    /\ Call(c, "t_revert", "r_done")
    /\ UNCHANGED <<conn, appFd, owns, state, kernel, crashes>>

\* Mutant of RecvApply: an active session is not refused.
ApplyUnchecked(c) ==
    /\ pc[c] = "recv"
    /\ conn[c] = "open"
    /\ "Apply" \in Requests[c]
    /\ ~appFd[c]
    /\ \/ Goto(c, "reply")
       \/ Call(c, "c_revert", "a_create")
    /\ UNCHANGED <<conn, appFd, owns, state, kernel, crashes>>

\* spec.validate() may refuse.  The first lock of apply_spec refuses while a
\* session is active, else it is released and cleanup_stale runs.  The only
\* peer that applies, start_full_tunnel, opens a connection for each session:
\* it holds no descriptor from an earlier Apply on this one.
RecvApply(c) ==
    /\ pc[c] = "recv"
    /\ conn[c] = "open"
    /\ "Apply" \in Requests[c]
    /\ ~appFd[c]
    /\ \/ Goto(c, "reply")
       \/ state = None /\ Call(c, "c_revert", "a_create")
    /\ UNCHANGED <<conn, appFd, owns, state, kernel, crashes>>

\* teardown_session returned to the end of the task
TaskEnds(c) ==
    /\ pc[c] = "end"
    /\ owns' = [owns EXCEPT ![c] = FALSE]
    /\ conn' = [conn EXCEPT ![c] = IF @ = "open" THEN "lost" ELSE "none"]
    /\ Goto(c, "none")
    /\ UNCHANGED <<appFd, state, kernel, crashes>>

TeardownDone(c) ==
    /\ pc[c] = "t_done"
    /\ owns' = [owns EXCEPT ![c] = FALSE]
    /\ Goto(c, "reply")
    /\ UNCHANGED <<conn, appFd, state, kernel, crashes>>

\* The restore requests clean up a second time.
RestoreDone(c) ==
    /\ pc[c] = "r_done"
    /\ owns' = [owns EXCEPT ![c] = FALSE]
    /\ Call(c, "c_revert", "reply")
    /\ UNCHANGED <<conn, appFd, state, kernel, crashes>>

\* Mutant of Reply: sending to a peer that left is retried for ever.
ReplyRetries(c) ==
    /\ pc[c] \in {"reply", "e_reply"}
    /\ conn[c] = "open"
    /\ Goto(c, "recv")
    /\ UNCHANGED <<conn, appFd, owns, state, kernel, crashes>>

\* send_json; to a peer that left it fails, and the loop ends as Disconnected
Reply(c) ==
    /\ pc[c] \in {"reply", "e_reply"}
    /\ Goto(c, "recv")
    /\ UNCHANGED <<conn, appFd, owns, state, kernel, crashes>>

-----------------------------------------------------------------------------
(* apply_spec, after its first cleanup_stale.                              *)

\* TUNSETIFF on a device somebody is attached to is refused (EBUSY).
CreateTun(c) ==
    /\ pc[c] = "a_create"
    /\ \/ /\ tun = None
          /\ tun' = c
          /\ Goto(c, "a_configure")
       \/ /\ Goto(c, "e_reply")
          /\ UNCHANGED tun
    /\ UNCHANGED <<conn, appFd, owns, state, nft, dns, journal, crashes>>

\* configure_tun works on whichever device is called easy0.
ConfigureTun(c) ==
    /\ pc[c] = "a_configure"
    /\ \/ /\ tun # None
          /\ Goto(c, "a_flush")
       \/ Goto(c, "e_link")
    /\ UNCHANGED <<conn, appFd, owns, state, kernel, crashes>>

\* apply_table first deletes the table ...
FlushTable(c) ==
    /\ pc[c] = "a_flush"
    /\ nft' = {}
    /\ Goto(c, "a_load")
    /\ UNCHANGED <<conn, appFd, owns, state, tun, dns, journal, crashes>>

\* Mutant of LoadTable: a script that fails halfway leaves its first rules.
LoadPartially(c) ==
    /\ pc[c] = "a_load"
    /\ nft' = nft \cup {c}
    /\ \/ Goto(c, "a_resolved")
       \/ Goto(c, "e_link")
    /\ UNCHANGED <<conn, appFd, owns, state, tun, dns, journal, crashes>>

\* ... then loads the script, atomically: onto a table that exists again the
\* rules are added.
LoadTable(c) ==
    /\ pc[c] = "a_load"
    /\ \/ /\ nft' = nft \cup {c}
          /\ Goto(c, "a_resolved")
       \/ /\ Goto(c, "e_link")
          /\ UNCHANGED nft
    /\ UNCHANGED <<conn, appFd, owns, state, tun, dns, journal, crashes>>

\* Rollback of the two failures above: ip link delete easy0; returning the
\* error closes tun_fd.
ApplyFails(c) ==
    /\ pc[c] = "e_link"
    /\ LoseDevice
    /\ Goto(c, "e_reply")
    /\ UNCHANGED <<conn, appFd, owns, state, nft, journal, crashes>>

\* configure_resolved is best effort, and needs the link to be there.
ConfigureResolved(c) ==
    /\ pc[c] = "a_resolved"
    /\ dns' \in {dns, tun # None}
    /\ Goto(c, "a_journal")
    /\ UNCHANGED <<conn, appFd, owns, state, tun, nft, journal, crashes>>

\* write_journal(&added)?: its failure returns at once, with no rollback
\* other than closing tun_fd.
WriteJournal(c) ==
    /\ pc[c] = "a_journal"
    /\ \/ /\ journal' = TRUE
          /\ Goto(c, "a_state")
          /\ UNCHANGED <<tun, dns>>
       \/ /\ JournalCanFail
          /\ CloseLastFd(c)
          /\ Goto(c, "e_reply")
          /\ UNCHANGED journal
    /\ UNCHANGED <<conn, appFd, owns, state, nft, crashes>>

\* The second lock of apply_spec overwrites what is there; then handle_client
\* takes ownership.
SetState(c) ==
    /\ pc[c] = "a_state"
    /\ state' = c
    /\ owns' = [owns EXCEPT ![c] = TRUE]
    /\ Goto(c, "a_reply")
    /\ UNCHANGED <<conn, appFd, kernel, crashes>>

\* Ok with the descriptor, then drop(tun_fd).  To a peer that left nothing is
\* passed on: the device goes and the task sees the disconnect next.
ReplyFd(c) ==
    /\ pc[c] = "a_reply"
    /\ appFd' = [appFd EXCEPT ![c] = conn[c] = "open"]
    /\ IF conn[c] = "open" THEN UNCHANGED <<tun, dns>> ELSE CloseLastFd(c)
    /\ Goto(c, "recv")
    /\ UNCHANGED <<conn, owns, state, nft, journal, crashes>>

ApplySpec(c) ==
    \/ CreateTun(c) \/ ConfigureTun(c) \/ FlushTable(c) \/ LoadTable(c)
    \/ ApplyFails(c) \/ ConfigureResolved(c) \/ WriteJournal(c)
    \/ SetState(c) \/ ReplyFd(c)

\* What the helper itself does for a connection.
HandleClient(c) ==
    \/ TeardownSession(c) \/ ApplySpec(c) \/ Disconnected(c) \/ TaskEnds(c)
    \/ TeardownDone(c) \/ RestoreDone(c) \/ Reply(c)

\* What its peer chooses to do.
Peer(c) ==
    \/ Accept(c) \/ PeerClosesFd(c) \/ PeerGone(c)
    \/ RecvMalformed(c) \/ RecvPing(c) \/ RecvTeardown(c) \/ RecvRestore(c)
    \/ RecvApply(c)

Next ==
    \/ MainStep
    \/ \E k \in Cleaners : CleanerStep(k)
    \/ \E c \in Clients : HandleClient(c) \/ Peer(c)

Spec == Init /\ [][Next]_vars

-----------------------------------------------------------------------------
(* Fairness.  The runtime keeps polling a task that can run and every       *)
(* command it waits for terminates; systemd restarts a crashed helper       *)
(* (Restart=on-failure).  Nothing obliges a peer, a signal or a crash.      *)

TaskFairness == \A c \in Clients : WF_vars(HandleClient(c))
MainFairness == WF_vars(TeardownSession(Main) \/ Exit)
RestartFairness == WF_vars(pc[Main] = "crashed" /\ Start)

FairSpec == Spec /\ TaskFairness /\ MainFairness /\ RestartFairness

-----------------------------------------------------------------------------
(* Properties.                                                             *)

ClientReturns == {"none", "end", "t_done", "r_done", "reply", "a_create"}
MainReturns   == {"none", "listen", "exit"}

InSubroutine(t) == pc[t] \in CleanupPoints \cup TeardownPoints

TasksOK ==
    /\ pc \in [Tasks -> ClientPoints \cup MainPoints]
    /\ ret \in [Tasks -> ClientReturns \cup MainReturns]
    /\ conn \in [Clients -> {"none", "open", "gone", "lost"}]
    /\ pc[Main] \in MainPoints /\ ret[Main] \in MainReturns
    /\ \A c \in Clients : pc[c] \in ClientPoints /\ ret[c] \in ClientReturns
    /\ \A k \in Cleaners : pc[k] \in {"none"} \cup CleanupPoints /\ ret[k] = "none"
    /\ \A t \in Clients \cup {Main} : InSubroutine(t) <=> ret[t] # "none"
    /\ \A c \in Clients : pc[c] # "none" <=> conn[c] \in {"open", "gone"}

ObjectsOK ==
    /\ appFd \in [Clients -> BOOLEAN]
    /\ owns \in [Clients -> BOOLEAN]
    /\ state \in Clients \cup {None}
    /\ tun \in Clients \cup {None}
    /\ nft \in SUBSET Clients
    /\ dns \in BOOLEAN
    /\ journal \in BOOLEAN
    /\ crashes \in 0..MaxCrashes
    /\ dns => tun # None

\* Every variable has its type; a task is inside a subroutine exactly when it
\* knows where that subroutine returns (handle_client, main); a connection has
\* a task exactly while the helper holds its stream; resolved has settings for
\* easy0 only while the link exists.
TypeOK == TasksOK /\ ObjectsOK

Starting == ret[Main] = "listen"

\* Recovery (main: cleanup_stale before the socket is bound).  Wherever the
\* previous process died, while the new one starts nobody else changes the
\* kernel objects, and once a startup command has run its object is gone: the
\* helper begins to listen with no table, no device, no DNS and no session.
CleanStart ==
    Starting =>
      /\ state = None
      /\ \A c \in Clients : pc[c] = "none" /\ conn[c] \in {"none", "lost"}
      /\ pc[Main] \in {"c_nft", "c_link", "c_journal"} => ~dns
      /\ pc[Main] \in {"c_link", "c_journal"} => nft = {}
      /\ pc[Main] = "c_journal" => tun = None

\* Rollback (apply_spec).  When a failed Apply reports its error, neither its
\* rules nor its device are left, whatever other connections did meanwhile.
FailedApplyRollsBack ==
    \A c \in Clients : pc[c] = "e_reply" => c \notin nft /\ tun # c

\* A session whose connection is lost does not survive it (the end of
\* handle_client, and the restart after a crash): its rules and its device
\* go, unless the helper was stopped on purpose meanwhile.
OrphanIsRemoved ==
    \A c \in Clients :
      (conn[c] \in {"gone", "lost"} /\ (c \in nft \/ tun = c))
        ~> ((c \notin nft /\ tun # c) \/ pc[Main] = "stopped")

\* A client task that began to work for its peer comes back to it or ends.
RequestsAreAnswered ==
    \A c \in Clients :
      (pc[c] \notin {"none", "recv"}) ~> (pc[c] \in {"none", "recv"})

-----------------------------------------------------------------------------
(* What holds when one connection controls the helper and every other one   *)
(* is a health check (rt_tun::elevate::helper_reachable: connect, Ping,     *)
(* drop), which is how one desktop application uses it.                     *)

HealthCheck(c) == Requests[c] \subseteq {"Ping"}

SoleController ==
    /\ Cleaners = {}
    /\ \A c, d \in Clients : HealthCheck(c) \/ HealthCheck(d) \/ c = d

\* Points at which a connection's task is changing the kernel objects.
Busy(c) == pc[c] \notin {"none", "recv", "reply", "e_reply", "a_reply"}

\* While the helper listens and no request is being worked on, an active
\* session has its table, its journal and a connection that owns its cleanup.
SessionIsApplied ==
    (/\ pc[Main] = "listen"
     /\ state # None
     /\ ~Busy(state))
       => nft = {state} /\ journal /\ owns[state]

\* The cleanup contract.  While the helper listens and no request is being
\* worked on, no session means no table, no device, no DNS settings, no
\* journal, and nobody who would tear down again.
NothingLeftBehind ==
    (/\ pc[Main] = "listen"
     /\ state = None
     /\ \A c \in Clients : ~Busy(c))
       => /\ nft = {} /\ tun = None /\ ~dns /\ ~journal
          /\ \A c \in Clients : ~owns[c]

\* The session of the helper is a lease: held by the connection that applied
\* it until it is torn down, and given back once that connection is lost,
\* crashes of the helper and signals included.
Lease == INSTANCE TunnelLease WITH
    Owners <- Clients, NoOwner <- None,
    holder <- state, alive <- (state # None /\ conn[state] = "open")
LeaseIsGivenBack == Lease!FairSpec
=============================================================================
