----------------------------- MODULE TftpServer -----------------------------
(***************************************************************************)
(* The TFTP server of a session: src-tauri/src/plugins/tftp/server.rs      *)
(* (listener and transfer threads), mod.rs (try_start_server, shutdown)    *)
(* and commands.rs (start, stop).  Listeners, transfers and commands share *)
(* three atomics and nothing else; a listener looks at abort at most once  *)
(* a second, so a stop followed by a start may find the old one alive.     *)
(* The packets of one transfer are the module Tftp.                        *)
(***************************************************************************)
EXTENDS Naturals, FiniteSets

CONSTANTS Thread,       \* listener threads over the life of the session
          MaxTransfers  \* MAX_CONCURRENT_SERVER_TRANSFERS

VARIABLES abort,        \* abort_flag
          running,      \* server_running
          thread,       \* [Thread -> state of the listener thread]
          active,       \* active_server_transfers
          transfers,    \* transfer threads that run
          closed,       \* shutdown was called; the registry no longer finds the runtime
          overlapped    \* history: a start was accepted while a listener was alive

svars == <<abort, running, thread, active, transfers, closed, overlapped>>

Alive == {t \in Thread : thread[t] \notin {"unused", "ended"}}

Init ==
    /\ abort = FALSE /\ running = FALSE
    /\ thread = [t \in Thread |-> "unused"]
    /\ active = 0 /\ transfers = 0
    /\ closed = FALSE /\ overlapped = FALSE

------------------------------------------------------------------------------
(* try_start_server: refused while server_running; otherwise abort is      *)
(* cleared and a thread is spawned, unless the socket takes no timeout.    *)
Start(t) ==
    /\ ~closed /\ ~running
    /\ thread[t] = "unused"
    /\ abort' = FALSE
    /\ \/ /\ thread' = [thread EXCEPT ![t] = "spawned"]
          /\ overlapped' = (overlapped \/ Alive # {})
          /\ UNCHANGED running
       \/ running' = FALSE /\ UNCHANGED <<thread, overlapped>>
    /\ UNCHANGED <<active, transfers, closed>>

(* tftp_server_stop does not wait for the listener.                        *)
Stop ==
    /\ ~closed
    /\ abort' = TRUE /\ running' = FALSE
    /\ UNCHANGED <<thread, active, transfers, closed, overlapped>>

(* shutdown of a closing session; the front end takes the session's end    *)
(* for the end of the server.                                              *)
Shutdown ==
    /\ ~closed
    /\ closed' = TRUE /\ abort' = TRUE
    /\ UNCHANGED <<running, thread, active, transfers, overlapped>>

------------------------------------------------------------------------------
(* The listener thread *)

Goes(t, s) == thread' = [thread EXCEPT ![t] = s]

(* The check before the loop, and then the published state.                *)
Begin(t) ==
    /\ thread[t] = "spawned"
    /\ Goes(t, IF abort THEN "ended" ELSE "passed")
    /\ UNCHANGED <<abort, running, active, transfers, closed, overlapped>>

Publish(t) ==
    /\ thread[t] = "passed"
    /\ Goes(t, "listening")
    /\ running' = TRUE
    /\ UNCHANGED <<abort, active, transfers, closed, overlapped>>

(* One turn of the loop: abort, or a receive that fails, ends it; a        *)
(* request below the limit is accepted; timeouts, other packets and        *)
(* refused requests change nothing.                                        *)
BelowLimit_OffByOne == active <= MaxTransfers
BelowLimit == active < MaxTransfers

Listen(t) ==
    /\ thread[t] = "listening"
    /\ \/ Goes(t, "leaving")
       \/ ~abort /\ BelowLimit /\ Goes(t, "accepting")
    /\ UNCHANGED <<abort, running, active, transfers, closed, overlapped>>

(* fetch_add and the spawned transfer thread.                              *)
Accept(t) ==
    /\ thread[t] = "accepting"
    /\ Goes(t, "listening")
    /\ active' = active + 1 /\ transfers' = transfers + 1
    /\ UNCHANGED <<abort, running, closed, overlapped>>

(* The thread's last store; it sends no status event.                      *)
Leave_Silently(t) ==
    /\ thread[t] = "leaving"
    /\ Goes(t, "ended")
    /\ UNCHANGED <<abort, running, active, transfers, closed, overlapped>>
Leave(t) ==
    /\ thread[t] = "leaving"
    /\ Goes(t, "ended")
    /\ running' = FALSE
    /\ UNCHANGED <<abort, active, transfers, closed, overlapped>>

(* handle_rrq or handle_wrq returns: completed, failed or aborted.         *)
TransferEnds ==
    /\ transfers > 0
    /\ transfers' = transfers - 1 /\ active' = active - 1
    /\ UNCHANGED <<abort, running, thread, closed, overlapped>>

------------------------------------------------------------------------------
Listener(t) == Begin(t) \/ Publish(t) \/ Listen(t) \/ Accept(t) \/ Leave(t)

Next ==
    \/ Stop \/ Shutdown \/ TransferEnds
    \/ \E t \in Thread : Start(t) \/ Listener(t)

(* Threads run; a transfer ends because its retries do (Tftp).  A listener *)
(* told to stop leaves within a receive timeout.                           *)
Progress ==
    \/ TransferEnds
    \/ \E t \in Thread : Begin(t) \/ Publish(t) \/ Accept(t) \/ Leave(t) \/ (abort /\ Listen(t))

Spec == Init /\ [][Next]_svars /\ WF_svars(Progress)

------------------------------------------------------------------------------
(* Properties *)

(* As long as no start was accepted over a living listener, the server     *)
(* never runs more transfers than MAX_CONCURRENT_SERVER_TRANSFERS, and the *)
(* counter is the number of transfers across every start and stop (the     *)
(* load and the fetch_add of the listener are two steps).                  *)
LimitHeld ==
    /\ active = transfers
    /\ ~overlapped => active <= MaxTransfers

(* A status query never reports a running server without a listener, even  *)
(* when starts and stops overlap.                                          *)
RunningHasListener == running => \E t \in Thread : thread[t] \in {"listening", "accepting", "leaving"}

(* A server that stays told to stop ends: every listener, however many     *)
(* overlapped, leaves, and every transfer comes back.                      *)
Awaited == abort
Reached == ~abort \/ (Alive = {} /\ ~running /\ transfers = 0)
=============================================================================
