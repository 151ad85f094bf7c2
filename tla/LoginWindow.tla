----------------------------- MODULE LoginWindow -----------------------------
(***************************************************************************)
(* auth.Login: the native window whose page hands over a token             *)
(* (webview.go: waitForTokenLogin), and the exchange of the token for a    *)
(* session (token.go: exchangeTokenLogin).                                 *)
(*                                                                         *)
(* Three threads meet in `complete': the window's own, which is the main   *)
(* one and runs the page's callbacks; the goroutine that waits for the     *)
(* context; and, once the window is closed, the main one again, which      *)
(* takes the result and destroys the window.                               *)
(***************************************************************************)

VARIABLES
  ui,          \* the main thread: before, in and after w.Run, and beyond
  watcher,     \* the goroutine that waits for ctx
  once,        \* the sync.Once: "free", "running" in the goroutine, "done"
  outcome,     \* what resultCh or errCh holds
  done,        \* the channel is closed
  terminate,   \* w.Terminate waits in the window's queue
  cancelled    \* ctx is done

window == <<ui, watcher, once, outcome, done, terminate, cancelled>>

WindowInit ==
  /\ ui = "setup"
  /\ watcher = "none"
  /\ once = "free"
  /\ outcome = "none"
  /\ done = FALSE
  /\ terminate = FALSE
  /\ cancelled = FALSE

(* The window is created, bound and shown, and the goroutine started. *)
OpenWindow ==
  /\ ui = "setup"
  /\ ui' = "run"
  /\ watcher' = "select"
  /\ UNCHANGED <<once, outcome, done, terminate, cancelled>>

(* No nonce, no native runtime, no window, or a callback cannot be bound. *)
OpenWindowFails ==
  /\ ui = "setup"
  /\ ui' = "failed"
  /\ UNCHANGED <<watcher, once, outcome, done, terminate, cancelled>>

(* idriveGatewayTokenReady or idriveGatewayAuthError with this window's    *)
(* nonce.  `done' cannot be closed here: that is this thread's next task.  *)
(* A callback that comes second changes nothing.                           *)
Callback ==
  /\ ui = "run"
  /\ once = "free"
  /\ once' = "done"
  /\ outcome' \in {"token", "refused"}
  /\ terminate' = TRUE
  /\ UNCHANGED <<ui, watcher, done, cancelled>>

UserCloses ==
  /\ ui = "run"
  /\ ui' = "returned"
  /\ UNCHANGED <<watcher, once, outcome, done, terminate, cancelled>>

Terminate ==
  /\ ui = "run"
  /\ terminate
  /\ ui' = "returned"
  /\ UNCHANGED <<watcher, once, outcome, done, terminate, cancelled>>

CloseDone ==
  /\ ui = "returned"
  /\ done' = TRUE
  /\ ui' = "take"
  /\ UNCHANGED <<watcher, once, outcome, terminate, cancelled>>

(* The last select, and w.Destroy. *)
TakeResult ==
  /\ ui = "take"
  /\ ui' = IF outcome = "token" THEN "exchange" ELSE "failed"
  /\ UNCHANGED <<watcher, once, outcome, done, terminate, cancelled>>

(* One GET, at most ten redirects, and a client that can list the root. *)
Exchange ==
  /\ ui = "exchange"
  /\ ui' \in {"session", "failed"}
  /\ UNCHANGED <<watcher, once, outcome, done, terminate, cancelled>>

-----------------------------------------------------------------------------
(* The goroutine.                                                          *)

WatcherWakes ==
  /\ watcher = "select"
  /\ \/ cancelled /\ watcher' = "once"
     \/ done /\ watcher' = "ended"
  /\ UNCHANGED <<ui, once, outcome, done, terminate, cancelled>>

WatcherSends ==
  /\ watcher = "once"
  /\ \/ /\ once = "free"
        /\ once' = "running"
        /\ outcome' = "cancelled"
        /\ watcher' = "check"
     \/ /\ once = "done"
        /\ watcher' = "ended"
        /\ UNCHANGED <<once, outcome>>
  /\ UNCHANGED <<ui, done, terminate, cancelled>>

(* Mutant: the error is sent, but the window stays open. *)
WatcherLeaves ==
  /\ watcher = "check"
  /\ once' = "done"
  /\ watcher' = "ended"
  /\ UNCHANGED <<ui, outcome, done, terminate, cancelled>>

WatcherChecks ==
  /\ watcher = "check"
  /\ \/ done /\ watcher' = "ended" /\ once' = "done"
     \/ ~done /\ watcher' = "dispatch" /\ UNCHANGED once
  /\ UNCHANGED <<ui, outcome, done, terminate, cancelled>>

(* The window may be closed, or even destroyed, since the check: then      *)
(* Dispatch is undefined, and at worst the process that is being stopped   *)
(* dies.                                                                   *)
WatcherDispatches ==
  /\ watcher = "dispatch"
  /\ once' = "done"
  /\ watcher' = "ended"
  /\ terminate' = TRUE
  /\ \/ UNCHANGED ui
     \/ ui \in {"exchange", "session", "failed"} /\ ui' = "crashed"
  /\ UNCHANGED <<outcome, done, cancelled>>

Cancel ==
  /\ ~cancelled
  /\ cancelled' = TRUE
  /\ UNCHANGED <<ui, watcher, once, outcome, done, terminate>>

(* What happens without the page, the user and the signal. *)
WindowStep ==
  \/ OpenWindow \/ OpenWindowFails \/ Terminate \/ CloseDone \/ TakeResult \/ Exchange

WatcherStep ==
  \/ WatcherWakes \/ WatcherSends \/ WatcherChecks \/ WatcherDispatches

=============================================================================
