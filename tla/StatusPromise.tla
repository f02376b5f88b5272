--------------------------- MODULE StatusPromise ----------------------------
(***************************************************************************)
(* What a status watcher promises to the reader of the channel that Watch  *)
(* returns, and what TaskRunner assumes of it: updates in any order, at    *)
(* most one SyncEvent, an end of the watch after an error, and a channel   *)
(* that is closed when, and only when, the watch was stopped.              *)
(***************************************************************************)
VARIABLES stopped,  \* the context of the watch is cancelled
          synced,   \* the reader received the SyncEvent
          erred,    \* the reader received an ErrorEvent
          closed,   \* the channel the reader ranges over is closed
          crashed   \* the process is gone

promiseVars == <<stopped, synced, erred, closed, crashed>>

Init == /\ stopped \in BOOLEAN
        /\ ~synced /\ ~erred /\ ~closed /\ ~crashed

Running == ~crashed
Emits == Running /\ ~closed

Stop == Running /\ stopped' = TRUE /\ UNCHANGED <<synced, erred, closed, crashed>>
Sync == Emits /\ ~synced /\ synced' = TRUE /\ UNCHANGED <<stopped, erred, closed, crashed>>
Err  == Emits /\ erred' = TRUE /\ UNCHANGED <<stopped, synced, closed, crashed>>
Close == Emits /\ stopped /\ closed' = TRUE /\ UNCHANGED <<stopped, synced, erred, crashed>>
Crash == Running /\ crashed' = TRUE /\ UNCHANGED <<stopped, synced, erred, closed>>

Next == Stop \/ Sync \/ Err \/ Close \/ Crash

SafetySpec == Init /\ [][Next]_promiseVars

\* A stopped watch ends, and an error stops the watch.
Spec == /\ SafetySpec
        /\ WF_promiseVars(Close)
        /\ WF_promiseVars(erred /\ ~stopped /\ Stop)
=============================================================================
