---------------------------- MODULE EventFunnel -----------------------------
(***************************************************************************)
(* The event funnel of the status watcher (kstatus/watcher/event_funnel.go)*)
(* : input channels come and go at run time and share one output channel,  *)
(* which the funnel closes once the context is done and no input is open.  *)
(* All channels are unbuffered, so a send and its receive are one step.    *)
(***************************************************************************)
EXTENDS Integers, FiniteSets

CONSTANTS Channels,  \* the input channels that may be added
          Events,    \* what is sent on them
          NoEvent

ASSUME FunnelAssumption == IsFiniteSet(Channels) /\ NoEvent \notin Events

VARIABLES
    ctxDone,    \* the context of the funnel is cancelled
    ctxNoticed, \* the loop took ctx.Done() and set ctxDoneCh to nil
    inputs,     \* the number of open inputs, as the loop counts it
    outClosed,  \* outCh and doneCh are closed, the loop has ended
    drain,      \* the drain goroutine of each channel
    held,       \* the event a drain took from its channel
    inClosed    \* the owner of the channel closed it

funnelVars == <<ctxNoticed, inputs, outClosed, drain, held, inClosed>>

FunnelTypeOK ==
    /\ ctxDone \in BOOLEAN
    /\ ctxNoticed \in BOOLEAN
    /\ inputs \in Int
    /\ outClosed \in BOOLEAN
    /\ drain \in [Channels -> {"none", "receiving", "holding", "gone"}]
    /\ held \in [Channels -> Events \cup {NoEvent}]
    /\ inClosed \in [Channels -> BOOLEAN]

FunnelInit ==
    /\ ctxDone = FALSE
    /\ ctxNoticed = FALSE
    /\ inputs = 0
    /\ outClosed = FALSE
    /\ drain = [c \in Channels |-> "none"]
    /\ held = [c \in Channels |-> NoEvent]
    /\ inClosed = [c \in Channels |-> FALSE]

\* Drains whose goroutine has not sent its -1.
Open == {c \in Channels : drain[c] \in {"receiving", "holding"}}

\* One turn of the loop: the select, and the test that ends it.
Turn(delta, noticed) ==
    /\ ~outClosed
    /\ ctxNoticed' = (ctxNoticed \/ noticed)
    /\ inputs' = inputs + delta
    /\ outClosed' = (ctxNoticed' /\ inputs' <= 0)

NoticeContext ==
    /\ ctxDone /\ ~ctxNoticed
    /\ Turn(0, TRUE)
    /\ UNCHANGED <<ctxDone, drain, held, inClosed>>

\* Mutant: the drain is started without the +1.
AddInputChannelUncounted(c) ==
    /\ drain[c] = "none"
    /\ Turn(0, FALSE)
    /\ drain' = [drain EXCEPT ![c] = "receiving"]
    /\ UNCHANGED <<ctxDone, held, inClosed>>

\* AddInputChannel: the loop took the +1 and the drain is started.
AddInputChannel(c) ==
    /\ drain[c] = "none"
    /\ Turn(1, FALSE)
    /\ drain' = [drain EXCEPT ![c] = "receiving"]
    /\ UNCHANGED <<ctxDone, held, inClosed>>

\* AddInputChannel returns EventFunnelClosedError. With the loop still
\* running select may take either case.
AddRefused == ctxDone

\* The owner of c sends e and the drain receives it.
Send(c, e) ==
    /\ drain[c] = "receiving" /\ ~inClosed[c]
    /\ drain' = [drain EXCEPT ![c] = "holding"]
    /\ held' = [held EXCEPT ![c] = e]
    /\ UNCHANGED <<ctxDone, ctxNoticed, inputs, outClosed, inClosed>>

\* The drain sends its event on outCh and the consumer receives it.
Forward(c) ==
    /\ drain[c] = "holding"
    /\ ~outClosed
    /\ drain' = [drain EXCEPT ![c] = "receiving"]
    /\ held' = [held EXCEPT ![c] = NoEvent]
    /\ UNCHANGED <<ctxDone, ctxNoticed, inputs, outClosed, inClosed>>

\* The range over the closed channel ends and the deferred -1 is sent.
DrainEnds(c) ==
    /\ drain[c] = "receiving" /\ inClosed[c]
    /\ Turn(-1, FALSE)
    /\ drain' = [drain EXCEPT ![c] = "gone"]
    /\ UNCHANGED <<ctxDone, held, inClosed>>

----------------------------------------------------------------------------
(* The funnel among any producers and any caller.                          *)

CancelContext ==
    /\ ~ctxDone
    /\ ctxDone' = TRUE
    /\ UNCHANGED funnelVars

CloseInput(c) ==
    /\ ~inClosed[c]
    /\ inClosed' = [inClosed EXCEPT ![c] = TRUE]
    /\ UNCHANGED <<ctxDone, ctxNoticed, inputs, outClosed, drain, held>>

FunnelNext ==
    \/ NoticeContext
    \/ CancelContext
    \/ \E c \in Channels :
          \/ AddInputChannel(c)
          \/ \E e \in Events : Send(c, e)
          \/ Forward(c)
          \/ DrainEnds(c)
          \/ CloseInput(c)

FunnelSpec == FunnelInit /\ [][FunnelNext]_<<ctxDone, funnelVars>>

----------------------------------------------------------------------------
\* The loop counts exactly the drains that have not ended, so that the
\* output channel is closed after the last of them and no drain sends on a
\* closed channel or is left with an event nobody takes.
ClosesAfterLastInput ==
    outClosed => ctxDone /\ Open = {}

\* Once the output is closed it stays closed and no input is added or ends.
ClosedIsFinal ==
    [][outClosed => UNCHANGED <<outClosed, drain, held, inputs>>]_<<ctxDone, funnelVars>>
=============================================================================
