------------------------------- MODULE Player -------------------------------
(***************************************************************************)
(* relay/web/index.html: the page, a program of callbacks and of functions *)
(* that await.  Each action is what runs between two awaits: until then    *)
(* any other callback may run, and what a function read before its await   *)
(* may have changed.                                                       *)
(*                                                                         *)
(* Sockets and audio contexts are numbered; a number is used again when    *)
(* nothing refers to it any more.  What is shown, the delays before a      *)
(* reconnect, and whether a record or an announcement is quiet are left    *)
(* out, and so is `output', which is set and cleared with `context'.  The  *)
(* relay's messages follow module Delivery.                                *)
(***************************************************************************)
EXTENDS Naturals, Sequences, FiniteSets

CONSTANTS
    Rates,          \* sample rates of sources
    NominalRate,    \* NOMINAL_SAMPLE_RATE
    Sockets,        \* bound: numbers for sockets
    Contexts,       \* bound: numbers for audio contexts
    MaxEpoch,       \* bound: sessions announced on a connection
    MaxMessages,    \* bound: messages that wait for their handler
    MaxStarts,      \* bound: calls of start that await at once
    MaxStops        \* bound: calls of stop that do

ASSUME PlayerAssumption ==
    /\ Rates \subseteq Nat \ {0} /\ NominalRate \in Rates
    /\ Sockets \subseteq Nat \ {0} /\ Contexts \subseteq Nat \ {0}
    /\ {MaxEpoch, MaxMessages, MaxStarts, MaxStops} \subseteq Nat

VARIABLES
    listening,
    context,        \* a number, or None
    worklet,        \* that of the context it is in, or None
    socket,         \* a number, or None
    format,         \* the session announced last, or NoSession
    epoch,          \* its epoch, or None
    retry,          \* a timer will call openSocket
    starting,       \* the calls of start that await openPlayback
    stopping,       \* the calls of stop that await closePlayback
    handler,        \* the message handler that awaits, if any
    messages,       \* the handlers chained behind it
    sockets,        \* per number: a Connection
    contexts,       \* per number: a Graph
    loaded,         \* history: the session of what the worklet buffers
    misplayed,      \* history: a frame went to the wrong place
    doubled         \* history: start was called while another start awaited

page == <<listening, context, worklet, socket, format, epoch, retry>>
awaits == <<starting, stopping, handler, messages>>
outside == <<sockets, contexts>>
history == <<loaded, misplayed, doubled>>
vars == <<page, awaits, outside, history>>

None == 0
NoSession == [epoch |-> None, rate |-> None]
Sessions == [epoch: 1 .. MaxEpoch, rate: Rates]

\* A socket as far as it concerns the page, and what the relay announced on it.
NoConnection == [state |-> "none", said |-> NoSession]
Connection == [state: {"open", "closing"}, said: Sessions \union [epoch: 0 .. MaxEpoch, rate: {None}]] \union {NoConnection}

\* An AudioContext with what is connected in it, and its sampleRate.
NoGraph == [state |-> "none", rate |-> None]
Graph == [state: {"opening", "running", "failed"}, rate: Rates] \union {NoGraph}

NoHandler == [phase |-> "none", socket |-> None, session |-> NoSession, context |-> None]

Init ==
    /\ listening = FALSE
    /\ context = None
    /\ worklet = None
    /\ socket = None
    /\ format = NoSession
    /\ epoch = None
    /\ retry = FALSE
    /\ starting = {}
    /\ stopping = 0
    /\ handler = NoHandler
    /\ messages = <<>>
    /\ sockets = [s \in Sockets |-> NoConnection]
    /\ contexts = [c \in Contexts |-> NoGraph]
    /\ loaded = NoSession
    /\ misplayed = FALSE
    /\ doubled = FALSE

\* A number that is free; which one makes no difference.
AnyOf(S) == CHOOSE x \in S : TRUE

FreeSockets ==
    {s \in Sockets :
        /\ sockets[s] = NoConnection
        /\ handler.socket # s
        /\ \A i \in DOMAIN messages : messages[i].socket # s}

\* A context that could not be opened is never closed once the page opened
\* another.  It plays nothing, and is forgotten here.
FreeContexts ==
    {c \in Contexts :
        /\ contexts[c].state \in {"none", "failed"}
        /\ c \notin {context, worklet, handler.context}
        /\ \A t \in starting : t.context # c}

-----------------------------------------------------------------------------
\* openPlayback up to its first await.
OpenContext(r) ==
    /\ FreeContexts # {}
    /\ LET c == AnyOf(FreeContexts)
       IN  /\ context' = c
           /\ contexts' = [contexts EXCEPT ![c] = [state |-> "opening", rate |-> r]]

\* closePlayback up to its await.
ClosePlayback ==
    /\ worklet' = None
    /\ context' = None
    /\ contexts' = [c \in Contexts |-> IF c = context THEN NoGraph ELSE contexts[c]]
    /\ loaded' = NoSession

\* Mutated: openPlayback does not look whether the context is still the page's.
MakeWorkletAnyway(c) == worklet' = c /\ contexts' = [contexts EXCEPT ![c].state = "running"]

\* openPlayback's last part, if the context is still the page's.
MakeWorklet(c) ==
    IF context = c
    THEN worklet' = c /\ contexts' = [contexts EXCEPT ![c].state = "running"]
    ELSE UNCHANGED <<worklet, contexts>>

\* openPlayback throws: the context stays as it is.
GiveUp(c) == contexts' = [contexts EXCEPT ![c].state = IF @ = "opening" THEN "failed" ELSE @]

OpenSocket ==
    IF listening
    THEN /\ FreeSockets # {}
         /\ LET s == AnyOf(FreeSockets)
            IN  /\ socket' = s
                /\ sockets' = [sockets EXCEPT ![s].state = "open"]
    ELSE UNCHANGED <<socket, sockets>>

\* Its onmessage and onclose are cleared.
CloseSocket ==
    /\ socket' = None
    /\ sockets' = [s \in Sockets |-> IF s = socket THEN NoConnection ELSE sockets[s]]

-----------------------------------------------------------------------------
\* The button may be pressed at any moment, also while earlier presses still
\* await something.  start up to the await in openPlayback.  (If openPlayback
\* throws before it, start ends where it began.)
Start ==
    /\ ~listening
    /\ Cardinality(starting) < MaxStarts
    /\ doubled' = (doubled \/ starting # {})
    /\ listening' = TRUE
    /\ OpenContext(NominalRate)
    /\ starting' = starting \union {[context |-> context', phase |-> "module"]}
    /\ UNCHANGED <<worklet, socket, format, epoch, retry, stopping, handler, messages,
                   sockets, loaded, misplayed>>

\* addModule is done: openPlayback goes on to resume if the context is still
\* the page's, and else returns, after which start opens a socket.
ModuleAdded(t) ==
    /\ t.phase = "module"
    /\ IF context = t.context
       THEN /\ starting' = (starting \ {t}) \union {[t EXCEPT !.phase = "resume"]}
            /\ UNCHANGED <<socket, sockets>>
       ELSE /\ starting' = starting \ {t}
            /\ OpenSocket
    /\ UNCHANGED <<listening, context, worklet, format, epoch, retry, stopping, handler,
                   messages, contexts, history>>

\* resume is done.
Resumed(t) ==
    /\ t.phase = "resume"
    /\ starting' = starting \ {t}
    /\ MakeWorklet(t.context)
    /\ OpenSocket
    /\ UNCHANGED <<listening, context, format, epoch, retry, stopping, handler, messages, history>>

\* openPlayback throws.
StartFails(t) ==
    /\ listening' = FALSE
    /\ starting' = starting \ {t}
    /\ GiveUp(t.context)
    /\ UNCHANGED <<context, worklet, socket, format, epoch, retry, stopping, handler, messages,
                   sockets, history>>

\* stop up to the await in closePlayback, or to its end if there is none.
Stop ==
    /\ stopping < MaxStops
    /\ listening' = FALSE
    /\ retry' = FALSE
    /\ CloseSocket
    /\ ClosePlayback
    /\ IF context = None
       THEN format' = NoSession /\ epoch' = None /\ UNCHANGED stopping
       ELSE stopping' = stopping + 1 /\ UNCHANGED <<format, epoch>>
    /\ UNCHANGED <<starting, handler, messages, misplayed, doubled>>

\* The rest of stop.
Stopped ==
    /\ stopping > 0
    /\ stopping' = stopping - 1
    /\ format' = NoSession
    /\ epoch' = None
    /\ UNCHANGED <<listening, context, worklet, socket, retry, starting, handler, messages,
                   outside, history>>

-----------------------------------------------------------------------------
\* The relay's messages: sessions one after the other, the records of each,
\* and "waiting" at its end.
Message(s, kind, session) == [socket |-> s, kind |-> kind, session |-> session]

Says(s, kind, session) ==
    /\ sockets[s].state = "open"
    /\ Len(messages) < MaxMessages
    /\ messages' = Append(messages, Message(s, kind, session))
    /\ sockets' = [sockets EXCEPT ![s].said = session]
    /\ UNCHANGED <<page, starting, stopping, handler, contexts, history>>

Announce(s) ==
    \E session \in Sessions :
        session.epoch > sockets[s].said.epoch /\ Says(s, "format", session)

Record(s) == sockets[s].said.rate # None /\ Says(s, "record", sockets[s].said)

Waiting(s) ==
    /\ sockets[s].said.rate # None
    /\ Says(s, "waiting", [sockets[s].said EXCEPT !.rate = None])

\* onclose dials again while the page listens; mutated, only after a session.
RetryDueIfLive == listening /\ format # NoSession
RetryDue == listening

\* A connection ends: onclose.
SocketCloses(s) ==
    /\ sockets[s] # NoConnection
    /\ sockets' = [sockets EXCEPT ![s] = NoConnection]
    /\ IF s = socket
       THEN /\ socket' = None
            /\ format' = NoSession
            /\ epoch' = None
            /\ loaded' = NoSession
            /\ retry' = (retry \/ RetryDue)
       ELSE UNCHANGED <<socket, format, epoch, loaded, retry>>
    /\ UNCHANGED <<listening, context, worklet, awaits, contexts, misplayed, doubled>>

\* The timer of the delay fires.
Retry ==
    /\ retry
    /\ retry' = FALSE
    /\ OpenSocket
    /\ UNCHANGED <<listening, context, worklet, format, epoch, awaits, contexts, history>>

-----------------------------------------------------------------------------
\* A handler runs when the one before it is done.
Turn == handler.phase = "none"

Live(s) == socket = s /\ listening

Handle(kind) ==
    /\ Turn
    /\ messages # <<>>
    /\ Head(messages).kind = kind
    /\ messages' = Tail(messages)

\* The handler of a connection that was given up does nothing.
Ignore ==
    /\ Turn
    /\ messages # <<>> /\ ~Live(Head(messages).socket)
    /\ messages' = Tail(messages)
    /\ UNCHANGED <<page, starting, stopping, handler, outside, history>>

\* playFrame.  A frame is misplayed in a graph of another rate, or behind those
\* of another session.
PlayFrame ==
    /\ Handle("record")
    /\ LET m == Head(messages)
       IN  /\ Live(m.socket)
           /\ IF format = NoSession \/ worklet = None
              THEN UNCHANGED <<loaded, misplayed>>
              ELSE /\ loaded' = m.session
                   /\ misplayed' =
                         (misplayed \/ contexts[worklet].rate # m.session.rate
                                    \/ format # m.session
                                    \/ loaded \notin {NoSession, m.session})
    /\ UNCHANGED <<page, starting, stopping, handler, outside, doubled>>

\* applyFormat of "waiting".
ApplyWaiting ==
    /\ Handle("waiting")
    /\ Live(Head(messages).socket)
    /\ format' = NoSession
    /\ loaded' = NoSession
    /\ UNCHANGED <<listening, context, worklet, socket, epoch, retry, starting, stopping, handler,
                   outside, misplayed, doubled>>

\* The end of applyFormat.  Mutated: the buffer is not reset.
AdoptOnly(session) ==
    /\ format' = session
    /\ epoch' = session.epoch
    /\ UNCHANGED loaded

Adopt(session) ==
    /\ loaded' = IF epoch = session.epoch THEN loaded ELSE NoSession
    /\ format' = session
    /\ epoch' = session.epoch

\* applyFormat when the graph fits, or there is none.
ApplyFormat ==
    /\ Handle("format")
    /\ LET m == Head(messages)
       IN  /\ Live(m.socket)
           /\ context # None => contexts[context].rate = m.session.rate
           /\ Adopt(m.session)
    /\ UNCHANGED <<listening, context, worklet, socket, retry, starting, stopping, handler, outside,
                   misplayed, doubled>>

\* applyFormat up to the await in closePlayback, when it has to rebuild.
Rebuild ==
    /\ Handle("format")
    /\ LET m == Head(messages)
       IN  /\ Live(m.socket)
           /\ context # None /\ contexts[context].rate # m.session.rate
           /\ handler' = [phase |-> "close", socket |-> m.socket, session |-> m.session,
                          context |-> None]
    /\ ClosePlayback
    /\ UNCHANGED <<listening, socket, format, epoch, retry, starting, stopping, sockets, misplayed,
                   doubled>>

\* closePlayback is done: openPlayback up to its first await.
RebuildClosed ==
    /\ handler.phase = "close"
    /\ IF Live(handler.socket)
       THEN /\ OpenContext(handler.session.rate)
            /\ handler' = [handler EXCEPT !.phase = "module", !.context = context']
       ELSE /\ handler' = NoHandler
            /\ UNCHANGED <<context, contexts>>
    /\ UNCHANGED <<listening, worklet, socket, format, epoch, retry, starting, stopping, messages,
                   sockets, history>>

\* addModule is done.
RebuildModule ==
    /\ handler.phase = "module" /\ context = handler.context
    /\ handler' = [handler EXCEPT !.phase = "resume"]
    /\ UNCHANGED <<page, starting, stopping, messages, outside, history>>

\* openPlayback returned, having made a worklet or found that the context is
\* no longer the page's.
RebuildDone ==
    /\ \/ handler.phase = "resume"
       \/ handler.phase = "module" /\ context # handler.context
    /\ handler' = NoHandler
    /\ MakeWorklet(handler.context)
    /\ IF Live(handler.socket) THEN Adopt(handler.session) ELSE UNCHANGED <<format, epoch, loaded>>
    /\ UNCHANGED <<listening, context, socket, retry, starting, stopping, messages, sockets,
                   misplayed, doubled>>

\* openPlayback throws, before it has a context or after: the connection is
\* closed, and onclose follows.
RebuildFails ==
    /\ \/ handler.phase = "close" /\ Live(handler.socket) /\ UNCHANGED contexts
       \/ handler.phase \in {"module", "resume"} /\ GiveUp(handler.context)
    /\ handler' = NoHandler
    /\ IF socket = handler.socket
       THEN sockets' = [sockets EXCEPT ![socket].state = "closing"] /\ loaded' = NoSession
       ELSE UNCHANGED <<sockets, loaded>>
    /\ UNCHANGED <<page, starting, stopping, messages, misplayed, doubled>>

-----------------------------------------------------------------------------
StartStep == \E t \in starting : ModuleAdded(t) \/ Resumed(t) \/ StartFails(t)

HandlerStep ==
    \/ Ignore \/ PlayFrame \/ ApplyWaiting \/ ApplyFormat \/ Rebuild
    \/ RebuildClosed \/ RebuildModule \/ RebuildDone \/ RebuildFails

Next ==
    \/ Start \/ Stop \/ Stopped
    \/ StartStep
    \/ HandlerStep
    \/ \E s \in Sockets : Announce(s) \/ Record(s) \/ Waiting(s) \/ SocketCloses(s)
    \/ Retry

\* Timers fire and the promises of the browser settle.
Spec ==
    /\ Init /\ [][Next]_vars
    /\ WF_vars(StartStep) /\ WF_vars(HandlerStep) /\ WF_vars(Retry)

-----------------------------------------------------------------------------
\* Frames are only put into a graph of their rate, and a buffer never mixes
\* those of two sessions, although the graph is rebuilt, and the connection
\* lost or the button pressed, between their arrival and their turn.  All
\* this is only so while start is not called again before it is done: of two
\* calls the page forgets one's connection.
FramesFitTheGraph == ~doubled => ~misplayed

Settled == starting = {} /\ stopping = 0 /\ handler = NoHandler

\* When a player is stopped and every await is over, nothing is left of it: no
\* timer, no connection, which would be a listener of the relay, and no
\* running graph, which could still be heard; again if start was not called
\* while it still awaited its graph.
StopLeavesNothing ==
    ~doubled /\ Settled /\ ~listening =>
        /\ ~retry
        /\ \A s \in Sockets : sockets[s] = NoConnection
        /\ \A c \in Contexts : contexts[c].state # "running"

\* However connections end, a player that listens dials again.
Reconnects == listening ~> socket # None \/ ~listening

\* What the documentation says of the page: once it listens, frames arrive, are
\* decoded and pass through the worklet.  The page says it is live, its
\* connection is open, and nothing awaits anything: it has a worklet.
FramesReachTheWorklet ==
    Settled /\ messages = <<>> /\ format # NoSession /\ sockets[socket].state = "open" =>
        worklet # None
=============================================================================
