---------------------------- MODULE DesktopProofs ----------------------------
(***************************************************************************)
(* The safety of the two parts of the desktop application's lib.rs.  The   *)
(* preview, for every set of bodies and commands and any limits: one       *)
(* renderer per key, whole inline previews, a current pane; and the render *)
(* cache, whose order and count of bytes are exact, which keeps to its     *)
(* limits and never evicts what it has just taken.  The settings, for      *)
(* every set of spellings and settings and every number of failures,       *)
(* crashes and edits of the file.  They share no state.                    *)
(***************************************************************************)
EXTENDS Preview, AppSettings, TLAPS, FiniteSetTheorems, SequenceTheorems,
        WellFoundedInduction

(* The inductive invariant.  What the cache holds does not matter to it:    *)
(* Get looks for a merged SVG itself.                                       *)
Typed ==
  /\ request \in [Request -> Requests] /\ pane \in Panes
  /\ inflight \in [DOMAIN inflight -> Request]

(* A command that runs has a body, and so has a pane that waits.            *)
BodiesKnown ==
  /\ \A r \in Request : request[r].at # "idle" => request[r].body \in Body
  /\ pane.waiting => pane.body \in Body

(* No inline command carries the result of an asset rendering.              *)
InlineResults ==
  \A r \in Request : request[r].mode = "inline" => request[r].result # "pages"

(* The command that the pane listens to runs, and for the body it shows.    *)
PaneAsks ==
  pane.sent # None =>
    request[pane.sent].at # "idle" /\ request[pane.sent].body = pane.body

Inductive ==
  /\ Typed /\ BodiesKnown
  /\ OneRendererPerKey /\ InlineResults
  /\ PaneAsks /\ PaneIsCurrent
-----------------------------------------------------------------------------

LEMMA InitInductive == Init => Inductive
<1> SUFFICES ASSUME Init PROVE Inductive
  OBVIOUS
<1>1. Idle \in Requests /\ Blank \in Panes
  BY DEF Idle, Blank, Requests, Panes, Stages, Mode
<1>2. inflight \in [DOMAIN inflight -> Request] /\ DOMAIN inflight = {}
  BY DEF Init
<1>3. Typed /\ BodiesKnown
  BY <1>1, <1>2 DEF Init, Typed, BodiesKnown, Idle, Blank
<1>4. OneRendererPerKey /\ InlineResults
  BY <1>2 DEF Init, OneRendererPerKey, InlineResults, Idle, Rendering
<1>5. PaneAsks /\ PaneIsCurrent
  BY DEF Init, PaneAsks, PaneIsCurrent, Blank
<1>6. QED
  BY <1>3, <1>4, <1>5 DEF Inductive

(* A step that moves the command r within what it was called for, without   *)
(* beginning or ending a rendering.                                         *)
LEMMA MoveStep ==
  ASSUME Inductive, NEW r \in Request, NEW q \in Requests,
         request' = [request EXCEPT ![r] = q],
         request[r].at \notin Rendering, q.at \notin Rendering,
         request[r].at # "idle", q.at # "idle",
         q.mode = request[r].mode, q.body = request[r].body,
         q.mode = "inline" => q.result # "pages",
         UNCHANGED <<inflight, pane>>
  PROVE  Inductive'
<1>1. Typed' /\ BodiesKnown'
  BY DEF Inductive, Typed, BodiesKnown
<1>2. OneRendererPerKey'
  BY DEF Inductive, Typed, OneRendererPerKey, FlightKey
<1>3. InlineResults'
  BY DEF Inductive, Typed, InlineResults
<1>4. PaneAsks' /\ PaneIsCurrent'
  <2>1. pane.sent # None => pane.sent \in Request
    BY DEF Inductive, Typed, Panes
  <2>2. QED
    BY <2>1 DEF Inductive, Typed, PaneAsks, PaneIsCurrent
<1>5. QED
  BY <1>1, <1>2, <1>3, <1>4 DEF Inductive

LEMMA LookupStep ==
  ASSUME Inductive, NEW r \in Request, Lookup(r)
  PROVE  Inductive'
<1> DEFINE q == request'[r]
<1>1. request[r] \in Requests /\ request[r].at = "lookup"
  BY DEF Inductive, Typed, Lookup
<1>2. request' = [request EXCEPT ![r] = q] /\ UNCHANGED <<inflight, pane>>
  BY DEF Inductive, Typed, Lookup
<1>3. /\ q \in Requests /\ q.at \in {"answer", "start"}
      /\ q.mode = request[r].mode /\ q.body = request[r].body
  BY <1>1 DEF Inductive, Typed, Lookup, Requests, Stages, Extent
<1>4. q.mode = "inline" => q.result # "pages"
  BY <1>1 DEF Inductive, Typed, InlineResults, Lookup, Hit, Get, Extent, Requests
<1>5. QED
  BY <1>1, <1>2, <1>3, <1>4, MoveStep DEF Rendering

LEMMA RegisterStep ==
  ASSUME Inductive, NEW r \in Request, Register(r)
  PROVE  Inductive'
<1> DEFINE q == [request[r] EXCEPT !.at = "asleep"]
<1>1. request[r] \in Requests /\ request[r].at = "holding"
  BY DEF Inductive, Typed, Register
<1>2. request' = [request EXCEPT ![r] = q] /\ UNCHANGED <<inflight, pane>>
  BY DEF Inductive, Typed, Register
<1>3. /\ q \in Requests /\ q.at = "asleep"
      /\ q.mode = request[r].mode /\ q.body = request[r].body /\ q.result = request[r].result
  BY <1>1 DEF Requests, Stages
<1>4. QED
  BY <1>1, <1>2, <1>3, MoveStep DEF Rendering, Inductive, InlineResults

(* A command waits for the renderer of its key or becomes it.               *)
LEMMA StartOrWaitStep ==
  ASSUME Inductive, NEW r \in Request, StartOrWait(r)
  PROVE  Inductive'
<1> DEFINE key == FlightKey(r)
<1>1. request[r] \in Requests /\ request[r].at = "start"
  BY DEF Inductive, Typed, StartOrWait
<1>2. CASE key \in DOMAIN inflight
  <2> DEFINE q == [request[r] EXCEPT !.at = "holding", !.notify = inflight[key]]
  <2>1. request' = [request EXCEPT ![r] = q] /\ UNCHANGED <<inflight, pane>>
    BY <1>2 DEF Inductive, Typed, StartOrWait
  <2>2. /\ q \in Requests /\ q.at = "holding"
        /\ q.mode = request[r].mode /\ q.body = request[r].body
        /\ q.result = request[r].result
    BY <1>1, <1>2 DEF Requests, Stages, Inductive, Typed
  <2>3. QED
    BY <1>1, <2>1, <2>2, MoveStep DEF Rendering, Inductive, InlineResults
<1>3. CASE key \notin DOMAIN inflight
  <2> DEFINE q == [request[r] EXCEPT !.at = "render"]
  <2>1. /\ request' = [request EXCEPT ![r] = q] /\ UNCHANGED pane
        /\ inflight' = WithFlight(key, r)
    BY <1>3 DEF Inductive, Typed, StartOrWait
  <2>2. /\ q \in Requests /\ q.at = "render"
        /\ q.mode = request[r].mode /\ q.body = request[r].body
        /\ q.result = request[r].result
    BY <1>1 DEF Requests, Stages, Rendering
  <2>3. /\ DOMAIN inflight' = DOMAIN inflight \cup {key}
        /\ inflight'[key] = r
        /\ \A k \in DOMAIN inflight : inflight'[k] = inflight[k]
        /\ inflight' \in [DOMAIN inflight' -> Request]
    <3>1. inflight \in [DOMAIN inflight -> Request]
      BY DEF Inductive, Typed
    <3>2. QED
      BY <1>3, <2>1, <3>1 DEF WithFlight
  <2>4. FlightKey(r)' = key /\ \A p \in Request \ {r} : request'[p] = request[p]
    BY <2>1, <2>2 DEF Inductive, Typed, FlightKey
  <2>5. Typed' /\ BodiesKnown' /\ InlineResults'
    BY <1>1, <2>1, <2>2, <2>3 DEF Inductive, Typed, BodiesKnown, InlineResults
  <2>6. OneRendererPerKey'
    <3>1. ASSUME NEW p \in Request, request'[p].at \in Rendering
          PROVE  FlightKey(p)' \in DOMAIN inflight' /\ inflight'[FlightKey(p)'] = p
      <4>1. CASE p = r
        BY <4>1, <2>3, <2>4
      <4>2. CASE p # r
        BY <4>2, <3>1, <2>3, <2>4 DEF Inductive, OneRendererPerKey, FlightKey
      <4>3. QED
        BY <4>1, <4>2
    <3>2. ASSUME NEW k \in DOMAIN inflight'
          PROVE  (request[inflight[k]].at \in Rendering /\ FlightKey(inflight[k]) = k)'
      <4>1. CASE k = key
        BY <4>1, <2>1, <2>2, <2>3, <2>4 DEF Inductive, Typed, Rendering
      <4>2. CASE k # key
        <5>1. k \in DOMAIN inflight /\ inflight'[k] = inflight[k]
          BY <4>2, <2>3
        <5>2. /\ inflight[k] \in Request /\ request[inflight[k]].at \in Rendering
              /\ FlightKey(inflight[k]) = k
          BY <5>1 DEF Inductive, Typed, OneRendererPerKey
        <5>3. inflight[k] # r
          BY <5>2, <1>1 DEF Rendering
        <5>4. QED
          BY <5>1, <5>2, <5>3, <2>4 DEF FlightKey
      <4>3. QED
        BY <4>1, <4>2
    <3>3. QED
      BY <3>1, <3>2 DEF OneRendererPerKey
  <2>7. PaneAsks' /\ PaneIsCurrent'
    <3>1. pane.sent # None => pane.sent \in Request
      BY DEF Inductive, Typed, Panes
    <3>2. QED
      BY <3>1, <1>1, <2>1, <2>2 DEF Inductive, Typed, PaneAsks, PaneIsCurrent
  <2>8. QED
    BY <2>5, <2>6, <2>7 DEF Inductive
<1>4. QED
  BY <1>2, <1>3

(* The rendering ends, well or not; its entry stays for the next step.      *)
LEMMA RenderStep ==
  ASSUME Inductive, NEW r \in Request, Render(r)
  PROVE  Inductive'
<1> DEFINE q == request'[r]
<1>1. /\ request[r] \in Requests /\ request[r].at = "render" /\ request[r].body \in Body
      /\ UNCHANGED <<inflight, pane>>
  BY DEF Inductive, Typed, BodiesKnown, Render
<1>2. request' = [request EXCEPT ![r] = q]
  BY DEF Inductive, Typed, Render
<1>3. request[r].mode = "inline" => Extent(Rendered(request[r].mode, request[r].body)) = "whole"
  BY <1>1, BodyAssumption DEF Extent, HasInlineSvg, Rendered
<1>4. /\ q \in Requests /\ q.at = "remove"
      /\ q.mode = request[r].mode /\ q.body = request[r].body
      /\ q.mode = "inline" => q.result # "pages"
  BY <1>1, <1>3 DEF Inductive, Typed, Render, Requests, Stages, Rendering, Extent
<1>5. Typed' /\ BodiesKnown' /\ InlineResults'
  BY <1>1, <1>2, <1>4 DEF Inductive, Typed, BodiesKnown, InlineResults
<1>6. OneRendererPerKey'
  BY <1>1, <1>2, <1>4 DEF Inductive, Typed, OneRendererPerKey, FlightKey, Rendering
<1>7. PaneAsks' /\ PaneIsCurrent'
  <2>1. pane.sent # None => pane.sent \in Request
    BY DEF Inductive, Typed, Panes
  <2>2. QED
    BY <2>1, <1>1, <1>2, <1>4 DEF Inductive, Typed, PaneAsks, PaneIsCurrent
<1>8. QED
  BY <1>5, <1>6, <1>7 DEF Inductive

(* finish_render gives the key free together with its renderer.             *)
LEMMA RemoveFlightStep ==
  ASSUME Inductive, NEW r \in Request, RemoveFlight(r)
  PROVE  Inductive'
<1> DEFINE key == FlightKey(r)
           q == [request[r] EXCEPT !.at = "notify"]
<1>1. /\ request[r] \in Requests /\ request[r].at = "remove"
      /\ UNCHANGED pane /\ request' = [request EXCEPT ![r] = q]
  BY DEF Inductive, Typed, RemoveFlight
<1>2. /\ q \in Requests /\ q.at = "notify"
      /\ q.mode = request[r].mode /\ q.body = request[r].body /\ q.result = request[r].result
  BY <1>1 DEF Requests, Stages
<1>3. /\ DOMAIN inflight' = DOMAIN inflight \ {key}
      /\ \A k \in DOMAIN inflight' : inflight'[k] = inflight[k]
      /\ inflight' \in [DOMAIN inflight' -> Request]
  BY DEF Inductive, Typed, RemoveFlight, Restrict
<1>4. \A p \in Request \ {r} : request'[p] = request[p]
  BY <1>1 DEF Inductive, Typed
<1>5. inflight[key] = r
  BY <1>1 DEF Inductive, OneRendererPerKey, Rendering
<1>6. Typed' /\ BodiesKnown' /\ InlineResults'
  BY <1>1, <1>2, <1>3 DEF Inductive, Typed, BodiesKnown, InlineResults
<1>7. OneRendererPerKey'
  <2>1. ASSUME NEW p \in Request, request'[p].at \in Rendering
        PROVE  FlightKey(p)' \in DOMAIN inflight' /\ inflight'[FlightKey(p)'] = p
    <3>1. p # r
      BY <2>1, <1>1, <1>2 DEF Inductive, Typed, Rendering
    <3>2. /\ request'[p] = request[p] /\ FlightKey(p)' = FlightKey(p)
          /\ FlightKey(p) \in DOMAIN inflight /\ inflight[FlightKey(p)] = p
      BY <3>1, <2>1, <1>4 DEF Inductive, OneRendererPerKey, FlightKey
    <3>3. QED
      BY <3>1, <3>2, <1>3, <1>5
  <2>2. ASSUME NEW k \in DOMAIN inflight'
        PROVE  (request[inflight[k]].at \in Rendering /\ FlightKey(inflight[k]) = k)'
    <3>1. /\ k \in DOMAIN inflight /\ k # key /\ inflight'[k] = inflight[k]
          /\ inflight[k] \in Request /\ FlightKey(inflight[k]) = k
          /\ request[inflight[k]].at \in Rendering
      BY <1>3 DEF Inductive, Typed, OneRendererPerKey
    <3>2. inflight[k] # r
      BY <3>1
    <3>3. QED
      BY <3>1, <3>2, <1>4 DEF FlightKey
  <2>3. QED
    BY <2>1, <2>2 DEF OneRendererPerKey
<1>8. PaneAsks' /\ PaneIsCurrent'
  <2>1. pane.sent # None => pane.sent \in Request
    BY DEF Inductive, Typed, Panes
  <2>2. QED
    BY <2>1, <1>1, <1>2 DEF Inductive, Typed, PaneAsks, PaneIsCurrent
<1>9. QED
  BY <1>6, <1>7, <1>8 DEF Inductive

(* Whoever is woken looks in the cache; who is not yet asleep is lost.      *)
LEMMA NotifyWaitersStep ==
  ASSUME Inductive, NEW r \in Request, NotifyWaiters(r)
  PROVE  Inductive'
<1>1. UNCHANGED <<inflight, pane>> /\ request[r].at = "notify"
  BY DEF NotifyWaiters
<1>2. ASSUME NEW p \in Request
      PROVE  /\ request'[p] \in Requests
             /\ request'[p].mode = request[p].mode /\ request'[p].body = request[p].body
             /\ request'[p].result = request[p].result
             /\ request'[p].at = "idle" <=> request[p].at = "idle"
             /\ request'[p].at \in Rendering <=> request[p].at \in Rendering
  <2>1. request[p] \in Requests /\ request[r] \in Requests
    BY DEF Inductive, Typed
  <2>2. CASE p = r
    BY <1>1, <2>1, <2>2 DEF NotifyWaiters, Requests, Stages, Rendering
  <2>3. CASE p # r /\ Woken(p, r)
    BY <2>1, <2>3 DEF NotifyWaiters, Woken, Requests, Stages, Rendering
  <2>4. CASE p # r /\ ~Woken(p, r) /\ request[p].notify = r
    BY <2>1, <2>4 DEF NotifyWaiters, Requests, Stages, Rendering
  <2>5. CASE p # r /\ ~Woken(p, r) /\ request[p].notify # r
    BY <2>1, <2>5 DEF NotifyWaiters
  <2>6. QED
    BY <2>2, <2>3, <2>4, <2>5
<1>3. Typed' /\ BodiesKnown' /\ InlineResults'
  <2>1. request' \in [Request -> Requests]
    BY <1>2 DEF NotifyWaiters
  <2>2. QED
    BY <2>1, <1>1, <1>2 DEF Inductive, Typed, BodiesKnown, InlineResults
<1>4. OneRendererPerKey'
  <2>1. \A p \in Request : FlightKey(p)' = FlightKey(p)
    BY <1>2 DEF FlightKey
  <2>2. QED
    BY <2>1, <1>1, <1>2 DEF Inductive, Typed, OneRendererPerKey
<1>5. PaneAsks' /\ PaneIsCurrent'
  <2>1. pane.sent # None => pane.sent \in Request
    BY DEF Inductive, Typed, Panes
  <2>2. QED
    BY <2>1, <1>1, <1>2 DEF Inductive, PaneAsks, PaneIsCurrent
<1>6. QED
  BY <1>3, <1>4, <1>5 DEF Inductive
-----------------------------------------------------------------------------
(* The pane *)

(* What the renderers need of a step in which r only begins or ends a call. *)
LEMMA RenderersLeftAlone ==
  ASSUME Inductive, UNCHANGED inflight, NEW r \in Request, NEW q \in Requests,
         request' = [request EXCEPT ![r] = q],
         request[r].at \notin Rendering, q.at \notin Rendering,
         q.mode = "inline" => q.result # "pages",
         q.at # "idle" => q.body \in Body
  PROVE  /\ request' \in [Request -> Requests] /\ OneRendererPerKey' /\ InlineResults'
         /\ \A p \in Request : request'[p].at # "idle" => request'[p].body \in Body
BY DEF Inductive, Typed, OneRendererPerKey, FlightKey, InlineResults, BodiesKnown

LEMMA SendStep ==
  ASSUME Inductive, NEW r \in Request, Send(r)
  PROVE  Inductive'
<1> DEFINE q == Called(pane.mode, pane.body)
<1>1. /\ pane \in Panes /\ pane.body \in Body /\ request[r] = Idle
      /\ request' = [request EXCEPT ![r] = q] /\ UNCHANGED inflight
      /\ pane.waiting
  BY DEF Inductive, Typed, BodiesKnown, Send
<1>2. /\ q \in Requests /\ q.at = "lookup" /\ q.body = pane.body /\ q.result = "none"
      /\ request[r].at = "idle"
  <2>1. pane.mode \in Mode
    BY <1>1 DEF Panes
  <2>2. Idle \in Requests /\ Idle.at = "idle" /\ Idle.result = "none"
    BY DEF Idle, Requests, Stages, Mode
  <2>3. q \in Requests /\ q.at = "lookup" /\ q.body = pane.body /\ q.result = Idle.result
    BY <1>1, <2>1, <2>2 DEF Called, Requests, Stages
  <2>4. QED
    BY <1>1, <2>2, <2>3
<1>3. /\ pane' \in Panes /\ pane'.sent = r /\ pane'.body = pane.body /\ pane'.waiting
  BY <1>1 DEF Send, Panes
<1>4. /\ request' \in [Request -> Requests] /\ OneRendererPerKey' /\ InlineResults'
      /\ \A p \in Request : request'[p].at # "idle" => request'[p].body \in Body
  BY <1>1, <1>2, RenderersLeftAlone DEF Rendering
<1>5. PaneAsks' /\ PaneIsCurrent'
  BY <1>1, <1>2, <1>3 DEF Inductive, Typed, PaneAsks, PaneIsCurrent
<1>6. QED
  BY <1>1, <1>3, <1>4, <1>5 DEF Inductive, Typed, BodiesKnown

LEMMA AnswerStep ==
  ASSUME Inductive, NEW r \in Request, Answer(r)
  PROVE  Inductive'
<1>1. /\ request[r] \in Requests /\ request[r].at = "answer" /\ request[r].body \in Body
      /\ UNCHANGED inflight /\ pane \in Panes
      /\ pane.sent # None => pane.sent \in Request
  BY DEF Inductive, Typed, BodiesKnown, Answer, Panes
<1>2. Idle \in Requests /\ Idle.at = "idle" /\ Idle.result = "none"
  BY DEF Idle, Requests, Stages, Mode
<1>3. CASE request' = [request EXCEPT ![r] = Idle]
  <2>1. /\ request' \in [Request -> Requests] /\ OneRendererPerKey' /\ InlineResults'
        /\ \A p \in Request : request'[p].at # "idle" => request'[p].body \in Body
    BY <1>1, <1>2, <1>3, RenderersLeftAlone DEF Rendering
  <2>2. CASE Ignored(r)
    <3>1. UNCHANGED pane /\ pane.sent # r
      BY <2>2 DEF Ignored, Current
    <3>2. PaneAsks' /\ PaneIsCurrent'
      BY <3>1, <1>1, <1>3 DEF Inductive, Typed, PaneAsks, PaneIsCurrent
    <3>3. QED
      BY <2>1, <3>1, <3>2, <1>1 DEF Inductive, Typed, BodiesKnown
  <2>3. CASE Succeeds(r)
    <3>1. /\ pane.sent = r /\ request[r].body = pane.body /\ pane' = Shown(r)
      BY <2>3, <1>1, NoneAssumption DEF Succeeds, Current, Inductive, PaneAsks
    <3>2. /\ pane' \in Panes /\ pane'.sent = None /\ ~pane'.waiting
          /\ pane'.shown = pane'.body
      BY <3>1, <1>1 DEF Shown, Panes, Requests
    <3>3. PaneAsks' /\ PaneIsCurrent'
      BY <3>2 DEF PaneAsks, PaneIsCurrent
    <3>4. QED
      BY <2>1, <3>2, <3>3, <1>1 DEF Inductive, Typed, BodiesKnown
  <2>4. CASE Fails(r) /\ request[r].mode # "asset"
    <3>1. /\ pane' \in Panes /\ pane'.sent = None /\ ~pane'.waiting
          /\ pane'.kind = "fallback"
      BY <2>4, <1>1 DEF Fails, Panes
    <3>2. PaneAsks' /\ PaneIsCurrent'
      BY <3>1 DEF PaneAsks, PaneIsCurrent
    <3>3. QED
      BY <2>1, <3>1, <3>2, <1>1 DEF Inductive, Typed, BodiesKnown
  <2>5. CASE Fails(r) /\ request[r].mode = "asset"
    <3>1. request'[r].at = "lookup"
      BY <2>5, <1>1 DEF Fails, Called, Idle, Inductive, Typed
    <3>2. QED
      BY <3>1, <1>1, <1>2, <1>3 DEF Inductive, Typed
  <2>6. QED
    BY <2>2, <2>3, <2>4, <2>5 DEF Answer
<1>4. CASE Fails(r) /\ request[r].mode = "asset"
  <2> DEFINE q == Called("inline", request[r].body)
  <2>1. request' = [request EXCEPT ![r] = q] /\ UNCHANGED pane
    BY <1>4 DEF Fails
  <2>2. /\ q \in Requests /\ q.at = "lookup" /\ q.body = request[r].body /\ q.result = "none"
    BY <1>1 DEF Called, Idle, Requests, Stages, Mode
  <2>3. /\ request' \in [Request -> Requests] /\ OneRendererPerKey' /\ InlineResults'
        /\ \A p \in Request : request'[p].at # "idle" => request'[p].body \in Body
    BY <1>1, <2>1, <2>2, RenderersLeftAlone DEF Rendering
  <2>4. PaneAsks' /\ PaneIsCurrent'
    BY <1>1, <2>1, <2>2 DEF Inductive, Typed, PaneAsks, PaneIsCurrent
  <2>5. QED
    BY <1>1, <2>1, <2>3, <2>4 DEF Inductive, Typed, BodiesKnown
<1>5. QED
  BY <1>3, <1>4 DEF Answer, Ignored, Succeeds, Fails

(* The user opens a preview: what was sent before is no longer listened to. *)
LEMMA ShowStep ==
  ASSUME Inductive, NEW b \in Body, NEW mode \in Mode, Show(b, mode)
  PROVE  Inductive'
<1>1. UNCHANGED <<inflight, request>> /\ pane \in Panes
  BY DEF Show, Inductive, Typed
<1>2. pane' \in Panes /\ pane'.sent = None /\ pane'.body = b
  <2> DEFINE next == [pane EXCEPT !.body = b, !.mode = mode, !.sent = None]
  <2>1. next \in Panes /\ next.sent = None /\ next.body = b
    BY <1>1 DEF Panes, Mode
  <2>2. \/ pane' = [next EXCEPT !.waiting = FALSE, !.kind = "ready", !.shown = b, !.via = "asset"]
        \/ pane' = [next EXCEPT !.waiting = TRUE]
    BY Zenon DEF Show
  <2> HIDE DEF next
  <2>3. QED
    BY <2>1, <2>2 DEF Panes, Mode
<1>3. ~pane'.waiting => pane'.shown = b
  BY <1>1 DEF Show, Panes
<1>4. PaneAsks' /\ PaneIsCurrent'
  BY <1>2, <1>3 DEF PaneAsks, PaneIsCurrent
<1>5. QED
  BY <1>1, <1>2, <1>4 DEF Inductive, Typed, BodiesKnown, OneRendererPerKey, FlightKey,
     InlineResults

LEMMA LoadStep ==
  ASSUME Inductive, Load
  PROVE  Inductive'
<1>1. UNCHANGED <<inflight, request>> /\ pane \in Panes /\ pane.kind = "ready"
  BY DEF Load, Inductive, Typed
<1>2. /\ pane' \in Panes
      /\ pane'.sent = pane.sent /\ pane'.body = pane.body /\ pane'.shown = pane.shown
      /\ pane'.waiting = pane.waiting
  BY <1>1 DEF Load, Panes
<1>3. PaneAsks' /\ PaneIsCurrent'
  BY <1>1, <1>2 DEF Inductive, PaneAsks, PaneIsCurrent
<1>4. QED
  BY <1>1, <1>2, <1>3 DEF Inductive, Typed, BodiesKnown, OneRendererPerKey, FlightKey,
     InlineResults
-----------------------------------------------------------------------------

(* The inductive invariant holds whatever the user opens and whichever      *)
(* command goes on.                                                         *)
THEOREM InductiveInvariant == Spec => []Inductive
<1>1. Inductive /\ [Next]_vars => Inductive'
  <2> SUFFICES ASSUME Inductive, [Next]_vars PROVE Inductive'
    OBVIOUS
  <2>1. CASE UNCHANGED vars
    BY <2>1 DEF vars, Inductive, Typed, BodiesKnown, OneRendererPerKey, FlightKey,
       InlineResults, PaneAsks, PaneIsCurrent
  <2>2. ASSUME NEW r \in Request, Step(r) \/ Send(r) PROVE Inductive'
    BY <2>2, LookupStep, StartOrWaitStep, RegisterStep, RenderStep, RemoveFlightStep,
       NotifyWaitersStep, AnswerStep, SendStep DEF Step
  <2>3. ASSUME NEW b \in Body, NEW mode \in Mode, Show(b, mode) PROVE Inductive'
    BY <2>3, ShowStep
  <2>4. QED
    BY <2>1, <2>2, <2>3, LoadStep DEF Next
<1>2. QED
  BY <1>1, InitInductive, PTL DEF Spec

(* No preview is compiled twice at a time, however many commands ask for    *)
(* it: wait_for_or_start_render and finish_render keep the table exact.     *)
THEOREM RenderedOnceAtATime == Spec => []OneRendererPerKey
<1>1. Inductive => OneRendererPerKey
  BY DEF Inductive
<1>2. QED
  BY <1>1, InductiveInvariant, PTL

(* An inline command never answers with the empty SVG that an asset         *)
(* rendering left under the same key, whatever is evicted and replaced.     *)
THEOREM InlinePreviewsAreWhole == Spec => []InlineIsWhole
<1>1. Inductive => InlineIsWhole
  BY DEF Inductive, InlineResults, InlineIsWhole
<1>2. QED
  BY <1>1, InductiveInvariant, PTL

(* The pane never shows the answer to a question it no longer asks, in      *)
(* whichever order answers come and previews are opened.                    *)
THEOREM PaneShowsWhatIsAsked == Spec => []PaneIsCurrent
<1>1. Inductive => PaneIsCurrent
  BY DEF Inductive
<1>2. QED
  BY <1>1, InductiveInvariant, PTL
-----------------------------------------------------------------------------
(* The cache of rendered previews *)

Caches ==
  UNION {[entries: [K -> Output], order: Seq(Body), bytes: Nat] : K \in SUBSET Body}

LEMMA CacheParts ==
  ASSUME NEW c \in Caches
  PROVE  /\ c.entries \in [Cached(c) -> Output] /\ Cached(c) \subseteq Body
         /\ c.order \in Seq(Body) /\ c.bytes \in Nat
         /\ Len(c.order) \in Nat /\ DOMAIN c.order = 1..Len(c.order)
<1>1. PICK K \in SUBSET Body : c \in [entries: [K -> Output], order: Seq(Body), bytes: Nat]
  BY DEF Caches
<1>2. Cached(c) = K
  BY <1>1 DEF Cached
<1>3. QED
  BY <1>1, <1>2

LEMMA ByteLenType == \A out \in Output : ByteLen(out) \in Nat
BY DEF Output, ByteLen

LEMMA CacheOf ==
  ASSUME NEW K \in SUBSET Body, NEW e \in [K -> Output], NEW o \in Seq(Body), NEW b \in Nat
  PROVE  [entries |-> e, order |-> o, bytes |-> b] \in Caches
BY DEF Caches

LEMMA FirstNumbers ==
  ASSUME NEW n \in Nat
  PROVE  IsFiniteSet(1..n) /\ Cardinality(1..n) = n
<1>1. 1 \in Int /\ n \in Int
  OBVIOUS
<1>2. IsFiniteSet(1..n) /\ Cardinality(1..n) = IF 1 > n THEN 0 ELSE n - 1 + 1
  BY <1>1, FS_Interval
<1>3. QED
  BY <1>2

(* The keys that a sequence names are finitely many.                        *)
LEMMA NamedIsFinite ==
  ASSUME NEW s \in Seq(Body)
  PROVE  IsFiniteSet(ToSet(s)) /\ ToSet(s) \subseteq Body
<1>1. /\ Len(s) \in Nat /\ DOMAIN s = 1..Len(s) /\ s \in [1..Len(s) -> Body]
      /\ ToSet(s) = {s[i] : i \in 1..Len(s)}
  BY DEF ToSet
<1>2. s \in Surjection(1..Len(s), ToSet(s))
  BY <1>1 DEF Surjection
<1>3. IsFiniteSet(1..Len(s))
  BY <1>1, FirstNumbers
<1>4. QED
  BY <1>1, <1>2, <1>3, FS_Surjection

(* Finitely many previews have finitely many bytes, and those of different  *)
(* keys are different.                                                      *)
Weighed(e, keys) == IsFiniteSet(keys) /\ \A k \in keys : ByteLen(e[k]) \in Nat

LEMMA BytesAreFinite ==
  ASSUME NEW e, NEW keys, Weighed(e, keys)
  PROVE  IsFiniteSet(Bytes(e, keys)) /\ Cardinality(Bytes(e, keys)) \in Nat
<1> DEFINE S == {{k} \X (1..ByteLen(e[k])) : k \in keys}
           f == [k \in keys |-> {k} \X (1..ByteLen(e[k]))]
<1>1. f \in Surjection(keys, S)
  <2>1. f \in [keys -> S]
    OBVIOUS
  <2>2. \A t \in S : \E k \in keys : f[k] = t
    OBVIOUS
  <2>3. QED
    BY <2>1, <2>2 DEF Surjection
<1>2. IsFiniteSet(S)
  BY <1>1, FS_Surjection DEF Weighed
<1>3. ASSUME NEW t \in S PROVE IsFiniteSet(t)
  <2>1. PICK k \in keys : t = {k} \X (1..ByteLen(e[k]))
    OBVIOUS
  <2>2. IsFiniteSet(1..ByteLen(e[k])) /\ IsFiniteSet({k})
    BY FirstNumbers, FS_Singleton DEF Weighed
  <2>3. QED
    BY <2>1, <2>2, FS_Product
<1>4. IsFiniteSet(UNION S)
  BY <1>2, <1>3, FS_UNION
<1>5. QED
  BY <1>4, FS_CardinalityType DEF Bytes

LEMMA BytesOfOne ==
  ASSUME NEW e, NEW k, ByteLen(e[k]) \in Nat
  PROVE  Cardinality(Bytes(e, {k})) = ByteLen(e[k])
<1>1. Bytes(e, {k}) = {k} \X (1..ByteLen(e[k]))
  BY DEF Bytes
<1>2. IsFiniteSet({k}) /\ Cardinality({k}) = 1
  BY FS_Singleton
<1>3. IsFiniteSet(1..ByteLen(e[k])) /\ Cardinality(1..ByteLen(e[k])) = ByteLen(e[k])
  BY FirstNumbers
<1>4. Cardinality({k} \X (1..ByteLen(e[k]))) = Cardinality({k}) * Cardinality(1..ByteLen(e[k]))
  BY <1>2, <1>3, FS_Product
<1> DEFINE n == ByteLen(e[k])
<1>5. Cardinality(Bytes(e, {k})) = 1 * n
  BY <1>1, <1>2, <1>3, <1>4
<1>6. n \in Nat
  OBVIOUS
<1> HIDE DEF n
<1>7. 1 * n = n
  BY <1>6
<1>8. QED
  BY <1>5, <1>7 DEF n

LEMMA BytesSplit ==
  ASSUME NEW e, NEW keys, Weighed(e, keys), NEW part \in SUBSET keys
  PROVE  Cardinality(Bytes(e, keys))
           = Cardinality(Bytes(e, part)) + Cardinality(Bytes(e, keys \ part))
<1>1. Weighed(e, part) /\ Weighed(e, keys \ part)
  BY FS_Subset DEF Weighed
<1>2. Bytes(e, keys) = Bytes(e, part) \cup Bytes(e, keys \ part)
  BY DEF Bytes
<1>3. Bytes(e, part) \cap Bytes(e, keys \ part) = {}
  BY DEF Bytes
<1>4. /\ IsFiniteSet(Bytes(e, part)) /\ Cardinality(Bytes(e, part)) \in Nat
      /\ IsFiniteSet(Bytes(e, keys \ part)) /\ Cardinality(Bytes(e, keys \ part)) \in Nat
  BY <1>1, BytesAreFinite
<1> DEFINE A == Bytes(e, part)
           B == Bytes(e, keys \ part)
<1> HIDE DEF A, B
<1>5. Cardinality(A \cap B) = 0
  BY <1>3, FS_EmptySet DEF A, B
<1>6. IsFiniteSet(A) /\ IsFiniteSet(B) /\ Cardinality(A) \in Nat /\ Cardinality(B) \in Nat
  BY <1>4 DEF A, B
<1>7. Cardinality(A \cup B) = Cardinality(A) + Cardinality(B) - Cardinality(A \cap B)
  BY <1>6, FS_Union
<1>8. Cardinality(A \cup B) = Cardinality(A) + Cardinality(B)
  BY <1>5, <1>6, <1>7
<1>9. QED
  BY <1>2, <1>8 DEF A, B

LEMMA BytesAgree ==
  ASSUME NEW e, NEW f, NEW keys, \A k \in keys : e[k] = f[k]
  PROVE  Bytes(e, keys) = Bytes(f, keys)
BY DEF Bytes
-----------------------------------------------------------------------------
(* The order *)

(* All but one of the first n numbers, and how many of them are up to i.    *)
LEMMA CountWithout ==
  ASSUME NEW n \in Nat, NEW q \in 1..n, NEW i \in (1..n) \ {q}
  PROVE  /\ Cardinality((1..n) \ {q}) = n - 1
         /\ Cardinality({h \in (1..n) \ {q} : h <= i}) = IF i < q THEN i ELSE i - 1
<1>1. IsFiniteSet(1..n) /\ Cardinality(1..n) = n
  BY FirstNumbers
<1>2. Cardinality((1..n) \ {q}) = n - 1
  BY <1>1, FS_RemoveElement
<1>3. i \in Nat /\ IsFiniteSet(1..i) /\ Cardinality(1..i) = i
  BY FirstNumbers
<1>4. {h \in (1..n) \ {q} : h <= i} = (1..i) \ {q}
  BY SMTT(30)
<1>5. Cardinality((1..i) \ {q}) = IF q \in 1..i THEN i - 1 ELSE i
  BY <1>3, FS_RemoveElement
<1>6. q \in 1..i <=> ~(i < q)
  BY <1>3
<1>7. QED
  BY <1>2, <1>4, <1>5, <1>6

(* retain keeps the others, each once, in their order.                      *)
LEMMA WithoutDrops ==
  ASSUME NEW o \in Seq(Body), IsInjective(o), NEW k
  PROVE  /\ Without(o, k) \in Seq(Body) /\ IsInjective(Without(o, k))
         /\ ToSet(Without(o, k)) = ToSet(o) \ {k}
<1> DEFINE n == Len(o)
           kept == {i \in DOMAIN o : o[i] # k}
           Place(i) == Cardinality({h \in kept : h <= i})
           At(p) == CHOOSE i \in kept : Place(i) = p
           w == Without(o, k)
<1>1. n \in Nat /\ DOMAIN o = 1..n /\ \A i \in 1..n : o[i] \in Body
  OBVIOUS
<1>2. w = [p \in 1..Cardinality(kept) |-> o[At(p)]]
  BY DEF Without
<1>3. ToSet(o) = {o[i] : i \in 1..n}
  BY <1>1 DEF ToSet
<1>4. CASE \A i \in 1..n : o[i] # k
  <2>1. kept = 1..n
    BY <1>1, <1>4
  <2>2. \A i \in 1..n : Place(i) = i
    <3>1. SUFFICES ASSUME NEW i \in 1..n PROVE Place(i) = i
      OBVIOUS
    <3>2. {h \in kept : h <= i} = 1..i
      BY <2>1
    <3>3. i \in Nat
      OBVIOUS
    <3>4. Cardinality(1..i) = i
      BY <3>3, FirstNumbers
    <3>5. QED
      BY <3>2, <3>4
  <2> HIDE DEF kept, Place
  <2>3. \A p \in 1..n : At(p) = p
    BY <2>1, <2>2
  <2>4. Cardinality(kept) = n
    BY <1>1, <2>1, FirstNumbers
  <2> HIDE DEF At
  <2>5. w = [p \in 1..n |-> o[p]]
    BY <1>2, <2>3, <2>4
  <2>6. w = o
    BY <1>1, <2>5
  <2>7. k \notin ToSet(o)
    BY <1>3, <1>4
  <2>8. QED
    BY <2>6, <2>7
<1>5. ASSUME NEW q \in 1..n, o[q] = k PROVE /\ w \in Seq(Body) /\ IsInjective(w)
                                            /\ ToSet(w) = ToSet(o) \ {k}
  <2>1. kept = (1..n) \ {q}
    BY <1>1, <1>5 DEF IsInjective
  <2>2. Cardinality(kept) = n - 1
    <3>1. IsFiniteSet(1..n) /\ Cardinality(1..n) = n
      BY <1>1, FirstNumbers
    <3>2. QED
      BY <2>1, <3>1, FS_RemoveElement
  <2>3. \A i \in kept : Place(i) = IF i < q THEN i ELSE i - 1
    <3>1. SUFFICES ASSUME NEW i \in kept PROVE Place(i) = IF i < q THEN i ELSE i - 1
      OBVIOUS
    <3>2. {h \in kept : h <= i} = {h \in (1..n) \ {q} : h <= i}
      BY <2>1
    <3>3. i \in (1..n) \ {q}
      BY <2>1
    <3>4. Cardinality({h \in (1..n) \ {q} : h <= i}) = IF i < q THEN i ELSE i - 1
      BY <1>1, <3>3, CountWithout
    <3>5. Cardinality({h \in kept : h <= i}) = Cardinality({h \in (1..n) \ {q} : h <= i})
      BY <3>2, Zenon
    <3>6. QED
      BY <3>4, <3>5
  <2> DEFINE g(p) == IF p < q THEN p ELSE p + 1
  <2>4. \A p \in 1..n - 1 : At(p) = g(p)
    <3>1. SUFFICES ASSUME NEW p \in 1..n - 1 PROVE At(p) = g(p)
      OBVIOUS
    <3>2. g(p) \in kept /\ Place(g(p)) = p
      <4>1. g(p) \in kept
        BY <1>1, <2>1
      <4>2. Place(g(p)) = IF g(p) < q THEN g(p) ELSE g(p) - 1
        BY <2>3, <4>1
      <4> HIDE DEF Place
      <4>3. QED
        BY <1>1, <4>1, <4>2
    <3>3. \A i \in kept : Place(i) = p => i = g(p)
      <4> HIDE DEF Place
      <4>1. QED
        BY <1>1, <2>1, <2>3
    <3> HIDE DEF Place, g, kept
    <3>4. QED
      BY <3>2, <3>3
  <2> HIDE DEF At, kept
  <2>5. w = [p \in 1..n - 1 |-> o[g(p)]]
    BY <1>2, <2>2, <2>4
  <2>6. \A p \in 1..n - 1 : g(p) \in 1..n /\ g(p) # q
    BY <1>1
  <2>7. w \in Seq(Body) /\ DOMAIN w = 1..n - 1
    <3>1. w \in [1..n - 1 -> Body] /\ n - 1 \in Nat
      BY <1>1, <2>5, <2>6
    <3>2. QED
      BY <3>1
  <2>8. IsInjective(w)
    <3>1. ASSUME NEW a \in 1..n - 1, NEW b \in 1..n - 1, o[g(a)] = o[g(b)] PROVE a = b
      <4>1. g(a) = g(b)
        BY <1>1, <2>6, <3>1 DEF IsInjective
      <4>2. QED
        BY <4>1, <1>1
    <3>2. QED
      BY <2>5, <2>7, <3>1 DEF IsInjective
  <2>9. ToSet(w) = ToSet(o) \ {k}
    <3>1. ToSet(w) = {w[p] : p \in 1..n - 1}
      BY <2>7 DEF ToSet
    <3>2. \A p \in 1..n - 1 : w[p] \in ToSet(o) /\ w[p] # k
      BY <1>1, <1>3, <1>5, <2>5, <2>6 DEF IsInjective
    <3>3. ASSUME NEW i \in 1..n, o[i] # k PROVE \E p \in 1..n - 1 : w[p] = o[i]
      <4> DEFINE p == IF i < q THEN i ELSE i - 1
      <4>1. p \in 1..n - 1 /\ g(p) = i
        BY <1>1, <1>5, <3>3
      <4> HIDE DEF p, g
      <4>2. QED
        BY <2>5, <4>1
    <3>4. ASSUME NEW x \in ToSet(w) PROVE x \in ToSet(o) \ {k}
      BY <3>1, <3>2
    <3>5. ASSUME NEW x \in ToSet(o) \ {k} PROVE x \in ToSet(w)
      <4>1. PICK i \in 1..n : x = o[i]
        BY <1>3
      <4>2. PICK p \in 1..n - 1 : w[p] = o[i]
        BY <3>3, <4>1
      <4>3. QED
        BY <3>1, <4>1, <4>2
    <3>6. QED
      BY <3>4, <3>5
  <2>10. QED
    BY <2>7, <2>8, <2>9
<1>6. QED
  BY <1>4, <1>5
-----------------------------------------------------------------------------
(* The operations of the cache *)

Sound(c) == c \in Caches /\ Consistent(c)

LEMMA SoundFacts ==
  ASSUME NEW c, Sound(c), NEW keys \in SUBSET Cached(c)
  PROVE  /\ Weighed(c.entries, keys) /\ Cardinality(keys) \in Nat
         /\ Held(c, keys) = Cardinality(Bytes(c.entries, keys)) /\ Held(c, keys) \in Nat
         /\ Held(c, Cached(c) \ keys) = c.bytes - Held(c, keys)
<1>1. /\ c.entries \in [Cached(c) -> Output] /\ c.order \in Seq(Body)
  BY CacheParts DEF Sound
<1>2. IsFiniteSet(Cached(c))
  BY <1>1, NamedIsFinite DEF Sound, Consistent
<1>3. IsFiniteSet(keys) /\ Cardinality(keys) \in Nat
  BY <1>2, FS_Subset, FS_CardinalityType
<1>4. Weighed(c.entries, Cached(c)) /\ Weighed(c.entries, keys)
      /\ Weighed(c.entries, Cached(c) \ keys)
  BY <1>1, <1>2, <1>3, FS_Difference, ByteLenType DEF Weighed
<1>5. /\ Cardinality(Bytes(c.entries, keys)) \in Nat
      /\ Cardinality(Bytes(c.entries, Cached(c) \ keys)) \in Nat
      /\ Cardinality(Bytes(c.entries, Cached(c)))
           = Cardinality(Bytes(c.entries, keys)) + Cardinality(Bytes(c.entries, Cached(c) \ keys))
  BY <1>4, BytesAreFinite, BytesSplit
<1>6. c.bytes = Cardinality(Bytes(c.entries, Cached(c)))
  BY DEF Sound, Consistent, Held
<1>7. QED
  BY <1>3, <1>4, <1>5, <1>6 DEF Held

(* The pieces of a cache put together.                                      *)
LEMMA SoundOf ==
  ASSUME NEW K \in SUBSET Body, NEW e \in [K -> Output], NEW o \in Seq(Body), IsInjective(o),
         ToSet(o) = K, NEW b, b = Cardinality(Bytes(e, K))
  PROVE  Sound([entries |-> e, order |-> o, bytes |-> b])
<1> DEFINE c == [entries |-> e, order |-> o, bytes |-> b]
<1>1. c.entries = e /\ c.order = o /\ c.bytes = b /\ Cached(c) = K
  BY DEF Cached
<1>2. IsFiniteSet(K)
  BY NamedIsFinite
<1>3. b \in Nat
  BY <1>2, BytesAreFinite, ByteLenType DEF Weighed
<1>4. c \in Caches
  BY <1>3, CacheOf
<1> HIDE DEF c
<1>5. Sound(c)
  BY <1>1, <1>4 DEF Sound, Consistent, Held
<1>6. QED
  BY <1>5 DEF c

LEMMA AppendedOrder ==
  ASSUME NEW s \in Seq(Body), IsInjective(s), NEW k \in Body, k \notin ToSet(s)
  PROVE  /\ Append(s, k) \in Seq(Body) /\ IsInjective(Append(s, k))
         /\ ToSet(Append(s, k)) = ToSet(s) \cup {k}
<1> DEFINE a == Append(s, k)
<1>1. /\ Len(s) \in Nat /\ DOMAIN s = 1..Len(s) /\ a \in Seq(Body)
      /\ DOMAIN a = 1..Len(s) + 1 /\ a[Len(s) + 1] = k
      /\ \A i \in 1..Len(s) : a[i] = s[i]
  OBVIOUS
<1>2. ToSet(s) = {s[i] : i \in 1..Len(s)} /\ ToSet(a) = {a[i] : i \in 1..Len(s) + 1}
  BY <1>1 DEF ToSet
<1> HIDE DEF a
<1>3. \A i \in 1..Len(s) : a[i] # k
  BY <1>1, <1>2
<1>4. \A i \in 1..Len(s) + 1 : i \in 1..Len(s) \/ i = Len(s) + 1
  BY <1>1
<1>5. IsInjective(a)
  <2>1. ASSUME NEW i \in 1..Len(s) + 1, NEW j \in 1..Len(s) + 1, a[i] = a[j] PROVE i = j
    BY <1>1, <1>3, <1>4, <2>1 DEF IsInjective
  <2>2. QED
    BY <1>1, <2>1 DEF IsInjective
<1>6. ToSet(a) = ToSet(s) \cup {k}
  <2>1. ASSUME NEW x \in ToSet(a) PROVE x \in ToSet(s) \cup {k}
    BY <1>1, <1>2, <1>4
  <2>2. ASSUME NEW x \in ToSet(s) PROVE x \in ToSet(a)
    <3>1. PICK i \in 1..Len(s) : x = s[i]
      BY <1>2
    <3>2. i \in 1..Len(s) + 1 /\ x = a[i]
      BY <1>1, <3>1
    <3>3. QED
      BY <1>2, <3>2
  <2>3. k \in ToSet(a)
    <3>1. Len(s) + 1 \in 1..Len(s) + 1
      BY <1>1
    <3>2. QED
      BY <1>1, <1>2, <3>1
  <2>4. QED
    BY <2>1, <2>2, <2>3
<1>7. QED
  BY <1>1, <1>5, <1>6 DEF a

LEMMA TouchedSound ==
  ASSUME NEW c, Sound(c), NEW k \in Cached(c)
  PROVE  /\ Sound(Touched(c, k))
         /\ Touched(c, k).entries = c.entries /\ Touched(c, k).bytes = c.bytes
<1> DEFINE o == Append(Without(c.order, k), k)
<1>1. /\ c.entries \in [Cached(c) -> Output] /\ Cached(c) \in SUBSET Body
      /\ c.order \in Seq(Body) /\ IsInjective(c.order) /\ ToSet(c.order) = Cached(c)
      /\ c.bytes = Cardinality(Bytes(c.entries, Cached(c)))
  BY CacheParts DEF Sound, Consistent, Held
<1>2. o \in Seq(Body) /\ IsInjective(o) /\ ToSet(o) = Cached(c)
  <2>1. /\ Without(c.order, k) \in Seq(Body) /\ IsInjective(Without(c.order, k))
        /\ ToSet(Without(c.order, k)) = Cached(c) \ {k}
    BY <1>1, WithoutDrops
  <2>2. o \in Seq(Body) /\ IsInjective(o) /\ ToSet(o) = (Cached(c) \ {k}) \cup {k}
    BY <1>1, <2>1, AppendedOrder
  <2>3. QED
    BY <2>2
<1>3. Touched(c, k) = [entries |-> c.entries, order |-> o, bytes |-> c.bytes]
  <2>1. PICK K \in SUBSET Body : c \in [entries: [K -> Output], order: Seq(Body), bytes: Nat]
    BY DEF Sound, Caches
  <2>2. Touched(c, k) = [c EXCEPT !.order = o]
    BY DEF Touched
  <2> HIDE DEF o
  <2>3. [c EXCEPT !.order = o] = [entries |-> c.entries, order |-> o, bytes |-> c.bytes]
    BY <2>1
  <2>4. QED
    BY <2>2, <2>3
<1> HIDE DEF o
<1>4. Sound([entries |-> c.entries, order |-> o, bytes |-> c.bytes])
  BY <1>1, <1>2, SoundOf
<1>5. QED
  BY <1>3, <1>4

(* The entry of k goes, and with it its place and its bytes.                *)
LEMMA DiscardedSound ==
  ASSUME NEW c, Sound(c), NEW k
  PROVE  Sound(Discarded(c, k)) /\ Cached(Discarded(c, k)) = Cached(c) \ {k}
<1>1. /\ c.entries \in [Cached(c) -> Output] /\ Cached(c) \in SUBSET Body
      /\ c.order \in Seq(Body) /\ IsInjective(c.order) /\ ToSet(c.order) = Cached(c)
  BY CacheParts DEF Sound, Consistent
<1>2. CASE k \notin Cached(c)
  <2>1. Discarded(c, k) = c /\ Cached(c) \ {k} = Cached(c)
    BY <1>2 DEF Discarded
  <2>2. QED
    BY <2>1
<1>3. CASE k \in Cached(c)
  <2> DEFINE K == Cached(c) \ {k}
             e == Restrict(c.entries, K)
             o == Without(c.order, k)
             b == c.bytes - ByteLen(c.entries[k])
  <2>1. Discarded(c, k) = [entries |-> e, order |-> o, bytes |-> b]
    BY <1>3 DEF Discarded
  <2>2. e \in [K -> Output] /\ \A x \in K : e[x] = c.entries[x]
    BY <1>1 DEF Restrict
  <2>3. o \in Seq(Body) /\ IsInjective(o) /\ ToSet(o) = K
    BY <1>1, WithoutDrops
  <2>4. b = Cardinality(Bytes(e, K))
    <3>1. Bytes(e, K) = Bytes(c.entries, K)
      BY <2>2, BytesAgree
    <3>2. Held(c, K) = c.bytes - Held(c, {k}) /\ Held(c, K) = Cardinality(Bytes(c.entries, K))
      BY <1>3, SoundFacts
    <3>3. Held(c, {k}) = ByteLen(c.entries[k])
      BY <1>1, <1>3, BytesOfOne, ByteLenType DEF Held
    <3>4. QED
      BY <3>1, <3>2, <3>3
  <2>5. K \in SUBSET Body
    BY <1>1
  <2> HIDE DEF K, e, o, b
  <2>6. Sound([entries |-> e, order |-> o, bytes |-> b])
    BY <2>2, <2>3, <2>4, <2>5, SoundOf
  <2>7. Cached([entries |-> e, order |-> o, bytes |-> b]) = K
    BY <2>2 DEF Cached
  <2>8. QED
    BY <2>1, <2>6, <2>7 DEF K
<1>4. QED
  BY <1>2, <1>3

(* The first n of the order go: the rest is sound, and keeps the others.    *)
LEMMA WithoutFirstSound ==
  ASSUME NEW c, Sound(c), NEW n \in 0..Len(c.order)
  PROVE  /\ Sound(WithoutFirst(c, n))
         /\ Cached(WithoutFirst(c, n)) = {c.order[i] : i \in n + 1..Len(c.order)}
         /\ \A k \in Cached(WithoutFirst(c, n)) : WithoutFirst(c, n).entries[k] = c.entries[k]
<1> DEFINE m == Len(c.order)
           first == SubSeq(c.order, 1, n)
           o == SubSeq(c.order, n + 1, m)
           gone == ToSet(first) \cap Cached(c)
           K == Cached(c) \ gone
           e == Restrict(c.entries, K)
           b == c.bytes - Held(c, gone)
<1>1. /\ c.entries \in [Cached(c) -> Output] /\ Cached(c) \in SUBSET Body
      /\ c.order \in Seq(Body) /\ IsInjective(c.order) /\ ToSet(c.order) = Cached(c)
      /\ m \in Nat /\ n \in Nat /\ n <= m /\ DOMAIN c.order = 1..m
  BY CacheParts DEF Sound, Consistent
<1>2. WithoutFirst(c, n) = [entries |-> e, order |-> o, bytes |-> b]
  BY DEF WithoutFirst
<1>3. /\ first \in Seq(Body) /\ DOMAIN first = 1..n
      /\ \A i \in 1..n : first[i] = c.order[i]
  BY <1>1
<1>4. /\ o \in Seq(Body) /\ DOMAIN o = 1..m - n
      /\ \A i \in 1..m - n : o[i] = c.order[i + n]
  BY <1>1
<1>5. Cached(c) = {c.order[i] : i \in 1..m}
  BY <1>1 DEF ToSet
<1> HIDE DEF first, o
<1>6. gone = {c.order[i] : i \in 1..n}
  <2>1. ToSet(first) = {c.order[i] : i \in 1..n}
    BY <1>3 DEF ToSet
  <2>2. \A i \in 1..n : i \in 1..m
    BY <1>1
  <2>3. {c.order[i] : i \in 1..n} \subseteq Cached(c)
    BY <1>5, <2>2
  <2>4. QED
    BY <2>1, <2>3
<1>7. K = {c.order[i] : i \in n + 1..m}
  <2>1. ASSUME NEW i \in n + 1..m PROVE c.order[i] \in K
    <3>1. i \in 1..m /\ \A j \in 1..n : j \in 1..m /\ j # i
      BY <1>1
    <3>2. \A j \in 1..n : c.order[j] # c.order[i]
      BY <1>1, <3>1 DEF IsInjective
    <3> HIDE DEF gone
    <3>3. c.order[i] \in Cached(c) /\ c.order[i] \notin gone
      BY <1>5, <1>6, <3>1, <3>2
    <3>4. QED
      BY <3>3
  <2>2. ASSUME NEW x \in K PROVE x \in {c.order[i] : i \in n + 1..m}
    <3> HIDE DEF gone
    <3>1. PICK i \in 1..m : x = c.order[i]
      BY <1>5
    <3>2. i \notin 1..n
      BY <1>6, <3>1
    <3>3. i \in n + 1..m
      BY <1>1, <3>2
    <3>4. QED
      BY <3>1, <3>3
  <2> HIDE DEF K
  <2>3. QED
    BY <2>1, <2>2
<1>8. IsInjective(o)
  <2>1. ASSUME NEW i \in 1..m - n, NEW j \in 1..m - n, o[i] = o[j] PROVE i = j
    <3>1. i + n \in 1..m /\ j + n \in 1..m
      BY <1>1
    <3>2. i + n = j + n
      BY <1>1, <1>4, <2>1, <3>1 DEF IsInjective
    <3>3. QED
      BY <1>1, <3>2
  <2>2. QED
    BY <1>4, <2>1 DEF IsInjective
<1>9. ToSet(o) = K
  <2>1. ToSet(o) = {o[i] : i \in 1..m - n}
    BY <1>4 DEF ToSet
  <2>2. ASSUME NEW i \in n + 1..m PROVE c.order[i] \in ToSet(o)
    <3>1. i - n \in 1..m - n /\ (i - n) + n = i
      BY <1>1
    <3>2. QED
      BY <1>4, <2>1, <3>1
  <2>3. ASSUME NEW i \in 1..m - n PROVE \E j \in n + 1..m : o[i] = c.order[j]
    <3>1. i + n \in n + 1..m
      BY <1>1
    <3>2. QED
      BY <1>4, <3>1
  <2> HIDE DEF K
  <2>4. ASSUME NEW x \in K PROVE x \in ToSet(o)
    BY <1>7, <2>2
  <2>5. ASSUME NEW x \in ToSet(o) PROVE x \in K
    <3>1. PICK i \in 1..m - n : x = o[i]
      BY <2>1
    <3>2. QED
      BY <1>7, <2>3, <3>1
  <2>6. QED
    BY <2>4, <2>5
<1>10. e \in [K -> Output] /\ (\A x \in K : e[x] = c.entries[x]) /\ K \in SUBSET Body
  BY <1>1 DEF Restrict
<1>11. b = Cardinality(Bytes(e, K))
  <2>1. Bytes(e, K) = Bytes(c.entries, K)
    BY <1>10, BytesAgree
  <2>2. gone \in SUBSET Cached(c)
    OBVIOUS
  <2>3. Held(c, K) = b /\ Held(c, K) = Cardinality(Bytes(c.entries, K))
    <3> HIDE DEF gone
    <3>1. QED
      BY <2>2, SoundFacts DEF Held
  <2>4. QED
    BY <2>1, <2>3
<1> HIDE DEF K, e, b
<1>12. Sound([entries |-> e, order |-> o, bytes |-> b])
  BY <1>4, <1>8, <1>9, <1>10, <1>11, SoundOf
<1>13. Cached([entries |-> e, order |-> o, bytes |-> b]) = K
  BY <1>10 DEF Cached
<1>14. QED
  BY <1>2, <1>7, <1>10, <1>12, <1>13

(* A nonempty set of naturals has a least element.                          *)
LEMMA LeastOfNaturals ==
  ASSUME NEW T \in SUBSET Nat, T # {}
  PROVE  \E t \in T : \A y \in T : t <= y
<1>1. PICK t \in T : \A y \in T : ~(<<y, t>> \in OpToRel(<, Nat))
  BY NatLessThanWellFounded, WFMin
<1>2. OpToRel(<, Nat) = {ss \in Nat \X Nat : ss[1] < ss[2]}
  BY DEF OpToRel
<1>3. ASSUME NEW y \in T PROVE t <= y
  <2>1. t \in Nat /\ y \in Nat
    OBVIOUS
  <2>2. ~(<<y, t>> \in {ss \in Nat \X Nat : ss[1] < ss[2]})
    BY <1>1, <1>2
  <2>3. <<y, t>> \in Nat \X Nat /\ <<y, t>>[1] = y /\ <<y, t>>[2] = t
    BY <2>1
  <2>4. ~(y < t)
    BY <2>2, <2>3
  <2>5. QED
    BY <2>1, <2>4
<1>4. QED
  BY <1>3

(* Eviction stops as soon as the rest is within the limits, and nothing is, *)
(* in the worst case; the last of the order is within them by itself.       *)
LEMMA EvictedSound ==
  ASSUME NEW c, Sound(c)
  PROVE  /\ Sound(Evicted(c)) /\ WithinLimits(Evicted(c))
         /\ \A k \in Body :
              /\ c.order # <<>> /\ c.order[Len(c.order)] = k /\ ByteLen(c.entries[k]) <= MaxBytes
              => k \in Cached(Evicted(c))
<1> DEFINE m == Len(c.order)
           enough == {n \in 0..m : WithinLimits(WithoutFirst(c, n))}
           all == enough \cup {m}
<1>1. m \in Nat /\ c.order \in Seq(Body) /\ c.entries \in [Cached(c) -> Output]
      /\ ToSet(c.order) = Cached(c) /\ DOMAIN c.order = 1..m
  BY CacheParts DEF Sound, Consistent
<1>2. m \in enough
  <2>1. Sound(WithoutFirst(c, m)) /\ Cached(WithoutFirst(c, m)) = {c.order[i] : i \in m + 1..m}
    BY <1>1, WithoutFirstSound
  <2>2. Cached(WithoutFirst(c, m)) = {}
    <3>1. m + 1..m = {}
      BY <1>1
    <3>2. QED
      BY <2>1, <3>1
  <2>3. Bytes(WithoutFirst(c, m).entries, {}) = {}
    BY DEF Bytes
  <2>4. WithoutFirst(c, m).bytes = 0
    BY <2>1, <2>2, <2>3, FS_EmptySet DEF Sound, Consistent, Held
  <2>5. WithinLimits(WithoutFirst(c, m))
    BY <2>2, <2>4, FS_EmptySet, CacheAssumption DEF WithinLimits
  <2>6. QED
    BY <1>1, <2>5
<1>3. Min(all) \in enough /\ \A n \in enough : Min(all) <= n
  <2>1. all = enough
    BY <1>2
  <2>2. enough \in SUBSET Nat /\ enough # {}
    BY <1>1, <1>2
  <2> HIDE DEF enough, all
  <2>3. \E t \in enough : \A y \in enough : t <= y
    BY <2>2, LeastOfNaturals
  <2>4. QED
    BY <2>1, <2>3 DEF Min
<1> DEFINE q == Min(all)
<1>4. Evicted(c) = WithoutFirst(c, q)
  BY DEF Evicted
<1>5. q \in 0..m /\ WithinLimits(WithoutFirst(c, q))
  BY <1>3
<1>6. ASSUME NEW k \in Body, c.order # <<>>, c.order[m] = k, ByteLen(c.entries[k]) <= MaxBytes
      PROVE  k \in Cached(Evicted(c))
  <2>1. m # 0 /\ m - 1 \in 0..m /\ m \in 1..m
    BY <1>1, <1>6
  <2> DEFINE w == WithoutFirst(c, m - 1)
  <2>2. /\ Sound(w) /\ Cached(w) = {c.order[i] : i \in (m - 1) + 1..m}
        /\ \A x \in Cached(w) : w.entries[x] = c.entries[x]
    BY <2>1, WithoutFirstSound
  <2>3. Cached(w) = {k}
    <3>1. (m - 1) + 1..m = {m}
      BY <1>1
    <3>2. QED
      BY <1>6, <2>2, <3>1
  <2>4. k \in Cached(c)
    BY <1>1, <1>6, <2>1 DEF ToSet
  <2>5. w.bytes = ByteLen(c.entries[k])
    <3>1. w.bytes = Cardinality(Bytes(w.entries, {k})) /\ w.entries[k] = c.entries[k]
      BY <2>2, <2>3 DEF Sound, Consistent, Held
    <3>2. c.entries[k] \in Output
      BY <1>1, <2>4
    <3>3. ByteLen(w.entries[k]) = ByteLen(c.entries[k]) /\ ByteLen(c.entries[k]) \in Nat
      BY <3>1, <3>2, ByteLenType
    <3>4. Cardinality(Bytes(w.entries, {k})) = ByteLen(w.entries[k])
      BY <3>3, BytesOfOne
    <3>5. QED
      BY <3>1, <3>3, <3>4
  <2>6. WithinLimits(w)
    <3>1. Cardinality(Cached(w)) = 1
      BY <2>3, FS_Singleton
    <3>2. QED
      BY <1>6, <2>5, <3>1, CacheAssumption DEF WithinLimits
  <2>7. m - 1 \in enough
    BY <2>1, <2>6
  <2>8. q <= m - 1
    BY <1>3, <2>7
  <2>9. Cached(WithoutFirst(c, q)) = {c.order[i] : i \in q + 1..m}
    BY <1>5, WithoutFirstSound
  <2>10. m \in q + 1..m
    <3> HIDE DEF q
    <3>1. QED
      BY <1>1, <1>5, <2>8
  <2>11. QED
    BY <1>4, <1>6, <2>9, <2>10
<1>7. Sound(WithoutFirst(c, q))
  BY <1>5, WithoutFirstSound
<1>8. QED
  BY <1>4, <1>5, <1>6, <1>7

(* What an insertion leaves is sound and within the limits, and it keeps    *)
(* what it inserts.                                                         *)
LEMMA InsertedSound ==
  ASSUME NEW c, Sound(c), WithinLimits(c), NEW k \in Body, NEW out \in Output
  PROVE  /\ Sound(Inserted(c, k, out)) /\ WithinLimits(Inserted(c, k, out))
         /\ ~TooLarge(out) => k \in Cached(Inserted(c, k, out))
<1>1. CASE TooLarge(out)
  BY <1>1 DEF Inserted
<1>2. CASE ~TooLarge(out)
  <2> DEFINE rest == Discarded(c, k)
             K == Cached(rest) \cup {k}
             e == With(rest.entries, k, out)
             o == Append(rest.order, k)
             b == rest.bytes + ByteLen(out)
             full == [entries |-> e, order |-> o, bytes |-> b]
  <2>1. Inserted(c, k, out) = Evicted(full)
    BY <1>2 DEF Inserted
  <2>2. Sound(rest) /\ k \notin Cached(rest)
    BY DiscardedSound
  <2> HIDE DEF rest
  <2>3. /\ rest.entries \in [Cached(rest) -> Output] /\ Cached(rest) \in SUBSET Body
        /\ rest.order \in Seq(Body) /\ IsInjective(rest.order)
        /\ ToSet(rest.order) = Cached(rest) /\ Cached(rest) = DOMAIN rest.entries
        /\ rest.bytes = Cardinality(Bytes(rest.entries, Cached(rest)))
    BY <2>2, CacheParts DEF Sound, Consistent, Held, Cached
  <2>4. e \in [K -> Output] /\ e[k] = out /\ (\A x \in Cached(rest) : e[x] = rest.entries[x])
    BY <2>2, <2>3 DEF With
  <2>5. o \in Seq(Body) /\ IsInjective(o) /\ ToSet(o) = K
    BY <2>2, <2>3, AppendedOrder
  <2>6. b = Cardinality(Bytes(e, K))
    <3>1. IsFiniteSet(K)
      BY <2>5, NamedIsFinite
    <3>2. Weighed(e, K)
      BY <2>4, <3>1, ByteLenType DEF Weighed
    <3>3. K \ {k} = Cached(rest) /\ {k} \in SUBSET K
      BY <2>2
    <3> HIDE DEF K, e, b
    <3>4. Cardinality(Bytes(e, K)) = Cardinality(Bytes(e, {k})) + Cardinality(Bytes(e, K \ {k}))
      BY <3>2, <3>3, BytesSplit
    <3>5. Bytes(e, Cached(rest)) = Bytes(rest.entries, Cached(rest))
      BY <2>4, BytesAgree
    <3>6. Cardinality(Bytes(e, {k})) = ByteLen(out) /\ ByteLen(out) \in Nat
      BY <2>4, BytesOfOne, ByteLenType
    <3>7. rest.bytes \in Nat
      BY <2>2, CacheParts DEF Sound
    <3>8. Cardinality(Bytes(e, K \ {k})) = rest.bytes
      BY <2>3, <3>3, <3>5
    <3>9. Cardinality(Bytes(e, K)) = rest.bytes + ByteLen(out)
      BY <3>4, <3>6, <3>7, <3>8
    <3>10. QED
      BY <3>9 DEF b
  <2>7. K \in SUBSET Body
    BY <2>3
  <2>8. /\ full.order[Len(full.order)] = k /\ full.order # <<>>
        /\ full.entries[k] = out
    <3>1. full.order = o /\ full.entries = e
      OBVIOUS
    <3>2. o[Len(o)] = k /\ o # <<>>
      BY <2>3
    <3>3. QED
      BY <2>4, <3>1, <3>2
  <2> HIDE DEF K, e, o, b
  <2>9. Sound(full)
    BY <2>4, <2>5, <2>6, <2>7, SoundOf
  <2>10. ByteLen(out) <= MaxBytes
    BY <1>2, ByteLenType, CacheAssumption DEF TooLarge
  <2> HIDE DEF full
  <2>11. Sound(Evicted(full)) /\ WithinLimits(Evicted(full)) /\ k \in Cached(Evicted(full))
    BY <2>8, <2>9, <2>10, EvictedSound
  <2>12. QED
    BY <2>1, <2>11
<1>3. QED
  BY <1>1, <1>2
-----------------------------------------------------------------------------
(* The cache in the application *)

SoundCache == Sound(cache) /\ WithinLimits(cache)

LEMMA EmptyIsSound == Sound(EmptyCache) /\ WithinLimits(EmptyCache)
<1>1. /\ EmptyCache.entries \in [{} -> Output] /\ EmptyCache.order \in Seq(Body)
      /\ Cached(EmptyCache) = {} /\ EmptyCache.bytes = 0
  BY DEF EmptyCache, Cached
<1>2. IsInjective(EmptyCache.order) /\ ToSet(EmptyCache.order) = {}
  BY DEF EmptyCache, IsInjective, ToSet
<1>3. Bytes(EmptyCache.entries, {}) = {}
  BY DEF Bytes
<1>4. Cardinality({}) = 0
  BY FS_EmptySet
<1>5. Cardinality(Bytes(EmptyCache.entries, {})) = 0
  BY <1>3, <1>4
<1>6. Sound([entries |-> EmptyCache.entries, order |-> EmptyCache.order,
             bytes |-> EmptyCache.bytes])
  BY <1>1, <1>2, <1>5, SoundOf
<1>7. [entries |-> EmptyCache.entries, order |-> EmptyCache.order,
       bytes |-> EmptyCache.bytes] = EmptyCache
  BY DEF EmptyCache
<1>8. WithinLimits(EmptyCache)
  BY <1>1, <1>4, CacheAssumption DEF WithinLimits
<1>9. QED
  BY <1>6, <1>7, <1>8

LEMMA RenderedType ==
  ASSUME NEW mode \in Mode, NEW b \in Body
  PROVE  Rendered(mode, b) \in Output
BY BodyAssumption DEF Rendered, Output

LEMMA TouchKeeps ==
  ASSUME SoundCache, NEW k \in Cached(cache), cache' = Touched(cache, k)
  PROVE  SoundCache'
<1>1. /\ Sound(Touched(cache, k))
      /\ Touched(cache, k).entries = cache.entries /\ Touched(cache, k).bytes = cache.bytes
  BY TouchedSound DEF SoundCache
<1>2. WithinLimits(Touched(cache, k))
  BY <1>1 DEF SoundCache, WithinLimits, Cached
<1>3. QED
  BY <1>1, <1>2 DEF SoundCache

(* A rendering that ends without an error has its asset in the cache.       *)
LEMMA RenderKeeps ==
  ASSUME Inductive, SoundCache, NEW r \in Request, Render(r)
  PROVE  /\ SoundCache'
         /\ request[r].mode = "asset" /\ request'[r].result # "error"
              => request[r].body \in Cached(cache')
         /\ \A s \in Request \ {r} : request'[s] = request[s]
<1> DEFINE b == request[r].body
           mode == request[r].mode
           out == Rendered(mode, b)
<1>1. b \in Body /\ mode \in Mode /\ request \in [Request -> Requests]
  BY DEF Inductive, Typed, BodiesKnown, Render, Requests
<1>2. out \in Output
  BY <1>1, RenderedType
<1>3. /\ Sound(Inserted(cache, b, out)) /\ WithinLimits(Inserted(cache, b, out))
      /\ ~TooLarge(out) => b \in Cached(Inserted(cache, b, out))
  BY <1>1, <1>2, InsertedSound DEF SoundCache
<1> HIDE DEF out
<1>4. CASE UNCHANGED cache /\ request' = [request EXCEPT ![r].at = "remove", ![r].result = "error"]
  <2>1. request'[r].result = "error" /\ \A s \in Request \ {r} : request'[s] = request[s]
    BY <1>1, <1>4 DEF Requests
  <2>2. QED
    BY <1>4, <2>1 DEF SoundCache
<1>5. ASSUME NEW result, result = IF mode = "asset" /\ TooLarge(out) THEN "error" ELSE Extent(out),
             cache' = Inserted(cache, b, out),
             request' = [request EXCEPT ![r].at = "remove", ![r].result = result]
      PROVE  /\ SoundCache'
             /\ mode = "asset" /\ request'[r].result # "error" => b \in Cached(cache')
             /\ \A s \in Request \ {r} : request'[s] = request[s]
  <2>1. request'[r].result = result /\ \A s \in Request \ {r} : request'[s] = request[s]
    BY <1>1, <1>5 DEF Requests
  <2>2. QED
    BY <1>3, <1>5, <2>1 DEF SoundCache
<1>6. QED
  BY <1>4, <1>5 DEF Render, out

LEMMA CacheStep ==
  ASSUME Inductive, SoundCache, [Next]_vars
  PROVE  SoundCache'
<1>1. CASE UNCHANGED cache
  BY <1>1 DEF SoundCache
<1>2. ASSUME NEW r \in Request, Lookup(r) PROVE SoundCache'
  <2>1. Hit(request[r].mode, request[r].body) => request[r].body \in Cached(cache)
    BY DEF Hit, Get, GetMetadata
  <2>2. QED
    BY <1>1, <1>2, <2>1, TouchKeeps DEF Lookup
<1>3. ASSUME NEW r \in Request, Step(r) \/ Send(r), ~Lookup(r) PROVE SoundCache'
  <2>1. CASE Render(r)
    BY <2>1, RenderKeeps
  <2>2. CASE ~Render(r)
    BY <1>1, <1>3, <2>2
       DEF Step, Send, StartOrWait, Register, RemoveFlight, NotifyWaiters, Answer
  <2>3. QED
    BY <2>1, <2>2
<1>4. CASE Load
  BY <1>1, <1>4, TouchKeeps DEF Load
<1>5. CASE \E b \in Body, mode \in Mode : Show(b, mode)
  BY <1>1, <1>5 DEF Show
<1>6. QED
  BY <1>1, <1>2, <1>3, <1>4, <1>5 DEF Next, vars, Step

(* Every command and the pane leave the cache sound.                        *)
THEOREM SoundCacheInvariant == Spec => []SoundCache
<1>1. Init => SoundCache
  BY EmptyIsSound DEF Init, SoundCache
<1>2. Inductive /\ SoundCache /\ [Next]_vars => SoundCache'
  BY CacheStep
<1>3. QED
  BY <1>1, <1>2, InductiveInvariant, PTL DEF Spec

(* The order of the render cache names every entry once and its count of    *)
(* bytes is that of its entries, through inserts that replace, hits that    *)
(* reorder and evictions; and it is within its limits.                      *)
THEOREM CacheIsSound == Spec => []CacheSound
<1>1. SoundCache => CacheSound
  BY DEF SoundCache, Sound, CacheSound
<1>2. QED
  BY <1>1, SoundCacheInvariant, PTL

(* Inserting never evicts the preview that it inserts: an asset answered    *)
(* for is there to be loaded.                                               *)
THEOREM InsertedAreServed == Spec => InsertedIsServed
<1> DEFINE Served ==
      \A r \in Request :
        /\ request[r].at = "render" /\ request'[r].at = "remove"
        /\ request[r].mode = "asset" /\ request'[r].result # "error"
        => request[r].body \in Cached(cache')
<1>1. Inductive /\ SoundCache /\ [Next]_vars => [Served]_vars
  <2> SUFFICES ASSUME Inductive, SoundCache, Next, NEW r \in Request,
                      request[r].at = "render", request'[r].at = "remove",
                      request[r].mode = "asset", request'[r].result # "error"
               PROVE  request[r].body \in Cached(cache')
    OBVIOUS
  <2>1. Render(r)
    <3>1. request \in [Request -> Requests]
      BY DEF Inductive, Typed
    <3>2. CASE \E b \in Body, mode \in Mode : Show(b, mode)
      BY <3>2 DEF Show
    <3>3. CASE Load
      BY <3>3 DEF Load
    <3>4. ASSUME NEW s \in Request, Step(s) \/ Send(s), s # r PROVE FALSE
      <4>1. CASE NotifyWaiters(s)
        BY <3>1, <3>4, <4>1 DEF NotifyWaiters, Woken, Requests
      <4>2. CASE ~NotifyWaiters(s)
        <5>1. request'[r] = request[r]
          BY <3>1, <3>4, <4>2 DEF Step, Send, Lookup, StartOrWait, Register, Render,
             RemoveFlight, Answer, Ignored, Succeeds, Fails
        <5>2. QED
          BY <5>1
      <4>3. QED
        BY <4>1, <4>2
    <3>5. CASE Step(r) \/ Send(r)
      <4>1. CASE Send(r)
        BY <4>1 DEF Send, Idle
      <4>2. QED
        BY <3>5, <4>1 DEF Step, Lookup, StartOrWait, Register, RemoveFlight, NotifyWaiters,
           Answer
    <3>6. QED
      BY <3>2, <3>3, <3>4, <3>5 DEF Next
  <2>2. QED
    BY <2>1, RenderKeeps
<1>2. QED
  BY <1>1, InductiveInvariant, SoundCacheInvariant, PTL DEF Spec, InsertedIsServed
-----------------------------------------------------------------------------
(***************************************************************************)
(* The settings, from here to the end.                                     *)
(***************************************************************************)

(* The inductive invariant.  The first n shortcuts of settings s, and what  *)
(* registering them one by one has shown.                                   *)
FirstOf(s, n) == {<<Key[s.keys[Roles[i]]], Roles[i]>> : i \in 1..n}
Distinct(s, n) ==
  \A i, j \in 1..n : i # j => Key[s.keys[Roles[i]]] # Key[s.keys[Roles[j]]]

Saving == {"write", "rename", "move", "replace", "restore", "adopt"}

(* Settings that are in use or about to be were validated.                  *)
SettingsValidated ==
  /\ memory # Absent => Valid(memory)
  /\ job.settings = Absent => memory = Absent
  /\ at # "off" => job.settings \in Choice /\ Valid(job.settings)

(* What the main thread is doing where.                                     *)
JobFits ==
  /\ at = "idle" \/ (at # "off" /\ job.for # "start") => memory \in Choice /\ Startable(memory)
  /\ at \notin {"off", "idle"} => job.for # "none"
  /\ at = "quarantine" => job.for = "start"
  /\ at = "unregister" => job.for = "update" /\ job.next = 1
  /\ at \in Saving => job.for # "check"
  /\ job.back => job.for = "update" /\ at \in {"unregister", "register", "idle", "off"}
  /\ at = "register" /\ job.for # "update" => memory = job.settings
  /\ at \in {"move", "replace", "restore"} => job.for = "update"

(* Settings are saved once all their shortcuts have been taken; those that  *)
(* a start saves are the default.                                           *)
ShortcutsTaken ==
  /\ at \in {"off", "quarantine"} => registered = {}
  /\ at \in Saving \cup {"quarantine"} /\ job.for = "start" =>
       registered = {} /\ job.next = 1 /\ Startable(job.settings)
  /\ at \in Saving /\ job.for = "update" =>
       registered = Wanted(job.settings) /\ Startable(job.settings)
  /\ at = "register" =>
       registered = FirstOf(Applied, job.next - 1) /\ Distinct(Applied, job.next - 1)

(* Where the settings in use are on disk.                                   *)
HeldOnDisk == file = memory \/ (file = Absent /\ aside = memory)
SettingsOnDisk ==
  /\ at \in {"write", "rename"} /\ job.for = "start" => file = Absent
  /\ at = "move" => file # Absent
  /\ at \in {"replace", "restore"} => file = Absent
  /\ at = "adopt" => file = job.settings
  /\ at = "quarantine" => edited
  /\ edited \/ HeldOnDisk \/ (at \in {"adopt", "off"} /\ file = job.settings)

(* What was moved aside in a replacement under way can be started from.     *)
AsideStarts ==
  at \in {"replace", "restore"} =>
    edited \/ aside = Absent \/ (aside \in Choice /\ Startable(aside))

(* No key is registered twice over, and until something disturbs them the   *)
(* keys of the settings in use stay free for their shortcuts.               *)
KeysApart ==
  /\ \A p \in registered : p[1] \notin taken
  /\ (at = "idle" \/ (at # "off" /\ job.for # "start")) /\ ~disturbed =>
       \A r \in Role : Key[memory.keys[r]] \notin taken

SettingsInductive ==
  /\ SettingsTypeOK
  /\ SettingsValidated /\ JobFits
  /\ ShortcutsTaken /\ KeysApart /\ ShortcutsInForce
  /\ SettingsOnDisk /\ AsideStarts /\ FileStarts
-----------------------------------------------------------------------------

(* The three shortcuts in the order in which they are registered.           *)
LEMMA RolesInOrder ==
  /\ Len(Roles) = 3 /\ DOMAIN Roles = 1..3
  /\ Role = {"quick", "clipboard", "settings"}
  /\ \A i \in 1..3 : Roles[i] \in Role
  /\ \A r \in Role : \E i \in 1..3 : Roles[i] = r
  /\ \A i, j \in 1..3 : Roles[i] = Roles[j] => i = j
<1>1. Len(Roles) = 3 /\ DOMAIN Roles = 1..3
  BY DEF Roles
<1>2. Roles[1] = "quick" /\ Roles[2] = "clipboard" /\ Roles[3] = "settings"
  BY DEF Roles
<1>3. 1..3 = {1, 2, 3}
  OBVIOUS
<1>4. Role = {"quick", "clipboard", "settings"}
  BY <1>1, <1>2, <1>3 DEF Role
<1>5. \A i, j \in 1..3 : Roles[i] = Roles[j] => i = j
  BY <1>2, <1>3
<1>6. QED
  BY <1>1, <1>2, <1>3, <1>4, <1>5

LEMMA NothingRegistered ==
  ASSUME NEW s
  PROVE  FirstOf(s, 0) = {} /\ Distinct(s, 0)
BY DEF FirstOf, Distinct

LEMMA FirstOfGrows ==
  ASSUME NEW s, NEW n \in 0..2
  PROVE  FirstOf(s, n + 1)
           = FirstOf(s, n) \cup {<<Key[s.keys[Roles[n + 1]]], Roles[n + 1]>>}
<1>1. 1..n + 1 = (1..n) \cup {n + 1}
  OBVIOUS
<1>2. QED
  BY <1>1 DEF FirstOf

LEMMA AllAreWanted ==
  ASSUME NEW s
  PROVE  FirstOf(s, 3) = Wanted(s)
BY RolesInOrder DEF FirstOf, Wanted

LEMMA DistinctSettings ==
  ASSUME NEW s
  PROVE  /\ Startable(s) => Valid(s) /\ Distinct(s, 3)
         /\ Valid(s) /\ Distinct(s, 3) => Startable(s)
BY RolesInOrder DEF Distinct, Startable

LEMMA ParsedKeys ==
  ASSUME NEW s \in Choice, Valid(s), NEW r \in Role
  PROVE  Key[s.keys[r]] \in Keys
<1>1. s.keys[r] \in Spelling
  BY ChoiceAssumption
<1>2. Key[s.keys[r]] # Absent
  BY DEF Valid, Parses
<1>3. QED
  BY <1>1, <1>2 DEF Keys

LEMMA DistinctGrows ==
  ASSUME NEW s, NEW n \in 0..2, Distinct(s, n),
         \A r \in Role : <<Key[s.keys[Roles[n + 1]]], r>> \notin FirstOf(s, n)
  PROVE  Distinct(s, n + 1)
<1>1. \A i \in 1..n : <<Key[s.keys[Roles[i]]], Roles[i]>> \in FirstOf(s, n)
  BY DEF FirstOf
<1>2. \A i \in 1..n : Roles[i] \in Role /\ i \in 1..3
  BY RolesInOrder
<1>3. \A i \in 1..n : Key[s.keys[Roles[i]]] # Key[s.keys[Roles[n + 1]]]
  BY <1>1, <1>2
<1>4. \A i \in 1..n + 1 : i \in 1..n \/ i = n + 1
  OBVIOUS
<1>5. QED
  BY <1>3, <1>4 DEF Distinct
-----------------------------------------------------------------------------
(* Every action keeps the invariant: one lemma for each.                    *)

LEMMA LoadSettingsStep ==
  ASSUME SettingsInductive, LoadSettings
  PROVE  SettingsInductive'
<1>1. /\ at = "off" /\ disturbed' = FALSE /\ registered' = {}
      /\ file' = file /\ aside' = aside /\ taken' = taken /\ faults' = faults
  BY DEF LoadSettings, SettingsInductive, ShortcutsTaken, disk
<1>2. CASE Readable(file)
  <2>1. /\ file \in Choice /\ Valid(file)
        /\ memory' = file /\ edited' = (edited /\ ~Startable(file)) /\ at' = "register"
    BY <1>2 DEF LoadSettings, Readable
  <2>2. job' = [for |-> "start", settings |-> file, next |-> 1, back |-> FALSE]
    BY <1>2 DEF LoadSettings, Does, NoJob
  <2>3. FirstOf(file, 0) = {} /\ Distinct(file, 0)
    BY NothingRegistered
  <2>9. Applied' = file
    BY <2>2 DEF Applied
  <2>4. SettingsTypeOK'
    <3>1. job' \in Jobs
      BY <2>1, <2>2, RolesInOrder DEF Jobs
    <3>2. QED
      BY <1>1, <2>1, <3>1 DEF SettingsInductive, SettingsTypeOK
  <2>5. SettingsValidated' /\ JobFits' /\ KeysApart' /\ ShortcutsInForce'
    BY <1>1, <2>1, <2>2 DEF SettingsValidated, JobFits, KeysApart, ShortcutsInForce
  <2>6. ShortcutsTaken'
    BY <1>1, <2>1, <2>2, <2>3, <2>9 DEF ShortcutsTaken, Saving
  <2>7. SettingsOnDisk' /\ AsideStarts' /\ FileStarts'
    BY <1>1, <2>1, <2>2 DEF SettingsInductive, SettingsOnDisk, AsideStarts, FileStarts, HeldOnDisk
  <2>8. QED
    BY <2>4, <2>5, <2>6, <2>7 DEF SettingsInductive
<1>3. CASE ~Readable(file)
  <2>1. /\ at' = IF file = Absent THEN "write" ELSE "quarantine"
        /\ memory' = memory /\ edited' = edited
    BY <1>3 DEF LoadSettings
  <2>2. job' = [for |-> "start", settings |-> Default, next |-> 1, back |-> FALSE]
    BY <1>3 DEF LoadSettings, Does, NoJob
  <2>3. file # Absent => edited
    <3>1. file \in Choice => ~Valid(file)
      BY <1>3 DEF Readable
    <3>2. ~edited => file = Absent \/ (file \in Choice /\ Startable(file))
      BY DEF SettingsInductive, FileStarts
    <3>3. QED
      BY <3>1, <3>2 DEF Startable
  <2>4. file = Absent => edited \/ HeldOnDisk
    BY <1>1 DEF SettingsInductive, SettingsOnDisk, SettingsValidated, HeldOnDisk
  <2>5. Valid(Default) /\ Default \in Choice /\ Default # Absent
    BY DefaultAssumption, AbsentAssumption DEF Startable
  <2>6. SettingsTypeOK'
    <3>1. job' \in Jobs
      BY <2>2, <2>5, RolesInOrder DEF Jobs
    <3>2. QED
      BY <1>1, <2>1, <3>1 DEF SettingsInductive, SettingsTypeOK
  <2>7. SettingsValidated' /\ JobFits' /\ KeysApart' /\ ShortcutsInForce'
    BY <1>1, <2>1, <2>2, <2>5
       DEF SettingsInductive, SettingsValidated, JobFits, KeysApart, ShortcutsInForce, Saving
  <2>8. ShortcutsTaken'
    BY <1>1, <2>1, <2>2, DefaultAssumption DEF ShortcutsTaken, Saving
  <2>9. SettingsOnDisk' /\ AsideStarts' /\ FileStarts'
    BY <1>1, <2>1, <2>2, <2>3, <2>4 DEF SettingsInductive, SettingsOnDisk, AsideStarts, FileStarts, HeldOnDisk
  <2>10. QED
    BY <2>6, <2>7, <2>8, <2>9 DEF SettingsInductive
<1>4. QED
  BY <1>2, <1>3

LEMMA QuarantineInvalidStep ==
  ASSUME SettingsInductive, QuarantineInvalid
  PROVE  SettingsInductive'
BY DEF QuarantineInvalid, history, SettingsInductive, SettingsTypeOK, SettingsValidated,
  JobFits, ShortcutsTaken, KeysApart, ShortcutsInForce, SettingsOnDisk,
  AsideStarts, FileStarts, HeldOnDisk, Saving, Applied

LEMMA QuarantineFailsStep ==
  ASSUME SettingsInductive, QuarantineFails
  PROVE  SettingsInductive'
BY SettingsBounds DEF QuarantineFails, Fault, Ends, disk, history, SettingsInductive,
  SettingsTypeOK, SettingsValidated, JobFits, ShortcutsTaken, KeysApart,
  ShortcutsInForce, SettingsOnDisk, AsideStarts, FileStarts, HeldOnDisk, Saving,
  Applied

LEMMA CheckFailsStep ==
  ASSUME SettingsInductive, CheckFails
  PROVE  SettingsInductive'
BY SettingsBounds DEF CheckFails, Fault, disk, SettingsInductive, SettingsTypeOK,
  SettingsValidated, JobFits, ShortcutsTaken, KeysApart, ShortcutsInForce,
  SettingsOnDisk, AsideStarts, FileStarts, HeldOnDisk, Saving, Applied

LEMMA UnregisterAllStep ==
  ASSUME SettingsInductive, UnregisterAll
  PROVE  SettingsInductive'
BY NothingRegistered DEF UnregisterAll, disk, history, SettingsInductive, SettingsTypeOK,
  SettingsValidated, JobFits, ShortcutsTaken, KeysApart, ShortcutsInForce,
  SettingsOnDisk, AsideStarts, FileStarts, HeldOnDisk, Saving, Applied

LEMMA WriteTemporaryStep ==
  ASSUME SettingsInductive, WriteTemporary
  PROVE  SettingsInductive'
BY DEF WriteTemporary, disk, history, SettingsInductive, SettingsTypeOK, SettingsValidated,
  JobFits, ShortcutsTaken, KeysApart, ShortcutsInForce, SettingsOnDisk,
  AsideStarts, FileStarts, HeldOnDisk, Saving, Applied

LEMMA RenameStep ==
  ASSUME SettingsInductive, Rename
  PROVE  SettingsInductive'
BY DEF Rename, RenameInto, history, Jobs, SettingsInductive, SettingsTypeOK,
  SettingsValidated, JobFits, ShortcutsTaken, KeysApart, ShortcutsInForce,
  SettingsOnDisk, AsideStarts, FileStarts, HeldOnDisk, Saving, Applied

LEMMA RenameFailsStep ==
  ASSUME SettingsInductive, RenameFails
  PROVE  SettingsInductive'
BY SettingsBounds DEF RenameFails, Fault, disk, history, Jobs, SettingsInductive,
  SettingsTypeOK, SettingsValidated, JobFits, ShortcutsTaken, KeysApart,
  ShortcutsInForce, SettingsOnDisk, AsideStarts, FileStarts, HeldOnDisk, Saving,
  Applied

LEMMA MoveAsideStep ==
  ASSUME SettingsInductive, MoveAside
  PROVE  SettingsInductive'
BY DEF MoveAside, history, SettingsInductive, SettingsTypeOK, SettingsValidated, JobFits,
  ShortcutsTaken, KeysApart, ShortcutsInForce, SettingsOnDisk, AsideStarts,
  FileStarts, HeldOnDisk, Saving, Applied

LEMMA ReplaceStep ==
  ASSUME SettingsInductive, Replace
  PROVE  SettingsInductive'
BY DEF Replace, RenameInto, history, SettingsInductive, SettingsTypeOK, SettingsValidated,
  JobFits, ShortcutsTaken, KeysApart, ShortcutsInForce, SettingsOnDisk,
  AsideStarts, FileStarts, HeldOnDisk, Saving, Applied

LEMMA ReplaceFailsStep ==
  ASSUME SettingsInductive, ReplaceFails
  PROVE  SettingsInductive'
BY SettingsBounds DEF ReplaceFails, Fault, disk, history, SettingsInductive, SettingsTypeOK,
  SettingsValidated, JobFits, ShortcutsTaken, KeysApart, ShortcutsInForce,
  SettingsOnDisk, AsideStarts, FileStarts, HeldOnDisk, Saving, Applied

LEMMA RestoreStep ==
  ASSUME SettingsInductive, Restore
  PROVE  SettingsInductive'
BY AbsentAssumption DEF Restore, NotSaved, Ends, SettingsInductive, SettingsTypeOK,
  SettingsValidated, JobFits, ShortcutsTaken, KeysApart, ShortcutsInForce,
  SettingsOnDisk, AsideStarts, FileStarts, HeldOnDisk, Saving, Applied

LEMMA RestoreFailsStep ==
  ASSUME SettingsInductive, RestoreFails
  PROVE  SettingsInductive'
BY SettingsBounds DEF RestoreFails, Fault, NotSaved, Ends, disk, SettingsInductive,
  SettingsTypeOK, SettingsValidated, JobFits, ShortcutsTaken, KeysApart,
  ShortcutsInForce, SettingsOnDisk, AsideStarts, FileStarts, HeldOnDisk, Saving,
  Applied

LEMMA SaveFailsStep ==
  ASSUME SettingsInductive, SaveFails
  PROVE  SettingsInductive'
BY SettingsBounds DEF SaveFails, Fault, NotSaved, Ends, disk, SettingsInductive,
  SettingsTypeOK, SettingsValidated, JobFits, ShortcutsTaken, KeysApart,
  ShortcutsInForce, SettingsOnDisk, AsideStarts, FileStarts, HeldOnDisk, Saving,
  Applied

LEMMA QuitStep ==
  ASSUME SettingsInductive, Quit
  PROVE  SettingsInductive'
BY DEF Quit, Ends, disk, history, SettingsInductive, SettingsTypeOK, SettingsValidated,
  JobFits, ShortcutsTaken, KeysApart, ShortcutsInForce, SettingsOnDisk,
  AsideStarts, FileStarts, HeldOnDisk, Saving, Applied

LEMMA CrashStep ==
  ASSUME SettingsInductive, Crash
  PROVE  SettingsInductive'
BY SettingsBounds DEF Crash, Fault, Ends, disk, history, SettingsInductive, SettingsTypeOK,
  SettingsValidated, JobFits, ShortcutsTaken, KeysApart, ShortcutsInForce,
  SettingsOnDisk, AsideStarts, FileStarts, HeldOnDisk, Saving, Applied

LEMMA UnregisterFailsStep ==
  ASSUME SettingsInductive, UnregisterFails
  PROVE  SettingsInductive'
<1>1. /\ at = "unregister" /\ job.for = "update" /\ job.next = 1
      /\ disturbed' = TRUE /\ faults' \in 0..MaxFaults
      /\ UNCHANGED <<file, aside, memory, registered, taken, edited>>
  BY SettingsBounds
     DEF UnregisterFails, GoesBack, Fault, disk, SettingsInductive, SettingsTypeOK, JobFits
<1>2. \/ job' = job /\ at' = "idle"
      \/ job' = [job EXCEPT !.back = TRUE, !.next = 1] /\ at' = "unregister"
  BY <1>1 DEF UnregisterFails, GoesBack
<1>3. /\ job' \in Jobs /\ job'.settings = job.settings
      /\ job'.for = "update" /\ job'.next = 1
  BY <1>1, <1>2, RolesInOrder DEF SettingsInductive, SettingsTypeOK, Jobs
<1>4. at' \in {"idle", "unregister"} /\ memory \in Choice /\ Startable(memory)
  BY <1>1, <1>2 DEF SettingsInductive, JobFits
<1>5. SettingsTypeOK' /\ SettingsValidated'
  BY <1>1, <1>3, <1>4 DEF SettingsInductive, SettingsTypeOK, SettingsValidated
<1>6. JobFits' /\ ShortcutsTaken' /\ KeysApart' /\ ShortcutsInForce'
  BY <1>1, <1>3, <1>4
     DEF SettingsInductive, JobFits, ShortcutsTaken, KeysApart, ShortcutsInForce, Saving
<1>7. SettingsOnDisk' /\ AsideStarts' /\ FileStarts'
  BY <1>1, <1>4 DEF SettingsInductive, SettingsOnDisk, AsideStarts, FileStarts, HeldOnDisk
<1>8. QED
  BY <1>5, <1>6, <1>7 DEF SettingsInductive

LEMMA AdoptStep ==
  ASSUME SettingsInductive, Adopt
  PROVE  SettingsInductive'
<1>1. /\ at = "adopt" /\ memory' = job.settings /\ file = job.settings
      /\ at' = IF job.for = "start" THEN "register" ELSE "idle"
      /\ edited' = FALSE /\ disturbed' = (disturbed /\ job.for = "start")
      /\ UNCHANGED <<file, aside, registered, taken, job, faults>>
      /\ job.settings \in Choice /\ Startable(job.settings)
  BY DEF Adopt, disk, SettingsInductive, SettingsTypeOK, Jobs, SettingsValidated, JobFits, ShortcutsTaken,
         SettingsOnDisk, Saving
<1>2. Valid(job.settings)
  BY <1>1 DEF Startable
<1>3. SettingsTypeOK' /\ SettingsValidated' /\ JobFits'
  BY <1>1, <1>2 DEF SettingsInductive, SettingsTypeOK, SettingsValidated, JobFits, Saving
<1>4. SettingsOnDisk' /\ AsideStarts' /\ FileStarts'
  BY <1>1 DEF SettingsOnDisk, AsideStarts, FileStarts, HeldOnDisk
<1>5. CASE job.for = "start"
  <2>1. /\ registered' = FirstOf(Applied', job.next - 1)
        /\ Distinct(Applied', job.next - 1)
    BY <1>1, <1>5, NothingRegistered DEF SettingsInductive, ShortcutsTaken, Saving
  <2>2. ShortcutsTaken' /\ KeysApart' /\ ShortcutsInForce'
    BY <1>1, <1>5, <2>1
       DEF SettingsInductive, ShortcutsTaken, KeysApart, ShortcutsInForce, Saving
  <2>3. QED
    BY <1>3, <1>4, <2>2 DEF SettingsInductive
<1>6. CASE job.for # "start"
  <2>1. registered = Wanted(memory')
    <3>1. job.for = "update"
      BY <1>1, <1>6 DEF SettingsInductive, SettingsTypeOK, Jobs, JobFits, Saving
    <3>2. QED
      BY <1>1, <3>1 DEF SettingsInductive, ShortcutsTaken, Saving
  <2>2. \A r \in Role : Key[memory'.keys[r]] \notin taken
    <3>1. \A r \in Role : <<Key[memory'.keys[r]], r>> \in registered
      BY <2>1 DEF Wanted
    <3>2. QED
      BY <3>1 DEF SettingsInductive, KeysApart
  <2>3. ShortcutsTaken' /\ KeysApart' /\ ShortcutsInForce'
    BY <1>1, <1>6, <2>1, <2>2
       DEF SettingsInductive, ShortcutsTaken, KeysApart, ShortcutsInForce, Saving
  <2>4. QED
    BY <1>3, <1>4, <2>3 DEF SettingsInductive
<1>7. QED
  BY <1>5, <1>6

LEMMA UpdateStep ==
  ASSUME SettingsInductive, NEW s \in Choice, Update(s)
  PROVE  SettingsInductive'
<1>1. /\ at = "idle" /\ at' = "unregister" /\ Valid(s)
      /\ UNCHANGED <<file, aside, memory, registered, taken, edited, disturbed, faults>>
  BY DEF Update, disk, history
<1>2. job' = [for |-> "update", settings |-> s, next |-> 1, back |-> FALSE]
  BY DEF Update, Does, NoJob
<1>3. job' \in Jobs /\ s # Absent
  BY <1>2, RolesInOrder, AbsentAssumption DEF Jobs
<1>4. SettingsTypeOK' /\ SettingsValidated' /\ JobFits'
  BY <1>1, <1>2, <1>3 DEF SettingsInductive, SettingsTypeOK, SettingsValidated, JobFits, Saving
<1>5. ShortcutsTaken' /\ KeysApart' /\ ShortcutsInForce'
  BY <1>1, <1>2 DEF SettingsInductive, ShortcutsTaken, KeysApart, ShortcutsInForce, Saving
<1>6. SettingsOnDisk' /\ AsideStarts' /\ FileStarts'
  BY <1>1 DEF SettingsInductive, SettingsOnDisk, AsideStarts, FileStarts, HeldOnDisk
<1>7. QED
  BY <1>4, <1>5, <1>6 DEF SettingsInductive

LEMMA CheckStep ==
  ASSUME SettingsInductive, NEW keys, Check(keys)
  PROVE  SettingsInductive'
<1>1. /\ at = "idle" /\ at' = "register" /\ registered' = {}
      /\ UNCHANGED <<file, aside, memory, taken, edited, disturbed, faults>>
      /\ memory \in Choice /\ Startable(memory)
  BY DEF Check, disk, history, SettingsInductive, JobFits
<1>2. job' = [for |-> "check", settings |-> memory, next |-> 1, back |-> FALSE]
  BY DEF Check, Does, NoJob
<1>3. job' \in Jobs /\ Valid(memory)
  BY <1>1, <1>2, RolesInOrder DEF Jobs, Startable
<1>4. SettingsTypeOK' /\ SettingsValidated' /\ JobFits'
  BY <1>1, <1>2, <1>3, AbsentAssumption
     DEF SettingsInductive, SettingsTypeOK, SettingsValidated, JobFits, Saving
<1>5. /\ registered' = FirstOf(Applied', job'.next - 1)
      /\ Distinct(Applied', job'.next - 1)
  BY <1>1, <1>2, NothingRegistered
<1>6. ShortcutsTaken' /\ KeysApart' /\ ShortcutsInForce'
  BY <1>1, <1>2, <1>5 DEF SettingsInductive, ShortcutsTaken, KeysApart, ShortcutsInForce, Saving
<1>7. SettingsOnDisk' /\ AsideStarts' /\ FileStarts'
  BY <1>1 DEF SettingsInductive, SettingsOnDisk, AsideStarts, FileStarts, HeldOnDisk
<1>8. QED
  BY <1>4, <1>6, <1>7 DEF SettingsInductive

(* The settings being applied were validated, and the next shortcut is one  *)
(* of theirs.                                                               *)
LEMMA AppliedValidated ==
  ASSUME SettingsInductive, at = "register"
  PROVE  /\ Applied \in Choice /\ Valid(Applied)
         /\ job.next \in 1..3 /\ NextRole \in Role /\ NextKey \in Keys
<1>1. Applied \in Choice /\ Valid(Applied)
  BY DEF SettingsInductive, SettingsValidated, JobFits, Applied, Startable
<1>2. job.next \in 1..3
  BY RolesInOrder DEF SettingsInductive, SettingsTypeOK, Jobs
<1>3. NextRole \in Role
  BY <1>2, RolesInOrder DEF NextRole
<1>4. QED
  BY <1>1, <1>2, <1>3, ParsedKeys DEF NextKey

LEMMA RegisterNextStep ==
  ASSUME SettingsInductive, RegisterNext
  PROVE  SettingsInductive'
<1>1. /\ at = "register" /\ Free(NextKey)
      /\ registered' = registered \cup {<<NextKey, NextRole>>}
      /\ UNCHANGED <<file, aside, memory, taken, edited, disturbed, faults>>
  BY DEF RegisterNext, Registered, disk, history
<1>2. /\ Applied \in Choice /\ Valid(Applied)
      /\ job.next \in 1..3 /\ NextRole \in Role /\ NextKey \in Keys
  BY <1>1, AppliedValidated
<1>3. PICK n \in 0..2 : n = job.next - 1 /\ job.next = n + 1
  BY <1>2
<1>4. registered = FirstOf(Applied, n) /\ Distinct(Applied, n)
  BY <1>1, <1>3 DEF SettingsInductive, ShortcutsTaken
<1>5. registered' = FirstOf(Applied, n + 1)
  BY <1>1, <1>3, <1>4, FirstOfGrows DEF NextKey, NextRole
<1>6. Distinct(Applied, n + 1)
  <2>1. \A r \in Role : <<NextKey, r>> \notin FirstOf(Applied, n)
    BY <1>1, <1>4 DEF Free
  <2>2. NextKey = Key[Applied.keys[Roles[n + 1]]]
    BY <1>3 DEF NextKey, NextRole
  <2>3. QED
    BY <1>4, <2>1, <2>2, DistinctGrows
<1>7. /\ registered' \subseteq Keys \X Role
      /\ \A p \in registered' : p[1] \notin taken
  BY <1>1, <1>2 DEF SettingsInductive, SettingsTypeOK, KeysApart, Free
<1>8. CASE job.next # 3
  <2>1. at' = "register" /\ job' = [job EXCEPT !.next = @ + 1]
    BY <1>1, <1>8, RolesInOrder DEF RegisterNext, Registered
  <2>2. /\ job' \in Jobs /\ job'.next - 1 = n + 1
        /\ job'.for = job.for /\ job'.settings = job.settings /\ job'.back = job.back
    <3>1. job \in Jobs
      BY DEF SettingsInductive, SettingsTypeOK
    <3>2. job.next + 1 \in 1..Len(Roles)
      BY <1>2, <1>8, RolesInOrder
    <3>3. QED
      BY <2>1, <1>3, <3>1, <3>2 DEF Jobs
  <2>3. Applied' = Applied
    BY <1>1, <2>2 DEF Applied
  <2>4. SettingsTypeOK' /\ SettingsValidated' /\ JobFits'
    BY <1>1, <1>7, <2>1, <2>2 DEF SettingsInductive, SettingsTypeOK, SettingsValidated, JobFits, Saving
  <2>5. ShortcutsTaken'
    BY <1>5, <1>6, <2>1, <2>2, <2>3 DEF ShortcutsTaken, Saving
  <2>6. KeysApart' /\ ShortcutsInForce'
    BY <1>1, <1>7, <2>1, <2>2 DEF SettingsInductive, KeysApart, ShortcutsInForce
  <2>7. SettingsOnDisk' /\ AsideStarts' /\ FileStarts'
    BY <1>1, <2>1, <2>2
       DEF SettingsInductive, SettingsOnDisk, AsideStarts, FileStarts, HeldOnDisk
  <2>8. QED
    BY <2>4, <2>5, <2>6, <2>7 DEF SettingsInductive
<1>9. CASE job.next = 3
  <2>1. /\ at' = IF job.for = "update" /\ ~job.back THEN "write" ELSE "idle"
        /\ job' = job
    BY <1>1, <1>9, RolesInOrder DEF RegisterNext, Registered
  <2>2. registered' = Wanted(Applied) /\ Startable(Applied)
    BY <1>2, <1>3, <1>5, <1>6, <1>9, AllAreWanted, DistinctSettings
  <2>3. \A r \in Role : <<Key[Applied.keys[r]], r>> \in registered'
    BY <2>2 DEF Wanted
  <2>4. \A r \in Role : Key[Applied.keys[r]] \notin taken
    BY <2>3, <1>7
  <2>5. SettingsTypeOK' /\ SettingsValidated'
    BY <1>1, <1>7, <2>1 DEF SettingsInductive, SettingsTypeOK, SettingsValidated
  <2>6. CASE job.for = "update" /\ ~job.back
    <3>1. at' = "write" /\ Applied = job.settings
      BY <2>1, <2>6 DEF Applied
    <3>2. JobFits'
      BY <1>1, <2>1, <2>6, <3>1 DEF SettingsInductive, JobFits, Saving
    <3>3. ShortcutsTaken' /\ KeysApart' /\ ShortcutsInForce'
      BY <1>1, <1>7, <2>1, <2>2, <2>6, <3>1
         DEF SettingsInductive, ShortcutsTaken, KeysApart, ShortcutsInForce, Saving
    <3>4. SettingsOnDisk' /\ AsideStarts' /\ FileStarts'
      BY <1>1, <2>1, <2>6, <3>1
         DEF SettingsInductive, SettingsOnDisk, AsideStarts, FileStarts, HeldOnDisk
    <3>5. QED
      BY <2>5, <3>2, <3>3, <3>4 DEF SettingsInductive
  <2>7. CASE ~(job.for = "update" /\ ~job.back)
    <3>1. at' = "idle" /\ Applied = memory
      BY <1>1, <2>1, <2>7 DEF SettingsInductive, JobFits, Applied
    <3>2. JobFits'
      BY <1>1, <1>2, <2>1, <2>2, <3>1 DEF SettingsInductive, JobFits, Saving
    <3>3. ShortcutsTaken' /\ KeysApart' /\ ShortcutsInForce'
      BY <1>1, <1>7, <2>1, <2>2, <2>4, <3>1
         DEF ShortcutsTaken, KeysApart, ShortcutsInForce, Saving
    <3>4. SettingsOnDisk' /\ AsideStarts' /\ FileStarts'
      BY <1>1, <2>1, <3>1
         DEF SettingsInductive, SettingsOnDisk, AsideStarts, FileStarts, HeldOnDisk
    <3>5. QED
      BY <2>5, <3>2, <3>3, <3>4 DEF SettingsInductive
  <2>8. QED
    BY <2>6, <2>7
<1>10. QED
  BY <1>8, <1>9

(* Going back to settings that nothing has disturbed is never refused.      *)
LEMMA NotRefused ==
  ASSUME SettingsInductive, at = "register", job.for # "start", ~disturbed, Applied = memory
  PROVE  Free(NextKey)
<1>1. job.next \in 1..3 /\ NextRole \in Role
  BY AppliedValidated
<1>2. PICK n \in 0..2 : n = job.next - 1 /\ job.next = n + 1
  BY <1>1
<1>3. Startable(memory) /\ registered = FirstOf(memory, n)
  BY <1>2 DEF SettingsInductive, JobFits, ShortcutsTaken
<1>4. NextKey = Key[memory.keys[Roles[n + 1]]]
  BY <1>2 DEF NextKey, NextRole
<1>5. NextKey \notin taken
  BY <1>1, <1>4, <1>2 DEF SettingsInductive, KeysApart, NextRole
<1>6. \A i \in 1..n : Key[memory.keys[Roles[i]]] # NextKey
  <2>1. Distinct(memory, 3)
    BY <1>3, DistinctSettings
  <2>2. \A i \in 1..n : i \in 1..3 /\ n + 1 \in 1..3 /\ i # n + 1
    OBVIOUS
  <2>3. QED
    BY <1>4, <2>1, <2>2 DEF Distinct
<1>7. \A r \in Role : <<NextKey, r>> \notin registered
  BY <1>3, <1>6 DEF FirstOf
<1>8. QED
  BY <1>5, <1>7 DEF Free

LEMMA RegisterRefusedStep ==
  ASSUME SettingsInductive, RegisterRefused
  PROVE  SettingsInductive'
<1>1. /\ at = "register" /\ ~Free(NextKey) /\ GoesBack
      /\ UNCHANGED <<file, aside, memory, taken, edited, disturbed, faults>>
  BY DEF RegisterRefused, disk, history
<1>2. job \in Jobs
  BY DEF SettingsInductive, SettingsTypeOK
<1>3. CASE job.for = "start"
  <2>1. at' = "off" /\ registered' = {} /\ job' = job
    BY <1>1, <1>3 DEF GoesBack, Ends
  <2>2. SettingsTypeOK' /\ SettingsValidated' /\ JobFits'
    BY <1>1, <2>1 DEF SettingsInductive, SettingsTypeOK, SettingsValidated, JobFits, Saving
  <2>3. ShortcutsTaken' /\ KeysApart' /\ ShortcutsInForce'
    BY <1>1, <2>1 DEF ShortcutsTaken, KeysApart, ShortcutsInForce, Saving
  <2>4. SettingsOnDisk' /\ AsideStarts' /\ FileStarts'
    BY <1>1, <2>1 DEF SettingsInductive, SettingsOnDisk, AsideStarts, FileStarts, HeldOnDisk
  <2>5. QED
    BY <2>2, <2>3, <2>4 DEF SettingsInductive
<1>4. CASE job.for = "update" /\ ~job.back
  <2>1. /\ at' = "unregister" /\ registered' = registered
        /\ job' = [job EXCEPT !.back = TRUE, !.next = 1]
    BY <1>1, <1>4 DEF GoesBack
  <2>2. /\ job' \in Jobs /\ job'.for = "update" /\ job'.next = 1
        /\ job'.settings = job.settings
    <3>1. 1 \in 1..Len(Roles)
      BY RolesInOrder
    <3>2. job'.for = job.for /\ job'.next = 1 /\ job'.settings = job.settings
      BY <1>2, <2>1 DEF Jobs
    <3>3. job' \in Jobs
      BY <1>2, <2>1, <3>1 DEF Jobs
    <3>4. QED
      BY <1>4, <3>2, <3>3
  <2>3. SettingsTypeOK' /\ SettingsValidated' /\ JobFits'
    BY <1>1, <1>4, <2>1, <2>2 DEF SettingsInductive, SettingsTypeOK, SettingsValidated, JobFits, Saving
  <2>4. ShortcutsTaken' /\ KeysApart' /\ ShortcutsInForce'
    BY <1>1, <1>4, <2>1, <2>2
       DEF SettingsInductive, ShortcutsTaken, KeysApart, ShortcutsInForce, Saving
  <2>5. SettingsOnDisk' /\ AsideStarts' /\ FileStarts'
    BY <1>1, <2>1 DEF SettingsInductive, SettingsOnDisk, AsideStarts, FileStarts, HeldOnDisk
  <2>6. QED
    BY <2>3, <2>4, <2>5 DEF SettingsInductive
<1>5. CASE job.for # "start" /\ ~(job.for = "update" /\ ~job.back)
  <2>1. at' = "idle" /\ registered' = registered /\ job' = job
    BY <1>1, <1>5 DEF GoesBack
  <2>2. Applied = memory
    BY <1>1, <1>5 DEF SettingsInductive, JobFits, Applied
  <2>3. disturbed
    BY <1>1, <1>5, <2>2, NotRefused
  <2>4. SettingsTypeOK' /\ SettingsValidated' /\ JobFits'
    BY <1>1, <1>5, <2>1 DEF SettingsInductive, SettingsTypeOK, SettingsValidated, JobFits, Saving
  <2>5. ShortcutsTaken' /\ KeysApart' /\ ShortcutsInForce'
    BY <1>1, <2>1, <2>3
       DEF SettingsInductive, ShortcutsTaken, KeysApart, ShortcutsInForce, Saving
  <2>6. SettingsOnDisk' /\ AsideStarts' /\ FileStarts'
    BY <1>1, <2>1 DEF SettingsInductive, SettingsOnDisk, AsideStarts, FileStarts, HeldOnDisk
  <2>7. QED
    BY <2>4, <2>5, <2>6 DEF SettingsInductive
<1>6. QED
  BY <1>3, <1>4, <1>5

LEMMA EditFileStep ==
  ASSUME SettingsInductive, NEW content \in Choice \cup {Damaged, Absent}, EditFile(content)
  PROVE  SettingsInductive'
<1>1. /\ at = "off" /\ at' = "off" /\ edited' = TRUE /\ file' = content
      /\ faults' \in 0..MaxFaults
      /\ UNCHANGED <<aside, memory, registered, taken, job, disturbed>>
  BY SettingsBounds DEF EditFile, Fault, SettingsInductive, SettingsTypeOK
<1>2. SettingsTypeOK' /\ SettingsValidated' /\ JobFits'
  BY <1>1 DEF SettingsInductive, SettingsTypeOK, SettingsValidated, JobFits, Saving
<1>3. ShortcutsTaken' /\ KeysApart' /\ ShortcutsInForce'
  BY <1>1 DEF SettingsInductive, ShortcutsTaken, KeysApart, ShortcutsInForce, Saving
<1>4. SettingsOnDisk' /\ AsideStarts' /\ FileStarts'
  BY <1>1 DEF SettingsOnDisk, AsideStarts, FileStarts
<1>5. QED
  BY <1>2, <1>3, <1>4 DEF SettingsInductive

LEMMA TakeStep ==
  ASSUME SettingsInductive, NEW k \in Keys, Take(k)
  PROVE  SettingsInductive'
<1>1. /\ Free(k) /\ taken' = taken \cup {k} /\ disturbed' = (disturbed \/ at # "off")
      /\ UNCHANGED <<file, aside, memory, registered, at, job, edited, faults>>
  BY DEF Take, disk
<1>2. SettingsTypeOK' /\ SettingsValidated' /\ JobFits' /\ ShortcutsInForce'
  BY <1>1 DEF SettingsInductive, SettingsTypeOK, SettingsValidated, JobFits, ShortcutsInForce
<1>3. ShortcutsTaken'
  <2>1. Applied' = Applied
    BY <1>1 DEF Applied
  <2>2. QED
    BY <1>1, <2>1 DEF SettingsInductive, ShortcutsTaken
<1>4. KeysApart'
  <2>1. \A p \in registered : p[1] # k
    BY <1>1 DEF Free, SettingsInductive, SettingsTypeOK
  <2>2. QED
    BY <1>1, <2>1 DEF SettingsInductive, KeysApart
<1>5. SettingsOnDisk' /\ AsideStarts' /\ FileStarts'
  BY <1>1 DEF SettingsInductive, SettingsOnDisk, AsideStarts, FileStarts, HeldOnDisk
<1>6. QED
  BY <1>2, <1>3, <1>4, <1>5 DEF SettingsInductive

LEMMA ReleaseStep ==
  ASSUME SettingsInductive, NEW k \in Keys, Release(k)
  PROVE  SettingsInductive'
<1>1. /\ taken' = taken \ {k}
      /\ UNCHANGED <<file, aside, memory, registered, at, job, edited, disturbed, faults>>
  BY DEF Release, disk, history
<1>2. SettingsTypeOK' /\ SettingsValidated' /\ JobFits' /\ KeysApart' /\ ShortcutsInForce'
  BY <1>1 DEF SettingsInductive, SettingsTypeOK, SettingsValidated, JobFits, KeysApart, ShortcutsInForce
<1>3. ShortcutsTaken'
  <2>1. Applied' = Applied
    BY <1>1 DEF Applied
  <2>2. QED
    BY <1>1, <2>1 DEF SettingsInductive, ShortcutsTaken
<1>4. SettingsOnDisk' /\ AsideStarts' /\ FileStarts'
  BY <1>1 DEF SettingsInductive, SettingsOnDisk, AsideStarts, FileStarts, HeldOnDisk
<1>5. QED
  BY <1>2, <1>3, <1>4 DEF SettingsInductive
-----------------------------------------------------------------------------
LEMMA SettingsInvariant == SettingsSpec => []SettingsInductive
<1>1. ASSUME SettingsInit PROVE SettingsInductive
  <2>1. job = [for |-> "none", settings |-> Absent, next |-> 1, back |-> FALSE]
    BY <1>1 DEF SettingsInit, NoJob
  <2>2. job \in Jobs
    BY <2>1, RolesInOrder DEF Jobs
  <2>3. SettingsTypeOK /\ SettingsValidated /\ JobFits
    <3>1. SettingsTypeOK
      <4>1. 0 \in 0..MaxFaults
        BY SettingsBounds
      <4>2. {} \subseteq Keys \X Role /\ {} \subseteq Keys
        OBVIOUS
      <4>3. QED
        BY <1>1, <2>2, <4>1, <4>2, Zenon DEF SettingsInit, SettingsTypeOK
    <3>2. SettingsValidated
      BY <1>1 DEF SettingsInit, SettingsValidated
    <3>3. JobFits
      BY <1>1, <2>1 DEF SettingsInit, JobFits, Saving
    <3>4. QED
      BY <3>1, <3>2, <3>3
  <2>4. ShortcutsTaken /\ KeysApart /\ ShortcutsInForce
    BY <1>1 DEF SettingsInit, ShortcutsTaken, KeysApart, ShortcutsInForce, Saving
  <2>5. SettingsOnDisk /\ AsideStarts /\ FileStarts
    BY <1>1 DEF SettingsInit, SettingsOnDisk, AsideStarts, FileStarts, HeldOnDisk
  <2>6. QED
    BY <2>3, <2>4, <2>5 DEF SettingsInductive
<1>2. ASSUME SettingsInductive, [SettingsNext]_settingsVars PROVE SettingsInductive'
  <2>1. CASE AppStep
    BY <1>2, <2>1, LoadSettingsStep, QuarantineInvalidStep, UnregisterAllStep, RegisterNextStep,
       RegisterRefusedStep, WriteTemporaryStep, RenameStep, MoveAsideStep, ReplaceStep,
       RestoreStep, AdoptStep DEF AppStep, Apply, Save
  <2>2. CASE SettingsFail
    BY <1>2, <2>2, QuarantineFailsStep, CheckFailsStep, UnregisterFailsStep,
       RenameFailsStep, ReplaceFailsStep, RestoreFailsStep, SaveFailsStep DEF SettingsFail
  <2>3. CASE Quit \/ Crash
    BY <1>2, <2>3, QuitStep, CrashStep
  <2>4. CASE \E s \in Choice : Update(s) \/ Check(s.keys)
    BY <1>2, <2>4, UpdateStep, CheckStep
  <2>5. CASE \E content \in Choice \cup {Damaged, Absent} : EditFile(content)
    BY <1>2, <2>5, EditFileStep
  <2>6. CASE \E k \in Keys : Take(k) \/ Release(k)
    BY <1>2, <2>6, TakeStep, ReleaseStep
  <2>7. CASE UNCHANGED settingsVars
    <3>1. Applied' = Applied
      BY <2>7 DEF settingsVars, Applied
    <3>2. QED
      BY <1>2, <2>7, <3>1
         DEF settingsVars, disk, history, SettingsInductive, SettingsTypeOK, SettingsValidated, JobFits,
             ShortcutsTaken, KeysApart, ShortcutsInForce, SettingsOnDisk, AsideStarts,
             FileStarts, HeldOnDisk
  <2>8. QED
    BY <1>2, <2>1, <2>2, <2>3, <2>4, <2>5, <2>6, <2>7 DEF SettingsNext
<1>3. QED
  BY <1>1, <1>2, PTL DEF SettingsSpec

(* Every variable of the settings holds a value of its kind.                *)
THEOREM SettingsTypeCorrect == SettingsSpec => []SettingsTypeOK
<1>1. SettingsInductive => SettingsTypeOK
  BY DEF SettingsInductive
<1>2. QED
  BY <1>1, SettingsInvariant, PTL

(* Whatever fails and wherever the process ends (save_settings and          *)
(* replace_file in lib.rs), the settings in use are in the file, or in the  *)
(* copy moved aside while the file is missing.                              *)
THEOREM SettingsAreKept == SettingsSpec => []SettingsSurvive
<1>1. SettingsInductive => SettingsSurvive
  BY DEF SettingsInductive, SettingsOnDisk, SettingsSurvive, HeldOnDisk
<1>2. QED
  BY <1>1, SettingsInvariant, PTL

(* save_settings never leaves a file with which setup would fail: an update *)
(* saves settings whose shortcuts the system has just taken, a start the    *)
(* default.                                                                 *)
THEOREM SavedSettingsStart == SettingsSpec => []FileStarts
<1>1. SettingsInductive => FileStarts
  BY DEF SettingsInductive
<1>2. QED
  BY <1>1, SettingsInvariant, PTL

(* Between commands the shortcuts in force are those of the settings in     *)
(* use, after updates that were refused and taken back and after checks     *)
(* alike, unless another program took keys or a step failed.                *)
THEOREM ShortcutsAreRestored == SettingsSpec => []ShortcutsInForce
<1>1. SettingsInductive => ShortcutsInForce
  BY DEF SettingsInductive
<1>2. QED
  BY <1>1, SettingsInvariant, PTL
=============================================================================
