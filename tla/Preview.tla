------------------------------ MODULE Preview -------------------------------
(***************************************************************************)
(* The preview of a memo: the pane of the user interface with its own      *)
(* cache of asset URLs (TypstPreview.tsx), the two rendering commands with *)
(* the table of renderings in flight (lib.rs), and the cache of rendered   *)
(* previews they share (RenderCache).  A request outlives the pane that    *)
(* sent it.  A waiter takes the Notify under the lock and registers with   *)
(* it after: notify_waiters between the two does not wake it.  A cache key *)
(* stands for a body with its format, template and attachments.            *)
(***************************************************************************)
EXTENDS RenderCache

CONSTANTS
  Body,          \* cache keys
  SvgBytes,      \* the length of each body's pages
  ManyPages,     \* bodies of several pages: an asset has no merged SVG of them
  Broken,        \* bodies whose rendering can fail
  Request,       \* commands that can be running at a time
  PaneEntries,   \* PREVIEW_CACHE_MAX_ENTRIES
  MaxShows,      \* bound on how often the user opens a preview
  None, Spent

ASSUME BodyAssumption ==
  /\ SvgBytes \in [Body -> Nat \ {0}]
  /\ ManyPages \subseteq Body /\ Broken \subseteq Body
ASSUME PaneAssumption == PaneEntries \in Nat \ {0} /\ MaxShows \in Nat
ASSUME NoneAssumption == None \notin Request \cup Body /\ Spent \notin Request \cup {None}

VARIABLES
  cache,      \* AppState.render_cache
  inflight,   \* AppState.render_inflight: mode and key to the request that renders
  request,    \* the commands
  pane,       \* the state of the preview component
  urls,       \* previewCache: bodies whose asset URLs the pane keeps, oldest first
  shows       \* how often a preview was opened

vars == <<cache, inflight, request, pane, urls, shows>>

Mode == {"asset", "inline"}

Idle == [at |-> "idle", mode |-> "asset", body |-> None, notify |-> None,
         result |-> "none"]
Blank == [body |-> None, mode |-> "asset", waiting |-> FALSE, sent |-> None,
          kind |-> "idle", shown |-> None, via |-> "asset"]

Init ==
  /\ cache = EmptyCache
  /\ inflight = <<>>
  /\ request = [r \in Request |-> Idle]
  /\ pane = Blank
  /\ urls = <<>>
  /\ shows = 0

Rendered(mode, b) ==
  [svg |-> IF mode = "asset" /\ b \in ManyPages THEN 0 ELSE SvgBytes[b], pages |-> SvgBytes[b]]

-----------------------------------------------------------------------------
(* The commands: render_memo_preview and render_memo_preview_asset *)

FlightKey(r) == <<request[r].mode, request[r].body>>

(* What an answer shows: the whole preview, or an empty merged SVG.        *)
Extent(out) == IF HasInlineSvg(out) THEN "whole" ELSE "pages"

Hit(mode, b) == IF mode = "asset" THEN GetMetadata(cache, b) ELSE Get(cache, b)

Called(mode, b) == [Idle EXCEPT !.at = "lookup", !.mode = mode, !.body = b]

Lookup(r) ==
  /\ request[r].at = "lookup"
  /\ LET b == request[r].body
     IN IF Hit(request[r].mode, b)
          THEN /\ cache' = Touched(cache, b)
               /\ request' = [request EXCEPT ![r].at = "answer",
                                             ![r].result = Extent(cache.entries[b])]
          ELSE /\ request' = [request EXCEPT ![r].at = "start"]
               /\ UNCHANGED cache
  /\ UNCHANGED <<inflight, pane, urls, shows>>

(* wait_for_or_start_render *)
WithFlight(key, r) ==
  [k \in DOMAIN inflight \cup {key} |-> IF k = key THEN r ELSE inflight[k]]

StartAnyway(r) ==
  /\ request[r].at = "start"
  /\ request' = [request EXCEPT ![r].at = "render"]
  /\ inflight' = WithFlight(FlightKey(r), r)
  /\ UNCHANGED <<cache, pane, urls, shows>>
StartOrWait(r) ==
  /\ request[r].at = "start"
  /\ LET key == FlightKey(r)
     IN IF key \in DOMAIN inflight
          THEN /\ request' = [request EXCEPT ![r].at = "holding", ![r].notify = inflight[key]]
               /\ UNCHANGED inflight
          ELSE /\ request' = [request EXCEPT ![r].at = "render"]
               /\ inflight' = WithFlight(key, r)
  /\ UNCHANGED <<cache, pane, urls, shows>>

(* notify.notified() *)
Register(r) ==
  /\ request[r].at = "holding"
  /\ request' = [request EXCEPT ![r].at = "asleep"]
  /\ UNCHANGED <<cache, inflight, pane, urls, shows>>

(* An asset that the cache does not take is an error; inline output is not.*)
Render(r) ==
  /\ request[r].at = "render"
  /\ LET b   == request[r].body
         out == Rendered(request[r].mode, b)
         ends(result) == request' = [request EXCEPT ![r].at = "remove", ![r].result = result]
     IN \/ /\ b \in Broken
           /\ ends("error") /\ UNCHANGED cache
        \/ /\ cache' = Inserted(cache, b, out)
           /\ ends(IF request[r].mode = "asset" /\ TooLarge(out) THEN "error" ELSE Extent(out))
  /\ UNCHANGED <<inflight, pane, urls, shows>>

(* finish_render: the entry goes, then the registered waiters wake.        *)
RemoveOnSuccess(r) ==
  /\ request[r].at = "remove"
  /\ IF request[r].result = "error" THEN UNCHANGED inflight
     ELSE inflight' = Restrict(inflight, DOMAIN inflight \ {FlightKey(r)})
  /\ request' = [request EXCEPT ![r].at = "notify"]
  /\ UNCHANGED <<cache, pane, urls, shows>>
RemoveFlight(r) ==
  /\ request[r].at = "remove"
  /\ inflight' = Restrict(inflight, DOMAIN inflight \ {FlightKey(r)})
  /\ request' = [request EXCEPT ![r].at = "notify"]
  /\ UNCHANGED <<cache, pane, urls, shows>>

Woken(w, r) == request[w].at = "asleep" /\ request[w].notify = r

NotifyWaiters(r) ==
  /\ request[r].at = "notify"
  /\ request' = [w \in Request |->
       IF w = r THEN [request[r] EXCEPT !.at = "answer"]
       ELSE IF Woken(w, r) THEN [request[w] EXCEPT !.at = "lookup", !.notify = None]
       ELSE IF request[w].notify = r THEN [request[w] EXCEPT !.notify = Spent]
       ELSE request[w]]
  /\ UNCHANGED <<cache, inflight, pane, urls, shows>>

-----------------------------------------------------------------------------
(* The pane *)

(* The effect of a new body or path: the request sent before is stale, and *)
(* what is shown stays until there is an answer.                           *)
Show(b, mode) ==
  /\ shows < MaxShows /\ shows' = shows + 1
  /\ LET next == [pane EXCEPT !.body = b, !.mode = mode, !.sent = None]
     IN IF mode = "asset" /\ b \in ToSet(urls)
          THEN /\ urls' = Append(Remove(urls, b), b)
               /\ pane' = [next EXCEPT !.waiting = FALSE, !.kind = "ready",
                                       !.shown = b, !.via = "asset"]
          ELSE /\ pane' = [next EXCEPT !.waiting = TRUE]
               /\ UNCHANGED urls
  /\ UNCHANGED <<cache, inflight, request>>

(* The timer of the debounce.                                              *)
Send(r) ==
  /\ pane.waiting /\ pane.sent = None
  /\ request[r] = Idle
  /\ request' = [request EXCEPT ![r] = Called(pane.mode, pane.body)]
  /\ pane' = [pane EXCEPT !.sent = r, !.kind = IF @ \in {"ready", "loaded"} THEN @ ELSE "loading"]
  /\ UNCHANGED <<cache, inflight, urls, shows>>

(* putCachedPreview *)
Put(b) ==
  LET all == Append(Remove(urls, b), b)
  IN IF Len(all) > PaneEntries THEN Tail(all) ELSE all

Shown(r) ==
  [pane EXCEPT !.waiting = FALSE, !.sent = None, !.shown = request[r].body,
               !.via = request[r].mode,
               !.kind = IF request[r].mode = "asset" THEN "ready" ELSE "loaded"]

(* The answer counts only while its request is the last one; an asset that *)
(* failed is asked for inline.                                             *)
CurrentAny(r) == pane.sent # None
Current(r) == pane.sent = r

Ignored(r) ==
  /\ ~Current(r)
  /\ request' = [request EXCEPT ![r] = Idle] /\ UNCHANGED <<pane, urls>>

Succeeds(r) ==
  /\ Current(r) /\ request[r].result # "error"
  /\ request' = [request EXCEPT ![r] = Idle]
  /\ pane' = Shown(r)
  /\ urls' = IF request[r].mode = "asset" THEN Put(request[r].body) ELSE urls

Fails(r) ==
  /\ Current(r) /\ request[r].result = "error"
  /\ IF request[r].mode = "asset"
       THEN /\ request' = [request EXCEPT ![r] = Called("inline", request[r].body)]
            /\ UNCHANGED pane
       ELSE /\ request' = [request EXCEPT ![r] = Idle]
            /\ pane' = [pane EXCEPT !.waiting = FALSE, !.sent = None, !.kind = "fallback"]
  /\ UNCHANGED urls

Answer(r) ==
  /\ request[r].at = "answer"
  /\ Ignored(r) \/ Succeeds(r) \/ Fails(r)
  /\ UNCHANGED <<cache, inflight, shows>>

(* preview_protocol_response: the images of a ready asset are loaded.      *)
Load ==
  /\ pane.kind = "ready"
  /\ IF pane.shown \in Cached(cache)
       THEN cache' = Touched(cache, pane.shown) /\ pane' = [pane EXCEPT !.kind = "loaded"]
       ELSE pane' = [pane EXCEPT !.kind = "fallback"] /\ UNCHANGED cache
  /\ UNCHANGED <<inflight, request, urls, shows>>

-----------------------------------------------------------------------------
Step(r) ==
  \/ Lookup(r) \/ StartOrWait(r) \/ Register(r) \/ Render(r) \/ RemoveFlight(r)
  \/ NotifyWaiters(r) \/ Answer(r)

Next ==
  \/ \E r \in Request : Step(r) \/ Send(r)
  \/ \E b \in Body, mode \in Mode : Show(b, mode)
  \/ Load

Spec == Init /\ [][Next]_vars

(* Commands run on the runtime's threads, the timer fires and the web view *)
(* loads what it shows; the user need do nothing.                          *)
FairSpec ==
  /\ Spec
  /\ \A r \in Request : WF_vars(Step(r))
  /\ WF_vars(\E r \in Request : Send(r)) /\ WF_vars(Load)
-----------------------------------------------------------------------------
(* Properties *)

Rendering == {"render", "remove"}
Stages == {"idle", "lookup", "start", "holding", "asleep", "notify", "answer"} \cup Rendering

Requests == [at: Stages, mode: Mode, body: Body \cup {None},
             notify: Request \cup {None, Spent}, result: {"none", "whole", "pages", "error"}]

Panes == [body: Body \cup {None}, mode: Mode, waiting: BOOLEAN, sent: Request \cup {None},
          kind: {"idle", "loading", "ready", "loaded", "fallback"},
          shown: Body \cup {None}, via: Mode]

(* Every variable holds a value of its kind.                               *)
TypeOK ==
  /\ cache.entries \in [Cached(cache) -> Output] /\ Cached(cache) \subseteq Body
  /\ cache.order \in Seq(Body) /\ cache.bytes \in Nat
  /\ inflight \in [DOMAIN inflight -> Request] /\ DOMAIN inflight \subseteq Mode \X Body
  /\ request \in [Request -> Requests] /\ pane \in Panes
  /\ urls \in Seq(Body) /\ shows \in 0..MaxShows

(* Through inserts that replace each other's entries, hits that reorder and *)
(* evictions, the cache's order and byte count stay exact and within limits.*)
CacheSound == Consistent(cache) /\ WithinLimits(cache)

(* No preview is compiled twice at a time: a key in flight has the one      *)
(* request that renders it, and nobody else does.                           *)
OneRendererPerKey ==
  /\ \A r \in Request : request[r].at \in Rendering =>
       FlightKey(r) \in DOMAIN inflight /\ inflight[FlightKey(r)] = r
  /\ \A key \in DOMAIN inflight :
       request[inflight[key]].at \in Rendering /\ FlightKey(inflight[key]) = key

(* An inline preview is never the empty SVG that an asset rendering of a    *)
(* long memo leaves in the cache the two share.                             *)
InlineIsWhole ==
  \A r \in Request : request[r].at = "answer" /\ request[r].mode = "inline" =>
    request[r].result # "pages"

(* The pane does not show the answer to a question it no longer asks.       *)
PaneIsCurrent ==
  ~pane.waiting /\ pane.kind \in {"ready", "loaded"} => pane.shown = pane.body

(* An asset that was rendered and answered is there to be loaded: inserting *)
(* it evicts others, never the preview just made.                           *)
InsertedIsServed ==
  [][\A r \in Request :
       /\ request[r].at = "render" /\ request'[r].at = "remove"
       /\ request[r].mode = "asset" /\ request'[r].result # "error"
       => request[r].body \in Cached(cache')]_vars

(* A waiter whose rendering notified before the waiter had registered: no   *)
(* one will wake it.                                                        *)
Stranded(r) == request[r].at = "asleep" /\ request[r].notify = Spent

(* Whoever renders, fails, evicts or opens another preview meanwhile, the   *)
(* pane stops waiting, unless its own command is stranded, or all that can  *)
(* run are.                                                                 *)
PaneSettles ==
  pane.waiting ~> \/ ~pane.waiting
                  \/ pane.sent # None /\ Stranded(pane.sent)
                  \/ \A r \in Request : Stranded(r)

(* A preview that the pane takes from its own cache of URLs can be loaded.  *)
(* (The two caches evict apart: it may have expired.)                       *)
KeptUrlIsServed ==
  [][shows' # shows /\ ~pane'.waiting => pane'.shown \in Cached(cache)]_vars
=============================================================================
