----------------------------- MODULE LivePages -----------------------------
(***************************************************************************)
(* The pages that follow a stream: the server's log and journalctl (Logs), *)
(* the logs of a project (ProjectLogs) and Docker's events (Events), over  *)
(* the hook that connects again by itself (useWebSocket).  One run of the  *)
(* hook's effect belongs to one path; a change of the path or a change of  *)
(* the page cleans it up, and its socket may still have a close event to   *)
(* come.  The text of a line, searching in it, scrolling and the length of *)
(* the wait are left out.                                                  *)
(***************************************************************************)
EXTENDS Naturals, Sequences

CONSTANTS
  Kinds,       \* containers of a project, units of the journal, types of an event
  Windows,     \* what tail, since and until of ProjectLogs select
  MaxEffects,  \* bound: runs of the effect
  MaxLines,    \* bound: lines of the source
  Keep,        \* lines that a page keeps (2000, 5000, 500)
  All          \* no filter

VARIABLES
  pane,             \* "server", "journal", "project", "events", or "none" when left
  window, follow,   \* ProjectLogs: the options of the path
  filter,           \* unit and priority of JournalLogs, type and action of Events
  lines,            \* the lines the page has
  services, selectedService, paused,
  status,           \* what the hook says
  effect,           \* the latest run of the effect
  hook,             \* per run: dead, timer, path, the state of its socket, the next line to send
  source            \* what there is to stream: the kind of each line

vars == <<pane, window, follow, filter, lines, services, selectedService, paused, status, effect, hook, source>>
options == <<window, follow, filter>>
view    == <<services, selectedService, paused>>

Panes   == {"server", "journal", "project", "events"}
Effects == 1 .. MaxEffects
Live    == {"connecting", "open"}

NoPath == [pane |-> "none", window |-> All, follow |-> TRUE, filter |-> All]
NoRun  == [dead |-> FALSE, timer |-> FALSE, path |-> NoPath, ws |-> "none", cursor |-> 1]

Init ==
  /\ pane = "none" /\ window \in Windows /\ follow = TRUE /\ filter = All
  /\ lines = <<>> /\ services = {} /\ selectedService = All /\ paused = FALSE
  /\ status = "connecting" /\ effect = 0 /\ hook = [e \in Effects |-> NoRun] /\ source = <<>>

-----------------------------------------------------------------------------
(***************************************************************************)
(* useWebSocket.                                                           *)
(***************************************************************************)
connect(h) == [h EXCEPT !.ws = "connecting", !.timer = FALSE]

\* Mutant: the cleanup closes the socket and does not say that it did.
Cleanup_NotDead(h) == [h EXCEPT !.timer = FALSE, !.ws = IF @ \in Live THEN "closing" ELSE @]

Cleanup(h) == [h EXCEPT !.dead = TRUE, !.timer = FALSE, !.ws = IF @ \in Live THEN "closing" ELSE @]

\* The path that the page asks for.
wsPath(p, w, f, fi) ==
  [pane |-> p, window |-> IF p = "project" THEN w ELSE All, follow |-> p = "project" => f,
   filter |-> IF p \in {"journal", "events"} THEN fi ELSE All]

\* The path changed: the cleanup of the run before, and the next run.
useEffect(path) ==
  LET cleaned == [e \in Effects |-> IF e = effect THEN Cleanup(hook[e]) ELSE hook[e]]
  IN  IF path.pane = "none"
      THEN hook' = cleaned /\ UNCHANGED <<effect, status>>
      ELSE /\ effect < MaxEffects /\ effect' = effect + 1 /\ status' = "connecting"
           /\ hook' = [cleaned EXCEPT ![effect + 1] = connect([NoRun EXCEPT !.path = path])]

\* The connection stands.  The server sends from some line of the past on; for a
\* project it sends the names of the containers first, if there are any.
onopen(e) ==
  /\ hook[e].ws = "connecting"
  /\ \E c \in 1 .. Len(source) + 1 : hook' = [hook EXCEPT ![e].ws = "open", ![e].cursor = c]
  /\ status' = "open"
  /\ IF hook[e].path.pane = "project" THEN services' \in {services} \union (SUBSET Kinds \ {{}})
                                      ELSE UNCHANGED services
  /\ UNCHANGED <<pane, options, lines, selectedService, paused, effect, source>>

\* The last lines that a page keeps, and a new one.
Appended(l) ==
  LET kept == IF Len(lines) > Keep THEN Tail(lines) ELSE lines
      next == Append(kept, l)
  IN  IF pane = "events" /\ Len(next) > Keep THEN Tail(next) ELSE next

\* What the server sends on a path.
Sent(path, k) == path.filter \in {All, k}

\* The next line of the stream: the page takes it unless it is paused.
onmessage(e) ==
  LET h == hook[e]
  IN  /\ h.ws = "open" /\ h.cursor <= Len(source)
      /\ hook' = [hook EXCEPT ![e].cursor = @ + 1]
      /\ lines' = IF Sent(h.path, source[h.cursor]) /\ ~paused
                  THEN Appended([kind |-> source[h.cursor], window |-> h.path.window])
                  ELSE lines
      /\ UNCHANGED <<pane, options, view, status, effect, source>>

\* The server ends the stream (without follow, at once when all is sent), stops,
\* refuses, or the network breaks.
Lose(e) ==
  /\ hook[e].ws \in Live /\ hook' = [hook EXCEPT ![e].ws = "closing"]
  /\ UNCHANGED <<pane, options, lines, view, status, effect, source>>

\* The close event: the wait for the next attempt, unless the run was cleaned up.
onclose(e) ==
  LET h == hook[e]
  IN  /\ h.ws = "closing"
      /\ hook' = [hook EXCEPT ![e].ws = "closed", ![e].timer = ~h.dead]
      /\ status' = IF h.dead THEN status ELSE "closed"
      /\ UNCHANGED <<pane, options, lines, view, effect, source>>

\* The wait is over.
TimerFires(e) ==
  /\ hook[e].timer
  /\ IF hook[e].dead
     THEN hook' = [hook EXCEPT ![e].timer = FALSE] /\ UNCHANGED status
     ELSE hook' = [hook EXCEPT ![e] = connect(@)] /\ status' = "connecting"
  /\ UNCHANGED <<pane, options, lines, view, effect, source>>

-----------------------------------------------------------------------------
(***************************************************************************)
(* The pages.                                                              *)
(***************************************************************************)
Clear == lines' = <<>> /\ UNCHANGED <<pane, options, view, status, effect, hook, source>>

TogglePause == paused' = ~paused /\ UNCHANGED <<pane, options, lines, services, selectedService, status, effect, hook, source>>

ServerLogs == pane = "server" /\ (TogglePause \/ Clear)

\* A new filter asks for another stream; the lines that are there stay.
SetFilter(f) ==
  /\ filter' = f /\ useEffect(wsPath(pane, window, follow, f))
  /\ UNCHANGED <<pane, window, follow, lines, view, source>>

JournalLogs ==
  /\ pane = "journal"
  /\ TogglePause \/ Clear \/ \E f \in Kinds \union {All} : f # filter /\ SetFilter(f)

\* The types to choose from are those of the events on the page.
Events ==
  /\ pane = "events"
  /\ \/ TogglePause \/ Clear
     \/ \E f \in {lines[i].kind : i \in DOMAIN lines} \union {All} : f # filter /\ SetFilter(f)

\* Tail, since and until.
SetWindow(w) ==
  /\ window' = w /\ lines' = <<>> /\ useEffect(wsPath(pane, w, follow, filter))
  /\ UNCHANGED <<pane, follow, filter, view, source>>

ToggleFollow ==
  /\ follow' = ~follow /\ useEffect(wsPath(pane, window, ~follow, filter))
  /\ UNCHANGED <<pane, window, filter, lines, view, source>>

SelectService(s) ==
  /\ services # {} /\ s \in services \union {All} /\ selectedService' = s
  /\ UNCHANGED <<pane, options, lines, services, paused, status, effect, hook, source>>

\* The places that keep chooses among the lines, in their order.
Filtered(s, keep) ==
  {p \in UNION {[1 .. n -> keep] : n \in 0 .. Len(s)} :
     /\ \A i, j \in DOMAIN p : i < j => p[i] < p[j]
     /\ \A k \in keep : \E i \in DOMAIN p : p[i] = k}

\* The lines of the service that is selected, or all.
clearLogs ==
  /\ \E p \in Filtered(lines, {i \in DOMAIN lines : selectedService # All /\ lines[i].kind # selectedService}) :
       lines' = [i \in DOMAIN p |-> lines[p[i]]]
  /\ UNCHANGED <<pane, options, view, status, effect, hook, source>>

ProjectLogs ==
  /\ pane = "project"
  /\ \/ \E w \in Windows : w # window /\ SetWindow(w)
     \/ ToggleFollow \/ clearLogs
     \/ \E s \in Kinds \union {All} : SelectService(s)

\* Another page, or the other tab of Logs, with everything as at first.
GoTo(p) ==
  /\ p # pane /\ pane' = p
  /\ window' \in Windows /\ follow' = TRUE /\ filter' = All
  /\ lines' = <<>> /\ services' = {} /\ selectedService' = All /\ paused' = FALSE
  /\ useEffect(wsPath(p, window', TRUE, All))
  /\ UNCHANGED source

Logs == pane \in {"server", "journal"} /\ \E p \in {"server", "journal"} : GoTo(p)

\* Something is logged or happens.
Emit(k) ==
  /\ Len(source) < MaxLines /\ source' = Append(source, k)
  /\ UNCHANGED <<pane, options, lines, view, status, effect, hook>>

Next ==
  \/ \E e \in Effects : onopen(e) \/ onmessage(e) \/ Lose(e) \/ onclose(e) \/ TimerFires(e)
  \/ ServerLogs \/ JournalLogs \/ ProjectLogs \/ Events \/ Logs
  \/ \E p \in Panes \union {"none"} : GoTo(p)
  \/ \E k \in Kinds : Emit(k)

Spec == Init /\ [][Next]_vars

-----------------------------------------------------------------------------
\* One connection: whatever was clicked while sockets opened, broke and waited,
\* only the latest run of the effect has a socket or a wait for one, and none
\* has after the page was left.
OneConnection ==
  \A e \in Effects : hook[e].ws \in Live \/ hook[e].timer => pane # "none" /\ e = effect

\* The page is not left without its stream: a stream that ended is asked for
\* again, and the page says whether there is a connection.
NotLeftClosed ==
  pane # "none" =>
    CASE status = "closed"     -> hook[effect].timer
      [] status = "open"       -> hook[effect].ws \in {"open", "closing"}
      [] status = "connecting" -> hook[effect].ws \in {"connecting", "closing"}

\* The lines of a project's log are those that the tail, since and until of the
\* page select, although the stream was asked for again with other options.
ShownOfOptions == pane = "project" => \A i \in DOMAIN lines : lines[i].window = window

\* A pane has the one stream of its options, or is about to have it again.
StreamFollowed == OneConnection /\ NotLeftClosed /\ ShownOfOptions

=============================================================================
