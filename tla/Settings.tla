------------------------------ MODULE Settings ------------------------------
(***************************************************************************)
(* The configuration file, the configuration in memory and the components  *)
(* that are reloaded when the settings page saves.                         *)
(*                                                                         *)
(* updateConfig reads the file, overwrites it in place (truncation and     *)
(* write are two steps another process can see), loads it again and hands  *)
(* the difference to Reloader.Apply, all without a lock.  An administrator *)
(* may also edit the file and restart the service.                         *)
(***************************************************************************)
EXTENDS Integers, FiniteSets

CONSTANTS
  Fields,     \* the settings of this instance, among Known
  Values,     \* values every setting accepts
  Bad,        \* a text that is no value of a setting with a fixed range
  Unset,      \* the empty string
  Default,    \* the hardcoded default
  EnvFields,  \* settings given by an environment variable
  EnvValue,   \* and their value
  Reqs,       \* saves in flight together
  MaxGen,     \* bound: metrics recorders ever started; no save begins after the last
  Garbled     \* a file that does not parse

Hot    == {"logLevel", "logSink", "authMode", "projectsDir", "filesRoot"}
Cold   == {"listenAddr", "dataDir", "tls"}
Known  == Hot \union Cold \union {"metrics"}
Ranged == {"authMode", "logSink", "logLevel", "metrics"}
AnyVal == Values \union {Bad, Unset}
Texts(f) == IF f \in Ranged THEN AnyVal ELSE AnyVal \ {Bad}

ASSUME FieldsAssumption == Fields \subseteq Known /\ EnvFields \subseteq Fields
ASSUME ValuesAssumption == Bad \notin Values /\ Unset \notin Values /\ Bad # Unset
                           /\ Default \in Values /\ EnvValue \in Values
ASSUME MaxGenAssumption == MaxGen \in Nat \ {0}

Config == [Fields -> AnyVal]
File   == [secret : BOOLEAN, v : Config]
Unread == [f \in Fields |-> Unset]
Empty  == [secret |-> FALSE, v |-> Unread]

ASSUME GarbledAssumption == Garbled \notin File

VARIABLES
  file,       \* the configuration file
  up,         \* the server runs
  cfg,        \* the Config the handlers share
  live,       \* what the reloadable components use
  recorders,  \* metrics recorders that are not cancelled: id and setting
  current,    \* the recorder that MetricsCancel stops
  gen,        \* recorders started so far
  req,        \* saves in flight
  answer,     \* the restartFields of the last answer
  overlapped, failed  \* history: two saves met; a save was cut short

process == <<up, cfg, live, recorders, current, gen, answer>>
vars    == <<file, process, req, overlapped, failed>>

PCs     == {"idle", "truncate", "write", "load", "apply", "metrics", "start", "adopt"}
Request == [pc : PCs, secret : BOOLEAN, v : Config]
Idle    == [pc |-> "idle", secret |-> FALSE, v |-> Unread]
Quiet   == \A r \in Reqs : req[r].pc = "idle"

-----------------------------------------------------------------------------
(***************************************************************************)
(* config.Load.                                                            *)
(***************************************************************************)
\* An empty setting takes its default; the TLS files have none.
Filled(v) == [f \in Fields |-> IF v[f] = Unset /\ f # "tls" THEN Default ELSE v[f]]
Loaded(F) == Filled([f \in Fields |-> IF f \in EnvFields THEN EnvValue ELSE F.v[f]])
CanLoad(F) ==
  /\ F # Garbled
  /\ F.secret
  /\ \A f \in Fields \intersect {"authMode", "metrics"} : Loaded(F)[f] # Bad

\* A log level that does not parse becomes info.
InForce(f, x) == IF f = "logLevel" /\ x = Bad THEN Default ELSE x

\* runServer, from a file that loads.
Booted ==
  /\ up' = TRUE /\ cfg' = Loaded(file)
  /\ live' = [f \in Fields \intersect Hot |-> InForce(f, Loaded(file)[f])]
  /\ gen < MaxGen /\ gen' = gen + 1 /\ current' = gen + 1
  /\ recorders' = IF "metrics" \in Fields
                  THEN {[id |-> gen + 1, val |-> Loaded(file)["metrics"]]} ELSE {}

Init ==
  /\ file \in {[secret |-> TRUE, v |-> [f \in Fields |-> x]] : x \in {Default, Unset}}
  /\ up = FALSE /\ cfg = Unread
  /\ live = [f \in Fields \intersect Hot |-> Unset]
  /\ recorders = {} /\ current = 0 /\ gen = 0 /\ answer = {}
  /\ req = [r \in Reqs |-> Idle] /\ overlapped = FALSE /\ failed = FALSE

Boot ==
  /\ ~up /\ CanLoad(file)
  /\ Booted
  /\ UNCHANGED <<file, req, answer, overlapped, failed>>

\* The service is stopped, or dies: its memory is gone and saves under way stop
\* where they are.
Down ==
  /\ up /\ up' = FALSE
  /\ cfg' = Unread
  /\ live' = [f \in DOMAIN live |-> Unset]
  /\ recorders' = {} /\ current' = 0 /\ answer' = {}
  /\ req' = [r \in Reqs |-> Idle]
  /\ failed' = (failed \/ ~Quiet)
  /\ UNCHANGED <<file, gen, overlapped>>

\* An administrator edits one setting by hand, with a value Load accepts, or
\* puts a broken file right.
HandEdit ==
  /\ Quiet
  /\ \/ /\ file # Garbled
        /\ \E f \in Fields : \E x \in Texts(f) :
             /\ f \in {"authMode", "metrics"} => x # Bad
             /\ file' = [secret |-> TRUE, v |-> [file.v EXCEPT ![f] = x]]
     \/ file = Garbled /\ file' = [Empty EXCEPT !.secret = TRUE]
  /\ UNCHANGED <<process, req, overlapped, failed>>

-----------------------------------------------------------------------------
(***************************************************************************)
(* configAPIHandler.updateConfig.                                          *)
(***************************************************************************)
Goto(r, pc) == req' = [req EXCEPT ![r].pc = pc]
\* What was rendered is not looked at again: Load reads the file.
Written(r)  == req' = [req EXCEPT ![r] = [Idle EXCEPT !.pc = "load"]]
Finish(r)   == req' = [req EXCEPT ![r] = Idle]

Accepts(f, x) == x \in Texts(f) /\ (f \in Ranged => x \in Values)

\* The settings of the request, S, over those of the file.  The data directory
\* cannot be changed this way.
ReadFile(r) ==
  /\ up /\ req[r].pc = "idle" /\ file # Garbled /\ gen < MaxGen
  /\ \E S \in SUBSET (Fields \ {"dataDir"}) : \E x \in [S -> AnyVal] :
       /\ \A f \in S : Accepts(f, x[f])
       /\ req' = [req EXCEPT ![r] =
            [pc |-> "truncate", secret |-> file.secret,
             v |-> Filled([f \in Fields |-> IF f \in S THEN x[f] ELSE file.v[f]])]]
  /\ overlapped' = (overlapped \/ ~Quiet)
  /\ UNCHANGED <<file, process, failed>>

Truncate(r) ==
  /\ req[r].pc = "truncate"
  /\ file' = Empty
  /\ Goto(r, "write")
  /\ UNCHANGED <<process, overlapped, failed>>

\* Mutant: the secret is not part of what is rendered.
Write_NoSecret(r) ==
  /\ req[r].pc = "write"
  /\ file' = [secret |-> FALSE, v |-> req[r].v]
  /\ Written(r)
  /\ UNCHANGED <<process, overlapped, failed>>

\* Over the text another save has just written, a shorter text leaves its end.
Write(r) ==
  /\ req[r].pc = "write"
  /\ \/ file' = [secret |-> req[r].secret, v |-> req[r].v]
     \/ file # Empty /\ file' = Garbled
  /\ Written(r)
  /\ UNCHANGED <<process, overlapped, failed>>

WriteFails(r) ==
  /\ req[r].pc \in {"truncate", "write"}
  /\ Finish(r)
  /\ failed' = TRUE
  /\ UNCHANGED <<file, process, overlapped>>

\* A file that does not load is answered with "config saved" all the same.
Load(r) ==
  /\ req[r].pc = "load"
  /\ \/ /\ CanLoad(file)
        /\ req' = [req EXCEPT ![r].pc = "apply", ![r].v = Loaded(file)]
        /\ UNCHANGED answer
     \/ ~CanLoad(file) /\ Finish(r) /\ answer' = {}
  /\ UNCHANGED <<file, up, cfg, live, recorders, current, gen, overlapped, failed>>

\* Mutant: the login handler keeps its mode.
Apply_NoMode(r) ==
  /\ req[r].pc = "apply"
  /\ live' = [f \in DOMAIN live |->
       IF cfg[f] # req[r].v[f] /\ f # "authMode" THEN InForce(f, req[r].v[f]) ELSE live[f]]
  /\ Goto(r, "metrics")
  /\ UNCHANGED <<file, up, cfg, recorders, current, gen, answer, overlapped, failed>>

Apply(r) ==
  /\ req[r].pc = "apply"
  /\ live' = [f \in DOMAIN live |->
       IF cfg[f] # req[r].v[f] THEN InForce(f, req[r].v[f]) ELSE live[f]]
  /\ Goto(r, "metrics")
  /\ UNCHANGED <<file, up, cfg, recorders, current, gen, answer, overlapped, failed>>

MetricsCancel(r) ==
  LET changed == "metrics" \in Fields /\ cfg["metrics"] # req[r].v["metrics"] IN
  /\ req[r].pc = "metrics"
  /\ recorders' = IF changed THEN {m \in recorders : m.id # current} ELSE recorders
  /\ Goto(r, IF changed THEN "start" ELSE "adopt")
  /\ UNCHANGED <<file, up, cfg, live, current, gen, answer, overlapped, failed>>

\* Mutant: the new recorder is started before the old one is cancelled.
StartMetricsRecorder_First(r) ==
  /\ req[r].pc = "start" /\ gen < MaxGen
  /\ gen' = gen + 1 /\ current' = gen + 1
  /\ recorders' = {m \in recorders : m.id # current'}
  /\ Goto(r, "adopt")
  /\ UNCHANGED <<file, up, cfg, live, answer, overlapped, failed>>

StartMetricsRecorder(r) ==
  /\ req[r].pc = "start" /\ gen < MaxGen
  /\ gen' = gen + 1 /\ current' = gen + 1
  /\ recorders' = recorders \union {[id |-> gen + 1, val |-> req[r].v["metrics"]]}
  /\ Goto(r, "adopt")
  /\ UNCHANGED <<file, up, cfg, live, answer, overlapped, failed>>

\* Mutant: the list is never filled.
NeedRestart_Never(old, new) == {}

\* The server keeps the values of these settings that it was started with.
NeedRestart(old, new) == {f \in Fields \intersect Cold : old[f] # new[f]}

\* The end of Apply, the assignments to h.cfg and the answer.
Adopt(r) ==
  /\ req[r].pc = "adopt"
  /\ cfg' = req[r].v
  /\ answer' = NeedRestart(cfg, req[r].v)
  /\ Finish(r)
  /\ UNCHANGED <<file, up, live, recorders, current, gen, overlapped, failed>>

-----------------------------------------------------------------------------
Save(r) ==
  \/ ReadFile(r) \/ Truncate(r) \/ Write(r) \/ WriteFails(r) \/ Load(r)
  \/ Apply(r) \/ MetricsCancel(r) \/ StartMetricsRecorder(r) \/ Adopt(r)

Next == Boot \/ Down \/ HandEdit \/ \E r \in Reqs : Save(r)

Spec == Init /\ [][Next]_vars

-----------------------------------------------------------------------------
\* The types of the variables.
TypeOK ==
  /\ file \in File \union {Garbled} /\ up \in BOOLEAN /\ cfg \in Config
  /\ live \in [Fields \intersect Hot -> AnyVal]
  /\ gen \in 0 .. MaxGen /\ current \in 0 .. gen
  /\ \A m \in recorders : m.id \in 1 .. gen /\ m.val \in Values
  /\ req \in [Reqs -> Request] /\ answer \subseteq Cold
  /\ overlapped \in BOOLEAN /\ failed \in BOOLEAN

\* Between saves that do not overlap, every reloadable component uses the
\* setting in memory, and the recorder that runs is the one that the next save
\* would cancel, with the setting in memory: Apply, which looks only at the
\* difference, never leaves a component behind, whatever was edited by hand.
ComponentsFollow ==
  up /\ Quiet /\ ~overlapped =>
    /\ \A f \in DOMAIN live : live[f] = InForce(f, cfg[f])
    /\ "metrics" \in Fields => recorders = {[id |-> current, val |-> cfg["metrics"]]}

\* The service can be started again: no save leaves a file that Load refuses or
\* that lost its cookie_secret, unless it was cut short or met another save.
CanRestart == Quiet /\ ~overlapped /\ ~failed => CanLoad(file)

\* A setting that a save changed is in force when the save is answered, or it is
\* in the list of settings that need a restart.
AppliedOrListed ==
  [][ \A r \in Reqs, f \in Fields \ {"metrics"} :
        /\ req[r].pc = "adopt" /\ req'[r].pc = "idle" /\ up' /\ ~overlapped
        /\ cfg[f] # cfg'[f]
        => f \in answer' \/ (f \in Hot /\ live[f] = InForce(f, cfg'[f])) ]_vars

\* Metrics are recorded all the time: even when saves overlap, somebody who
\* cancelled the recorder is about to start one.
RecorderAlive ==
  up /\ "metrics" \in Fields => recorders # {} \/ \E r \in Reqs : req[r].pc = "start"

\* Types, and the components that are reloaded.
SettingsSound == TypeOK /\ ComponentsFollow

=============================================================================
