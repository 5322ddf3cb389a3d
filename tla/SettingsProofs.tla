--------------------------- MODULE SettingsProofs ---------------------------
(***************************************************************************)
(* Saves of the settings, for every set of settings, values and saves in   *)
(* flight: the file loads, components follow, recording goes on, and a     *)
(* change is applied or listed.                                            *)
(***************************************************************************)
EXTENDS Settings, TLAPS

\* The program counters from which a save has loaded the file again.
Late == {"apply", "metrics", "start", "adopt"}

\* Metrics that were loaded are a real setting, and only they start a recorder.
LoadedMetrics ==
  \A r \in Reqs :
    /\ req[r].pc \in Late /\ "metrics" \in Fields => req[r].v["metrics"] \in Values
    /\ req[r].pc = "start" => "metrics" \in Fields

\* Without an overlap one save at most is under way.
Alone == ~overlapped => \A r, s \in Reqs : req[r].pc # "idle" /\ req[s].pc # "idle" => r = s

DownIsQuiet == ~up => Quiet

\* The file loads unless it is being written, and what is to be written loads.
Ready(q) == CanLoad([secret |-> q.secret, v |-> q.v])
FileInv ==
  ~overlapped /\ ~failed =>
    /\ (\A r \in Reqs : req[r].pc # "write") => CanLoad(file)
    /\ \A r \in Reqs : req[r].pc = "write" => file = Empty
    /\ \A r \in Reqs : req[r].pc \in {"truncate", "write"} => Ready(req[r])

\* Components use the setting in memory, or already that of the save.
InUse(v) == \A f \in Fields \intersect Hot : live[f] = InForce(f, v[f])
LiveInv ==
  up /\ ~overlapped =>
    /\ (\A r \in Reqs : req[r].pc \notin {"metrics", "start", "adopt"}) => InUse(cfg)
    /\ \A r \in Reqs : req[r].pc \in {"metrics", "start", "adopt"} => InUse(req[r].v)

\* So does the recorder, which is missing only between its end and the next.
Only(x) == recorders = {[id |-> current, val |-> x]}
RecorderInv ==
  up /\ ~overlapped /\ "metrics" \in Fields =>
    /\ (\A r \in Reqs : req[r].pc \notin {"start", "adopt"}) => Only(cfg["metrics"])
    /\ \A r \in Reqs : req[r].pc = "start" => recorders = {}
    /\ \A r \in Reqs : req[r].pc = "adopt" => Only(req[r].v["metrics"])

IInv ==
  /\ TypeOK /\ LoadedMetrics /\ Alone /\ DownIsQuiet
  /\ FileInv /\ LiveInv /\ RecorderInv /\ RecorderAlive

-----------------------------------------------------------------------------
(***************************************************************************)
(* config.Load.                                                            *)
(***************************************************************************)
\* What Filled returns for each setting.
LEMMA FilledFacts ==
  ASSUME NEW v \in Config
  PROVE  /\ Filled(v) \in Config
         /\ \A f \in Fields : Filled(v)[f] = IF v[f] = Unset /\ f # "tls" THEN Default ELSE v[f]
<1>1. Default \in AnyVal
  BY ValuesAssumption DEF AnyVal
<1>2. QED
  BY <1>1 DEF Filled, Config

\* What Load makes of each setting of a file.
LEMMA LoadedFacts ==
  ASSUME NEW F \in File
  PROVE  /\ Loaded(F) \in Config
         /\ \A f \in Fields :
              Loaded(F)[f] = IF f \in EnvFields THEN EnvValue
                             ELSE IF F.v[f] = Unset /\ f # "tls" THEN Default ELSE F.v[f]
<1> DEFINE w == [f \in Fields |-> IF f \in EnvFields THEN EnvValue ELSE F.v[f]]
<1>1. EnvValue \in AnyVal /\ EnvValue # Unset
  BY ValuesAssumption DEF AnyVal
<1>2. F.v \in Config
  BY DEF File
<1>3. w \in Config
  BY <1>1, <1>2 DEF Config
<1>4. \A f \in Fields : w[f] = IF f \in EnvFields THEN EnvValue ELSE F.v[f]
  OBVIOUS
<1>5. Loaded(F) = Filled(w)
  BY DEF Loaded
<1> HIDE DEF w
<1>6. QED
  BY <1>1, <1>3, <1>4, <1>5, FilledFacts

\* When a file loads: it has its secret and no setting with a fixed range that
\* is not overridden is bad.
LEMMA CanLoadFacts ==
  ASSUME NEW F \in File
  PROVE  CanLoad(F) <=> /\ F.secret
                        /\ \A f \in Fields \intersect {"authMode", "metrics"} :
                             f \notin EnvFields => F.v[f] # Bad
<1>1. F # Garbled
  BY GarbledAssumption
<1>2. \A f \in Fields \intersect {"authMode", "metrics"} :
        Loaded(F)[f] # Bad <=> (f \notin EnvFields => F.v[f] # Bad)
  BY LoadedFacts, ValuesAssumption
<1>3. QED
  BY <1>1, <1>2 DEF CanLoad

\* A file that loads has metrics that can be recorded.
LEMMA LoadedValue ==
  ASSUME NEW F \in File, CanLoad(F), "metrics" \in Fields
  PROVE  Loaded(F)["metrics"] \in Values
<1>1. F.v["metrics"] \in Values \union {Bad, Unset}
  BY DEF File, Config, AnyVal
<1>2. "metrics" \notin EnvFields => F.v["metrics"] # Bad
  BY CanLoadFacts
<1>3. QED
  BY <1>1, <1>2, LoadedFacts, ValuesAssumption

\* Components take values of the right type.
LEMMA InForceType ==
  ASSUME NEW f, NEW x \in AnyVal
  PROVE  InForce(f, x) \in AnyVal
BY ValuesAssumption DEF InForce, AnyVal

\* The empty file and the idle request.
LEMMA EmptyFacts ==
  /\ Unread \in Config /\ Empty \in File /\ Idle \in Request /\ Idle.pc = "idle"
  /\ [Idle EXCEPT !.pc = "load"] \in Request /\ [Idle EXCEPT !.pc = "load"].pc = "load"
<1>1. Unread \in Config
  BY DEF Unread, Config, AnyVal
<1>2. QED
  BY <1>1 DEF Empty, File, Idle, Request, PCs

-----------------------------------------------------------------------------
\* The first start has a file that loads.
LEMMA InitIInv == Init => IInv
<1> SUFFICES ASSUME Init PROVE IInv
  OBVIOUS
<1>1. PICK x \in {Default, Unset} : file = [secret |-> TRUE, v |-> [f \in Fields |-> x]]
  BY DEF Init
<1>2. x \in AnyVal /\ x # Bad
  BY <1>1, ValuesAssumption DEF AnyVal
<1>3. file \in File /\ file.secret /\ \A f \in Fields : file.v[f] = x
  BY <1>1, <1>2 DEF File, Config
<1>4. CanLoad(file)
  BY <1>2, <1>3, CanLoadFacts
<1>5. \A r \in Reqs : req[r] = Idle
  BY DEF Init
<1>6. req \in [Reqs -> Request]
  BY EmptyFacts DEF Init
<1>7. live \in [Fields \intersect Hot -> AnyVal] /\ cfg \in Config
  BY EmptyFacts DEF Init, AnyVal
<1>8. TypeOK
  <2>1. gen \in 0 .. MaxGen /\ current \in 0 .. gen /\ recorders = {} /\ answer = {}
    BY MaxGenAssumption DEF Init
  <2>2. up \in BOOLEAN /\ overlapped \in BOOLEAN /\ failed \in BOOLEAN
    BY DEF Init
  <2>3. QED
    BY <1>3, <1>6, <1>7, <2>1, <2>2 DEF TypeOK
<1>9. QED
  BY <1>4, <1>5, <1>8, EmptyFacts DEF Init, IInv, LoadedMetrics, Late, Alone, DownIsQuiet, Quiet, FileInv,
     LiveInv, RecorderInv, RecorderAlive

-----------------------------------------------------------------------------
(***************************************************************************)
(* One step of one save.                                                   *)
(***************************************************************************)
\* The save r goes on and the others stay where they are.
Moves(r, q) == req' \in [Reqs -> Request] /\ req'[r] = q /\ \A s \in Reqs : s # r => req'[s] = req[s]

LEMMA SetReq ==
  ASSUME req \in [Reqs -> Request], NEW r \in Reqs, NEW q \in Request, req' = [req EXCEPT ![r] = q]
  PROVE  Moves(r, q)
BY DEF Moves

\* Goto changes the program counter.
LEMMA GotoFacts ==
  ASSUME req \in [Reqs -> Request], NEW r \in Reqs, NEW pc \in PCs, Goto(r, pc)
  PROVE  /\ Moves(r, req'[r])
         /\ req'[r].pc = pc /\ req'[r].v = req[r].v /\ req'[r].secret = req[r].secret
<1>1. [req[r] EXCEPT !.pc = pc] \in Request
  BY DEF Request
<1>2. req' = [req EXCEPT ![r] = [req[r] EXCEPT !.pc = pc]]
  BY DEF Goto
<1>3. req'[r] = [req[r] EXCEPT !.pc = pc]
  BY <1>2
<1>4. QED
  BY <1>1, <1>2, <1>3, SetReq DEF Request

\* Without an overlap the save that takes a step is the only one.
LEMMA StepAlone ==
  ASSUME IInv, NEW r \in Reqs, req[r].pc # "idle", Moves(r, req'[r]), UNCHANGED <<up, overlapped>>
  PROVE  /\ up /\ Alone' /\ DownIsQuiet'
         /\ ~overlapped => \A s \in Reqs : s # r => req[s].pc = "idle" /\ req'[s].pc = "idle"
<1>1. up
  BY DEF IInv, DownIsQuiet, Quiet
<1>2. DownIsQuiet'
  BY <1>1 DEF DownIsQuiet
<1>3. ~overlapped => \A s \in Reqs : s # r => req[s].pc = "idle" /\ req'[s].pc = "idle"
  BY DEF IInv, Alone, Moves
<1>4. Alone'
  BY <1>3 DEF Alone
<1>5. QED
  BY <1>1, <1>2, <1>3, <1>4

\* What the server has in memory, which reading and writing leave alone.
memory == <<up, cfg, live, recorders, current, gen>>

\* A step from an early program counter to another, or back to idle, that
\* leaves the memory alone leaves the parts about the memory alone.
Early == {"idle", "truncate", "write", "load"}
LEMMA EarlyStep ==
  ASSUME IInv, NEW r \in Reqs, Moves(r, req'[r]), UNCHANGED memory, overlapped => overlapped',
         req[r].pc \in Early, req'[r].pc \in Early \union {"apply"},
         req'[r].pc = "apply" /\ "metrics" \in Fields => req'[r].v["metrics"] \in Values
  PROVE  LoadedMetrics' /\ LiveInv' /\ RecorderInv' /\ RecorderAlive'
<1>1. \A s \in Reqs : s # r => req'[s] = req[s]
  BY DEF Moves
<1>2. LoadedMetrics'
  BY <1>1 DEF IInv, LoadedMetrics, Late, Early
<1>3. \A s \in Reqs : req[s].pc \in {"metrics", "start", "adopt"} => s # r /\ req'[s] = req[s]
  BY <1>1 DEF Early
<1>4. \A s \in Reqs : req'[s].pc \in {"metrics", "start", "adopt"} => s # r /\ req'[s] = req[s]
  BY <1>1 DEF Early
<1>5. LiveInv'
  BY <1>3, <1>4 DEF IInv, LiveInv, InUse, memory
<1>6. RecorderInv'
  BY <1>3, <1>4 DEF IInv, RecorderInv, Only, memory
<1>7. RecorderAlive'
  BY <1>3 DEF IInv, RecorderAlive, memory
<1>8. QED
  BY <1>2, <1>5, <1>6, <1>7

\* The settings of the request over those of the file.
LEMMA ReadFileStep ==
  ASSUME IInv, NEW r \in Reqs, ReadFile(r)
  PROVE  IInv'
<1>1. /\ up /\ req[r].pc = "idle" /\ file # Garbled /\ overlapped' = (overlapped \/ ~Quiet)
      /\ UNCHANGED <<file, process, failed>>
  BY DEF ReadFile
<1>a. PICK S \in SUBSET (Fields \ {"dataDir"}) : \E x \in [S -> AnyVal] :
        /\ \A f \in S : Accepts(f, x[f])
        /\ req' = [req EXCEPT ![r] =
             [pc |-> "truncate", secret |-> file.secret,
              v |-> Filled([f \in Fields |-> IF f \in S THEN x[f] ELSE file.v[f]])]]
  BY DEF ReadFile
<1>2. PICK x \in [S -> AnyVal] :
        /\ \A f \in S : Accepts(f, x[f])
        /\ req' = [req EXCEPT ![r] =
             [pc |-> "truncate", secret |-> file.secret,
              v |-> Filled([f \in Fields |-> IF f \in S THEN x[f] ELSE file.v[f]])]]
  BY <1>a
<1> DEFINE w == [f \in Fields |-> IF f \in S THEN x[f] ELSE file.v[f]]
           q == [pc |-> "truncate", secret |-> file.secret, v |-> Filled(w)]
<1>3. file \in File
  BY <1>1 DEF IInv, TypeOK
<1>4. w \in Config /\ \A f \in Fields : w[f] = IF f \in S THEN x[f] ELSE file.v[f]
  BY <1>3 DEF Config, File
<1>5. req' = [req EXCEPT ![r] = q]
  BY <1>2
<1> HIDE DEF w
<1>6. Filled(w) \in Config /\ \A f \in Fields : Filled(w)[f] = IF w[f] = Unset /\ f # "tls" THEN Default ELSE w[f]
  BY <1>4, FilledFacts
<1>7. q \in Request /\ q.pc = "truncate" /\ q.secret = file.secret /\ q.v = Filled(w)
  BY <1>3, <1>6 DEF Request, PCs, File
<1> HIDE DEF q
<1>8. Moves(r, q)
  BY <1>5, <1>7, SetReq DEF IInv, TypeOK
<1>9. overlapped' \in BOOLEAN /\ (~overlapped' => ~overlapped /\ Quiet)
  BY <1>1 DEF IInv, TypeOK
<1>10. TypeOK'
  BY <1>1, <1>8, <1>9 DEF IInv, TypeOK, Moves, process
<1>11. Alone' /\ DownIsQuiet'
  BY <1>1, <1>8, <1>9 DEF Alone, DownIsQuiet, Quiet, Moves, process
<1>12. LoadedMetrics' /\ LiveInv' /\ RecorderInv' /\ RecorderAlive'
  <2>1. req'[r].pc \in Early /\ req[r].pc \in Early /\ UNCHANGED memory /\ (overlapped => overlapped')
    BY <1>1, <1>7, <1>8, <1>9 DEF Moves, Early, process, memory
  <2>2. QED
    BY <1>8, <2>1, EarlyStep DEF Moves, Early
<1>13. FileInv'
  <2> SUFFICES ASSUME ~overlapped', ~failed' PROVE FileInv'
    BY DEF FileInv
  <2>1. Quiet /\ CanLoad(file)
    BY <1>1, <1>9 DEF IInv, FileInv, Quiet
  <2>2. [secret |-> q.secret, v |-> q.v] \in File
    BY <1>3, <1>6, <1>7 DEF File
  <2>3. \A f \in Fields \intersect {"authMode", "metrics"} : f \notin EnvFields => q.v[f] # Bad
    <3> SUFFICES ASSUME NEW f \in Fields \intersect {"authMode", "metrics"}, f \notin EnvFields
                 PROVE  q.v[f] # Bad
      OBVIOUS
    <3>1. f \in S => x[f] \in Values
      BY <1>2 DEF Accepts, Ranged
    <3>2. file.v[f] # Bad
      BY <1>3, <2>1, CanLoadFacts
    <3>3. QED
      BY <1>4, <1>6, <1>7, <3>1, <3>2, ValuesAssumption
  <2>4. file.secret
    BY <1>3, <2>1, CanLoadFacts
  <2>5. Ready(q)
    BY <1>7, <2>2, <2>3, <2>4, CanLoadFacts DEF Ready
  <2>6. file' = file /\ \A s \in Reqs : s # r => req'[s].pc = "idle"
    BY <1>1, <1>8, <2>1 DEF Moves, Quiet
  <2>7. QED
    BY <1>7, <1>8, <2>1, <2>5, <2>6 DEF FileInv, Moves
<1>14. QED
  BY <1>10, <1>11, <1>12, <1>13 DEF IInv

\* A step that leaves the file alone and is no part of writing it.
LEMMA FileKept ==
  ASSUME IInv, NEW r \in Reqs, Moves(r, req'[r]), UNCHANGED <<file, overlapped, failed>>,
         req[r].pc \notin {"truncate", "write"}, req'[r].pc \notin {"truncate", "write"}
  PROVE  FileInv'
<1>1. \A s \in Reqs : /\ req'[s].pc = "write" => req[s].pc = "write" /\ req'[s] = req[s]
                      /\ req[s].pc = "write" => req'[s].pc = "write"
                      /\ req'[s].pc = "truncate" => req[s].pc = "truncate" /\ req'[s] = req[s]
  BY DEF Moves
<1>2. QED
  BY <1>1 DEF IInv, FileInv

\* The file is emptied.
LEMMA TruncateStep ==
  ASSUME IInv, NEW r \in Reqs, Truncate(r)
  PROVE  IInv'
<1>1. /\ req[r].pc = "truncate" /\ file' = Empty /\ Goto(r, "write")
      /\ UNCHANGED <<process, overlapped, failed>>
  BY DEF Truncate
<1>2. Moves(r, req'[r]) /\ req'[r].pc = "write" /\ req'[r].v = req[r].v /\ req'[r].secret = req[r].secret
  BY <1>1, GotoFacts DEF IInv, TypeOK, PCs
<1>3. TypeOK'
  BY <1>1, <1>2, EmptyFacts DEF IInv, TypeOK, Moves, process
<1>4. /\ Alone' /\ DownIsQuiet'
      /\ ~overlapped => \A s \in Reqs : s # r => req[s].pc = "idle" /\ req'[s].pc = "idle"
  BY <1>1, <1>2, StepAlone DEF process
<1>5. LoadedMetrics' /\ LiveInv' /\ RecorderInv' /\ RecorderAlive'
  BY <1>1, <1>2, EarlyStep DEF Early, process, memory
<1>6. FileInv'
  BY <1>1, <1>2, <1>4 DEF IInv, FileInv, Ready
<1>7. QED
  BY <1>3, <1>4, <1>5, <1>6 DEF IInv

\* What was rendered is written.
LEMMA WriteStep ==
  ASSUME IInv, NEW r \in Reqs, Write(r)
  PROVE  IInv'
<1> DEFINE F == [secret |-> req[r].secret, v |-> req[r].v]
<1>1. /\ req[r].pc = "write"
      /\ file' = F \/ (file # Empty /\ file' = Garbled)
      /\ Written(r) /\ UNCHANGED <<process, overlapped, failed>>
  BY DEF Write
<1>2. F \in File
  BY DEF IInv, TypeOK, Request, File
<1>3. Moves(r, req'[r]) /\ req'[r].pc = "load"
  BY <1>1, EmptyFacts, SetReq DEF IInv, TypeOK, Written, Moves
<1>4. TypeOK'
  BY <1>1, <1>2, <1>3 DEF IInv, TypeOK, Moves, process
<1>5. /\ Alone' /\ DownIsQuiet'
      /\ ~overlapped => \A s \in Reqs : s # r => req[s].pc = "idle" /\ req'[s].pc = "idle"
  BY <1>1, <1>3, StepAlone DEF process
<1>6. LoadedMetrics' /\ LiveInv' /\ RecorderInv' /\ RecorderAlive'
  BY <1>1, <1>3, EarlyStep DEF Early, process, memory
<1>7. FileInv'
  <2> SUFFICES ASSUME ~overlapped', ~failed' PROVE FileInv'
    BY DEF FileInv
  <2>1. ~overlapped /\ ~failed
    BY <1>1
  <2>2. file = Empty /\ CanLoad(F)
    BY <1>1, <2>1 DEF IInv, FileInv, Ready
  <2>3. CanLoad(file')
    BY <1>1, <2>2
  <2>4. QED
    BY <1>3, <1>5, <2>1, <2>3 DEF FileInv
<1>8. QED
  BY <1>4, <1>5, <1>6, <1>7 DEF IInv

\* A save is cut short.
LEMMA WriteFailsStep ==
  ASSUME IInv, NEW r \in Reqs, WriteFails(r)
  PROVE  IInv'
<1>1. /\ req[r].pc \in {"truncate", "write"} /\ Finish(r) /\ failed' = TRUE
      /\ UNCHANGED <<file, process, overlapped>>
  BY DEF WriteFails
<1>2. Moves(r, req'[r]) /\ req'[r].pc = "idle"
  BY <1>1, EmptyFacts, SetReq DEF IInv, TypeOK, Finish, Moves
<1>3. TypeOK'
  BY <1>1, <1>2 DEF IInv, TypeOK, Moves, process
<1>4. Alone' /\ DownIsQuiet'
  BY <1>1, <1>2, StepAlone DEF process
<1>5. LoadedMetrics' /\ LiveInv' /\ RecorderInv' /\ RecorderAlive'
  BY <1>1, <1>2, EarlyStep DEF Early, process, memory
<1>6. FileInv'
  BY <1>1 DEF FileInv
<1>7. QED
  BY <1>3, <1>4, <1>5, <1>6 DEF IInv

\* The file is loaded again.
LEMMA LoadStep ==
  ASSUME IInv, NEW r \in Reqs, Load(r)
  PROVE  IInv'
<1>1. /\ req[r].pc = "load" /\ UNCHANGED <<file, memory, overlapped, failed>>
  BY DEF Load, memory
<1>2. /\ Moves(r, req'[r]) /\ req'[r].pc \in {"idle", "apply"} /\ answer' \subseteq Cold
      /\ req'[r].pc = "apply" /\ "metrics" \in Fields => req'[r].v["metrics"] \in Values
  <2>1. CASE /\ CanLoad(file) /\ UNCHANGED answer
             /\ req' = [req EXCEPT ![r].pc = "apply", ![r].v = Loaded(file)]
    <3>1. file \in File
      BY <2>1 DEF CanLoad, IInv, TypeOK
    <3>2. Loaded(file) \in Config /\ ("metrics" \in Fields => Loaded(file)["metrics"] \in Values)
      BY <2>1, <3>1, LoadedFacts, LoadedValue
    <3> DEFINE q == [req[r] EXCEPT !.pc = "apply", !.v = Loaded(file)]
    <3>3. q \in Request /\ q.pc = "apply" /\ q.v = Loaded(file)
      BY <3>2 DEF IInv, TypeOK, Request, PCs
    <3>4. req' = [req EXCEPT ![r] = q]
      BY <2>1 DEF IInv, TypeOK
    <3> HIDE DEF q
    <3>5. Moves(r, q)
      BY <3>3, <3>4, SetReq DEF IInv, TypeOK
    <3>6. req'[r] = q
      BY <3>5 DEF Moves
    <3>7. answer' \subseteq Cold
      BY <2>1 DEF IInv, TypeOK
    <3>8. QED
      BY <3>2, <3>3, <3>5, <3>6, <3>7
  <2>2. CASE Finish(r) /\ answer' = {}
    BY <2>2, EmptyFacts, SetReq DEF IInv, TypeOK, Finish, Moves
  <2>3. QED
    BY <2>1, <2>2 DEF Load
<1>3. TypeOK'
  BY <1>1, <1>2 DEF IInv, TypeOK, Moves, memory
<1>4. Alone' /\ DownIsQuiet'
  BY <1>1, <1>2, StepAlone DEF memory
<1>5. LoadedMetrics' /\ LiveInv' /\ RecorderInv' /\ RecorderAlive'
  BY <1>1, <1>2, EarlyStep DEF Early
<1>6. FileInv'
  BY <1>1, <1>2, FileKept
<1>7. QED
  BY <1>3, <1>4, <1>5, <1>6 DEF IInv

\* A late step by a save that does not end in a write: the parts of the
\* invariant that are not about the components.
LEMMA LateStep ==
  ASSUME IInv, NEW r \in Reqs, Moves(r, req'[r]), UNCHANGED <<file, up, overlapped, failed>>,
         req[r].pc \in Late, req'[r].pc \in Late \union {"idle"},
         req'[r].pc # "idle" => req'[r].v = req[r].v,
         req'[r].pc = "start" => "metrics" \in Fields
  PROVE  /\ LoadedMetrics' /\ Alone' /\ DownIsQuiet' /\ FileInv' /\ up
         /\ ~overlapped => \A s \in Reqs : s # r => req[s].pc = "idle" /\ req'[s].pc = "idle"
<1>1. LoadedMetrics'
  BY DEF IInv, LoadedMetrics, Moves, Late
<1>2. /\ Alone' /\ DownIsQuiet' /\ up
      /\ ~overlapped => \A s \in Reqs : s # r => req[s].pc = "idle" /\ req'[s].pc = "idle"
  BY StepAlone DEF Late
<1>3. FileInv'
  BY FileKept DEF Late
<1>4. QED
  BY <1>1, <1>2, <1>3

\* The components that are reloaded.
LEMMA ApplyStep ==
  ASSUME IInv, NEW r \in Reqs, Apply(r)
  PROVE  IInv'
<1>1. /\ req[r].pc = "apply" /\ Goto(r, "metrics")
      /\ live' = [f \in DOMAIN live |->
           IF cfg[f] # req[r].v[f] THEN InForce(f, req[r].v[f]) ELSE live[f]]
      /\ UNCHANGED <<file, up, cfg, recorders, current, gen, answer, overlapped, failed>>
  BY DEF Apply
<1>2. Moves(r, req'[r]) /\ req'[r].pc = "metrics" /\ req'[r].v = req[r].v
  BY <1>1, GotoFacts DEF IInv, TypeOK, PCs
<1>3. live \in [Fields \intersect Hot -> AnyVal] /\ \A f \in Fields : req[r].v[f] \in AnyVal
  BY DEF IInv, TypeOK, Request, Config
<1>4. live' \in [Fields \intersect Hot -> AnyVal]
  BY <1>1, <1>3, InForceType
<1>5. TypeOK'
  BY <1>1, <1>2, <1>4 DEF IInv, TypeOK, Moves
<1>6. /\ LoadedMetrics' /\ Alone' /\ DownIsQuiet' /\ FileInv' /\ up
      /\ ~overlapped => \A s \in Reqs : s # r => req[s].pc = "idle" /\ req'[s].pc = "idle"
  BY <1>1, <1>2, LateStep DEF Late
<1>7. LiveInv'
  <2> SUFFICES ASSUME ~overlapped PROVE LiveInv'
    BY <1>1 DEF LiveInv
  <2>1. InUse(cfg)
    BY <1>1, <1>6 DEF IInv, LiveInv
  <2>2. \A f \in Fields \intersect Hot : live'[f] = InForce(f, req[r].v[f])
    BY <1>1, <1>3, <2>1 DEF InUse
  <2>3. \A f \in Fields \intersect Hot : live'[f] = InForce(f, req'[r].v[f])
    BY <1>2, <2>2
  <2>4. QED
    BY <1>2, <1>6, <2>3 DEF LiveInv, InUse
<1>8. RecorderInv'
  BY <1>1, <1>2, <1>6 DEF IInv, RecorderInv, Only
<1>9. RecorderAlive'
  BY <1>1, <1>2 DEF IInv, RecorderAlive, Moves
<1>10. QED
  BY <1>5, <1>6, <1>7, <1>8, <1>9 DEF IInv

\* The recorder is cancelled when its setting changed.
LEMMA MetricsCancelStep ==
  ASSUME IInv, NEW r \in Reqs, MetricsCancel(r)
  PROVE  IInv'
<1> DEFINE changed == "metrics" \in Fields /\ cfg["metrics"] # req[r].v["metrics"]
           pc == IF changed THEN "start" ELSE "adopt"
<1>1. /\ req[r].pc = "metrics" /\ Goto(r, pc)
      /\ recorders' = IF changed THEN {m \in recorders : m.id # current} ELSE recorders
      /\ UNCHANGED <<file, up, cfg, live, current, gen, answer, overlapped, failed>>
  BY DEF MetricsCancel
<1>2. Moves(r, req'[r]) /\ req'[r].pc = pc /\ req'[r].v = req[r].v
  BY <1>1, GotoFacts DEF IInv, TypeOK, PCs
<1>3. pc \in {"start", "adopt"} /\ (pc = "start" <=> changed)
  OBVIOUS
<1> HIDE DEF pc
<1>4. recorders' \subseteq recorders
  BY <1>1
<1>5. TypeOK'
  BY <1>1, <1>2, <1>4 DEF IInv, TypeOK, Moves
<1>6. /\ LoadedMetrics' /\ Alone' /\ DownIsQuiet' /\ FileInv' /\ up
      /\ ~overlapped => \A s \in Reqs : s # r => req[s].pc = "idle" /\ req'[s].pc = "idle"
  BY <1>1, <1>2, <1>3, LateStep DEF Late
<1>7. LiveInv'
  BY <1>1, <1>2, <1>3, <1>6 DEF IInv, LiveInv, InUse
<1>8. RecorderInv'
  <2> SUFFICES ASSUME ~overlapped, "metrics" \in Fields PROVE RecorderInv'
    BY <1>1 DEF RecorderInv
  <2>1. Only(cfg["metrics"])
    BY <1>1, <1>6 DEF IInv, RecorderInv
  <2>2. changed => recorders' = {}
    BY <1>1, <2>1 DEF Only
  <2>3. ~changed => recorders' = {[id |-> current', val |-> req'[r].v["metrics"]]}
    BY <1>1, <1>2, <2>1 DEF Only
  <2>4. QED
    BY <1>2, <1>3, <1>6, <2>2, <2>3 DEF RecorderInv, Only
<1>9. RecorderAlive'
  <2>1. CASE changed
    BY <1>2, <1>3, <2>1 DEF RecorderAlive
  <2>2. CASE ~changed
    BY <1>1, <1>2, <1>3, <2>2 DEF IInv, RecorderAlive, Moves
  <2>3. QED
    BY <2>1, <2>2
<1>10. QED
  BY <1>5, <1>6, <1>7, <1>8, <1>9 DEF IInv

\* And started again.
LEMMA StartMetricsRecorderStep ==
  ASSUME IInv, NEW r \in Reqs, StartMetricsRecorder(r)
  PROVE  IInv'
<1> DEFINE m == [id |-> gen + 1, val |-> req[r].v["metrics"]]
<1>1. /\ req[r].pc = "start" /\ gen < MaxGen /\ gen' = gen + 1 /\ current' = gen + 1
      /\ recorders' = recorders \union {m} /\ Goto(r, "adopt")
      /\ UNCHANGED <<file, up, cfg, live, answer, overlapped, failed>>
  BY DEF StartMetricsRecorder
<1>2. Moves(r, req'[r]) /\ req'[r].pc = "adopt" /\ req'[r].v = req[r].v
  BY <1>1, GotoFacts DEF IInv, TypeOK, PCs
<1>3. m.id = gen + 1 /\ m.val \in Values
  BY <1>1 DEF IInv, LoadedMetrics, Late
<1>4. m = [id |-> current', val |-> req'[r].v["metrics"]]
  BY <1>1, <1>2
<1> HIDE DEF m
<1>5. TypeOK'
  <2>1. gen \in Nat /\ gen' \in 0 .. MaxGen /\ current' \in 0 .. gen'
    BY <1>1, MaxGenAssumption DEF IInv, TypeOK
  <2>2. \A k \in recorders : k.id \in 1 .. gen' /\ k.val \in Values
    BY <1>1, <2>1 DEF IInv, TypeOK
  <2>3. m.id \in 1 .. gen'
    BY <1>1, <1>3, <2>1
  <2>4. \A k \in recorders' : k.id \in 1 .. gen' /\ k.val \in Values
    BY <1>1, <1>3, <2>2, <2>3
  <2>5. QED
    BY <1>1, <1>2, <2>1, <2>4 DEF IInv, TypeOK, Moves
<1>6. /\ LoadedMetrics' /\ Alone' /\ DownIsQuiet' /\ FileInv' /\ up
      /\ ~overlapped => \A s \in Reqs : s # r => req[s].pc = "idle" /\ req'[s].pc = "idle"
  BY <1>1, <1>2, LateStep DEF Late
<1>7. LiveInv'
  BY <1>1, <1>2, <1>6 DEF IInv, LiveInv, InUse
<1>8. RecorderInv'
  <2> SUFFICES ASSUME ~overlapped, up, "metrics" \in Fields PROVE RecorderInv'
    BY <1>1, <1>6 DEF RecorderInv
  <2>1. recorders = {}
    BY <1>1 DEF IInv, RecorderInv
  <2>2. recorders' = {[id |-> current', val |-> req'[r].v["metrics"]]}
    BY <1>1, <1>4, <2>1
  <2>3. QED
    BY <1>2, <1>6, <2>2 DEF RecorderInv, Only
<1>9. RecorderAlive'
  BY <1>1 DEF RecorderAlive
<1>10. QED
  BY <1>5, <1>6, <1>7, <1>8, <1>9 DEF IInv

\* The configuration in memory follows and the save is answered.
LEMMA AdoptStep ==
  ASSUME IInv, NEW r \in Reqs, Adopt(r)
  PROVE  IInv'
<1>1. /\ req[r].pc = "adopt" /\ cfg' = req[r].v /\ answer' \subseteq Cold /\ Finish(r)
      /\ UNCHANGED <<file, up, live, recorders, current, gen, overlapped, failed>>
  BY DEF Adopt, NeedRestart
<1>2. Moves(r, req'[r]) /\ req'[r].pc = "idle"
  BY <1>1, EmptyFacts, SetReq DEF IInv, TypeOK, Finish, Moves
<1>3. cfg' \in Config
  BY <1>1 DEF IInv, TypeOK, Request
<1>4. TypeOK'
  BY <1>1, <1>2, <1>3 DEF IInv, TypeOK, Moves
<1>5. /\ LoadedMetrics' /\ Alone' /\ DownIsQuiet' /\ FileInv' /\ up
      /\ ~overlapped => \A s \in Reqs : s # r => req[s].pc = "idle" /\ req'[s].pc = "idle"
  BY <1>1, <1>2, LateStep DEF Late
<1>6. LiveInv'
  <2> SUFFICES ASSUME ~overlapped PROVE LiveInv'
    BY <1>1 DEF LiveInv
  <2>1. InUse(req[r].v)
    BY <1>1, <1>5 DEF IInv, LiveInv
  <2>2. QED
    BY <1>1, <1>2, <1>5, <2>1 DEF LiveInv, InUse
<1>7. RecorderInv'
  <2> SUFFICES ASSUME ~overlapped, "metrics" \in Fields PROVE RecorderInv'
    BY <1>1 DEF RecorderInv
  <2>1. Only(req[r].v["metrics"])
    BY <1>1, <1>5 DEF IInv, RecorderInv
  <2>2. QED
    BY <1>1, <1>2, <1>5, <2>1 DEF RecorderInv, Only
<1>8. RecorderAlive'
  BY <1>1, <1>2 DEF IInv, RecorderAlive, Moves
<1>9. QED
  BY <1>4, <1>5, <1>6, <1>7, <1>8 DEF IInv

-----------------------------------------------------------------------------
(***************************************************************************)
(* The server and its administrator.                                       *)
(***************************************************************************)
\* A server is started from a file that loads.
LEMMA BootStep == IInv /\ Boot => IInv'
<1> SUFFICES ASSUME IInv, Boot PROVE IInv'
  OBVIOUS
<1> DEFINE m == [id |-> gen + 1, val |-> Loaded(file)["metrics"]]
<1>1. /\ ~up /\ CanLoad(file) /\ up' = TRUE /\ cfg' = Loaded(file)
      /\ live' = [f \in Fields \intersect Hot |-> InForce(f, Loaded(file)[f])]
      /\ gen < MaxGen /\ gen' = gen + 1 /\ current' = gen + 1
      /\ recorders' = IF "metrics" \in Fields THEN {m} ELSE {}
      /\ UNCHANGED <<file, req, answer, overlapped, failed>>
  BY DEF Boot, Booted
<1>2. file \in File
  BY <1>1 DEF CanLoad, IInv, TypeOK
<1>3. cfg' \in Config /\ ("metrics" \in Fields => Loaded(file)["metrics"] \in Values)
  BY <1>1, <1>2, LoadedFacts, LoadedValue
<1>4. live' \in [Fields \intersect Hot -> AnyVal] /\ InUse(cfg)'
  <2>1. \A f \in Fields \intersect Hot : Loaded(file)[f] \in AnyVal
    BY <1>1, <1>3 DEF Config
  <2>2. \A f \in Fields \intersect Hot : InForce(f, Loaded(file)[f]) \in AnyVal
    BY <2>1, InForceType
  <2>3. \A f \in Fields \intersect Hot : live'[f] = InForce(f, cfg'[f])
    BY <1>1
  <2>4. QED
    BY <1>1, <2>2, <2>3 DEF InUse
<1>5. gen \in Nat /\ gen' \in 0 .. MaxGen /\ current' \in 0 .. gen'
  BY <1>1, MaxGenAssumption DEF IInv, TypeOK
<1>6. \A k \in recorders' : k.id \in 1 .. gen' /\ k.val \in Values
  BY <1>1, <1>3, <1>5
<1>7. TypeOK'
  BY <1>1, <1>3, <1>4, <1>5, <1>6 DEF IInv, TypeOK
<1>8. \A r \in Reqs : req[r].pc = "idle" /\ req'[r] = req[r]
  BY <1>1 DEF IInv, DownIsQuiet, Quiet
<1>9. LoadedMetrics' /\ Alone' /\ DownIsQuiet' /\ LiveInv'
  BY <1>1, <1>4, <1>8 DEF LoadedMetrics, Late, Alone, DownIsQuiet, Quiet, LiveInv
<1>10. FileInv'
  BY <1>1 DEF IInv, FileInv
<1>11. RecorderInv' /\ RecorderAlive'
  BY <1>1, <1>8 DEF RecorderInv, Only, RecorderAlive
<1>12. QED
  BY <1>7, <1>9, <1>10, <1>11 DEF IInv

\* A server that stops forgets everything but the file.
LEMMA DownStep == IInv /\ Down => IInv'
<1> SUFFICES ASSUME IInv, Down PROVE IInv'
  OBVIOUS
<1>1. /\ up' = FALSE /\ cfg' = Unread /\ live' = [f \in DOMAIN live |-> Unset]
      /\ recorders' = {} /\ current' = 0 /\ answer' = {} /\ req' = [r \in Reqs |-> Idle]
      /\ failed' = (failed \/ ~Quiet) /\ UNCHANGED <<file, gen, overlapped>>
  BY DEF Down
<1>2. \A r \in Reqs : req'[r] = Idle
  BY <1>1
<1>3. TypeOK'
  <2>1. live' \in [Fields \intersect Hot -> AnyVal]
    BY <1>1 DEF IInv, TypeOK, AnyVal
  <2>2. current' \in 0 .. gen' /\ failed' \in BOOLEAN
    BY <1>1 DEF IInv, TypeOK
  <2>3. req' \in [Reqs -> Request]
    BY <1>1, EmptyFacts
  <2>4. QED
    BY <1>1, <2>1, <2>2, <2>3, EmptyFacts DEF IInv, TypeOK
<1>4. FileInv'
  BY <1>1, <1>2, EmptyFacts DEF IInv, FileInv, Quiet
<1>5. QED
  BY <1>1, <1>2, <1>3, <1>4, EmptyFacts DEF IInv, LoadedMetrics, Late, Alone, DownIsQuiet, Quiet,
     LiveInv, RecorderInv, RecorderAlive

\* A file that is edited by hand, with values that Load accepts, still loads.
LEMMA HandEditStep == IInv /\ HandEdit => IInv'
<1> SUFFICES ASSUME IInv, HandEdit PROVE IInv'
  OBVIOUS
<1>1. Quiet /\ UNCHANGED <<process, req, overlapped, failed>>
  BY DEF HandEdit
<1>2. file' \in File /\ (~overlapped /\ ~failed => CanLoad(file'))
  <2>1. ASSUME file # Garbled, NEW f \in Fields, NEW x \in Texts(f),
               f \in {"authMode", "metrics"} => x # Bad,
               file' = [secret |-> TRUE, v |-> [file.v EXCEPT ![f] = x]]
        PROVE  file' \in File /\ (~overlapped /\ ~failed => CanLoad(file'))
    <3>1. file \in File /\ x \in AnyVal
      BY <2>1 DEF IInv, TypeOK, Texts
    <3>2. file' \in File /\ file'.secret /\ \A g \in Fields : file'.v[g] = IF g = f THEN x ELSE file.v[g]
      BY <2>1, <3>1 DEF File, Config
    <3>3. ~overlapped /\ ~failed => CanLoad(file)
      BY <1>1 DEF IInv, FileInv, Quiet
    <3>4. CanLoad(file) => \A g \in Fields \intersect {"authMode", "metrics"} :
                             g \notin EnvFields => file.v[g] # Bad
      BY <3>1, CanLoadFacts
    <3>5. CanLoad(file) => \A g \in Fields \intersect {"authMode", "metrics"} :
                             g \notin EnvFields => file'.v[g] # Bad
      BY <2>1, <3>2, <3>4
    <3>6. CanLoad(file) => CanLoad(file')
      BY <3>2, <3>5, CanLoadFacts
    <3>7. QED
      BY <3>2, <3>3, <3>6
  <2>2. CASE file' = [Empty EXCEPT !.secret = TRUE]
    <3>1. file' \in File /\ file'.secret /\ file'.v = Unread
      BY <2>2, EmptyFacts DEF File, Empty
    <3>2. \A g \in Fields : file'.v[g] # Bad
      BY <3>1, ValuesAssumption DEF Unread
    <3>3. QED
      BY <3>1, <3>2, CanLoadFacts
  <2>3. QED
    BY <2>1, <2>2 DEF HandEdit
<1>3. TypeOK'
  BY <1>1, <1>2 DEF IInv, TypeOK, process
<1>4. FileInv'
  BY <1>1, <1>2 DEF FileInv, Quiet
<1>5. LoadedMetrics' /\ Alone' /\ DownIsQuiet'
  BY <1>1 DEF IInv, LoadedMetrics, Alone, DownIsQuiet, Quiet, process
<1>6. LiveInv' /\ RecorderInv' /\ RecorderAlive'
  BY <1>1 DEF IInv, LiveInv, InUse, RecorderInv, Only, RecorderAlive, process
<1>7. QED
  BY <1>3, <1>4, <1>5, <1>6 DEF IInv

\* Every step keeps the invariant.
LEMMA NextIInv == IInv /\ [Next]_vars => IInv'
<1> SUFFICES ASSUME IInv, [Next]_vars PROVE IInv'
  OBVIOUS
<1>1. ASSUME NEW r \in Reqs, Save(r) PROVE IInv'
  BY <1>1, ReadFileStep, TruncateStep, WriteStep, WriteFailsStep, LoadStep, ApplyStep,
     MetricsCancelStep, StartMetricsRecorderStep, AdoptStep DEF Save
<1>2. CASE UNCHANGED vars
  BY <1>2 DEF vars, process, IInv, TypeOK, LoadedMetrics, Alone, DownIsQuiet, Quiet, FileInv,
     LiveInv, InUse, RecorderInv, Only, RecorderAlive
<1>3. QED
  BY <1>1, <1>2, BootStep, DownStep, HandEditStep DEF Next

\* The invariant of every behaviour.
LEMMA Invariance == Spec => []IInv
BY InitIInv, NextIInv, PTL DEF Spec

-----------------------------------------------------------------------------
(***************************************************************************)
(* The results.                                                            *)
(***************************************************************************)
\* The types hold, and between saves that do not overlap every component and
\* the recorder use the setting in memory: Reloader.Apply, which acts on the
\* difference only, leaves none behind.
THEOREM ComponentsStayInStep == Spec => []SettingsSound
<1>1. IInv => SettingsSound
  <2> SUFFICES ASSUME IInv PROVE SettingsSound
    OBVIOUS
  <2>1. TypeOK
    BY DEF IInv
  <2>2. ComponentsFollow
    BY DEF IInv, TypeOK, LiveInv, InUse, RecorderInv, Only, Quiet, ComponentsFollow
  <2>3. QED
    BY <2>1, <2>2 DEF SettingsSound
<1>2. QED
  BY <1>1, Invariance, PTL

\* updateConfig never leaves a file that the next start refuses, unless the save
\* was cut short or met another one.
THEOREM ServerCanRestart == Spec => []CanRestart
<1>1. IInv => CanRestart
  BY DEF IInv, FileInv, Quiet, CanRestart
<1>2. QED
  BY <1>1, Invariance, PTL

\* While the server runs a recorder is alive or is about to be started, however
\* many saves overlap.
THEOREM RecordingGoesOn == Spec => []RecorderAlive
<1>1. IInv => RecorderAlive
  BY DEF IInv
<1>2. QED
  BY <1>1, Invariance, PTL

\* What a save answers: a step that ends it at its last program counter while
\* the server stays up is Adopt, and there each changed setting is in force or
\* in the list.
THEOREM ChangesAreAppliedOrListed == Spec => AppliedOrListed
<1> DEFINE A == \A r \in Reqs, f \in Fields \ {"metrics"} :
              /\ req[r].pc = "adopt" /\ req'[r].pc = "idle" /\ up' /\ ~overlapped
              /\ cfg[f] # cfg'[f]
              => f \in answer' \/ (f \in Hot /\ live[f] = InForce(f, cfg'[f]))
<1>1. IInv /\ [Next]_vars => [A]_vars
  <2> SUFFICES ASSUME IInv, Next, NEW r \in Reqs, NEW f \in Fields \ {"metrics"},
                      req[r].pc = "adopt", req'[r].pc = "idle", up', ~overlapped, cfg[f] # cfg'[f]
               PROVE  f \in answer' \/ (f \in Hot /\ live[f] = InForce(f, cfg'[f]))
    OBVIOUS
  <2>1. up /\ \A s \in Reqs : s # r => req[s].pc = "idle"
    BY DEF IInv, Alone, DownIsQuiet, Quiet
  <2>2. ASSUME NEW s \in Reqs, Save(s) PROVE Adopt(r)
    <3>1. ~ReadFile(s)
      BY DEF ReadFile, process
    <3>2. req[s].pc # "idle"
      BY <2>2, <3>1 DEF Save, Truncate, Write, WriteFails, Load, Apply, MetricsCancel,
         StartMetricsRecorder, Adopt
    <3>3. s = r
      BY <2>1, <3>2
    <3>4. req[s].pc = "adopt"
      BY <3>3
    <3>5. Adopt(s)
      BY <2>2, <3>1, <3>4 DEF Save, Truncate, Write, WriteFails, Load, Apply, MetricsCancel,
         StartMetricsRecorder
    <3>6. QED
      BY <3>3, <3>5
  <2>3. Adopt(r)
    BY <2>1, <2>2 DEF Next, Boot, Down, HandEdit, process
  <2>4. cfg' = req[r].v /\ answer' = NeedRestart(cfg, req[r].v)
    BY <2>3 DEF Adopt
  <2>5. f \in Hot \union Cold
    BY FieldsAssumption DEF Known
  <2>6. CASE f \in Cold
    BY <2>4, <2>6 DEF NeedRestart
  <2>7. CASE f \in Hot
    BY <2>1, <2>4, <2>7 DEF IInv, LiveInv, InUse
  <2>8. QED
    BY <2>5, <2>6, <2>7
<1>2. QED
  BY <1>1, Invariance, PTL DEF Spec, AppliedOrListed

=============================================================================
