--------------------------- MODULE ComposeEditor ---------------------------
(***************************************************************************)
(* Editing a project's compose file in the browser: the YAML editor, the   *)
(* visual builder (ComposeBuilder) and the switch between the two, as the  *)
(* page of a new project (ProjectEditor) and the page of an existing one   *)
(* (ProjectDetail) have it.                                                *)
(*                                                                         *)
(* Every section of the builder is an operator that gives the values one   *)
(* click or keystroke in it can produce.                                   *)
(***************************************************************************)
EXTENDS ComposeFile, SequencesExt

CONSTANTS
  Keys,       \* the keys of a service that are edited
  Names,      \* service names a user types
  MaxEntries, \* bound: services, their keys and top-level entries of a file
  MaxItems,   \* bound: rows of one section
  MaxDeps     \* bound: services one service waits for

VARIABLES
  composeContent, \* the text that Save sends
  visualModel,    \* what the builder shows
  composeMode     \* "yaml", "visual", or "crashed": rendering threw, the page is blank

vars == <<composeContent, visualModel, composeMode>>

EmptyText == [services |-> EmptyMap, networks |-> EmptyMap, volumes |-> EmptyMap, rest |-> FALSE]

Init == composeContent = EmptyText /\ visualModel = EmptyCf /\ composeMode = "yaml"

\* The bounds.
Size(cf) ==
  LET keys(s) == IF cf.services[s] = Null THEN {} ELSE DOMAIN cf.services[s]
  IN  Cardinality(UNION {{s} \X keys(s) : s \in DOMAIN cf.services})
        + Cardinality(DOMAIN cf.services) + Cardinality(DOMAIN cf.networks) + Cardinality(DOMAIN cf.volumes)

Put(f, k, v)  == [j \in DOMAIN f \union {k} |-> IF j = k THEN v ELSE f[j]]
Drop(f, k)    == [j \in DOMAIN f \ {k} |-> f[j]]

OrAbsent(v, empty) == IF v = empty THEN Absent ELSE v

-----------------------------------------------------------------------------
(***************************************************************************)
(* The sections of a service card.                                         *)
(***************************************************************************)
\* InputRow, TextareaRow and SelectRow: another text, or none.
TextEdits(k)   == {Absent} \union (IF k = "restart" THEN {"no", "always"} ELSE {"x"})
ToggleEdits    == {Absent, TRUE}
NumberEdits    == {Absent, 1}

\* The rows of a list: change one, remove one, add one.
Rows(rows, fresh, Changes(_)) ==
  (UNION {{[rows EXCEPT ![i] = c] : c \in Changes(rows[i])} : i \in DOMAIN rows})
    \union {RemoveAt(rows, i) : i \in DOMAIN rows}
    \union (IF Len(rows) < MaxItems THEN {Append(rows, fresh)} ELSE {})

StrListEdits(items) == Rows(items, "", LAMBDA v : {"", "x"})
ExposeEdits(items)  == Rows(items, "3000", LAMBDA v : {"", "x"})

PortEdits(ports) ==
  Rows(ports, [container |-> "8080", host |-> "8080", ip |-> "0.0.0.0", protocol |-> ""],
       LAMBDA p : {[p EXCEPT !.ip = v] : v \in {"127.0.0.1"}}
                    \union {[p EXCEPT !.host = v] : v \in {"", "8080"}}
                    \union {[p EXCEPT !.container = v] : v \in {"", "8080"}}
                    \union {[p EXCEPT !.protocol = v] : v \in {"tcp", "udp"}})

\* The volumes a source may name: with a path of the home directory taken for one.
Sources == {"", "/srv", "data", "~/data"}
VolumeEdits(volumes) ==
  Rows(volumes, [source |-> "", target |-> "/data", readOnly |-> FALSE],
       LAMBDA v : {[v EXCEPT !.source = s] : s \in Sources}
                    \union {[v EXCEPT !.readOnly = ro] : ro \in BOOLEAN})

\* Rows of names and values.  A row renamed to the name of another takes its
\* place: whichever comes later in the file stays.
Renamed(m, o, n) == {Put(Drop(m, o), n, m[k]) : k \in DOMAIN m \intersect {o, n}}
KVEdits(data) ==
  {Put(data, k, "v") : k \in DOMAIN data}
    \union (UNION {Renamed(data, o, "") \union Renamed(data, o, "K") : o \in DOMAIN data})
    \union {Drop(data, k) : k \in DOMAIN data}
    \union {Put(data, "", "")}

\* A value of the environment is typed, or picked from the project's variables.
EnvEdits(env) == KVEdits(env)

\* An interface of a service: its aliases and its address.
NetworkEdits(networks, available) ==
  {Put(networks, n, c) : n \in DOMAIN networks, c \in {"empty", "set"}}
    \union {Drop(networks, n) : n \in DOMAIN networks}
    \union {Put(networks, n, "empty") : n \in available \ DOMAIN networks}

Conditions == {"service_started", "service_healthy"}
DependsOnEdits(deps, others) ==
  LET listed == {deps[i].service : i \in DOMAIN deps}
  IN  {[deps EXCEPT ![i].condition = c] : i \in DOMAIN deps, c \in Conditions}
        \union {RemoveAt(deps, i) : i \in DOMAIN deps}
        \union {Append(deps, [service |-> s, condition |-> "service_started"]) :
                  s \in IF Len(deps) < MaxDeps THEN others \ listed ELSE {}}

\* Opening the section of a service without a healthcheck gives it an empty one.
\* The fields stay editable under "disable".
HealthCheckEdits(hc) ==
  IF hc = Absent THEN {[test |-> "", opts |-> "", disable |-> FALSE]}
  ELSE {Absent} \union {[hc EXCEPT !.test = v] : v \in {"", "x"}}
                \union {[hc EXCEPT !.opts = v] : v \in {"", "x"}}

ResourceEdits(limits) == IF limits = Absent THEN {""} ELSE {Absent, "", "x"}

-----------------------------------------------------------------------------
(***************************************************************************)
(* ServiceCard: the edits of one key.  Build, logging and ulimits have no  *)
(* field.                                                                  *)
(***************************************************************************)
Get(svc, k, empty) == IF k \in DOMAIN svc THEN svc[k] ELSE empty

KeyEdits(cf, name, k) ==
  LET svc == cf.services[name]
  IN  CASE k \in StrKeys \union JoinKeys -> TextEdits(k)
        [] k \in FlagKeys      -> ToggleEdits
        [] k = "scale"         -> NumberEdits
        [] k = "expose"        -> {OrAbsent(v, <<>>) : v \in ExposeEdits(Get(svc, k, <<>>))}
        [] k \in ArrKeys \ {"expose"} -> {OrAbsent(v, <<>>) : v \in StrListEdits(Get(svc, k, <<>>))}
        [] k = "ports"         -> {OrAbsent(v, <<>>) : v \in PortEdits(Get(svc, k, <<>>))}
        [] k = "volumes"       -> {OrAbsent(v, <<>>) : v \in VolumeEdits(Get(svc, k, <<>>))}
        [] k = "environment"   -> {OrAbsent(v, EmptyMap) : v \in EnvEdits(Get(svc, k, EmptyMap))}
        [] k \in {"labels", "sysctls"} -> {OrAbsent(v, EmptyMap) : v \in KVEdits(Get(svc, k, EmptyMap))}
        [] k = "networks"      -> {OrAbsent(v, EmptyMap) :
                                     v \in NetworkEdits(Get(svc, k, EmptyMap), DOMAIN cf.networks)}
        [] k = "depends_on"    -> {OrAbsent(v, <<>>) :
                                     v \in DependsOnEdits(Get(svc, k, <<>>), DOMAIN cf.services \ {name})}
        [] k = "healthcheck"   -> HealthCheckEdits(Get(svc, k, Absent))
        [] k = "deploy"        -> ResourceEdits(Get(svc, k, Absent))
        [] OTHER               -> {}

SetKey(svc, k, v) == IF v = Absent THEN Drop(svc, k) ELSE Put(svc, k, v)

-----------------------------------------------------------------------------
(***************************************************************************)
(* ComposeBuilder.                                                         *)
(***************************************************************************)
isNamedVolume(source) == source \in {"data", "~/data"}
getUsedVolumes(services) ==
  {v \in Sources : isNamedVolume(v) /\ \E s \in DOMAIN services :
     "volumes" \in DOMAIN services[s] /\ \E i \in DOMAIN services[s].volumes :
       services[s].volumes[i].source = v}

\* Declare the volumes that services mount, forget unmounted ones that hold no
\* settings.
syncTopLevelVolumes(cf) ==
  LET used == getUsedVolumes(cf.services)
      kept == {v \in DOMAIN cf.volumes : v \in used \/ cf.volumes[v] = "set"}
  IN  [cf EXCEPT !.volumes =
         [v \in used \union kept |-> IF v \in DOMAIN cf.volumes THEN cf.volumes[v] ELSE "empty"]]

updateService(cf, name, svc) == syncTopLevelVolumes([cf EXCEPT !.services = Put(@, name, svc)])

\* Mutant: the services that depend on the renamed one keep its old name.
renameService_NoDepends(cf, old, new) ==
  [cf EXCEPT !.services = [s \in (DOMAIN @ \ {old}) \union {new} |-> IF s = new THEN @[old] ELSE @[s]]]

\* The name, and every depends_on that mentions it.
renameService(cf, old, new) ==
  LET Follow(svc) ==
        IF "depends_on" \notin DOMAIN svc THEN svc
        ELSE [svc EXCEPT !.depends_on =
               MapSeq(LAMBDA d : IF d.service = old THEN [d EXCEPT !.service = new] ELSE d, @)]
  IN  [cf EXCEPT !.services =
         [s \in (DOMAIN @ \ {old}) \union {new} |-> Follow(IF s = new THEN @[old] ELSE @[s])]]

removeService(cf, name) == [cf EXCEPT !.services = Drop(@, name)]

\* The first of the names the "Add" buttons make up that is free.
Fresh(names, used) == names[CHOOSE i \in DOMAIN names :
                              names[i] \notin used /\ \A j \in 1 .. i - 1 : names[j] \in used]
ServiceNames == <<"service", "service2">>
addService(cf) ==
  [cf EXCEPT !.services = Put(@, Fresh(ServiceNames, DOMAIN @), [k \in {"restart"} |-> "unless-stopped"])]

\* The panels of top-level networks and volumes: settings, rename, remove, add.
\* A name whose settings are null counts as free, and of two entries that come
\* together the later one in the file stays.
PanelEdits(m, madeUp, typed) ==
  LET taken == {n \in DOMAIN m : m[n] # "null"}
  IN  {Put(m, n, c) : n \in DOMAIN m, c \in {"empty", "set"}}
        \union (UNION {Renamed(m, o, n) : o \in DOMAIN m, n \in typed \ taken})
        \union {Drop(m, n) : n \in DOMAIN m}
        \union (IF \E i \in DOMAIN madeUp : madeUp[i] \notin taken
                THEN {Put(m, Fresh(madeUp, taken), "empty")} ELSE {})

NetworkNames == <<"network", "network2">>
VolumeNames  == <<"volume", "volume2">>
NetworksPanel(cf) ==
  {[cf EXCEPT !.networks = m] : m \in PanelEdits(cf.networks, NetworkNames, {"front"})}
VolumesPanel(cf) ==
  {[cf EXCEPT !.volumes = m] : m \in PanelEdits(cf.volumes, VolumeNames, {"data"})}

-----------------------------------------------------------------------------
(***************************************************************************)
(* The YAML editor.  Samples has, for every key, values in the forms that  *)
(* compose files are written in.                                           *)
(***************************************************************************)
SamplePort(ip)  == [ip |-> ip, host |-> "8080", container |-> "8080", protocol |-> "tcp"]
SampleMount(ro) == [source |-> "data", target |-> "/data", readOnly |-> ro]
SampleCheck(d)  == [test |-> "x", opts |-> "x", disable |-> d]
SampleDeps(c)   == {<<[service |-> s, condition |-> c]>> : s \in Names}
One(n, v)       == [j \in {n} |-> v]

PortSamples     == {Raw("list", <<p>>) : p \in [form : {"short", "long", "long+"},
                                                val : {SamplePort(ip) : ip \in {"", "127.0.0.1", "[::1]"}}]}
VariableSamples == {Raw(f, One("K", v)) : f \in {"map", "list"}, v \in {"v", Unset}}
LabelSamples    == {Raw(f, One("K", "v")) : f \in {"map", "list"}}
VolumeSamples   == {Raw("list", <<Raw(f, SampleMount(ro))>>) : f \in {"short", "short+", "long"}, ro \in BOOLEAN}
NetworkSamples  == {Raw("list", One("front", "empty"))} \union
                     {Raw("map", One("front", c)) : c \in {"null", "empty", "set"}}
DependsSamples  == {Raw("list", d) : d \in SampleDeps("service_started")}
                     \union {Raw(f, d) : f \in {"map", "map+"}, d \in SampleDeps("service_healthy")}
HealthSamples   == {Raw(f, SampleCheck(d)) : f \in {"string", "CMD", "NONE"}, d \in BOOLEAN}
LoggingSamples  == {Raw("plain", [driver |-> d, options |-> "x"]) : d \in {"", "x"}}
BuildSamples    == {Raw("short", [context |-> ".", rest |-> ""])} \union
                     [form : {"long", "long+"}, val : [context : {"."}, rest : {"empty", "x"}]]

Samples(k) ==
  CASE k = "restart"       -> {Raw("string", "no"), Raw("string", "always")}
    [] k \in StrKeys \ {"restart"} -> {Raw("string", "x"), Raw("number", "x")}
    [] k \in FlagKeys      -> {Raw("true", TRUE), Raw("other", FALSE)}
    [] k = "scale"         -> {Raw("number", 2), Raw("string", 2)}
    [] k \in JoinKeys      -> {Raw("string", "x"), Raw("list", "x"), Raw("list", "spaced")}
    [] k \in ArrKeys       -> {Raw("list", <<"x">>), Raw("string", <<"x">>)}
    [] k = "ports"         -> PortSamples
    [] k = "environment"   -> VariableSamples
    [] k \in {"labels", "sysctls"} -> LabelSamples
    [] k = "volumes"       -> VolumeSamples
    [] k = "networks"      -> NetworkSamples
    [] k = "depends_on"    -> DependsSamples
    [] k = "healthcheck"   -> HealthSamples
    [] k = "deploy"        -> {Raw("plain", "x"), Raw("plain+", "x"), Raw("plain+", "")}
    [] k = "logging"       -> LoggingSamples
    [] k = "build"         -> BuildSamples
    [] k = "ulimits"       -> {Raw("number", [soft |-> 1, hard |-> 1]), Raw("pair", [soft |-> 1, hard |-> 2])}
    [] OTHER               -> {Raw("string", "x")}

TypedService(svc) ==
  {Null, EmptyMap} \union
    (IF svc = Null THEN {}
     ELSE (UNION {{Put(svc, k, raw) : raw \in Samples(k)} : k \in Keys}) \union {Drop(svc, k) : k \in DOMAIN svc})

TypeText(t) == Size(t) <= MaxEntries /\ composeContent' = t
TypedEntry ==
  LET t == composeContent
  IN  \/ \E s \in Names : \E svc \in TypedService(Get(t.services, s, EmptyMap)) :
           TypeText([t EXCEPT !.services = Put(@, s, svc)])
      \/ \E s \in DOMAIN t.services : TypeText([t EXCEPT !.services = Drop(@, s)])
      \/ \E c \in {"null", "empty", "set"} : \/ TypeText([t EXCEPT !.networks = Put(@, "front", c)])
                                           \/ TypeText([t EXCEPT !.volumes = Put(@, "data", c)])
      \/ TypeText([t EXCEPT !.rest = ~@])

\* A keystroke in the YAML editor.
TypeYaml ==
  /\ composeMode = "yaml"
  /\ composeContent' \in {Broken, EmptyText} \/ (composeContent # Broken /\ TypedEntry)
  /\ UNCHANGED <<visualModel, composeMode>>

-----------------------------------------------------------------------------
(***************************************************************************)
(* The switch.                                                             *)
(***************************************************************************)
\* NetworksSection reads the settings of a network that has none (null), and
\* nothing catches what it throws.
Throws(cf) ==
  \E s \in DOMAIN cf.services : "networks" \in DOMAIN cf.services[s] /\
    \E n \in DOMAIN cf.services[s].networks : cf.services[s].networks[n] = "null"

\* Mutant: the builder opens on the model of the last time it was open.
ShowVisual_Stale ==
  /\ visualModel' = visualModel
  /\ composeMode' = "visual"
  /\ UNCHANGED composeContent

ShowVisual ==
  LET parsed == parseCompose(composeContent)
  IN  /\ visualModel' = parsed
      /\ composeMode' = IF Throws(parsed) THEN "crashed" ELSE "visual"
      /\ UNCHANGED composeContent

\* "Visual" parses again on the page of a new project, even when it is shown.
VisualEditor == composeMode \in {"yaml", "visual"} /\ ShowVisual
VisualDetail == composeMode = "yaml" /\ ShowVisual

\* "YAML".  The model that is left behind is not read again; it is cleared here.
ShowYaml ==
  /\ composeMode = "visual"
  /\ composeContent' = serializeCompose(visualModel)
  /\ composeMode' = "yaml" /\ visualModel' = EmptyCf

\* onChange of the builder.
Build(cf) ==
  /\ composeMode = "visual" /\ Size(cf) <= MaxEntries
  /\ visualModel' = cf
  /\ composeContent' = serializeCompose(cf)
  /\ UNCHANGED composeMode

EditService(s) ==
  \E k \in Keys : \E v \in KeyEdits(visualModel, s, k) :
    Build(updateService(visualModel, s, SetKey(visualModel.services[s], k, v)))
NameService(s)    == \E n \in Names \ DOMAIN visualModel.services : Build(renameService(visualModel, s, n))
DeleteService(s) == Build(removeService(visualModel, s))
AddService ==
  /\ \E i \in DOMAIN ServiceNames : ServiceNames[i] \notin DOMAIN visualModel.services
  /\ Build(addService(visualModel))
EditNetworks == visualModel.services # EmptyMap /\ \E cf \in NetworksPanel(visualModel) : Build(cf)
EditVolumes  == visualModel.services # EmptyMap /\ \E cf \in VolumesPanel(visualModel) : Build(cf)

Reload == composeMode = "crashed" /\ composeContent' = EmptyText /\ visualModel' = EmptyCf /\ composeMode' = "yaml"

Next ==
  \/ TypeYaml \/ VisualEditor \/ VisualDetail \/ ShowYaml \/ Reload
  \/ \E s \in DOMAIN visualModel.services : EditService(s) \/ NameService(s) \/ DeleteService(s)
  \/ AddService \/ EditNetworks \/ EditVolumes

Spec == Init /\ [][Next]_vars

-----------------------------------------------------------------------------
(***************************************************************************)
(* The types of the variables.  The builder never holds a key, or a form,  *)
(* that it has no field for.                                               *)
(***************************************************************************)
Settings   == {"null", "empty", "set"}
ServiceIds == Names \union {"service", "service2"}
EditedKeys == Keys \union {"restart"}
Dep        == [service : ServiceIds, condition : Conditions]
Variables  == {"", "K"}
Networks   == {"front", "network", "network2"}
Volumes    == {"data", "~/data", "volume", "volume2"}

Once(deps) == \A i, j \in DOMAIN deps : deps[i].service = deps[j].service => i = j

IsRaw(k, r) ==
  CASE k \in StrKeys      -> r \in [form : {"string", "number"}, val : Words]
    [] k \in JoinKeys     -> r \in [form : {"string", "list"}, val : Words]
    [] k \in FlagKeys     -> r \in {Raw("true", TRUE), Raw("other", FALSE)}
    [] k = "scale"        -> r \in [form : {"number", "string"}, val : Int]
    [] k \in ArrKeys      -> r \in [form : {"list", "string"}, val : Seq(Items) \ {<<>>}]
    [] k = "ports"        -> /\ r \in [form : {"list"}, val : Seq([form : {"short", "long", "long+"}, val : Port])]
                             /\ \A i \in DOMAIN r.val : r.val[i].val.container # ""
    [] k \in KVKeys       -> \E S \in SUBSET Variables : r \in [form : {"map", "list"}, val : [S -> Values]]
    [] k = "volumes"      -> /\ r \in [form : {"list"}, val : Seq([form : {"short", "short+", "long"}, val : Mount])]
                             /\ \A i \in DOMAIN r.val :
                                  r.val[i].form = "short" /\ r.val[i].val.source = "" => ~r.val[i].val.readOnly
    [] k = "networks"     -> \E S \in SUBSET Networks : \/ r \in [form : {"list"}, val : [S -> {"empty"}]]
                                                      \/ r \in [form : {"map"}, val : [S -> Settings]]
    [] k = "depends_on"   -> /\ r \in [form : {"list", "map", "map+"}, val : Seq(Dep)]
                             /\ IF r.form = "list" THEN \A i \in DOMAIN r.val : r.val[i].condition = "service_started"
                                ELSE Once(r.val)
    [] k = "healthcheck"  -> r \in [form : {"string", "CMD", "NONE"}, val : Check]
    [] k = "deploy"       -> r \in [form : {"plain", "plain+"}, val : Texts] /\ (r.form = "plain" => r.val # "")
    [] k = "logging"      -> r \in [form : {"plain"}, val : Logging]
    [] k = "build"        -> /\ r \in [form : {"short", "long", "long+"}, val : Context]
                             /\ r.form = "short" => r.val.rest = ""
    [] k = "ulimits"      -> r \in [form : {"number", "pair"}, val : Limits]
    [] OTHER              -> r = Raw("string", "x")

IsModel(k, v) ==
  CASE k \in StrKeys \union JoinKeys -> v \in Words
    [] k \in FlagKeys     -> v \in {TRUE}
    [] k = "scale"        -> v \in Int
    [] k \in ArrKeys      -> v \in Seq(Items) \ {<<>>}
    [] k = "ports"        -> v \in Seq(Port) /\ \A i \in DOMAIN v : v[i].ip # "[::1]"
    [] k = "environment"  -> \E S \in SUBSET Variables : v \in [S -> Values \ {Unset}]
    [] k \in {"labels", "sysctls"} -> \E S \in SUBSET Variables : v \in [S -> Values]
    [] k = "volumes"      -> v \in Seq(Mount)
    [] k = "networks"     -> \E S \in SUBSET Networks : v \in [S -> Settings]
    [] k = "depends_on"   -> v \in Seq(Dep)
    [] k = "healthcheck"  -> v \in Check
    [] k = "deploy"       -> v \in Texts
    [] k = "logging"      -> v \in Logging
    [] k = "build"        -> v \in Context
    [] k = "ulimits"      -> v \in Limits
    [] OTHER              -> FALSE

IsFunction(f) == f = [x \in DOMAIN f |-> f[x]]
IsBody(svc)   == /\ IsFunction(svc) /\ DOMAIN svc \subseteq EditedKeys
                 /\ \A k \in DOMAIN svc : IsRaw(k, svc[k])
IsService(svc) == /\ IsFunction(svc) /\ DOMAIN svc \subseteq EditedKeys
                  /\ \A k \in DOMAIN svc : IsModel(k, svc[k])
IsTop(f, names) == \E S \in SUBSET names : f \in [S -> Settings]

IsText(t) ==
  /\ t = [services |-> t.services, networks |-> t.networks, volumes |-> t.volumes, rest |-> t.rest]
  /\ IsFunction(t.services) /\ DOMAIN t.services \subseteq ServiceIds
  /\ \A s \in DOMAIN t.services : t.services[s] = Null \/ IsBody(t.services[s])
  /\ IsTop(t.networks, Networks) /\ IsTop(t.volumes, Volumes) /\ t.rest \in BOOLEAN
IsFile(cf) ==
  /\ cf = [services |-> cf.services, networks |-> cf.networks, volumes |-> cf.volumes]
  /\ IsFunction(cf.services) /\ DOMAIN cf.services \subseteq ServiceIds
  /\ \A s \in DOMAIN cf.services : IsService(cf.services[s])
  /\ IsTop(cf.networks, Networks) /\ IsTop(cf.volumes, Volumes)

TypeOK ==
  /\ composeMode \in {"yaml", "visual", "crashed"}
  /\ composeContent = Broken \/ IsText(composeContent)
  /\ IsFile(visualModel)

\* Opening the builder on a file written in the forms it understands loses
\* nothing: what it would write back means the same to docker compose.
RoundTrip ==
  composeMode = "visual" /\ Supported(composeContent)
    => Meaning(serializeCompose(visualModel)) = Meaning(composeContent)

\* Rows that are complete: a port has a container port, read-only has a source,
\* a disabled healthcheck has no test, a service is waited for once.
CompleteKey(k, v) ==
  CASE k = "ports"       -> \A i \in DOMAIN v : v[i].container # ""
    [] k = "volumes"     -> \A i \in DOMAIN v : v[i].readOnly => v[i].source # ""
    [] k = "healthcheck" -> ~v.disable
    [] k = "depends_on"  -> Once(v)
    [] OTHER             -> TRUE
Complete(cf) ==
  \A s \in DOMAIN cf.services : \A k \in DOMAIN cf.services[s] : CompleteKey(k, cf.services[s][k])

\* What the fields show; an empty one and a missing one look the same.
PortShown(p) == [p EXCEPT !.protocol = IF @ = "" THEN "tcp" ELSE @]
HealthShown(h)  == IF h.test = "" /\ h.opts = "" /\ ~h.disable THEN Absent ELSE h
LoggingShown(l) == IF l.driver = "" THEN Absent ELSE l
Field(k, v) ==
  CASE k = "restart"     -> OrAbsent(v, "no")
    [] k = "deploy"      -> OrAbsent(v, "")
    [] k = "healthcheck" -> HealthShown(v)
    [] k = "ports"       -> MapSeq(PortShown, v)
    [] k = "logging"     -> LoggingShown(v)
    [] k = "build"       -> BuildMeans(v)
    [] OTHER             -> v
Shown(cf) == [cf EXCEPT !.services = [s \in DOMAIN @ |-> Kept(Field, @[s])]]

\* What the builder shows is what Save sends and what the page shows when it is
\* opened again, as long as the rows are complete.
VisualIsSaved ==
  composeMode = "visual" /\ Complete(visualModel)
    => Shown(parseCompose(composeContent)) = Shown(visualModel)

\* depends_on stays sound under the builder: only removing a service leaves a
\* reference to a service that is not there, or makes one service wait for
\* another twice.
DepsOf(svc)   == Get(svc, "depends_on", <<>>)
DepsSound(cf) ==
  \A s \in DOMAIN cf.services : LET d == DepsOf(cf.services[s]) IN
    /\ \A i \in DOMAIN d : d[i].service \in DOMAIN cf.services \ {s}
    /\ \A i, j \in DOMAIN d : d[i].service = d[j].service => i = j
DepsFollow ==
  composeMode = "visual" /\ composeMode' = "visual" /\ DepsSound(visualModel)
    => DepsSound(visualModel') \/ \E s \in DOMAIN visualModel.services : DeleteService(s)

\* Volumes follow the services: after an edit of a service every volume that is
\* mounted is declared, and settings of a volume are lost to no edit of a service.
Built == composeMode = "visual" /\ composeMode' = "visual" /\ composeContent' # composeContent
VolumesFollow ==
  Built /\ visualModel'.services # visualModel.services
    => /\ \A v \in DOMAIN visualModel.volumes : visualModel.volumes[v] = "set" =>
            v \in DOMAIN visualModel'.volumes /\ visualModel'.volumes[v] = "set"
       /\ DOMAIN visualModel'.services = DOMAIN visualModel.services =>
            getUsedVolumes(visualModel'.services) \subseteq DOMAIN visualModel'.volumes

\* What services refer to follows every edit of the services.
ServicesFollow == DepsFollow /\ VolumesFollow

\* The builder holds only what it has a name for, and loses nothing it understands.
BuilderSound == TypeOK /\ RoundTrip

=============================================================================
