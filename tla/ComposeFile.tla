---------------------------- MODULE ComposeFile ----------------------------
(***************************************************************************)
(* A compose file as the web application reads and writes it: parseCompose *)
(* turns YAML into the model of the visual builder, serializeCompose turns *)
(* that model back into YAML.                                              *)
(*                                                                         *)
(* A value of the YAML is a pair: what it means to docker compose, and the *)
(* form it is written in, of which compose allows several and the parser   *)
(* knows some.  A form that ends in "+" carries settings the builder has   *)
(* no field for.  The model's values are bare.  An absent string is "".    *)
(***************************************************************************)
EXTENDS Integers, Sequences

CONSTANT Absent \* a key that is not there

\* Text that is not YAML, or not a mapping; and a service without a body.
Broken == [rest |-> TRUE]
Null   == [null |-> TRUE]

Raw(form, val) == [form |-> form, val |-> val]

StrKeys  == {"image", "container_name", "hostname", "restart", "user", "working_dir", "pid",
             "ipc", "shm_size", "stop_signal", "stop_grace_period"}
JoinKeys == {"command", "entrypoint"}
FlagKeys == {"privileged", "read_only", "tty", "stdin_open", "init"}
ArrKeys  == {"expose", "extra_hosts", "cap_add", "cap_drop", "env_file", "profiles", "tmpfs",
             "dns", "dns_search", "security_opt", "devices"}
KVKeys   == {"environment", "labels", "sysctls"}

\* Unset is a variable without a value: compose takes it from its own environment.
Unset == "<unset>"

\* What the values are made of, as far as it is told apart.
Words  == {"x", "no", "always", "unless-stopped", "spaced", "split"}
Items  == {"", "x", "3000"}
Values == {"", "v", Unset}
Texts  == {"", "x"}
Port   == [ip : {"", "0.0.0.0", "127.0.0.1", "[::1]", "["}, host : {"", "8080"},
           container : {"", "8080", "1]", "undefined"}, protocol : {"", "tcp", "udp"}]
Mount  == [source : {"", "/srv", "data", "~/data"}, target : {"/data"}, readOnly : BOOLEAN]
Check  == [test : Texts, opts : Texts, disable : BOOLEAN]
Logging == [driver : Texts, options : {"x"}]
Context == [context : {"."}, rest : {"", "empty", "x"}]
Limits == [soft : Int, hard : Int]

-----------------------------------------------------------------------------
(***************************************************************************)
(* YAML to model, one operator per kind of key.                            *)
(***************************************************************************)
MapSeq(f(_), s) == [i \in DOMAIN s |-> f(s[i])]

\* Strings, numbers and flags are taken in one form only: a number where a
\* string is expected (user: 1000) is dropped.
ParseScalar(k, raw) ==
  LET accepted == CASE k = "scale"      -> "number"
                    [] k \in FlagKeys   -> "true"
                    [] OTHER            -> "string"
  IN  IF raw.form = accepted THEN raw.val ELSE Absent

\* A list of arguments is joined with blanks: one that held a blank comes apart.
ParseJoin(raw) == IF raw.form = "list" /\ raw.val = "spaced" THEN "split" ELSE raw.val

StrArr(raw) == IF raw.form = "list" THEN raw.val ELSE Absent

\* An IPv6 address has colons of its own, which are taken for separators.
parsePortSpec(p) ==
  IF p.ip = "[::1]" THEN [ip |-> "[", host |-> "", container |-> "1]", protocol |-> p.protocol] ELSE p
ParsePort(raw) == IF raw.form = "short" THEN parsePortSpec(raw.val) ELSE [raw.val EXCEPT !.ip = ""]
ParsePorts(raw) == MapSeq(ParsePort, raw.val)

ParseEnvironment(raw) == [n \in DOMAIN raw.val |-> IF raw.val[n] = Unset THEN "" ELSE raw.val[n]]
ParseLabels(raw)      == raw.val
ParseSysctls(raw)     == raw.val

\* Of the options only "ro" is kept; the long form says read_only, not readOnly.
parseVolumeMount(raw) ==
  IF raw.form = "short" THEN raw.val ELSE [raw.val EXCEPT !.readOnly = FALSE]
ParseVolumes(raw) == MapSeq(parseVolumeMount, raw.val)

ParseNetworks(raw) == IF raw.form = "list" THEN [n \in DOMAIN raw.val |-> "empty"] ELSE raw.val

ParseDependsOn(raw) == raw.val

\* The first word of a list (CMD, CMD-SHELL, NONE) is cut off.
ParseHealthcheck(raw) == IF raw.form = "NONE" THEN [raw.val EXCEPT !.test = ""] ELSE raw.val

\* Nothing of deploy but the limits.
ParseDeploy(raw) == IF raw.val = "" THEN Absent ELSE raw.val

ParseLogging(raw) == raw.val
ParseBuild(raw)   == raw.val
ParseUlimits(raw) == raw.val

ParseKey(k, raw) ==
  CASE k \in StrKeys \union FlagKeys \union {"scale"} -> ParseScalar(k, raw)
    [] k \in JoinKeys      -> ParseJoin(raw)
    [] k \in ArrKeys       -> StrArr(raw)
    [] k = "ports"         -> ParsePorts(raw)
    [] k = "environment"   -> ParseEnvironment(raw)
    [] k = "labels"        -> ParseLabels(raw)
    [] k = "sysctls"       -> ParseSysctls(raw)
    [] k = "volumes"       -> ParseVolumes(raw)
    [] k = "networks"      -> ParseNetworks(raw)
    [] k = "depends_on"    -> ParseDependsOn(raw)
    [] k = "healthcheck"   -> ParseHealthcheck(raw)
    [] k = "deploy"        -> ParseDeploy(raw)
    [] k = "logging"       -> ParseLogging(raw)
    [] k = "build"         -> ParseBuild(raw)
    [] k = "ulimits"       -> ParseUlimits(raw)
    [] OTHER               -> Absent

\* The keys of f that F maps to something.
Kept(F(_, _), f) == [k \in {j \in DOMAIN f : F(j, f[j]) # Absent} |-> F(k, f[k])]

EmptyMap == [n \in {} |-> Absent]
EmptyCf  == [services |-> EmptyMap, networks |-> EmptyMap, volumes |-> EmptyMap]

\* The whole file.  Text that does not load is an empty model; a service without
\* a body, and a top-level key the builder does not know, are left out.
parseService(raw) == Kept(ParseKey, raw)
parseCompose(text) ==
  IF text = Broken THEN EmptyCf
  ELSE [services |-> [s \in {j \in DOMAIN text.services : text.services[j] # Null} |->
                        parseService(text.services[s])],
        networks |-> text.networks, volumes |-> text.volumes]

-----------------------------------------------------------------------------
(***************************************************************************)
(* Model to YAML.                                                          *)
(***************************************************************************)
portSpecToString(p) ==
  Raw("short", [p EXCEPT !.protocol = IF @ = "tcp" THEN "" ELSE @,
                         !.container = IF @ = "" THEN "undefined" ELSE @])
volumeMountToString(v) ==
  Raw("short", IF v.source = "" THEN [v EXCEPT !.readOnly = FALSE] ELSE v)

\* Mutant: numbers are not written.
SerializeScalar_NoNumbers(k, v) ==
  CASE k = "scale"                   -> Absent
    [] k \in FlagKeys                -> Raw("true", v)
    [] k = "restart" /\ v = "no"     -> Absent
    [] OTHER                         -> Raw("string", v)

SerializeScalar(k, v) ==
  CASE k = "scale"                   -> Raw("number", v)
    [] k \in FlagKeys                -> Raw("true", v)
    [] k = "restart" /\ v = "no"     -> Absent
    [] OTHER                         -> Raw("string", v)

SerializeBuild(b) ==
  IF b.rest = "" THEN Raw("short", b)
  ELSE Raw("long", [b EXCEPT !.rest = IF @ = "empty" THEN "" ELSE @])

\* The object that deps are written to one after the other: a service is where it
\* came first, with the condition that came last.
Firsts(deps)    == {i \in DOMAIN deps : \A j \in DOMAIN deps : j < i => deps[j].service # deps[i].service}
LastOf(deps, i) == CHOOSE j \in DOMAIN deps :
                     /\ deps[j].service = deps[i].service
                     /\ \A m \in DOMAIN deps : m > j => deps[m].service # deps[i].service
Places(deps) ==
  CHOOSE p \in UNION {[1 .. n -> Firsts(deps)] : n \in 0 .. Len(deps)} :
    /\ \A i, j \in DOMAIN p : i < j => p[i] < p[j]
    /\ \A k \in Firsts(deps) : \E i \in DOMAIN p : p[i] = k
ToObject(deps) == [i \in DOMAIN Places(deps) |-> deps[LastOf(deps, Places(deps)[i])]]

\* A plain list when every condition is the default one.
SerializeDependsOn(deps) ==
  IF \A i \in DOMAIN deps : deps[i].condition = "service_started" THEN Raw("list", deps)
  ELSE Raw("map", ToObject(deps))

SerializeHealthcheck(h) ==
  IF h.disable THEN Raw("string", [test |-> "", opts |-> "", disable |-> TRUE])
  ELSE IF h.test = "" /\ h.opts = "" THEN Absent ELSE Raw("string", h)

SerializeDeploy(l)  == IF l = "" THEN Absent ELSE Raw("plain", l)
SerializeLogging(l) == IF l.driver = "" THEN Absent ELSE Raw("plain", l)
SerializeUlimits(u) == IF u.soft = u.hard THEN Raw("number", u) ELSE Raw("pair", u)

SerializeKey(k, v) ==
  CASE k \in ArrKeys       -> IF v = <<>> THEN Absent ELSE Raw("list", v)
    [] k \in KVKeys        -> Raw("map", v)
    [] k = "ports"         -> Raw("list", MapSeq(portSpecToString, v))
    [] k = "volumes"       -> Raw("list", MapSeq(volumeMountToString, v))
    [] k = "networks"      -> Raw("map", v)
    [] k = "depends_on"    -> SerializeDependsOn(v)
    [] k = "healthcheck"   -> SerializeHealthcheck(v)
    [] k = "deploy"        -> SerializeDeploy(v)
    [] k = "logging"       -> SerializeLogging(v)
    [] k = "build"         -> SerializeBuild(v)
    [] k = "ulimits"       -> SerializeUlimits(v)
    [] OTHER               -> SerializeScalar(k, v)

serializeService(svc) == Kept(SerializeKey, svc)
serializeCompose(cf) ==
  [services |-> [s \in DOMAIN cf.services |-> serializeService(cf.services[s])],
   networks |-> cf.networks, volumes |-> cf.volumes, rest |-> FALSE]

-----------------------------------------------------------------------------
(***************************************************************************)
(* What a file means to docker compose, whatever the form.                 *)
(***************************************************************************)
PortMeans(raw) == [raw.val EXCEPT !.protocol = IF @ = "tcp" THEN "" ELSE @]
HealthMeans(raw) ==
  IF raw.val.disable \/ raw.form = "NONE" THEN <<"disabled">>
  ELSE IF raw.val.test = "" /\ raw.val.opts = "" THEN Absent ELSE <<raw.val, raw.form>>
BuildMeans(b) == [b EXCEPT !.rest = IF @ = "empty" THEN "" ELSE @]

Means(k, raw) ==
  CASE k = "restart" /\ raw.val = "no" -> Absent
    [] k \in FlagKeys /\ raw.val = FALSE -> Absent
    [] k = "ports"       -> MapSeq(PortMeans, raw.val)
    [] k = "volumes"     -> MapSeq(LAMBDA m : m.val, raw.val)
    [] k = "networks"    -> [n \in DOMAIN raw.val |-> IF raw.val[n] = "set" THEN "set" ELSE "empty"]
    [] k = "depends_on"  -> {raw.val[i] : i \in DOMAIN raw.val}
    [] k = "healthcheck" -> HealthMeans(raw)
    [] k = "build"       -> BuildMeans(raw.val)
    [] OTHER             -> raw.val

Meaning(text) ==
  [services |-> [s \in DOMAIN text.services |->
                   IF text.services[s] = Null THEN EmptyMap ELSE Kept(Means, text.services[s])],
   networks |-> text.networks, volumes |-> text.volumes, rest |-> text.rest]

\* The forms the builder understands.
SupportedKey(k, raw) ==
  CASE k \in StrKeys \union FlagKeys \union {"scale"} ->
                              ParseScalar(k, raw) # Absent \/ (k \in FlagKeys /\ raw.val = FALSE)
    [] k \in JoinKeys      -> raw.val # "spaced"
    [] k \in ArrKeys       -> raw.form = "list"
    [] k = "ports"         -> \A i \in DOMAIN raw.val :
                                IF raw.val[i].form = "short" THEN raw.val[i].val.ip # "[::1]"
                                ELSE raw.val[i].form = "long" /\ raw.val[i].val.ip = ""
    [] k \in KVKeys        -> \A n \in DOMAIN raw.val : raw.val[n] # Unset
    [] k = "volumes"       -> \A i \in DOMAIN raw.val :
                                \/ raw.val[i].form = "short"
                                \/ raw.val[i].form = "long" /\ ~raw.val[i].val.readOnly
    [] k = "networks"      -> TRUE
    [] k = "depends_on"    -> raw.form # "map+"
    [] k = "healthcheck"   -> raw.form = "string"
    [] k = "deploy"        -> raw.form = "plain"
    [] k = "logging"       -> raw.val.driver # ""
    [] k = "build"         -> raw.form # "long+"
    [] k = "ulimits"       -> TRUE
    [] OTHER               -> FALSE

Supported(text) ==
  /\ text # Broken /\ ~text.rest
  /\ \A s \in DOMAIN text.services :
       /\ text.services[s] # Null
       /\ \A k \in DOMAIN text.services[s] : SupportedKey(k, text.services[s][k])

=============================================================================
