------------------------------- MODULE Daemon -------------------------------
(***************************************************************************)
(* The program as a whole (src/src/main.rs): command line, configuration    *)
(* file (Config), the choice of a backend and, for Docker, of the endpoint  *)
(* (src/src/docker_backend.rs, resolve_docker_connection), then the ticks   *)
(* of Scheduler.  The service is started at boot, with no order between it  *)
(* and the Docker daemons, and again whenever it has ended.                 *)
(*                                                                         *)
(* The settings are constants of Scheduler: of all files a daemon may load, *)
(* its ticks are modelled for those that agree with these constants.        *)
(***************************************************************************)
EXTENDS Scheduler, Config

CONSTANTS
  Lower,            \* str::to_ascii_lowercase on Text
  Endpoints,        \* Docker hosts, by their canonical socket
  DesktopEndpoints, \* those whose socket is /.docker/desktop/docker.sock
  SocketPaths,      \* where a socket is looked for
  Boots,            \* what the process may find as it starts: the options of
                    \* its command line, the lines of the file (None if it
                    \* cannot be read), the socket at each path
  Edits             \* files that may be there instead when it starts again

(* Options of the command line with what follows them, a text or, where one *)
(* is expected, a number; and lines of the file.                            *)
Option == [option : STRING, text : Text \cup {None}, number : Nat \cup {None}]

Key == Seq(STRING)
Scalar ==
  [type : {"Bool"}, value : BOOLEAN] \cup [type : {"Integer"}, value : Int]
  \cup [type : {"String"}, value : Text]
Literal == Scalar \cup [type : {"Array"}, value : Seq(Scalar)]
Line ==
  [type : {"blank", "malformed"}] \cup [type : {"header"}, parts : Key]
  \cup [type : {"assignment"}, key : Key, value : Literal]

ASSUME DaemonAssumption ==
  /\ Lower \in [Text -> Text]
  /\ None \notin Endpoints
  /\ DesktopEndpoints \subseteq Endpoints
  /\ \A boot \in Boots :
       /\ boot.options \in Seq(Option)
       /\ boot.file = None \/ boot.file \in Seq(Line)
       /\ boot.sockets \in [SocketPaths -> Endpoints \cup {None}]
  /\ \A edit \in Edits : edit = None \/ edit \in Seq(Line)

VARIABLES
  stage,       \* where run() is, or how it has ended
  options,     \* the options on the command line
  file,        \* the file at the path of the configuration
  line,        \* lines read
  section,     \* current_section
  entries,     \* keys read and their values
  settings,    \* Config
  backend,     \* name of the backend, normalised
  sockets,     \* what is found at each path
  todo,        \* endpoints not yet probed
  reachable,   \* endpoints that answered
  connection   \* endpoint of all docker commands; none: docker's own default

(* The Docker daemons: what docker version answers; and two histories of    *)
(* the time in which the endpoint is resolved: which endpoints were up all  *)
(* along, and which at some time.                                           *)
VARIABLES answers, steady, seen

loadVars == <<options, file, line, section, entries, settings, backend>>
dockerVars == <<answers, steady, seen>>
endpointVars == <<sockets, todo, reachable, connection, dockerVars>>
daemonVars == <<stage, loadVars, endpointVars>>

Answers == {"error", "blank", "version"}
Up == {h \in Endpoints : answers[h] = "version"}

NoConnection == [host |-> None, context |-> None]

DaemonInit ==
  /\ Init
  /\ stage = "arguments"
  /\ line = 0 /\ section = <<>> /\ entries = <<>>
  /\ settings = Default /\ backend = None
  /\ todo = {} /\ reachable = {} /\ connection = NoConnection
  /\ steady = {} /\ seen = {}
  /\ \E boot \in Boots :
       /\ options = boot.options /\ file = boot.file /\ sockets = boot.sockets
  /\ answers = [h \in Endpoints |-> "error"]

-----------------------------------------------------------------------------
(* The command line. *)
Refused(arg) ==
  \/ arg.option \notin {"--config", "--backend", "--once", "--ticks", "--help"}
  \/ arg.option \in {"--config", "--backend"} /\ arg.text = None
  \/ arg.option = "--config" /\ Trim[arg.text] = Blank
  \/ arg.option = "--ticks" /\ arg.number \in {None, 0}

Ends(arg) == arg.option = "--help" \/ Refused(arg)

Used(option) == {i \in DOMAIN options : options[i].option = option}
LastOf(option) ==
  options[CHOOSE i \in Used(option) : \A j \in Used(option) : j <= i]

OnceAndTicks == Used("--once") # {} /\ Used("--ticks") # {}

(* parse_args; -h ends the program before what follows it is looked at.     *)
ParseArgs ==
  /\ stage = "arguments"
  /\ LET ends == {i \in DOMAIN options : Ends(options[i])} IN
       stage' = IF ends # {}
                THEN LET first == CHOOSE i \in ends : \A j \in ends : i <= j
                     IN  IF Refused(options[first]) THEN "failed" ELSE "done"
                ELSE IF OnceAndTicks THEN "failed" ELSE "file"
  /\ UNCHANGED <<vars, loadVars, endpointVars>>

RequestedTicks ==
  IF Used("--once") # {} THEN 1
  ELSE IF Used("--ticks") # {} THEN LastOf("--ticks").number ELSE None

-----------------------------------------------------------------------------
(* The file. *)
Fail == stage' = "failed" /\ UNCHANGED <<vars, loadVars, endpointVars>>

OpenFails == stage = "file" /\ file = None /\ Fail

Reading == stage = "file" /\ file # None

FullKey(key) == section \o key

(* parse_toml_subset, by the line: blank lines and comments, headers,       *)
(* assignments; anything else, and a key that is there already, is an error.*)
ReadLine ==
  /\ Reading /\ line < Len(file)
  /\ LET next == file[line + 1] IN
       \/ /\ next.type = "blank"
          /\ UNCHANGED <<section, entries>>
       \/ /\ next.type = "header"
          /\ section' = next.parts
          /\ UNCHANGED entries
       \/ /\ next.type = "assignment" /\ FullKey(next.key) \notin DOMAIN entries
          /\ entries' = [k \in DOMAIN entries \cup {FullKey(next.key)} |->
                           IF k \in DOMAIN entries THEN entries[k]
                           ELSE next.value]
          /\ UNCHANGED section
  /\ line' = line + 1
  /\ UNCHANGED <<vars, stage, options, file, settings, backend, endpointVars>>

LineFails ==
  /\ Reading /\ line < Len(file)
  /\ LET next == file[line + 1] IN
       \/ next.type = "malformed"
       \/ next.type = "assignment" /\ FullKey(next.key) \in DOMAIN entries
  /\ Fail

EndFile ==
  /\ Reading /\ line = Len(file) /\ Loads(entries)
  /\ settings' = Settings(entries)
  /\ stage' = "backend"
  /\ UNCHANGED <<vars, options, file, line, section, entries, backend,
                 endpointVars>>

FileRejected == Reading /\ line = Len(file) /\ ~Loads(entries) /\ Fail

-----------------------------------------------------------------------------
(* The backend. *)
Normalized(name) == Lower[Trim[name]]
Supported(name) == Normalized(name) \in {"docker", "podman"}
Members(list) == {list[i] : i \in DOMAIN list}
EnabledBackends == Members(settings.enabled_backends)

(* select_backend_name: the override, which one of the enabled backends has *)
(* to spell without blanks, or the first of them if all are known.          *)
Selected ==
  IF Used("--backend") # {}
  THEN LET name == LastOf("--backend").text IN
       IF Supported(name) /\ \E e \in EnabledBackends : Lower[e] = Normalized(name)
       THEN Normalized(name) ELSE None
  ELSE IF \A e \in EnabledBackends : Supported(e)
  THEN Normalized(settings.enabled_backends[1]) ELSE None

SelectBackend ==
  /\ stage = "backend"
  /\ IF settings.enabled_backends # <<>> /\ Selected # None
     THEN /\ backend' = Selected
          /\ stage' = IF Selected = "docker" THEN "endpoint" ELSE "ready"
     ELSE stage' = "failed" /\ UNCHANGED backend
  /\ UNCHANGED <<vars, options, file, line, section, entries, settings,
                 endpointVars>>

-----------------------------------------------------------------------------
(* The Docker endpoint. *)
NormalizeNonEmpty(text) ==
  IF text = None THEN None ELSE IF Trim[text] = Blank THEN None ELSE Trim[text]

Configured == [host    |-> NormalizeNonEmpty(settings.docker_host),
               context |-> NormalizeNonEmpty(settings.docker_context)]

(* discover_auto_detect_candidate_hosts: paths to one socket are one host.  *)
CandidateHosts == {sockets[p] : p \in SocketPaths} \ {None}

ResolveConnection ==
  /\ stage = "endpoint"
  /\ IF Configured # NoConnection
     THEN /\ connection' = Configured /\ stage' = "ready"
          /\ UNCHANGED <<todo, steady, seen>>
     ELSE /\ todo' = CandidateHosts /\ stage' = "probing"
          /\ steady' = Up /\ seen' = Up
          /\ UNCHANGED connection
  /\ UNCHANGED <<vars, loadVars, sockets, reachable, answers>>

Answered(h) == answers[h] = "version"

Probe(h) ==
  /\ stage = "probing" /\ h \in todo
  /\ todo' = todo \ {h}
  /\ reachable' = IF Answered(h) THEN reachable \cup {h} ELSE reachable
  /\ UNCHANGED <<vars, stage, loadVars, sockets, connection, dockerVars>>

(* Mutated form of Unambiguous: the first one that answers is taken.        *)
AnyReachable(hosts) == hosts

(* select_reachable_auto_detected_host: Desktop endpoints come first; of    *)
(* the hosts in question there must be one.                                 *)
Unambiguous(hosts) == {h \in hosts : hosts = {h}}

Contenders ==
  IF reachable \cap DesktopEndpoints # {}
  THEN reachable \cap DesktopEndpoints ELSE reachable

SelectHost ==
  /\ stage = "probing" /\ todo = {}
  /\ \/ /\ reachable = {}
        /\ stage' = "ready" /\ UNCHANGED connection
     \/ \E h \in Unambiguous(Contenders) :
          /\ connection' = [host |-> h, context |-> None]
          /\ stage' = "ready"
     \/ /\ reachable # {} /\ Unambiguous(Contenders) = {}
        /\ stage' = "ambiguous" /\ UNCHANGED connection
  /\ UNCHANGED <<vars, loadVars, sockets, todo, reachable, dockerVars>>

(* Docker daemons start and stop (external); prune-guard looks at them, and *)
(* the histories go on, while it probes.                                    *)
DockerStep ==
  /\ stage \in {"endpoint", "probing"}
  /\ \E h \in CandidateHosts, answer \in Answers :
       /\ answer # answers[h]
       /\ answers' = [answers EXCEPT ![h] = answer]
       /\ IF stage = "endpoint"
          THEN UNCHANGED <<steady, seen>>
          ELSE /\ steady' = IF answer = "version" THEN steady ELSE steady \ {h}
               /\ seen' = IF answer = "version" THEN seen \cup {h} ELSE seen
  /\ UNCHANGED <<vars, stage, loadVars, sockets, todo, reachable, connection>>

-----------------------------------------------------------------------------
(* The ticks, of a daemon with the settings of the constants.               *)
BackendKind == [docker |-> "Docker", podman |-> "Podman"]

Represented ==
  /\ settings.high_watermark_percent = HighWatermark
  /\ settings.target_watermark_percent = TargetWatermark
  /\ settings.min_unused_age_days = MinUnusedAgeDays
  /\ settings.max_delete_per_run_gb = MaxDeletePerRunGb
  /\ settings.dry_run = DryRun
  /\ Members(settings.protected_images) = ProtectedImages
  /\ Members(settings.protected_volumes) = ProtectedVolumes
  /\ Members(settings.protected_labels) = ProtectedLabels
  /\ BackendKind[backend] = RequestBackend
  /\ RequestedTicks = TickLimit

StartTicks ==
  /\ stage = "ready" /\ Represented
  /\ stage' = "ticks"
  /\ UNCHANGED <<vars, loadVars, endpointVars>>

Ticks == stage = "ticks" /\ Next /\ UNCHANGED daemonVars

(* A daemon with other settings goes on in the same way. *)
RunsElsewhere ==
  stage = "ready" /\ ~Represented /\ UNCHANGED <<vars, daemonVars>>

(* The process ends, or is killed wherever it is, and is started again      *)
(* (Restart=always of the unit file); it keeps nothing, and finds the file  *)
(* as it was or edited in the meantime.                                     *)
Restart ==
  /\ pc' = "health" /\ report' = NewReport /\ usage' = None
  /\ pending' = <<>> /\ plan' = InitialPlan /\ queue' = <<>>
  /\ ticks' = 0 /\ issued' = 0 /\ unknowns' = 0
  /\ vetted' = FALSE /\ trouble' = FALSE /\ stale' = FALSE
  /\ stage' = "arguments"
  /\ line' = 0 /\ section' = <<>> /\ entries' = <<>>
  /\ settings' = Default /\ backend' = None
  /\ todo' = {} /\ reachable' = {} /\ connection' = NoConnection
  /\ steady' = {} /\ seen' = {}
  /\ file' \in {file} \cup Edits
  /\ UNCHANGED <<options, sockets, answers>>

DaemonNext ==
  \/ ParseArgs \/ OpenFails \/ ReadLine \/ LineFails \/ EndFile \/ FileRejected
  \/ SelectBackend \/ ResolveConnection \/ SelectHost
  \/ \E h \in Endpoints : Probe(h)
  \/ DockerStep \/ StartTicks \/ Ticks \/ RunsElsewhere \/ Restart

DaemonSpec == DaemonInit /\ [][DaemonNext]_<<vars, daemonVars>>

-----------------------------------------------------------------------------
Loaded ==
  stage \in {"backend", "endpoint", "probing", "ambiguous", "ready", "ticks"}

(* The section that line i of the file is in, and the setting that a key    *)
(* names by its last part (in the section docker, with a prefix).           *)
InSection(i, s) ==
  \/ s = <<>> /\ \A j \in 1 .. i - 1 : file[j].type # "header"
  \/ \E j \in 1 .. i - 1 :
       /\ file[j].type = "header" /\ file[j].parts = s
       /\ \A k \in j + 1 .. i - 1 : file[k].type # "header"

Setting(key) ==
  IF key = In("docker", "host") THEN "docker_host"
  ELSE IF key = In("docker", "context") THEN "docker_context"
  ELSE key[Len(key)]

Sections == {<<>>} \cup {file[j].parts : j \in {k \in DOMAIN file :
                                                  file[k].type = "header"}}

(* What an accepted file says is what the daemon does: every assignment in  *)
(* it is in force for the setting it names, whatever its section and the    *)
(* other lines, and a setting that differs from its default has been given  *)
(* in the file ("unsupported keys are rejected", config.rs, and is_known_key*)
(* and the aliases of from_entries are lists apart).                        *)
SettingsTakeEffect ==
  Loaded =>
    /\ \A i \in DOMAIN file, s \in Sections :
         file[i].type = "assignment" /\ InSection(i, s) =>
           settings[Setting(s \o file[i].key)] = Plain(file[i].value)
    /\ \A f \in Fields : settings[f] # Default[f] =>
         \E i \in DOMAIN file, s \in Sections :
           /\ file[i].type = "assignment" /\ InSection(i, s)
           /\ Setting(s \o file[i].key) = f

(* What a tick is started with is what the theorems about Scheduler assume: *)
(* Config::validate and parse_args leave no other values.                   *)
AssumptionsMet ==
  stage = "ready" =>
    /\ settings.target_watermark_percent < settings.high_watermark_percent
    /\ settings.high_watermark_percent <= 100
    /\ RequestedTicks \in Nat \ {0} \/ RequestedTicks = None

(* All docker commands go to the configured endpoint, or to one that        *)
(* answered and that no candidate which could be reached all the time of    *)
(* the probing rivals: no other Desktop endpoint and, unless it is one      *)
(* itself, no endpoint at all.  They are left to docker's own default only  *)
(* if no candidate could be reached all that time, and the start fails as   *)
(* ambiguous only if two of a class were up in it.                          *)
EndpointJustified ==
  /\ stage \in {"ready", "ticks"} /\ backend = "docker" =>
       IF Configured # NoConnection
       THEN connection = Configured
       ELSE IF connection = NoConnection
       THEN steady \cap CandidateHosts = {}
       ELSE LET rivals == IF connection.host \in DesktopEndpoints
                          THEN DesktopEndpoints ELSE Endpoints
            IN  /\ connection.host \in seen \cap CandidateHosts
                /\ steady \cap CandidateHosts \cap rivals
                     \subseteq {connection.host}
  /\ stage = "ambiguous" =>
       \E g, h \in seen \cap CandidateHosts :
         g # h /\ (g \in DesktopEndpoints <=> h \in DesktopEndpoints)
=============================================================================
