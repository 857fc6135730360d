---------------------------- MODULE DaemonProofs ----------------------------
(***************************************************************************)
(* Proofs about Daemon, for every command line, every file and every number *)
(* of Docker endpoints that come and go: a file means what it says, the     *)
(* ticks get values that the theorems about Scheduler assume, the endpoint  *)
(* is justified by what could be reached, and the invariants of the ticks   *)
(* hold although the process may be killed and started again anywhere.      *)
(***************************************************************************)
EXTENDS Daemon, SchedulerProofs, WellFoundedInduction

-----------------------------------------------------------------------------
(* What holds of the endpoint while and after it is resolved.  An endpoint  *)
(* that is up all the time is still to be probed or has answered.           *)
Probing ==
  /\ Configured = NoConnection /\ connection = NoConnection
  /\ todo \subseteq CandidateHosts
  /\ Up \cap CandidateHosts \subseteq seen
  /\ steady \subseteq Up
  /\ reachable \subseteq seen \cap CandidateHosts
  /\ steady \cap CandidateHosts \subseteq todo \cup reachable

Unresolved ==
  stage \in {"arguments", "file", "backend", "endpoint"} =>
    connection = NoConnection /\ reachable = {}

EInv ==
  /\ sockets \in [SocketPaths -> Endpoints \cup {None}]
  /\ answers \in [Endpoints -> Answers]
  /\ Unresolved
  /\ stage = "probing" => Probing
  /\ EndpointJustified

LEMMA CandidatesAreEndpoints ==
  sockets \in [SocketPaths -> Endpoints \cup {None}] =>
    CandidateHosts \subseteq Endpoints
BY DEF CandidateHosts

LEMMA InitEInv == DaemonInit => EInv
<1> SUFFICES ASSUME DaemonInit PROVE EInv
  OBVIOUS
<1>1. sockets \in [SocketPaths -> Endpoints \cup {None}]
  BY DaemonAssumption DEF DaemonInit, DaemonAssumption
<1>2. answers \in [Endpoints -> Answers]
  BY DEF DaemonInit, Answers
<1>3. Unresolved BY DEF DaemonInit, Unresolved
<1>4. EndpointJustified BY DEF DaemonInit, EndpointJustified
<1> QED BY <1>1, <1>2, <1>3, <1>4 DEF EInv, DaemonInit

(* A step that leaves the endpoint alone and does not come to it.           *)
LEMMA ElsewhereEInv ==
  ASSUME EInv, UNCHANGED endpointVars,
         stage' \in {"file", "backend", "failed", "done"},
         stage \in {"arguments", "file", "backend"}
  PROVE  EInv'
<1>1. Unresolved' BY DEF EInv, Unresolved, endpointVars
<1>2. EndpointJustified' BY DEF EndpointJustified
<1> QED BY <1>1, <1>2 DEF EInv, endpointVars, dockerVars

LEMMA SelectBackendEInv == EInv /\ SelectBackend => EInv'
<1> SUFFICES ASSUME EInv, SelectBackend PROVE EInv'
  OBVIOUS
<1> USE DEF SelectBackend
<1>1. UNCHANGED <<sockets, answers, connection, reachable>>
  BY DEF endpointVars, dockerVars
<1>2. stage' \in {"endpoint", "ready", "failed"} OBVIOUS
<1>3. Unresolved' BY <1>1, <1>2 DEF EInv, Unresolved
<1>4. EndpointJustified'
  <2>1. CASE stage' = "ready"
    BY <2>1 DEF EndpointJustified
  <2>2. CASE stage' # "ready"
    BY <1>2, <2>2 DEF EndpointJustified
  <2> QED BY <2>1, <2>2
<1> QED BY <1>1, <1>2, <1>3, <1>4 DEF EInv

LEMMA ResolveEInv == EInv /\ ResolveConnection => EInv'
<1> SUFFICES ASSUME EInv, ResolveConnection PROVE EInv'
  OBVIOUS
<1>1. /\ UNCHANGED <<sockets, answers, settings, backend, reachable>>
      /\ connection = NoConnection /\ reachable = {}
  BY DEF ResolveConnection, EInv, Unresolved, loadVars
<1>2. CandidateHosts' = CandidateHosts /\ Configured' = Configured /\ Up' = Up
  BY <1>1 DEF CandidateHosts, Configured, Up
<1>3. CASE Configured # NoConnection
  <2>1. connection' = Configured /\ stage' = "ready"
    BY <1>3 DEF ResolveConnection
  <2> QED BY <1>1, <1>2, <1>3, <2>1 DEF EInv, Unresolved, EndpointJustified
<1>4. CASE Configured = NoConnection
  <2>1. /\ todo' = CandidateHosts /\ stage' = "probing"
        /\ steady' = Up /\ seen' = Up /\ connection' = connection
    BY <1>4 DEF ResolveConnection
  <2>2. Probing'
    BY <1>1, <1>2, <1>4, <2>1 DEF Probing
  <2> QED BY <1>1, <2>1, <2>2 DEF EInv, Unresolved, EndpointJustified
<1> QED BY <1>3, <1>4

LEMMA ProbeEInv == ASSUME NEW h \in Endpoints, EInv, Probe(h) PROVE EInv'
<1>1. /\ stage = "probing" /\ stage' = "probing" /\ h \in todo
      /\ todo' = todo \ {h}
      /\ UNCHANGED <<sockets, answers, connection, settings, steady, seen>>
  BY DEF Probe, dockerVars, loadVars
<1>2. CandidateHosts' = CandidateHosts /\ Configured' = Configured /\ Up' = Up
  BY <1>1 DEF CandidateHosts, Configured, Up
<1>3. Probing BY <1>1 DEF EInv
<1>4. CASE h \in Up
  <2>1. reachable' = reachable \cup {h} BY <1>4 DEF Probe, Answered, Up
  <2>2. h \in seen \cap CandidateHosts BY <1>1, <1>3, <1>4 DEF Probing
  <2>3. Probing' BY <1>1, <1>2, <1>3, <2>1, <2>2 DEF Probing
  <2> QED BY <1>1, <2>3 DEF EInv, Unresolved, EndpointJustified
<1>5. CASE h \notin Up
  <2>1. reachable' = reachable BY <1>5 DEF Probe, Answered, Up
  <2>2. h \notin steady BY <1>3, <1>5 DEF Probing
  <2>3. Probing' BY <1>1, <1>2, <1>3, <2>1, <2>2 DEF Probing
  <2> QED BY <1>1, <2>3 DEF EInv, Unresolved, EndpointJustified
<1> QED BY <1>4, <1>5

LEMMA SelectHostEInv == EInv /\ SelectHost => EInv'
<1> SUFFICES ASSUME EInv, SelectHost PROVE EInv'
  OBVIOUS
<1>1. /\ stage = "probing" /\ todo = {}
      /\ UNCHANGED <<sockets, answers, settings, backend, steady, seen, reachable>>
  BY DEF SelectHost, dockerVars, loadVars
<1>2. CandidateHosts' = CandidateHosts /\ Configured' = Configured
  BY <1>1 DEF CandidateHosts, Configured
<1>3. /\ Configured = NoConnection /\ connection = NoConnection
      /\ reachable \subseteq seen \cap CandidateHosts
      /\ steady \cap CandidateHosts \subseteq reachable
      /\ CandidateHosts \subseteq Endpoints
  BY <1>1, CandidatesAreEndpoints DEF EInv, Probing
<1>4. stage' \in {"ready", "ambiguous"} BY DEF SelectHost
<1>5. EndpointJustified'
  <2>1. CASE reachable = {} /\ stage' = "ready" /\ UNCHANGED connection
    BY <1>1, <1>2, <1>3, <2>1 DEF EndpointJustified
  <2>2. ASSUME NEW h \in Unambiguous(Contenders), stage' = "ready",
               connection' = [host |-> h, context |-> None]
        PROVE  EndpointJustified'
    <3>1. Contenders = {h} /\ h \in reachable
      BY DEF Unambiguous, Contenders
    <3>2. h \in Endpoints /\ h # None
      BY <1>3, <3>1, DaemonAssumption DEF DaemonAssumption
    <3>3. connection' # NoConnection /\ connection'.host = h
      BY <2>2, <3>2 DEF NoConnection
    <3>4. h \in seen \cap CandidateHosts BY <1>3, <3>1
    <3>5. CASE h \in DesktopEndpoints
      <4>1. reachable \cap DesktopEndpoints = {h}
        BY <3>1, <3>5 DEF Contenders
      <4> QED BY <1>1, <1>2, <1>3, <2>2, <3>3, <3>4, <3>5, <4>1
              DEF EndpointJustified
    <3>6. CASE h \notin DesktopEndpoints
      <4>1. reachable = {h} BY <3>1, <3>6 DEF Contenders
      <4> QED BY <1>1, <1>2, <1>3, <2>2, <3>3, <3>4, <3>6, <4>1
              DEF EndpointJustified
    <3> QED BY <3>5, <3>6
  <2>3. CASE /\ reachable # {} /\ Unambiguous(Contenders) = {}
             /\ stage' = "ambiguous"
    <3>1. Contenders # {} /\ Contenders \subseteq reachable
      BY <2>3 DEF Contenders
    <3>2. PICK g \in Contenders : TRUE BY <3>1
    <3>3. PICK h \in Contenders : h # g
      BY <2>3, <3>2 DEF Unambiguous
    <3>4. g \in DesktopEndpoints <=> h \in DesktopEndpoints
      BY <3>2, <3>3 DEF Contenders
    <3>5. g \in seen \cap CandidateHosts /\ h \in seen \cap CandidateHosts
      BY <1>3, <3>1, <3>2, <3>3
    <3> QED BY <1>1, <1>2, <2>3, <3>3, <3>4, <3>5 DEF EndpointJustified
  <2> QED BY <2>1, <2>2, <2>3 DEF SelectHost
<1> QED BY <1>1, <1>4, <1>5 DEF EInv, Unresolved

LEMMA DockerStepEInv == EInv /\ DockerStep => EInv'
<1> SUFFICES ASSUME EInv, DockerStep PROVE EInv'
  OBVIOUS
<1>1. PICK h \in CandidateHosts, answer \in Answers :
        /\ answers' = [answers EXCEPT ![h] = answer]
        /\ IF stage = "endpoint"
           THEN UNCHANGED <<steady, seen>>
           ELSE /\ steady' = IF answer = "version" THEN steady ELSE steady \ {h}
                /\ seen' = IF answer = "version" THEN seen \cup {h} ELSE seen
  BY DEF DockerStep
<1>2. /\ stage \in {"endpoint", "probing"} /\ stage' = stage
      /\ UNCHANGED <<sockets, todo, reachable, connection, settings>>
  BY DEF DockerStep, loadVars
<1>3. CandidateHosts' = CandidateHosts /\ Configured' = Configured
  BY <1>2 DEF CandidateHosts, Configured
<1>4. h \in Endpoints BY CandidatesAreEndpoints DEF EInv
<1>5. answers' \in [Endpoints -> Answers] BY <1>1, <1>4 DEF EInv
<1>6. Up' = IF answer = "version" THEN Up \cup {h} ELSE Up \ {h}
  BY <1>1, <1>4 DEF Up, EInv
<1>7. ASSUME stage = "probing" PROVE Probing'
  <2>1. Probing BY <1>7 DEF EInv
  <2>2. CASE answer = "version"
    BY <1>1, <1>2, <1>3, <1>6, <1>7, <2>1, <2>2 DEF Probing
  <2>3. CASE answer # "version"
    BY <1>1, <1>2, <1>3, <1>6, <1>7, <2>1, <2>3 DEF Probing
  <2> QED BY <2>2, <2>3
<1> QED BY <1>2, <1>5, <1>7 DEF EInv, Unresolved, EndpointJustified

(* From the moment the endpoint is settled nothing it depends on changes.   *)
LEMMA SettledEInv ==
  ASSUME EInv, UNCHANGED <<loadVars, endpointVars>>,
         stage' = stage \/ (stage = "ready" /\ stage' = "ticks")
  PROVE  EInv'
<1>1. /\ UNCHANGED <<sockets, answers, todo, reachable, connection, settings>>
      /\ UNCHANGED <<backend, steady, seen>>
  BY DEF loadVars, endpointVars, dockerVars
<1>2. /\ CandidateHosts' = CandidateHosts /\ Configured' = Configured
      /\ Up' = Up
  BY <1>1 DEF CandidateHosts, Configured, Up
<1>3. EndpointJustified'
  BY <1>1, <1>2 DEF EInv, EndpointJustified
<1> QED BY <1>1, <1>2, <1>3 DEF EInv, Unresolved, Probing

LEMMA NextEInv == EInv /\ [DaemonNext]_<<vars, daemonVars>> => EInv'
<1> SUFFICES ASSUME EInv, [DaemonNext]_<<vars, daemonVars>> PROVE EInv'
  OBVIOUS
<1>1. CASE ParseArgs BY <1>1, ElsewhereEInv DEF ParseArgs
<1>2. CASE OpenFails \/ LineFails \/ FileRejected
  BY <1>2, ElsewhereEInv DEF OpenFails, LineFails, FileRejected, Fail, Reading
<1>3. CASE ReadLine BY <1>3, ElsewhereEInv DEF ReadLine, Reading
<1>4. CASE EndFile BY <1>4, ElsewhereEInv DEF EndFile, Reading
<1>5. CASE SelectBackend BY <1>5, SelectBackendEInv
<1>6. CASE ResolveConnection BY <1>6, ResolveEInv
<1>7. CASE SelectHost BY <1>7, SelectHostEInv
<1>8. CASE \E h \in Endpoints : Probe(h) BY <1>8, ProbeEInv
<1>9. CASE DockerStep BY <1>9, DockerStepEInv
<1>10. CASE StartTicks BY <1>10, SettledEInv DEF StartTicks
<1>11. CASE Ticks \/ RunsElsewhere \/ UNCHANGED <<vars, daemonVars>>
  BY <1>11, SettledEInv DEF Ticks, RunsElsewhere, daemonVars
<1>12. CASE Restart
  <2>1. /\ stage' = "arguments" /\ UNCHANGED <<sockets, answers>>
        /\ connection' = NoConnection /\ reachable' = {}
    BY <1>12 DEF Restart
  <2> QED BY <2>1 DEF EInv, Unresolved, EndpointJustified
<1> QED
  BY <1>1, <1>2, <1>3, <1>4, <1>5, <1>6, <1>7, <1>8, <1>9, <1>10, <1>11, <1>12
  DEF DaemonNext

(* The Docker endpoint is justified by what could be reached while it was   *)
(* resolved, whichever daemons come and go meanwhile                        *)
(* (resolve_docker_connection, select_reachable_auto_detected_host).        *)
THEOREM EndpointChosen == DaemonSpec => []EndpointJustified
<1>1. EInv => EndpointJustified BY DEF EInv
<1> QED BY <1>1, InitEInv, NextEInv, PTL DEF DaemonSpec

-----------------------------------------------------------------------------
(* The file.  Every name under which a setting is looked up is known, names *)
(* that setting, and every known key is such a name.                        *)
LEMMA NameOfTop ==
  ASSUME NEW f PROVE Setting(Top(f)) = f
<1>1. Top(f) # In("docker", "host") /\ Top(f) # In("docker", "context")
  <2>1. Len(<<f>>) = 1 /\ Len(<<"docker", "host">>) = 2
        /\ Len(<<"docker", "context">>) = 2
    OBVIOUS
  <2> QED BY <2>1 DEF Top, In
<1> QED BY <1>1 DEF Setting, Top

LEMMA NameInSection ==
  ASSUME NEW s, NEW f, s # "docker"
  PROVE  Setting(In(s, f)) = f
<1>1. In(s, f) # In("docker", "host") /\ In(s, f) # In("docker", "context")
  BY DEF In
<1>2. In(s, f)[Len(In(s, f))] = f
  BY DEF In
<1> QED BY <1>1, <1>2 DEF Setting

LEMMA NameInDocker ==
  /\ Setting(In("docker", "host")) = "docker_host"
  /\ Setting(In("docker", "context")) = "docker_context"
<1>1. In("docker", "host") # In("docker", "context") BY DEF In
<1> QED BY <1>1 DEF Setting

LEMMA NamesAgree ==
  /\ \A f \in Fields : \A k \in Aliases[f] : Setting(k) = f
  /\ \A k \in KnownKeys : \E f \in Fields : k \in Aliases[f]
<1>1. ASSUME NEW f \in Fields, NEW k \in Aliases[f] PROVE Setting(k) = f
  <2>1. CASE f = "docker_host"
    BY <1>1, <2>1, NameOfTop, NameInDocker DEF Aliases
  <2>2. CASE f = "docker_context"
    BY <1>1, <2>2, NameOfTop, NameInDocker DEF Aliases
  <2>3. CASE f \notin {"docker_host", "docker_context"}
    <3>1. \/ k = Top(f)
          \/ \E s \in {"runtime", "thresholds", "watermarks", "cleanup",
                       "safety", "backends", "allowlists"} : k = In(s, f)
      BY <1>1, <2>3 DEF Aliases, Fields
    <3>2. \A s \in {"runtime", "thresholds", "watermarks", "cleanup",
                    "safety", "backends", "allowlists"} :
            s # "docker"
      OBVIOUS
    <3> QED BY <3>1, <3>2, NameOfTop, NameInSection
  <2> QED BY <2>1, <2>2, <2>3
<1>2. ASSUME NEW k \in KnownKeys PROVE \E f \in Fields : k \in Aliases[f]
  BY <1>2 DEF KnownKeys, Fields, Aliases
<1> QED BY <1>1, <1>2

LEMMA OneSection ==
  ASSUME NEW i \in Nat, NEW s, NEW t, InSection(i, s), InSection(i, t)
  PROVE  s = t
<1>1. CASE \A j \in 1 .. i - 1 : file[j].type # "header"
  BY <1>1 DEF InSection
<1>2. CASE \E j \in 1 .. i - 1 : file[j].type = "header"
  <2>1. PICK j \in 1 .. i - 1 :
          /\ file[j].type = "header" /\ file[j].parts = s
          /\ \A k \in j + 1 .. i - 1 : file[k].type # "header"
    BY <1>2 DEF InSection
  <2>2. PICK l \in 1 .. i - 1 :
          /\ file[l].type = "header" /\ file[l].parts = t
          /\ \A k \in l + 1 .. i - 1 : file[k].type # "header"
    BY <1>2 DEF InSection
  <2>3. ~(j < l) BY <2>1, <2>2
  <2>4. ~(l < j) BY <2>1, <2>2
  <2>5. j = l BY <2>3, <2>4
  <2> QED BY <2>1, <2>2, <2>5
<1> QED BY <1>1, <1>2

LEMMA SectionGoesOn ==
  ASSUME NEW i \in Nat \ {0}, NEW s, InSection(i, s), file[i].type # "header"
  PROVE  InSection(i + 1, s)
<1>1. CASE s = <<>> /\ \A j \in 1 .. i - 1 : file[j].type # "header"
  <2>1. \A j \in 1 .. (i + 1) - 1 : file[j].type # "header" BY <1>1
  <2> QED BY <1>1, <2>1 DEF InSection
<1>2. ASSUME NEW j \in 1 .. i - 1,
             file[j].type = "header" /\ file[j].parts = s,
             \A k \in j + 1 .. i - 1 : file[k].type # "header"
      PROVE  InSection(i + 1, s)
  <2>1. j \in 1 .. (i + 1) - 1 OBVIOUS
  <2>2. \A k \in j + 1 .. (i + 1) - 1 : file[k].type # "header" BY <1>2
  <2> QED BY <1>2, <2>1, <2>2 DEF InSection
<1> QED BY <1>1, <1>2 DEF InSection

LEMMA SectionBegins ==
  ASSUME NEW i \in Nat \ {0}, file[i].type = "header"
  PROVE  InSection(i + 1, file[i].parts)
<1>1. i \in 1 .. (i + 1) - 1 /\ i + 1 .. (i + 1) - 1 = {} OBVIOUS
<1> QED BY <1>1 DEF InSection

(* What has been read of the file is in entries, and nothing else.          *)
Assigns(i, s) == file[i].type = "assignment" /\ InSection(i, s)

Read(n) ==
  /\ \A i \in 1 .. n, s \in Sections : Assigns(i, s) =>
       /\ s \o file[i].key \in DOMAIN entries
       /\ entries[s \o file[i].key] = file[i].value
  /\ \A k \in DOMAIN entries : \E i \in 1 .. n, s \in Sections :
       Assigns(i, s) /\ k = s \o file[i].key

LInv ==
  /\ file = None \/ file \in Seq(Line)
  /\ stage = "arguments" => line = 0 /\ section = <<>> /\ entries = <<>>
  /\ Reading => /\ line \in 0 .. Len(file)
                /\ section \in Sections /\ InSection(line + 1, section)
                /\ Read(line)
  /\ SettingsTakeEffect

LEMMA InitLInv == DaemonInit => LInv
<1> SUFFICES ASSUME DaemonInit PROVE LInv
  OBVIOUS
<1>1. file = None \/ file \in Seq(Line)
  BY DaemonAssumption DEF DaemonInit, DaemonAssumption
<1>2. SettingsTakeEffect BY DEF DaemonInit, SettingsTakeEffect, Loaded
<1> QED BY <1>1, <1>2 DEF DaemonInit, LInv, Reading

LEMMA SameFile ==
  ASSUME UNCHANGED file
  PROVE  /\ Sections' = Sections
         /\ \A i, s : InSection(i, s)' <=> InSection(i, s)
BY DEF Sections, InSection

LEMMA SameRead ==
  ASSUME UNCHANGED <<file, entries>>, NEW n PROVE Read(n)' <=> Read(n)
BY DEF Read, Assigns, Sections, InSection

(* A step that does not read the file, after the first one. *)
LEMMA KeepsLInv ==
  ASSUME LInv, UNCHANGED <<file, settings>>, stage' # "arguments", ~Reading',
         Loaded' => Loaded
  PROVE  LInv'
<1>1. SettingsTakeEffect'
  <2>1. Sections' = Sections /\ \A i, s : InSection(i, s)' <=> InSection(i, s)
    BY SameFile
  <2> QED BY <2>1 DEF LInv, SettingsTakeEffect
<1> QED BY <1>1 DEF LInv

LEMMA ParseArgsLInv == LInv /\ ParseArgs => LInv'
<1> SUFFICES ASSUME LInv, ParseArgs PROVE LInv'
  OBVIOUS
<1>1. /\ stage = "arguments" /\ stage' \in {"file", "failed", "done"}
      /\ UNCHANGED <<file, line, section, entries>>
      /\ line = 0 /\ section = <<>> /\ entries = <<>>
  BY DEF ParseArgs, LInv, loadVars
<1>2. Sections' = Sections /\ \A i, s : InSection(i, s)' <=> InSection(i, s)
  BY <1>1, SameFile
<1>3. section \in Sections /\ InSection(line + 1, section)
  BY <1>1 DEF Sections, InSection
<1>4. Read(line)' BY <1>1, <1>2 DEF Read, Assigns
<1>5. SettingsTakeEffect' BY <1>1 DEF SettingsTakeEffect, Loaded
<1>6. file # None => line \in 0 .. Len(file) BY <1>1 DEF LInv
<1> QED BY <1>1, <1>2, <1>3, <1>4, <1>5, <1>6 DEF LInv, Reading

LEMMA ReadLineLInv == LInv /\ ReadLine => LInv'
<1> SUFFICES ASSUME LInv, ReadLine PROVE LInv'
  OBVIOUS
<1>0. PICK n \in Nat : n = line + 1
  BY DEF ReadLine, Reading, LInv
<1> DEFINE key == FullKey(file[n].key)
<1>1. /\ stage = "file" /\ file # None /\ file \in Seq(Line)
      /\ UNCHANGED <<stage, file>> /\ line' = n /\ n = line + 1
      /\ line \in 0 .. Len(file) /\ line < Len(file)
      /\ section \in Sections /\ InSection(n, section) /\ Read(line)
  BY <1>0 DEF ReadLine, Reading, LInv
<1>2. /\ n \in Nat \ {0} /\ n \in DOMAIN file /\ n \in 1 .. n
      /\ n \in 0 .. Len(file) /\ 1 .. n = (1 .. line) \cup {n}
  BY <1>1
<1>3. Sections' = Sections /\ \A i, s : InSection(i, s)' <=> InSection(i, s)
  BY <1>1, SameFile
<1>4. /\ section' \in Sections /\ InSection(n + 1, section')
      /\ Read(n)'
  <2>1. CASE file[n].type = "blank" /\ UNCHANGED <<section, entries>>
    <3>1. InSection(n + 1, section) BY <1>1, <1>2, <2>1, SectionGoesOn
    <3>2. Read(n) BY <1>1, <1>2, <2>1 DEF Read, Assigns
    <3> QED BY <1>1, <1>3, <2>1, <3>1, <3>2, SameRead
  <2>2. CASE /\ file[n].type = "header" /\ section' = file[n].parts
             /\ UNCHANGED entries
    <3>1. InSection(n + 1, section') BY <1>2, <2>2, SectionBegins
    <3>2. section' \in Sections BY <1>2, <2>2 DEF Sections
    <3>3. Read(n) BY <1>1, <1>2, <2>2 DEF Read, Assigns
    <3> QED BY <1>1, <1>3, <2>2, <3>1, <3>2, <3>3, SameRead
  <2>3. CASE /\ file[n].type = "assignment" /\ key \notin DOMAIN entries
             /\ entries' = [k \in DOMAIN entries \cup {key} |->
                              IF k \in DOMAIN entries THEN entries[k]
                              ELSE file[n].value]
             /\ UNCHANGED section
    <3>1. InSection(n + 1, section) BY <1>1, <1>2, <2>3, SectionGoesOn
    <3>2. /\ DOMAIN entries' = DOMAIN entries \cup {key}
          /\ entries'[key] = file[n].value
          /\ \A k \in DOMAIN entries : entries'[k] = entries[k]
      BY <2>3
    <3>3. \A s : InSection(n, s) => s = section
      BY <1>1, <1>2, OneSection
    <3>4. key = section \o file[n].key BY DEF FullKey
    <3>5. ASSUME NEW i \in 1 .. n, NEW s \in Sections, Assigns(i, s)
          PROVE  /\ s \o file[i].key \in DOMAIN entries'
                 /\ entries'[s \o file[i].key] = file[i].value
      <4>1. CASE i = n BY <3>2, <3>3, <3>4, <3>5, <4>1 DEF Assigns
      <4>2. CASE i # n
        <5>1. i \in 1 .. line BY <1>2, <4>2
        <5>2. /\ s \o file[i].key \in DOMAIN entries
              /\ entries[s \o file[i].key] = file[i].value
          BY <1>1, <3>5, <5>1 DEF Read
        <5> QED BY <3>2, <5>2
      <4> QED BY <4>1, <4>2
    <3>6. ASSUME NEW k \in DOMAIN entries'
          PROVE  \E i \in 1 .. n, s \in Sections :
                   Assigns(i, s) /\ k = s \o file[i].key
      <4>1. CASE k = key BY <1>1, <1>2, <2>3, <3>4, <4>1 DEF Assigns
      <4>2. CASE k # key BY <1>1, <1>2, <3>2, <4>2 DEF Read
      <4> QED BY <4>1, <4>2
    <3>7. \A i, s : Assigns(i, s)' <=> Assigns(i, s)
      BY <1>1, <1>3 DEF Assigns
    <3>8. Read(n)'
      <4>1. \A i \in 1 .. n, s \in Sections' : Assigns(i, s)' =>
              /\ s \o file'[i].key \in DOMAIN entries'
              /\ entries'[s \o file'[i].key] = file'[i].value
        BY <1>1, <1>3, <3>5, <3>7
      <4>2. \A k \in DOMAIN entries' : \E i \in 1 .. n, s \in Sections' :
              Assigns(i, s)' /\ k = s \o file'[i].key
        BY <1>1, <1>3, <3>6, <3>7
      <4> QED BY <4>1, <4>2 DEF Read
    <3> QED BY <1>1, <2>3, <3>1, <3>8
  <2> QED BY <1>0, <2>1, <2>2, <2>3 DEF ReadLine
<1>5. SettingsTakeEffect' BY <1>1 DEF SettingsTakeEffect, Loaded
<1> QED BY <1>1, <1>2, <1>3, <1>4, <1>5 DEF LInv, Reading

LEMMA EndFileLInv == LInv /\ EndFile => LInv'
<1> SUFFICES ASSUME LInv, EndFile PROVE LInv'
  OBVIOUS
<1>1. /\ file \in Seq(Line) /\ line = Len(file) /\ Read(line) /\ Loads(entries)
      /\ stage' = "backend" /\ settings' = Settings(entries)
      /\ UNCHANGED <<file, line, section, entries>>
  BY DEF EndFile, Reading, LInv
<1>2. DOMAIN file = 1 .. line BY <1>1
<1>3. Sections' = Sections /\ \A i, s : InSection(i, s)' <=> InSection(i, s)
  BY <1>1, SameFile
<1>4. ASSUME NEW k \in DOMAIN entries
      PROVE  settings'[Setting(k)] = Plain(entries[k])
  <2>1. PICK f \in Fields : k \in Aliases[f]
    BY <1>1, NamesAgree DEF Loads
  <2>2. Setting(k) = f BY <2>1, NamesAgree
  <2>3. k \in Given(entries, f) BY <2>1 DEF Given
  <2>4. \A l \in Given(entries, f) : l = k
    BY <1>1, <2>3 DEF Loads, TakesOne
  <2>5. (CHOOSE l \in Given(entries, f) : TRUE) = k BY <2>3, <2>4
  <2> QED BY <1>1, <2>2, <2>3, <2>5 DEF Settings
<1>5. ASSUME NEW f \in Fields, settings'[f] # Default[f]
      PROVE  \E k \in DOMAIN entries : Setting(k) = f
  <2>1. Given(entries, f) # {} BY <1>1, <1>5 DEF Settings
  <2>2. PICK k \in Given(entries, f) : TRUE BY <2>1
  <2> QED BY <2>2, NamesAgree DEF Given
<1>6. \A i \in DOMAIN file, s \in Sections :
        file[i].type = "assignment" /\ InSection(i, s) =>
          settings'[Setting(s \o file[i].key)] = Plain(file[i].value)
  BY <1>1, <1>2, <1>4 DEF Read, Assigns
<1>7. \A f \in Fields : settings'[f] # Default[f] =>
        \E i \in DOMAIN file, s \in Sections :
          /\ file[i].type = "assignment" /\ InSection(i, s)
          /\ Setting(s \o file[i].key) = f
  <2> SUFFICES ASSUME NEW f \in Fields, settings'[f] # Default[f]
               PROVE  \E i \in DOMAIN file, s \in Sections :
                        /\ file[i].type = "assignment" /\ InSection(i, s)
                        /\ Setting(s \o file[i].key) = f
    OBVIOUS
  <2>1. PICK k \in DOMAIN entries : Setting(k) = f BY <1>5
  <2>2. PICK i \in 1 .. line, s \in Sections :
          Assigns(i, s) /\ k = s \o file[i].key
    BY <1>1 DEF Read
  <2> QED BY <1>2, <2>1, <2>2 DEF Assigns
<1>8. SettingsTakeEffect'
  BY <1>1, <1>3, <1>6, <1>7 DEF SettingsTakeEffect
<1> QED BY <1>1, <1>8 DEF LInv, Reading

LEMMA NextLInv == LInv /\ [DaemonNext]_<<vars, daemonVars>> => LInv'
<1> SUFFICES ASSUME LInv, [DaemonNext]_<<vars, daemonVars>> PROVE LInv'
  OBVIOUS
<1>1. CASE ParseArgs BY <1>1, ParseArgsLInv
<1>2. CASE OpenFails \/ LineFails \/ FileRejected
  BY <1>2, KeepsLInv
  DEF OpenFails, LineFails, FileRejected, Fail, Reading, loadVars, Loaded
<1>3. CASE ReadLine BY <1>3, ReadLineLInv
<1>4. CASE EndFile BY <1>4, EndFileLInv
<1>5. CASE SelectBackend
  BY <1>5, KeepsLInv DEF SelectBackend, Reading, Loaded
<1>6. CASE ResolveConnection \/ SelectHost
  BY <1>6, KeepsLInv DEF ResolveConnection, SelectHost, Reading, Loaded, loadVars
<1>7. CASE \E h \in Endpoints : Probe(h)
  BY <1>7, KeepsLInv DEF Probe, Reading, Loaded, loadVars
<1>8. CASE DockerStep
  BY <1>8, KeepsLInv DEF DockerStep, Reading, Loaded, loadVars
<1>9. CASE StartTicks \/ Ticks \/ RunsElsewhere
  BY <1>9, KeepsLInv
  DEF StartTicks, Ticks, RunsElsewhere, Reading, Loaded, loadVars, daemonVars
<1>10. CASE Restart
  <2>1. file' = None \/ file' \in Seq(Line)
    BY <1>10, DaemonAssumption DEF Restart, LInv, DaemonAssumption
  <2> QED BY <1>10, <2>1 DEF Restart, LInv, Reading, SettingsTakeEffect, Loaded
<1>11. CASE UNCHANGED <<vars, daemonVars>>
  <2>1. UNCHANGED <<stage, file, line, section, entries, settings>>
    BY <1>11 DEF daemonVars, loadVars
  <2>2. Sections' = Sections /\ \A i, s : InSection(i, s)' <=> InSection(i, s)
    BY <2>1, SameFile
  <2>3. Read(line)' <=> Read(line)
    BY <2>1 DEF Read, Assigns, Sections, InSection
  <2>4. SettingsTakeEffect'
    BY <2>1, <2>2 DEF LInv, SettingsTakeEffect, Loaded
  <2> QED BY <2>1, <2>2, <2>3, <2>4 DEF LInv, Reading
<1> QED
  BY <1>1, <1>2, <1>3, <1>4, <1>5, <1>6, <1>7, <1>8, <1>9, <1>10, <1>11
  DEF DaemonNext

(* Every line of an accepted file is in force, and nothing but the file     *)
(* changes a setting (parse_toml_subset, from_entries).                     *)
THEOREM FileTakesEffect == DaemonSpec => []SettingsTakeEffect
<1>1. LInv => SettingsTakeEffect BY DEF LInv
<1> QED BY <1>1, InitLInv, NextLInv, PTL DEF DaemonSpec

-----------------------------------------------------------------------------
(* The command line and the values of the settings. *)
LEMMA LeastNatural ==
  ASSUME NEW S \in SUBSET Nat, S # {}
  PROVE  \E n \in S : \A m \in S : n <= m
<1>1. IsWellFoundedOn(OpToRel(<, Nat), Nat) BY NatLessThanWellFounded
<1>2. PICK n \in S : \A m \in S : <<m, n>> \notin OpToRel(<, Nat)
  BY <1>1, WFMin
<1>3. \A m \in S : ~(m < n) BY <1>2 DEF OpToRel
<1> QED BY <1>3

LEMMA LastOne ==
  ASSUME NEW n \in Nat, NEW S \in SUBSET (1 .. n), S # {}
  PROVE  \E i \in S : \A j \in S : j <= i
<1> DEFINE T == {n - i : i \in S}
<1>1. T \in SUBSET Nat /\ T # {}
  <2>1. \A i \in S : n - i \in Nat OBVIOUS
  <2>2. PICK i \in S : TRUE OBVIOUS
  <2> QED BY <2>1, <2>2
<1>2. PICK m \in T : \A l \in T : m <= l BY <1>1, LeastNatural
<1>3. PICK i \in S : m = n - i BY <1>2
<1>4. ASSUME NEW j \in S PROVE j <= i
  <2>1. m <= n - j BY <1>2
  <2> QED BY <1>3, <2>1
<1> QED BY <1>4

AInv ==
  /\ options \in Seq(Option)
  /\ stage \notin {"arguments", "failed", "done"} =>
       \A i \in DOMAIN options : ~Refused(options[i])
  /\ Loaded => Valid(settings)

LEMMA InitAInv == DaemonInit => AInv
BY DaemonAssumption DEF DaemonInit, DaemonAssumption, AInv, Loaded

LEMMA ParseArgsAInv == AInv /\ ParseArgs => AInv'
<1> SUFFICES ASSUME AInv, ParseArgs PROVE AInv'
  OBVIOUS
<1>1. UNCHANGED options /\ stage' \in {"file", "failed", "done"}
  BY DEF ParseArgs, loadVars
<1>2. stage' = "file" => \A i \in DOMAIN options : ~Ends(options[i])
  BY DEF ParseArgs
<1>3. stage' = "file" => \A i \in DOMAIN options : ~Refused(options[i])
  BY <1>2 DEF Ends
<1> QED BY <1>1, <1>3 DEF AInv, Loaded, Refused

(* A step that keeps options and settings and goes no further back.         *)
LEMMA KeepsAInv ==
  ASSUME AInv, UNCHANGED options, Loaded' => Loaded /\ UNCHANGED settings,
         stage' \in {"arguments", "failed", "done"}
           \/ stage \notin {"arguments", "failed", "done"}
  PROVE  AInv'
BY DEF AInv, Refused, Valid, NonEmpty

LEMMA NextAInv == AInv /\ [DaemonNext]_<<vars, daemonVars>> => AInv'
<1> SUFFICES ASSUME AInv, [DaemonNext]_<<vars, daemonVars>> PROVE AInv'
  OBVIOUS
<1>1. CASE ParseArgs BY <1>1, ParseArgsAInv
<1>2. CASE OpenFails \/ LineFails \/ FileRejected \/ ReadLine
  BY <1>2, KeepsAInv
  DEF OpenFails, LineFails, FileRejected, Fail, ReadLine, Reading, Loaded, loadVars
<1>3. CASE EndFile
  <2>1. /\ Valid(settings') /\ stage = "file" /\ UNCHANGED options
    BY <1>3 DEF EndFile, Reading, Loads
  <2> QED BY <2>1 DEF AInv, Refused, Valid, NonEmpty
<1>4. CASE SelectBackend
  BY <1>4, KeepsAInv DEF SelectBackend, Loaded
<1>5. CASE ResolveConnection \/ SelectHost \/ DockerStep
           \/ \E h \in Endpoints : Probe(h)
  BY <1>5, KeepsAInv
  DEF ResolveConnection, SelectHost, DockerStep, Probe, Loaded, loadVars
<1>6. CASE StartTicks \/ Ticks \/ RunsElsewhere \/ UNCHANGED <<vars, daemonVars>>
  BY <1>6, KeepsAInv
  DEF StartTicks, Ticks, RunsElsewhere, Loaded, loadVars, daemonVars
<1>7. CASE Restart BY <1>7, KeepsAInv DEF Restart, Loaded
<1> QED BY <1>1, <1>2, <1>3, <1>4, <1>5, <1>6, <1>7 DEF DaemonNext

LEMMA TicksAreNumbers ==
  ASSUME AInv, stage = "ready"
  PROVE  RequestedTicks \in Nat \ {0} \/ RequestedTicks = None
<1>1. CASE Used("--once") # {} BY <1>1 DEF RequestedTicks
<1>2. CASE Used("--once") = {} /\ Used("--ticks") = {}
  BY <1>2 DEF RequestedTicks
<1>3. CASE Used("--once") = {} /\ Used("--ticks") # {}
  <2> DEFINE last(i) == \A j \in Used("--ticks") : j <= i
  <2>1. Len(options) \in Nat /\ Used("--ticks") \in SUBSET (1 .. Len(options))
    BY DEF AInv, Used
  <2>2. \E i \in Used("--ticks") : last(i) BY <1>3, <2>1, LastOne
  <2>3. PICK i \in Used("--ticks") :
          i = CHOOSE k \in Used("--ticks") : last(k)
    BY <2>2
  <2>4. LastOf("--ticks") = options[i] BY <2>3 DEF LastOf
  <2>5. i \in DOMAIN options /\ options[i].option = "--ticks"
    BY DEF Used
  <2>6. ~Refused(options[i]) /\ options[i] \in Option BY <2>5 DEF AInv
  <2>7. options[i].number \in Nat \ {0} BY <2>5, <2>6 DEF Refused, Option
  <2> QED BY <1>3, <2>4, <2>7 DEF RequestedTicks
<1> QED BY <1>1, <1>2, <1>3

(* The daemon never comes to a tick with watermarks out of order, beyond    *)
(* 100 percent, or a number of ticks that is none: what SchedulerAssumption *)
(* says is established by Config::validate and parse_args.                  *)
THEOREM SchedulerAssumptionsMet == DaemonSpec => []AssumptionsMet
<1>1. AInv => AssumptionsMet
  BY TicksAreNumbers DEF AInv, AssumptionsMet, Loaded, Valid
<1> QED BY <1>1, InitAInv, NextAInv, PTL DEF DaemonSpec

-----------------------------------------------------------------------------
(* The ticks, within the life of a process that may be killed and started   *)
(* again wherever it is: a step of the daemon is one of its ticks, or none  *)
(* of their business, or a restart, which forgets everything.               *)
LEMMA DaemonStep ==
  ASSUME [DaemonNext]_<<vars, daemonVars>>
  PROVE  [Next]_vars \/ Restart
<1>1. Ticks => Next BY DEF Ticks
<1>2. ~Restart /\ ~Ticks => UNCHANGED vars
  BY DEF DaemonNext, ParseArgs, OpenFails, ReadLine, LineFails, EndFile,
         FileRejected, Fail, SelectBackend, ResolveConnection, SelectHost,
         Probe, DockerStep, StartTicks, RunsElsewhere
<1> QED BY <1>1, <1>2

LEMMA RestartIsFresh == Restart => Fresh' /\ (ticks \in Nat)'
BY DEF Restart, Fresh

LEMMA DaemonNextKeepsIInv == IInv /\ [DaemonNext]_<<vars, daemonVars>> => IInv'
<1>1. Restart => IInv' BY RestartIsFresh, FreshIInv, PTL
<1> QED BY <1>1, DaemonStep, NextKeepsIInv

LEMMA DaemonInvariance == DaemonSpec => []IInv
<1>1. DaemonInit => IInv BY InitIInv DEF DaemonInit
<1> QED BY <1>1, DaemonNextKeepsIInv, PTL DEF DaemonSpec

(* Kills and restarts of the process leave every action accounted for and a *)
(* dry run without a deletion (run_scheduler_loop keeps nothing).           *)
THEOREM TicksAcrossRestarts ==
  DaemonSpec => [](EveryActionAccounted /\ DryRunDeletesNothing)
<1>1. IInv => EveryActionAccounted /\ DryRunDeletesNothing
  BY SettledAccount DEF IInv, EveryActionAccounted, Ended
<1> QED BY <1>1, DaemonInvariance, PTL

(* Whenever the process is killed, the reports it still comes to log are    *)
(* true: of the stop reason, of the usage at the end, and of caps that a    *)
(* tick cut short does not hand on to the next one.                         *)
THEOREM ReportsAcrossRestarts ==
  DaemonSpec => [](StopReasonJustified /\ FinalUsageMeasured /\ ReclaimBounded)
<1>1. DaemonInit => Reasoned /\ Budgeted
  <2>1. DaemonInit => Fresh BY DEF DaemonInit, Init, Fresh
  <2> QED BY <2>1, FreshReasoned, FreshBudgeted
<1>2. Restart => Reasoned' /\ Budgeted'
  BY RestartIsFresh, FreshReasoned, FreshBudgeted, PTL
<1>3. IInv /\ Reasoned /\ Budgeted /\ [DaemonNext]_<<vars, daemonVars>>
        => Reasoned' /\ Budgeted'
  BY <1>2, DaemonStep, NextReasoned, NextBudgeted
<1>4. Reasoned /\ Budgeted
        => StopReasonJustified /\ FinalUsageMeasured /\ ReclaimBounded
  BY DEF Reasoned, Budgeted, FinalUsageMeasured, Ended
<1> QED BY <1>1, <1>3, <1>4, DaemonInvariance, PTL DEF DaemonSpec

(* Through kills and restarts: no tick of the daemon deletes after a health *)
(* check, a measurement or a discovery that failed, begins a batch after a  *)
(* failed action, or deletes unvetted or what is not provably safe, the     *)
(* first one after a kill in the middle of a batch included.                *)
THEOREM DeletesAcrossRestarts ==
  DaemonSpec => NoDeleteAfterTrouble /\ EachBatchVetted /\ OnlySafeDeleted
<1>1. DaemonInit => SafeInv /\ Reasoned
  <2>1. DaemonInit => Fresh BY DEF DaemonInit, Init, Fresh
  <2> QED BY <2>1, FreshSafe, FreshReasoned
<1>2. IInv /\ SafeInv /\ Reasoned /\ [DaemonNext]_<<vars, daemonVars>>
        => SafeInv' /\ Reasoned'
  <2>1. Restart => SafeInv' /\ Reasoned'
    BY RestartIsFresh, FreshSafe, FreshReasoned, PTL
  <2> QED BY <2>1, DaemonStep, NextSafe, NextReasoned
<1>3. ASSUME IInv, SafeInv, [DaemonNext]_<<vars, daemonVars>>, issued' > issued
      PROVE  /\ ~trouble /\ vetted
             /\ queue # <<>> /\ ProvablySafe(Head(queue).candidate)
  <2>1. ~Restart BY <1>3 DEF Restart, IInv, TypeOK
  <2>2. [Next]_vars BY <1>3, <2>1, DaemonStep
  <2>3. pc = "execute" BY <1>3, <2>2, OnlyBatchDeletes
  <2> QED
    BY <1>3, <2>2, <2>3, DeletedIsSafe DEF IInv, Placed, AboveTarget, Ended
<1>4. ASSUME IInv, Reasoned, [DaemonNext]_<<vars, daemonVars>>,
             Len(queue') > Len(queue)
      PROVE  ~trouble /\ report.action_failures = 0
  <2>1. ~Restart
    <3>1. queue \in Seq(PlannedAction) BY <1>4 DEF IInv, TypeOK
    <3>2. Restart => queue' = <<>> BY DEF Restart, Init
    <3> QED BY <1>4, <3>1, <3>2
  <2>2. [Next]_vars BY <1>4, <2>1, DaemonStep
  <2> QED BY <1>4, <2>2, ClosedStep
<1>5. IInv /\ SafeInv /\ Reasoned /\ [DaemonNext]_<<vars, daemonVars>>
        => /\ [/\ issued' > issued => ~trouble
               /\ Len(queue') > Len(queue) =>
                    ~trouble /\ report.action_failures = 0]_vars
           /\ [issued' > issued => vetted]_vars
           /\ [issued' > issued =>
                 queue # <<>> /\ ProvablySafe(Head(queue).candidate)]_vars
  BY <1>3, <1>4
<1> QED
  BY <1>1, <1>2, <1>5, DaemonInvariance, PTL
     DEF DaemonSpec, NoDeleteAfterTrouble, EachBatchVetted, OnlySafeDeleted

(* The daemon as a whole implements WatermarkGate: a kill ends a cycle as a *)
(* return does, and the next process begins its own only at the high        *)
(* watermark.                                                               *)
THEOREM GateAcrossRestarts == DaemonSpec => ImplementsGate
<1>1. DaemonInit => Gate!Idle
  BY NewReportTyped DEF DaemonInit, Init, Gate!Idle, Cleaning
<1>2. ASSUME Restart
      PROVE  [Gate!Begin \/ Gate!Delete \/ Gate!Measure \/ Gate!End]_(Gate!gate)
  <2>1. ~Cleaning'
    BY <1>2, NewReportTyped DEF Restart, Cleaning
  <2> QED BY <2>1 DEF Gate!End, Gate!gate
<1>3. IInv /\ IInv' /\ [DaemonNext]_<<vars, daemonVars>>
        => [Gate!Begin \/ Gate!Delete \/ Gate!Measure \/ Gate!End]_(Gate!gate)
  BY <1>2, DaemonStep, GateStep
<1> QED
  BY <1>1, <1>3, DaemonInvariance, PTL DEF DaemonSpec, ImplementsGate, Gate!Spec
=============================================================================
