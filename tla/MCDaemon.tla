------------------------------ MODULE MCDaemon ------------------------------
(* Values of the constants of Daemon for TLC.  The ticks are those of a dry *)
(* run of Podman without --ticks, at the default watermarks.                *)
EXTENDS Daemon

CONSTANTS s1, s2, d1, d2

MCText == {"", " ", "app", "docker", " Docker", " docker", "Docker", "podman",
           "lxc", "h"}
MCTrim == [t \in MCText |->
             CASE t = " " -> "" [] t = " Docker" -> "Docker"
               [] t = " docker" -> "docker" [] OTHER -> t]
MCLower == [t \in MCText |->
              CASE t = " Docker" -> " docker" [] t = "Docker" -> "docker"
                [] OTHER -> t]

Deletable(kind, size) ==
  [identifier |-> "app", display_name |-> None, labels |-> {},
   backend |-> "Podman", resource_kind |-> kind, size_bytes |-> size,
   age_days |-> 30, in_use |-> "no", referenced |-> "no", protected |-> FALSE,
   metadata_complete |-> TRUE, metadata_ambiguous |-> FALSE]

MCReadings == {[used |-> u, total |-> 100] : u \in {70, 84, 85}}

MCCandidateLists ==
  {<<>>, <<Deletable("Volume", 15)>>,
   <<Deletable("Image", 6), Deletable("Container", 3)>>,
   <<Deletable("Volume", None), Deletable("Image", 1)>>}

-----------------------------------------------------------------------------
Int64(n) == [type |-> "Integer", value |-> n]
Bool(b) == [type |-> "Bool", value |-> b]
Str(t) == [type |-> "String", value |-> t]
Arr(items) == [type |-> "Array", value |-> [i \in DOMAIN items |-> Str(items[i])]]

Assign(key, value) == [type |-> "assignment", key |-> key, value |-> value]
Header(parts) == [type |-> "header", parts |-> parts]
Plainly(type) == [type |-> type]

(* A value that each setting may have and that is not its default.          *)
Example(key) ==
  LET n == key[Len(key)] IN
  CASE n = "dry_run" -> Bool(TRUE)
    [] n = "high_watermark_percent" -> Int64(99)
    [] n = "enabled_backends" -> Arr(<<"podman", "docker">>)
    [] n \in {"protected_images", "protected_volumes", "protected_labels"}
         -> Arr(<<"app">>)
    [] n \in {"docker_host", "docker_context", "host", "context"} -> Str("h")
    [] OTHER -> Int64(5)

SomeLines ==
  {Header(<<"runtime">>), Header(<<"safety">>), Header(<<"docker">>),
   Plainly("blank"), Plainly("malformed"),
   Assign(<<"dry_run">>, Bool(TRUE)), Assign(<<"dry_run">>, Bool(FALSE)),
   Assign(<<"runtime", "dry_run">>, Bool(FALSE)),
   Assign(<<"safety", "dry_run">>, Bool(TRUE)), Assign(<<"dry_run">>, Int64(1)),
   Assign(<<"interval_secs">>, Int64(0)), Assign(<<"host">>, Str("h")),
   Assign(<<"docker_host">>, Str(" ")), Assign(<<"docker_context">>, Str("h")),
   Assign(<<"high_watermark_percent">>, Int64(70)),
   Assign(<<"high_watermark_percent">>, Int64(256)),
   Assign(<<"target_watermark_percent">>, Int64(-1)),
   Assign(<<"target_watermark_percent">>, Int64(85)),
   Assign(<<"enabled_backends">>, Arr(<<"lxc">>)),
   Assign(<<"enabled_backends">>, [type |-> "Array", value |-> <<Int64(1)>>])}

DryPodman(names) == <<Assign(<<"dry_run">>, Bool(TRUE)),
                      Assign(<<"enabled_backends">>, Arr(names))>>

(* The dry run is taken back, put in force, or the file is gone.            *)
MCEdits == {<<Assign(<<"enabled_backends">>, Arr(<<"podman">>))>>,
            DryPodman(<<"podman">>), None}

MCFiles ==
  {None, <<>>}
  \cup {<<Assign(k, Example(k))>> : k \in KnownKeys}
  \cup {<<Assign(<<k[2]>>, Example(k)), Header(<<k[1]>>),
          Assign(<<k[2]>>, Example(k))>> : k \in {l \in KnownKeys : Len(l) = 2}}
  \cup {<<l, m>> : l, m \in SomeLines} \cup {<<l, m, n>> : l, m, n \in SomeLines}

-----------------------------------------------------------------------------
Arg(name, text, number) ==
  [option |-> name, text |-> text, number |-> number]

MCCommandLines ==
  LET Some == {Arg("--once", None, None), Arg("--ticks", None, 0),
               Arg("--ticks", None, 2), Arg("--ticks", None, None),
               Arg("--backend", "Docker", None),
               Arg("--backend", "podman", None),
               Arg("--backend", "lxc", None), Arg("--config", "", None),
               Arg("--config", "app", None), Arg("--help", None, None),
               Arg("--verbose", None, None)}
  IN  {<<o>> : o \in Some} \cup {<<o, p>> : o, p \in Some}

NoSocket == [p \in SocketPaths |-> None]

(* /var/run and /run, and the homes of root and of a user: apart, linked to *)
(* each other, to a Desktop.                                                *)
MCLayouts ==
  {<<s1, s2, d1, d2>>, <<s1, s1, d1, d2>>, <<d1, None, None, d1>>}

MCBoots ==
  [options : {<<>>}, file : MCFiles, sockets : {NoSocket}]
  \cup [options : MCCommandLines,
        file : {DryPodman(<<"podman">>), DryPodman(<<"podman", " Docker">>),
                DryPodman(<<>>), DryPodman(<<"Docker", "lxc">>)},
        sockets : {NoSocket}]
  \cup [options : {<<>>}, file : {<<>>}, sockets : MCLayouts]
=============================================================================
