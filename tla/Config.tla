------------------------------- MODULE Config -------------------------------
(***************************************************************************)
(* What a configuration file means (src/src/config.rs): the keys it may     *)
(* have, each setting under up to three names, the types of their values,   *)
(* and the checks a file has to pass as a whole.  Daemon reads the file.    *)
(*                                                                         *)
(* A key is the sequence of its parts: <<"runtime", "dry_run">>.  The       *)
(* literals are taken as parsed: records of a type and a value.             *)
(***************************************************************************)
EXTENDS Policy, Sequences, FiniteSets

CONSTANT MaxU8     \* largest u8

ASSUME ConfigAssumption == MaxU8 \in Nat

Top(name) == <<name>>
In(section, name) == <<section, name>>

(* from_entries: the names under which each setting is looked up.           *)
Aliases ==
  [interval_secs            |-> {Top("interval_secs"), In("runtime", "interval_secs")},
   high_watermark_percent   |-> {Top("high_watermark_percent"),
                                 In("thresholds", "high_watermark_percent"),
                                 In("watermarks", "high_watermark_percent")},
   target_watermark_percent |-> {Top("target_watermark_percent"),
                                 In("thresholds", "target_watermark_percent"),
                                 In("watermarks", "target_watermark_percent")},
   min_unused_age_days      |-> {Top("min_unused_age_days"),
                                 In("cleanup", "min_unused_age_days")},
   max_delete_per_run_gb    |-> {Top("max_delete_per_run_gb"),
                                 In("cleanup", "max_delete_per_run_gb")},
   dry_run                  |-> {Top("dry_run"), In("safety", "dry_run"),
                                 In("runtime", "dry_run")},
   enabled_backends         |-> {Top("enabled_backends"),
                                 In("backends", "enabled_backends")},
   protected_images         |-> {Top("protected_images"),
                                 In("allowlists", "protected_images"),
                                 In("safety", "protected_images")},
   protected_volumes        |-> {Top("protected_volumes"),
                                 In("allowlists", "protected_volumes"),
                                 In("safety", "protected_volumes")},
   protected_labels         |-> {Top("protected_labels"),
                                 In("allowlists", "protected_labels"),
                                 In("safety", "protected_labels")},
   docker_host              |-> {Top("docker_host"), In("docker", "host")},
   docker_context           |-> {Top("docker_context"), In("docker", "context")}]

Fields ==
  {"interval_secs", "high_watermark_percent", "target_watermark_percent",
   "min_unused_age_days", "max_delete_per_run_gb", "dry_run",
   "enabled_backends", "protected_images", "protected_volumes",
   "protected_labels", "docker_host", "docker_context"}

(* is_known_key, a list of its own: the settings that have a name at the    *)
(* top, and the names in each section.                                      *)
KnownKeys ==
  {Top(f) : f \in Fields}
  \cup {In("runtime", n) : n \in {"interval_secs", "dry_run"}}
  \cup {In(s, n) : s \in {"thresholds", "watermarks"},
                   n \in {"high_watermark_percent", "target_watermark_percent"}}
  \cup {In("cleanup", n) : n \in {"min_unused_age_days", "max_delete_per_run_gb"}}
  \cup {In("backends", "enabled_backends"), In("safety", "dry_run")}
  \cup {In(s, n) : s \in {"allowlists", "safety"},
                   n \in {"protected_images", "protected_volumes",
                          "protected_labels"}}
  \cup {In("docker", n) : n \in {"host", "context"}}

(* Config::default *)
Default ==
  [interval_secs |-> 900, high_watermark_percent |-> 85,
   target_watermark_percent |-> 70, min_unused_age_days |-> 30,
   max_delete_per_run_gb |-> 10, dry_run |-> FALSE,
   enabled_backends |-> <<"docker">>, protected_images |-> <<>>,
   protected_volumes |-> <<>>, protected_labels |-> <<>>,
   docker_host |-> None, docker_context |-> None]

(* take_u64, take_u8, take_bool, take_string_array, take_optional_string:   *)
(* whether a value has the type of its setting, and what it is then.        *)
IsU64(v) == v.type = "Integer" /\ v.value >= 0

HasType(f, v) ==
  CASE f \in {"interval_secs", "min_unused_age_days", "max_delete_per_run_gb"}
         -> IsU64(v)
    [] f \in {"high_watermark_percent", "target_watermark_percent"}
         -> IsU64(v) /\ v.value <= MaxU8
    [] f = "dry_run" -> v.type = "Bool"
    [] f \in {"docker_host", "docker_context"} -> v.type = "String"
    [] OTHER -> v.type = "Array"
                /\ \A i \in DOMAIN v.value : v.value[i].type = "String"

Plain(v) ==
  IF v.type = "Array"
  THEN [i \in DOMAIN v.value |-> v.value[i].value]
  ELSE v.value

(* find_single *)
Given(entries, f) == Aliases[f] \cap DOMAIN entries

(* Mutated form of TakesOne: a setting may have several names in the file.  *)
TakesAny(entries, f) == \A k \in Given(entries, f) : HasType(f, entries[k])

TakesOne(entries, f) ==
  /\ \A k, l \in Given(entries, f) : k = l
  /\ \A k \in Given(entries, f) : HasType(f, entries[k])

Settings(entries) ==
  [f \in Fields |->
     IF Given(entries, f) = {}
     THEN Default[f]
     ELSE Plain(entries[CHOOSE k \in Given(entries, f) : TRUE])]

(* Config::validate *)
NonEmpty(text) == text # None => Trim[text] # Blank

(* Mutated form of Valid: equal watermarks are accepted.                    *)
ValidUnordered(s) ==
  /\ s.interval_secs # 0
  /\ s.high_watermark_percent <= 100 /\ s.target_watermark_percent <= 100
  /\ s.target_watermark_percent <= s.high_watermark_percent
  /\ NonEmpty(s.docker_host) /\ NonEmpty(s.docker_context)
  /\ s.docker_host = None \/ s.docker_context = None

Valid(s) ==
  /\ s.interval_secs # 0
  /\ s.high_watermark_percent <= 100 /\ s.target_watermark_percent <= 100
  /\ s.target_watermark_percent < s.high_watermark_percent
  /\ NonEmpty(s.docker_host) /\ NonEmpty(s.docker_context)
  /\ s.docker_host = None \/ s.docker_context = None

(* from_entries: none of its checks fails. *)
Loads(entries) ==
  /\ \A f \in Fields : TakesOne(entries, f)
  /\ DOMAIN entries \subseteq KnownKeys
  /\ Valid(Settings(entries))
=============================================================================
