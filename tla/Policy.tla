------------------------------- MODULE Policy -------------------------------
(***************************************************************************)
(* The fail-closed policy engine (src/src/policy.rs): which discovered      *)
(* artifacts may be considered for deletion at all, and for the others the  *)
(* one reason each of them is skipped with.                                 *)
(*                                                                         *)
(* Strings are members of Text; what the code does to them before it        *)
(* compares them (str::trim) is the function Trim.  Option<bool> is a       *)
(* member of Flags: "yes", "no" or "unknown".                               *)
(***************************************************************************)
EXTENDS Integers

CONSTANTS
  Text,               \* the strings that occur as names, labels, list entries
  Trim,               \* str::trim on those strings
  Blank,              \* the empty string
  None,               \* an absent optional value
  Backends,           \* BackendKind
  ProtectedImages,    \* the three allowlists of CleanupConfig
  ProtectedVolumes,
  ProtectedLabels,
  MinUnusedAgeDays    \* CleanupConfig::min_unused_age_days

(* The reasons rejection_reason may return. *)
Reasons ==
  {"metadata_incomplete", "metadata_ambiguous", "candidate_marked_protected",
   "protected_image_allowlist", "protected_volume_allowlist",
   "protected_label_allowlist", "candidate_in_use", "candidate_in_use_unknown",
   "candidate_referenced", "candidate_referenced_unknown",
   "candidate_age_unknown", "candidate_too_new"}

ASSUME PolicyAssumption ==
  /\ Blank \in Text
  /\ Trim \in [Text -> Text]
  /\ None \notin Nat
  /\ None \notin Reasons
  /\ None \notin Text
  /\ ProtectedImages \subseteq Text
  /\ ProtectedVolumes \subseteq Text
  /\ ProtectedLabels \subseteq Text
  /\ MinUnusedAgeDays \in Nat

Flags == {"yes", "no", "unknown"}

Kinds == {"Container", "Image", "Volume", "BuildCache", "Unknown"}

(* CandidateArtifact, without the discovery timestamp, which nothing reads. *)
Candidate ==
  [identifier         : Text,
   display_name       : Text \cup {None},
   labels             : SUBSET Text,
   backend            : Backends,
   resource_kind      : Kinds,
   size_bytes         : Nat \cup {None},
   age_days           : Nat \cup {None},
   in_use             : Flags,
   referenced         : Flags,
   protected          : BOOLEAN,
   metadata_complete  : BOOLEAN,
   metadata_ambiguous : BOOLEAN]

(* Mutated form of ValueMatchesAllowlist: allowlist entries compared raw. *)
UntrimmedAllowlist(value, allowlist) ==
  Trim[value] # Blank /\ Trim[value] \in allowlist

ValueMatchesAllowlist(value, allowlist) ==
  /\ Trim[value] # Blank
  /\ \E configured \in allowlist :
       Trim[configured] # Blank /\ Trim[configured] = Trim[value]

NameMatches(c, allowlist) ==
  \/ ValueMatchesAllowlist(c.identifier, allowlist)
  \/ c.display_name # None /\ ValueMatchesAllowlist(c.display_name, allowlist)

IsProtectedImage(c) ==
  c.resource_kind = "Image" /\ NameMatches(c, ProtectedImages)

IsProtectedVolume(c) ==
  c.resource_kind = "Volume" /\ NameMatches(c, ProtectedVolumes)

MatchesProtectedLabel(c) ==
  \E label \in c.labels : ValueMatchesAllowlist(label, ProtectedLabels)

(* None when the candidate is accepted; the first failing check otherwise. *)
RejectionReason(c) ==
  IF ~c.metadata_complete THEN "metadata_incomplete"
  ELSE IF c.metadata_ambiguous THEN "metadata_ambiguous"
  ELSE IF c.protected THEN "candidate_marked_protected"
  ELSE IF IsProtectedImage(c) THEN "protected_image_allowlist"
  ELSE IF IsProtectedVolume(c) THEN "protected_volume_allowlist"
  ELSE IF MatchesProtectedLabel(c) THEN "protected_label_allowlist"
  ELSE IF c.in_use = "yes" THEN "candidate_in_use"
  ELSE IF c.in_use = "unknown" THEN "candidate_in_use_unknown"
  ELSE IF c.referenced = "yes" THEN "candidate_referenced"
  ELSE IF c.referenced = "unknown" THEN "candidate_referenced_unknown"
  ELSE IF c.age_days = None THEN "candidate_age_unknown"
  ELSE IF c.age_days < MinUnusedAgeDays THEN "candidate_too_new"
  ELSE None
=============================================================================
