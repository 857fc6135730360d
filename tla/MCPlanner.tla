----------------------------- MODULE MCPlanner -----------------------------
(* Values of the constants of PlannerLoop for TLC: every list of at most    *)
(* MaxCandidates candidates drawn from Templates.                           *)
EXTENDS PlannerLoop

CONSTANT MaxCandidates

MCText == {"", " ", "app", "keep", " keep "}

MCTrim == [t \in MCText |-> CASE t \in {"", " "} -> ""
                              [] t \in {"keep", " keep "} -> "keep"
                              [] OTHER -> t]

Deletable(kind, size) ==
  [identifier |-> "app", display_name |-> None, labels |-> {},
   backend |-> "Docker", resource_kind |-> kind, size_bytes |-> size,
   age_days |-> 7, in_use |-> "no", referenced |-> "no", protected |-> FALSE,
   metadata_complete |-> TRUE, metadata_ambiguous |-> FALSE]

(* Sizes around a cap of 5: free, fitting, filling it, over it, unknown. *)
Sized ==
  {Deletable("Image", 0), Deletable("Image", 2), Deletable("Container", 3),
   Deletable("Volume", 5), Deletable("BuildCache", 4),
   Deletable("BuildCache", 9), Deletable("Volume", None),
   Deletable("BuildCache", None)}

(* One candidate per check of the policy, otherwise deletable. *)
Rejected ==
  LET d == Deletable("Image", 1) IN
  {[d EXCEPT !.metadata_complete = FALSE], [d EXCEPT !.metadata_ambiguous = TRUE],
   [d EXCEPT !.protected = TRUE], [d EXCEPT !.display_name = "keep"],
   [d EXCEPT !.labels = {"app", " keep "}], [d EXCEPT !.in_use = "yes"],
   [d EXCEPT !.in_use = "unknown"], [d EXCEPT !.referenced = "yes"],
   [d EXCEPT !.referenced = "unknown"], [d EXCEPT !.age_days = None],
   [d EXCEPT !.age_days = 6], [d EXCEPT !.backend = "Podman"],
   [Deletable("Volume", 1) EXCEPT !.identifier = " keep "]}

(* Matches of an allowlist that do not protect: another kind of resource,   *)
(* a blank name.                                                            *)
NotProtected ==
  {[Deletable("Container", 1) EXCEPT !.identifier = "keep"],
   [Deletable("Image", 1) EXCEPT !.display_name = " "]}

Templates == Sized \cup Rejected \cup NotProtected

MCCandidateLists == BoundedSeq(Templates, MaxCandidates)
=============================================================================
