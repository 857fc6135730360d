-------------------------- MODULE ContainerRuntime --------------------------
(***************************************************************************)
(* The container runtime beside prune-guard (external), as far as the       *)
(* backends look at it: its containers, images and volumes, the users who   *)
(* change them at any time, and how much of a container an inspection with  *)
(* CONTAINER_INSPECT_TEMPLATE lets the backends see.                        *)
(***************************************************************************)
EXTENDS Integers, Sequences

CONSTANTS
  Containers,       \* container ids; an id is never used twice
  Images, Volumes,
  ImageOf,          \* image of each container
  MountsOf,         \* volumes each container mounts
  Texts,            \* what labels are made of, beside the separators
  LabelsOf          \* labels of each object, in the order of their keys

Objects == Containers \cup Images \cup Volumes

(* A label is the sequence of its pieces of text and of the separators of   *)
(* the backends' templates and parsers that stand between them.             *)
Breaks == {"tab", "line break"}
Separators == Breaks \cup {";"}

ASSUME RuntimeAssumption ==
  /\ ImageOf \in [Containers -> Images]
  /\ MountsOf \in [Containers -> SUBSET Volumes]
  /\ Texts \cap Separators = {}
  /\ LabelsOf \in [Objects -> Seq(Seq(Texts \cup Separators))]

VARIABLES
  container,         \* the runtime's containers, by id
  images, volumes    \* those that exist

runtimeVars == <<container, images, volumes>>

Stages == {"future", "stopped", "running", "removed"}

RuntimeTypeOK ==
  /\ container \in [Containers -> Stages]
  /\ images \subseteq Images /\ volumes \subseteq Volumes

Existing == {c \in Containers : container[c] \in {"stopped", "running"}}

References(c, i) == ImageOf[c] = i
Mounts(c, v) == v \in MountsOf[c]

-----------------------------------------------------------------------------
(* What the backends see of the labels and the mounts.  An inspection is    *)
(* one line of fields with a tab between them; the labels are a field of    *)
(* their own, the last or, for a container, followed by the mounts.  What   *)
(* is behind a tab is in the next field, and what is behind a line break is *)
(* not read.  A place in the labels is the number of a label and an index   *)
(* in it.                                                                   *)
Places(x) ==
  UNION {{k} \X DOMAIN LabelsOf[x][k] : k \in DOMAIN LabelsOf[x]}

Token(x, p) == LabelsOf[x][p[1]][p[2]]

Before(q, p) == q[1] < p[1] \/ (q[1] = p[1] /\ q[2] < p[2])

BreaksBefore(x, p) ==
  {q \in Places(x) : Before(q, p) /\ Token(x, q) \in Breaks}

Pieces(x) == {p \in Places(x) : Token(x, p) \in Texts}

(* The labels of x leave the fields and the line of its inspection whole.   *)
Clean(x) == \A p \in Places(x) : Token(x, p) \notin Breaks

(* parse_semicolon_entries of the labels: each piece is taken for a label.  *)
ShownLabels(x) ==
  {<<Token(x, p)>> : p \in {p \in Pieces(x) : BreaksBefore(x, p) = {}}}

(* parse_semicolon_entries of the field after the labels: the mounts, or    *)
(* what a tab has moved there.                                              *)
ShownMounts ==
  [c \in Containers |->
     IF Clean(c) THEN MountsOf[c]
     ELSE {Token(c, p) : p \in {p \in Pieces(c) :
             \E q \in Places(c) :
               Token(c, q) = "tab" /\ BreaksBefore(c, p) = {q}}}]

ShowsMount(c, v) == v \in ShownMounts[c]

-----------------------------------------------------------------------------
(* The users.  A new container brings back its image and its volumes if     *)
(* they are gone.                                                           *)
Become(c, from, to) ==
  /\ container[c] = from
  /\ container' = [container EXCEPT ![c] = to]

Create(c) ==
  /\ Become(c, "future", "stopped")
  /\ images' = images \cup {ImageOf[c]}
  /\ volumes' = volumes \cup MountsOf[c]

StartStop(c) ==
  /\ Become(c, "stopped", "running") \/ Become(c, "running", "stopped")
  /\ UNCHANGED <<images, volumes>>

Remove(c) == Become(c, "stopped", "removed") /\ UNCHANGED <<images, volumes>>

RemoveImage(i) ==
  /\ \A c \in Existing : ~References(c, i)
  /\ images' = images \ {i}
  /\ UNCHANGED <<container, volumes>>

RemoveVolume(v) ==
  /\ \A c \in Existing : ~Mounts(c, v)
  /\ volumes' = volumes \ {v}
  /\ UNCHANGED <<container, images>>

UsersStep ==
  \/ \E c \in Containers : Create(c) \/ StartStop(c) \/ Remove(c)
  \/ \E i \in images : RemoveImage(i)
  \/ \E v \in volumes : RemoveVolume(v)
=============================================================================
