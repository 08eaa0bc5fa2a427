----------------------------- MODULE CrownJewels -----------------------------
(***************************************************************************)
(* What makes a data store a target.  Its owner tags it, a classifier      *)
(* reports what it holds, an event posted by hand says so, or its name     *)
(* suggests it.  Each source's event is judged on its own by the           *)
(* normalizer, and the store merges what comes out over what it had; the   *)
(* prioritisation ranks a target by the basis that results.                *)
(***************************************************************************)
EXTENDS Naturals

CONSTANT MaxTellings   \* bound: events and changes of the estate

VARIABLES
  suggestive,   \* the store's name suggests sensitive data
  tagged,       \* its owner's tags say it is sensitive
  holds,        \* what the classifier found in it: "nothing", "sensitive", "ordinary"
  node,         \* its node in the graph
  tellings

jewelVars == <<suggestive, tagged, holds, node, tellings>>

\* "none" is a property that is not there.
Untold == [jewel |-> "none", basis |-> "none", classification |-> "none"]

JewelInit ==
  /\ suggestive \in BOOLEAN /\ tagged \in BOOLEAN
  /\ holds \in {"nothing", "sensitive", "ordinary"}
  /\ node = Untold
  /\ tellings = 0

Telling == tellings < MaxTellings /\ tellings' = tellings + 1

---------------------------------------------------------------------------
(***************************************************************************)
(* What a source's event says of the store.                                *)
(***************************************************************************)

MarkCrownJewelFromTags(props) ==
  IF ~tagged THEN props
  ELSE [props EXCEPT !.jewel = "yes", !.basis = IF @ = "none" THEN "tagged" ELSE @]

\* A classifier's record: the basis, whether or not the kind is a sensitive one.
Classified(kind) == [Untold EXCEPT !.basis = "classified", !.classification = kind]

\* The owner's word, posted as an event of their own.
OwnersWord(word) == [Untold EXCEPT !.jewel = word]

---------------------------------------------------------------------------
(***************************************************************************)
(* The normalizer and the store.                                           *)
(***************************************************************************)

ClassifyCrownJewels(props) ==
  IF props.classification # "sensitive" \/ props.jewel # "none" THEN props
  ELSE [props EXCEPT !.jewel = "yes", !.basis = IF @ = "none" THEN "classified" ELSE @]

InferCrownJewels(props) ==
  IF ~suggestive \/ props.jewel # "none" THEN props
  ELSE [props EXCEPT !.jewel = "yes", !.basis = "inferred"]

\* The later write wins, per property, and takes nothing away.
Merged(old, new) == [k \in DOMAIN old |-> IF new[k] = "none" THEN old[k] ELSE new[k]]

Told(props) == node' = Merged(node, InferCrownJewels(ClassifyCrownJewels(props)))

\* A pull of the cloud lists the store with its tags.
CloudEvent ==
  /\ Telling
  /\ Told(MarkCrownJewelFromTags(Untold))
  /\ UNCHANGED <<suggestive, tagged, holds>>

ClassifierEvent ==
  /\ Telling /\ holds # "nothing"
  /\ Told(Classified(holds))
  /\ UNCHANGED <<suggestive, tagged, holds>>

PostedEvent(word) ==
  /\ Telling
  /\ Told(OwnersWord(word))
  /\ UNCHANGED <<suggestive, tagged, holds>>

Retag ==
  /\ Telling
  /\ tagged' = ~tagged
  /\ UNCHANGED <<suggestive, holds, node>>

JewelNext ==
  CloudEvent \/ ClassifierEvent \/ (\E word \in {"yes", "no"} : PostedEvent(word)) \/ Retag

\* What the target is worth to the prioritisation, in percent.
JewelWeight(props) ==
  CASE props.basis = "classified" -> 100
    [] props.basis = "tagged" -> 70
    [] props.basis = "inferred" -> 40
    [] OTHER -> IF props.jewel = "yes" THEN 60 ELSE 0

JewelSpec == JewelInit /\ [][JewelNext]_jewelVars

---------------------------------------------------------------------------
(***************************************************************************)
(* Properties.                                                             *)
(***************************************************************************)

\* What MarkCrownJewelFromTags says of a classifier's word: "a tag must never demote what
\* a real classifier established".
TagsNeverDemote ==
  [][node.basis = "classified" => JewelWeight(node') >= JewelWeight(node)]_jewelVars
=============================================================================
