---------------------------- MODULE ComposeLabels ----------------------------
(***************************************************************************)
(* SetServiceLabel, which edits the labels of every service in the YAML    *)
(* tree of a compose file, and parseLabels, by which a deploy reads them.  *)
(*                                                                         *)
(* The labels of a service are a tree node: a mapping and a list are       *)
(* sequences of entries, each a key and a value; the value of a list's     *)
(* item without "=" is Bare.  The rest of a compose file, which is         *)
(* written back as it was read, and the errors of a file without services  *)
(* are left out.                                                           *)
(***************************************************************************)
EXTENDS Naturals, Sequences, SequencesExt

CONSTANTS LabelKeys, LabelValues,  \* strings, no value is the empty one
          Empty,                   \* ""
          Bare,                    \* an item of a list that is a key alone
          MaxEntries               \* bound on the entries of a service

ASSUME LabelsAssumption == /\ Empty \notin LabelValues
                           /\ Bare \notin LabelValues \cup {Empty}
                           /\ MaxEntries \in Nat

Entries == LabelKeys \X (LabelValues \cup {Empty})
Items   == LabelKeys \X (LabelValues \cup {Empty, Bare})

\* A mapping with a key twice is no YAML that can be decoded.
EachKeyOnce(content) == \A i, j \in DOMAIN content : content[i][1] = content[j][1] => i = j
Mappings == {c \in SeqOf(Entries, MaxEntries) : EachKeyOnce(c)}
Lists    == SeqOf(Items, MaxEntries)

Node(kind, content) == [kind |-> kind, content |-> content]

\* The node, or the mapping or list that an alias stands for.
Plain  == {Node("map", c) : c \in Mappings} \cup {Node("list", c) : c \in Lists}
            \cup {Node(kind, <<>>) : kind \in {"none", "scalar"}}
Labels == Plain \cup {Node("alias", c) : c \in Mappings}

\* A service is a mapping, or null or an alias of a mapping outside of the
\* services; a mapping may inherit labels by a merge key.
ServiceNode(kind, own, inherited) ==
    [kind |-> kind, labels |-> own, inherited |-> inherited]

-----------------------------------------------------------------------------
(* parseLabels, of what the decoder makes of a service. *)

ItemValue(e) == IF e[2] = Bare THEN Empty ELSE e[2]

Positions(content, key) == {i \in DOMAIN content : content[i][1] = key}

\* The last item of a key is the one that counts.
Parsed(content) ==
    [key \in {content[i][1] : i \in DOMAIN content} |->
       ItemValue(content[CHOOSE i \in Positions(content, key) :
                           \A j \in Positions(content, key) : j <= i])]

ParseLabels(svc) ==
    LET node == IF svc.labels.kind = "none" THEN svc.inherited ELSE svc.labels
    IN  Parsed(node.content)

-----------------------------------------------------------------------------
(* setServiceLabelOnNode. *)

Unlabelled(svc) == [svc EXCEPT !.labels = Node("none", <<>>)]
Relabelled(svc, kind, content) == [svc EXCEPT !.labels = Node(kind, content)]

\* Mutant: an item that is the key alone is not found.
FindWithValue(content, key) ==
    LET found == {i \in Positions(content, key) : content[i][2] # Bare}
    IN  IF found = {} THEN 0 ELSE CHOOSE i \in found : \A j \in found : i <= j

\* The first entry of the key, or 0.
Find(content, key) ==
    LET found == Positions(content, key)
    IN  IF found = {} THEN 0 ELSE CHOOSE i \in found : \A j \in found : i <= j

\* labels that become empty are removed, also those that were.
WithoutEntry(svc, key) ==
    LET content == svc.labels.content
        i       == Find(content, key)
        left    == IF i = 0 THEN content ELSE RemoveAt(content, i)
    IN  IF left = <<>> THEN Unlabelled(svc) ELSE Relabelled(svc, svc.labels.kind, left)

WithEntry(svc, key, value) ==
    LET content == svc.labels.content
        i       == Find(content, key)
    IN  Relabelled(svc, svc.labels.kind,
                   IF i = 0 THEN Append(content, <<key, value>>)
                   ELSE [content EXCEPT ![i] = <<key, value>>])

Refused(svc) == svc.kind = "map" /\ svc.labels.kind = "alias"

LabelOnNode(svc, key, value) ==
    CASE svc.labels.kind \in {"map", "list"} /\ value = Empty -> WithoutEntry(svc, key)
      [] svc.labels.kind \in {"map", "list"} /\ value # Empty -> WithEntry(svc, key, value)
      [] svc.labels.kind \in {"none", "scalar"} /\ value = Empty -> svc
      [] svc.labels.kind \in {"none", "scalar"} /\ value # Empty ->
            Relabelled(svc, "map", <<<<key, value>>>>)

(* SetServiceLabel: services that are not mappings are left as they are, and
   labels of another kind fail the whole call. *)
SetServiceLabel(services, key, value) ==
    IF \E s \in DOMAIN services : Refused(services[s]) THEN [error |-> TRUE]
    ELSE [error |-> FALSE,
          services |-> [s \in DOMAIN services |->
                          IF services[s].kind = "map"
                            THEN LabelOnNode(services[s], key, value)
                            ELSE services[s]]]

-----------------------------------------------------------------------------
(***************************************************************************)
(* Properties                                                              *)
(***************************************************************************)
Labelled(labels, key, value) ==
    [k \in (DOMAIN labels \ {key}) \cup (IF value = Empty THEN {} ELSE {key}) |->
       IF k = key THEN value ELSE labels[k]]

SetsLabel(services, key, value) ==
    LET set == SetServiceLabel(services, key, value)
    IN  /\ ~set.error
        /\ \A s \in DOMAIN services :
             ParseLabels(set.services[s]) = Labelled(ParseLabels(services[s]), key, value)

NoLabels == Node("none", <<>>)
OwnLabels(own) == ServiceNode("map", own, NoLabels)

(* What a deploy reads of a compose file that was relabelled: every service
   has the label with its new value, or lacks it if the value is empty, and has
   all its other labels as before, in whichever form they are written
   (compose_labels.go:17-76, 113-189 against compose.go:236-258).  For labels
   of a service's own and keys that a list does not hold twice; the services
   other than "labelled" have no labels. *)
LabelIsSetIn(declared) ==
    \A labelled \in declared, own \in Plain, key \in LabelKeys,
       value \in LabelValues \cup {Empty} :
        (\A i, j \in Positions(own.content, key) : i = j)
            => SetsLabel([s \in declared |-> OwnLabels(IF s = labelled THEN own ELSE NoLabels)],
                         key, value)

\* Not kept: the same for a key that a list holds twice.  The first is set or
\* removed (compose_labels.go:143-148), the last is read (compose.go:250-252).
DuplicatesAreSet ==
    \A own \in Plain, key \in LabelKeys, value \in LabelValues \cup {Empty} :
        SetsLabel(<<OwnLabels(own)>>, key, value)

\* Not kept: "sets or removes a label on every service" (compose_labels.go:10).
\* Aliases of labels are refused, a service that is an alias is left as it is,
\* and labels a service inherits are hidden by the one that is set, or not
\* removed.
EveryServiceIsSet ==
    \A own \in Labels, kind \in {"map", "alias"}, inherited \in {NoLabels} \cup Labels,
       key \in LabelKeys, value \in LabelValues \cup {Empty} :
          EachKeyOnce(own.content) =>
            SetsLabel(<<ServiceNode(kind, own, inherited)>>, key, value)
=============================================================================
