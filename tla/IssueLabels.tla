---------------------------- MODULE IssueLabels -----------------------------
(***************************************************************************)
(* pm/github.py: the labels of the issues through which the bots hand      *)
(* stories to each other.  set_status_label, set_art_label and             *)
(* set_design_label read an issue's labels (GET) and write them back       *)
(* (PATCH) with one group changed; update_issue writes them outright.  The *)
(* bots are processes of their own, so other requests come in between.     *)
(***************************************************************************)
EXTENDS Naturals, FiniteSets

CONSTANTS
  Bots,     \* the processes that call the client
  Issues,
  Values    \* [Groups -> the labels considered of each group]

(* The prefixes of goals.py's vocabulary, and every other label.           *)
Swapped == {"status", "art", "design"}
Groups  == Swapped \cup {"other"}
Labels  == UNION {[group : {g}, value : Values[g]] : g \in Groups}

\* A label argument that is empty once it is stripped.
Empty == [group |-> "none", value |-> "none"]

Of(ls, g) == {l \in ls : l.group = g}

OneStatus(ls) == Cardinality(Of(ls, "status")) = 1

ASSUME IssueLabelsAssumption == IsFiniteSet(Labels)

VARIABLES
  labels,   \* GitHub: per issue its labels
  call,     \* per bot the call that is under way
  settled   \* history: issues last given one status label in a quiet moment

vars == <<labels, call, settled>>

Idle == [pc |-> "idle"]

(* A setter is named by its group; its label may be of any group.  read:   *)
(* what its GET returned.                                                  *)
Calls ==
  {Idle} \cup [pc : {"get", "patch"}, issue : Issues, group : Swapped,
               label : Labels \cup {Empty}, read : SUBSET Labels]

TypeOK == /\ labels \in [Issues -> SUBSET Labels]
          /\ call \in [Bots -> Calls]
          /\ settled \subseteq Issues

(* create_issue takes any labels, or none.                                 *)
Init == /\ labels \in [Issues -> SUBSET Labels]
        /\ call = [b \in Bots |-> Idle]
        /\ settled = {i \in Issues : OneStatus(labels[i])}

\* Mutant of Takes: the check for an empty status is forgotten.
TakesAny(g, l) == l \in Labels \cup {Empty}

(* Only set_status_label refuses an empty label.                           *)
Takes(g, l) == IF g = "status" THEN l \in Labels ELSE l \in Labels \cup {Empty}

Request(b) ==
  /\ call[b] = Idle
  /\ \E i \in Issues, g \in Swapped, l \in Labels \cup {Empty} :
       /\ Takes(g, l)
       /\ call' = [call EXCEPT ![b] = [pc |-> "get", issue |-> i, group |-> g,
                                       label |-> l, read |-> {}]]
  /\ UNCHANGED <<labels, settled>>

Get(b) ==
  /\ call[b].pc = "get"
  /\ call' = [call EXCEPT ![b].pc = "patch", ![b].read = labels[call[b].issue]]
  /\ UNCHANGED <<labels, settled>>

\* Mutant of Kept: the labels of all three groups are dropped.
KeptOther(read, g) == Of(read, "other")

Kept(read, g) == read \ Of(read, g)

\* Mutant of New: the empty label is written as well.
NewAsGiven(l) == {l}

New(l) == {l} \ {Empty}

(* Nobody else is about to write labels it has read.                       *)
Alone(b, i) == \A d \in Bots \ {b} : ~(call[d].pc = "patch" /\ call[d].issue = i)

(* The history: a caller gives the issue one status label, or has the      *)
(* wrong setter write a status label or the status setter another one.     *)
Settled(b, i, one) == IF one /\ Alone(b, i) THEN settled \cup {i} ELSE settled

Astray(c) == c.label # Empty /\ (c.label.group = "status") # (c.group = "status")

Write(b) ==
  LET c == call[b]
  IN  /\ labels' = [labels EXCEPT ![c.issue] = Kept(c.read, c.group) \cup New(c.label)]
      /\ settled' = IF Astray(c) THEN settled \ {c.issue}
                                 ELSE Settled(b, c.issue, c.group = "status")

Return(b) == call' = [call EXCEPT ![b] = Idle]

Patch(b) ==
  /\ call[b].pc = "patch"
  /\ Write(b)
  /\ Return(b)

(* A request fails and the call returns an error text; a PATCH may have    *)
(* been carried out.  A bot that dies in a call leaves the same behind.    *)
Fails(b) ==
  /\ call[b] # Idle
  /\ UNCHANGED <<labels, settled>> \/ (call[b].pc = "patch" /\ Write(b))
  /\ Return(b)

(* update_issue with labels: one PATCH of any list.                        *)
UpdateIssue(b) ==
  /\ call[b] = Idle
  /\ \E i \in Issues, ls \in SUBSET Labels :
       /\ labels' = [labels EXCEPT ![i] = ls]
       /\ settled' = IF OneStatus(ls) THEN Settled(b, i, TRUE) ELSE settled \ {i}
  /\ UNCHANGED call

Next == \E b \in Bots : Request(b) \/ Get(b) \/ Patch(b) \/ Fails(b) \/ UpdateIssue(b)

Spec == Init /\ [][Next]_vars

-----------------------------------------------------------------------------
(* The state machine of the goal lifecycle relies on exactly one status    *)
(* label per issue.  Once an issue was given one (by set_status_label, by  *)
(* update_issue or when it was created) while no other call was between    *)
(* its GET and its PATCH, it has exactly one from then on: however setters *)
(* overlap and fail, they swap it, and neither lose nor double it.  Only a *)
(* caller that writes another list, or has a setter write a label of the   *)
(* wrong kind, ends that; the next status set in a quiet moment mends it.  *)
OneStatusLabel == \A i \in settled : OneStatus(labels[i])

(* A setter whose issue did not change since it read it changes the labels *)
(* of its own group only, apart from the label it was asked for.           *)
Wrote(b) == call[b].pc = "patch" /\ call'[b] = Idle /\ labels' # labels

ChangesOnlyItsGroup(b) ==
  LET c   == call[b]
      now == labels[c.issue]
  IN  \A g \in Groups :
        Of(labels'[c.issue], g) = Of(New(c.label), g) \cup (IF g = c.group THEN {} ELSE Of(now, g))

FreshWritesAreLocal ==
  [][\A b \in Bots : (Wrote(b) /\ call[b].read = labels[call[b].issue]) =>
       ChangesOnlyItsGroup(b)]_vars

-----------------------------------------------------------------------------
(* Swap the issue's label of one group, leaving every other label intact.  *)
OtherLabelsIntact == [][\A b \in Bots : Wrote(b) => ChangesOnlyItsGroup(b)]_vars
=============================================================================
