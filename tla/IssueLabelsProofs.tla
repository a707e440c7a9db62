-------------------------- MODULE IssueLabelsProofs --------------------------
(***************************************************************************)
(* The label invariant of IssueLabels, for any bots, issues and labels:    *)
(* on a settled issue every call that is about to write has read one       *)
(* status label, and what a setter makes of such labels has one again.     *)
(***************************************************************************)
EXTENDS IssueLabels, FiniteSetTheorems, TLAPS

(* What a setter writes: the label it was given, and of every group but    *)
(* its own what was read.                                                  *)
LEMMA WrittenGroups ==
  ASSUME NEW g \in Swapped, NEW l \in Labels \cup {Empty}, NEW ls \in SUBSET Labels
  PROVE  LET w == Kept(ls, g) \cup New(l)
         IN  /\ w \in SUBSET Labels
             /\ \A h \in Groups : Of(w, h) = Of(New(l), h) \cup (IF h = g THEN {} ELSE Of(ls, h))
BY DEF Kept, New, Of

(* The status setter writes one status label if it is given one.           *)
LEMMA StatusSetterWritesOne ==
  ASSUME NEW l \in Labels, l.group = "status", NEW ls \in SUBSET Labels
  PROVE  OneStatus(Kept(ls, "status") \cup New(l))
<1>1. l # Empty
  BY DEF Empty
<1>2. Of(Kept(ls, "status") \cup New(l), "status") = {l}
  BY <1>1 DEF Kept, New, Of
<1>. QED
  BY <1>2, FS_Singleton DEF OneStatus

(* The other setters leave the status labels as they were read, unless     *)
(* they are given one.                                                     *)
LEMMA OthersKeepStatus ==
  ASSUME NEW g \in Swapped, g # "status", NEW l \in Labels \cup {Empty},
         l.group # "status", NEW ls \in SUBSET Labels, OneStatus(ls)
  PROVE  OneStatus(Kept(ls, g) \cup New(l))
<1>1. Of(Kept(ls, g) \cup New(l), "status") = Of(ls, "status")
  BY DEF Kept, New, Of
<1>. QED
  BY <1>1 DEF OneStatus

(* The calls on a settled issue that are about to write have read one      *)
(* status label, as it has; and a status setter was given a label.         *)
SettledReads ==
  \A i \in settled, b \in Bots :
    call[b].pc = "patch" /\ call[b].issue = i => OneStatus(call[b].read)

StatusGiven ==
  \A b \in Bots : call[b] # Idle /\ call[b].group = "status" => call[b].label \in Labels

IInv == TypeOK /\ OneStatusLabel /\ SettledReads /\ StatusGiven

LEMMA IdleIsACall == Idle \in Calls
BY DEF Calls

LEMMA CallFields ==
  ASSUME TypeOK, NEW b \in Bots, call[b].pc \in {"get", "patch"}
  PROVE  /\ call[b] # Idle
         /\ call[b].issue \in Issues
         /\ call[b].group \in Swapped
         /\ call[b].label \in Labels \cup {Empty}
         /\ call[b].read \in SUBSET Labels
         /\ call[b] = [pc |-> call[b].pc, issue |-> call[b].issue, group |-> call[b].group,
                       label |-> call[b].label, read |-> call[b].read]
BY DEF TypeOK, Calls, Idle

(* What a call writes on its issue.                                        *)
LEMMA WriteKeeps ==
  ASSUME IInv, NEW b \in Bots, call[b].pc = "patch", Write(b), Return(b)
  PROVE  IInv'
<1>. DEFINE c == call[b]
            w == Kept(c.read, c.group) \cup New(c.label)
<1>1. /\ TypeOK
      /\ c # Idle
      /\ c.issue \in Issues
      /\ c.group \in Swapped
      /\ c.label \in Labels \cup {Empty}
      /\ c.read \in SUBSET Labels
  BY CallFields DEF IInv
<1>2. w \in SUBSET Labels
  BY <1>1, WrittenGroups
<1>3. labels' = [labels EXCEPT ![c.issue] = w] /\ call' = [call EXCEPT ![b] = Idle]
  BY DEF Write, Return
<1>4. settled' = settled \/ settled' = settled \ {c.issue} \/ settled' = settled \cup {c.issue}
  BY DEF Write, Settled
<1>5. TypeOK'
  <2>. HIDE DEF w
  <2>. QED
    BY <1>1, <1>2, <1>3, <1>4, IdleIsACall DEF TypeOK
<1>6. StatusGiven'
  BY <1>1, <1>3 DEF IInv, StatusGiven, TypeOK
<1>7. ASSUME c.issue \in settled'
      PROVE  OneStatus(w)
  <2>1. ~Astray(c)
    BY <1>7 DEF Write
  <2>2. CASE c.group = "status"
    <3>1. c.label \in Labels
      BY <1>1, <2>2 DEF IInv, StatusGiven
    <3>2. c.label # Empty
      BY <3>1 DEF Labels, Groups, Swapped, Empty
    <3>3. c.label.group = "status"
      BY <2>1, <2>2, <3>2 DEF Astray
    <3>. QED
      BY <1>1, <2>2, <3>1, <3>3, StatusSetterWritesOne
  <2>3. CASE c.group # "status"
    <3>1. c.label.group # "status"
      BY <2>1, <2>3 DEF Astray, Empty
    <3>2. c.issue \in settled
      BY <1>7, <2>1, <2>3 DEF Write, Settled
    <3>3. OneStatus(c.read)
      BY <3>2 DEF IInv, SettledReads
    <3>. QED
      BY <1>1, <2>3, <3>1, <3>3, OthersKeepStatus
  <2>. QED
    BY <2>2, <2>3
<1>8. OneStatusLabel'
  <2>. HIDE DEF w
  <2>. SUFFICES ASSUME NEW i \in settled'
                PROVE  OneStatus(labels'[i])
    BY DEF OneStatusLabel
  <2>1. CASE i = c.issue
    BY <1>1, <1>3, <1>7, <2>1 DEF TypeOK
  <2>2. CASE i # c.issue
    <3>1. i \in settled /\ i \in Issues
      BY <1>1, <1>4, <2>2 DEF TypeOK
    <3>2. labels'[i] = labels[i]
      BY <1>1, <1>3, <2>2, <3>1 DEF TypeOK
    <3>. QED
      BY <3>1, <3>2 DEF IInv, OneStatusLabel
  <2>. QED
    BY <2>1, <2>2
<1>9. SettledReads'
  <2>. SUFFICES ASSUME NEW i \in settled', NEW d \in Bots,
                       call'[d].pc = "patch", call'[d].issue = i
                PROVE  OneStatus(call'[d].read)
    BY DEF SettledReads
  <2>1. d # b /\ call'[d] = call[d]
    BY <1>1, <1>3 DEF Idle, TypeOK
  <2>2. i \in settled
    <3>1. CASE settled' = settled \/ settled' = settled \ {c.issue}
      BY <3>1
    <3>2. CASE settled' # settled /\ settled' # settled \ {c.issue}
      <4>1. Alone(b, c.issue)
        BY <3>2 DEF Write, Settled
      <4>2. i # c.issue
        BY <2>1, <4>1 DEF Alone
      <4>. QED
        BY <1>4, <3>2, <4>2
    <3>. QED
      BY <3>1, <3>2
  <2>. QED
    BY <2>1, <2>2 DEF IInv, SettledReads
<1>. QED
  BY <1>5, <1>6, <1>8, <1>9 DEF IInv

LEMMA StepKeeps == ASSUME IInv, [Next]_vars PROVE IInv'
<1>1. CASE UNCHANGED vars
  BY <1>1 DEF IInv, vars, TypeOK, OneStatusLabel, SettledReads, StatusGiven
<1>2. ASSUME NEW b \in Bots, Request(b)
      PROVE  IInv'
  <2>1. PICK i \in Issues, g \in Swapped, l \in Labels \cup {Empty} :
          /\ Takes(g, l)
          /\ call' = [call EXCEPT ![b] = [pc |-> "get", issue |-> i, group |-> g,
                                          label |-> l, read |-> {}]]
    BY <1>2 DEF Request
  <2>. DEFINE c == [pc |-> "get", issue |-> i, group |-> g, label |-> l, read |-> {}]
  <2>2. c \in Calls /\ c.pc = "get" /\ (c.group = "status" => c.label \in Labels)
    BY <2>1 DEF Calls, Takes
  <2>3. call' = [call EXCEPT ![b] = c]
    BY <2>1
  <2>. HIDE DEF c
  <2>4. UNCHANGED <<labels, settled>>
    BY <1>2 DEF Request
  <2>5. TypeOK'
    BY <2>2, <2>3, <2>4 DEF IInv, TypeOK
  <2>6. StatusGiven' /\ SettledReads'
    BY <2>2, <2>3, <2>4 DEF IInv, TypeOK, StatusGiven, SettledReads
  <2>. QED
    BY <2>4, <2>5, <2>6 DEF IInv, OneStatusLabel
<1>3. ASSUME NEW b \in Bots, Get(b)
      PROVE  IInv'
  <2>1. TypeOK /\ call[b].pc = "get" /\ UNCHANGED <<labels, settled>>
    BY <1>3 DEF Get, IInv
  <2>2. call[b].issue \in Issues /\ labels[call[b].issue] \in SUBSET Labels
    BY <2>1, CallFields DEF TypeOK
  <2>. DEFINE c == [call[b] EXCEPT !.pc = "patch", !.read = labels[call[b].issue]]
  <2>3. /\ c \in Calls
        /\ c.issue = call[b].issue /\ c.group = call[b].group /\ c.label = call[b].label
        /\ c.read = labels[call[b].issue]
    <3>1. call[b] \in [pc : {"get", "patch"}, issue : Issues, group : Swapped,
                       label : Labels \cup {Empty}, read : SUBSET Labels]
      BY <2>1 DEF TypeOK, Calls, Idle
    <3>. QED
      BY <2>2, <3>1 DEF Calls
  <2>4. call' = [call EXCEPT ![b] = c]
    BY <1>3 DEF Get
  <2>5. call[b] # Idle
    BY <2>1 DEF Idle
  <2>. HIDE DEF c
  <2>6. TypeOK'
    BY <2>1, <2>3, <2>4 DEF TypeOK
  <2>7. StatusGiven'
    BY <2>1, <2>3, <2>4, <2>5 DEF IInv, TypeOK, StatusGiven
  <2>8. SettledReads'
    BY <2>1, <2>3, <2>4 DEF IInv, TypeOK, SettledReads, OneStatusLabel
  <2>. QED
    BY <2>1, <2>6, <2>7, <2>8 DEF IInv, OneStatusLabel
<1>4. ASSUME NEW b \in Bots, Patch(b)
      PROVE  IInv'
  BY <1>4, WriteKeeps DEF Patch
<1>5. ASSUME NEW b \in Bots, Fails(b)
      PROVE  IInv'
  <2>1. CASE call[b].pc = "patch" /\ Write(b)
    BY <1>5, <2>1, WriteKeeps DEF Fails
  <2>2. CASE UNCHANGED <<labels, settled>>
    <3>1. call' = [call EXCEPT ![b] = Idle]
      BY <1>5 DEF Fails, Return
    <3>. QED
      BY <2>2, <3>1, IdleIsACall
         DEF IInv, TypeOK, OneStatusLabel, SettledReads, StatusGiven, Idle
  <2>. QED
    BY <1>5, <2>1, <2>2 DEF Fails
<1>6. ASSUME NEW b \in Bots, UpdateIssue(b)
      PROVE  IInv'
  <2>1. PICK i \in Issues, ls \in SUBSET Labels :
          /\ labels' = [labels EXCEPT ![i] = ls]
          /\ settled' = IF OneStatus(ls) THEN Settled(b, i, TRUE) ELSE settled \ {i}
    BY <1>6 DEF UpdateIssue
  <2>2. UNCHANGED call /\ call[b] = Idle
    BY <1>6 DEF UpdateIssue
  <2>3. TypeOK'
    BY <2>1, <2>2 DEF IInv, TypeOK, Settled
  <2>4. OneStatusLabel'
    <3>. SUFFICES ASSUME NEW k \in settled'
                  PROVE  OneStatus(labels'[k])
      BY DEF OneStatusLabel
    <3>1. CASE k = i
      <4>1. OneStatus(ls)
        BY <2>1, <3>1
      <4>. QED
        BY <2>1, <3>1, <4>1 DEF IInv, TypeOK
    <3>2. CASE k # i
      <4>1. k \in settled /\ k \in Issues
        BY <2>1, <3>2 DEF Settled, IInv, TypeOK
      <4>2. labels'[k] = labels[k]
        BY <2>1, <3>2, <4>1 DEF IInv, TypeOK
      <4>. QED
        BY <4>1, <4>2 DEF IInv, OneStatusLabel
    <3>. QED
      BY <3>1, <3>2
  <2>5. SettledReads'
    <3>. SUFFICES ASSUME NEW k \in settled', NEW d \in Bots,
                         call[d].pc = "patch", call[d].issue = k
                  PROVE  OneStatus(call[d].read)
      BY <2>2 DEF SettledReads
    <3>1. CASE k \in settled
      BY <3>1 DEF IInv, SettledReads
    <3>2. CASE k \notin settled
      <4>1. k = i /\ Alone(b, i)
        BY <2>1, <3>2 DEF Settled
      <4>2. d # b
        BY <2>2 DEF Idle
      <4>. QED
        BY <4>1, <4>2 DEF Alone
    <3>. QED
      BY <3>1, <3>2
  <2>. QED
    BY <2>2, <2>3, <2>4, <2>5 DEF IInv, StatusGiven
<1>. QED
  BY <1>1, <1>2, <1>3, <1>4, <1>5, <1>6 DEF Next

LEMMA Invariance == Spec => []IInv
<1>1. Init => IInv
  BY IdleIsACall DEF Init, IInv, TypeOK, OneStatusLabel, SettledReads, StatusGiven, Idle
<1>2. IInv /\ [Next]_vars => IInv'
  BY StepKeeps
<1>. QED
  BY <1>1, <1>2, PTL DEF Spec

(* From a moment at which a caller gives an issue one status label and     *)
(* nobody else is about to write labels it has read, the issue has exactly *)
(* one, however the setters of any bots overlap and fail, until a caller   *)
(* writes another list or has a setter write a label of the wrong kind.    *)
THEOREM OneStatusLabelStays == Spec => []OneStatusLabel
<1>1. IInv => OneStatusLabel
  BY DEF IInv
<1>. QED
  BY <1>1, Invariance, PTL

(* Issues bear labels only, and every call carries an issue, a label or    *)
(* the empty one, and the labels it read.                                  *)
THEOREM CallsAreTyped == Spec => []TypeOK
<1>1. IInv => TypeOK
  BY DEF IInv
<1>. QED
  BY <1>1, Invariance, PTL

(* A write whose issue did not change since it was read changes the labels *)
(* of its own group only, apart from the label that was asked for.         *)
THEOREM FreshWrites == Spec => FreshWritesAreLocal
<1>. DEFINE Local == \A b \in Bots :
              (Wrote(b) /\ call[b].read = labels[call[b].issue]) => ChangesOnlyItsGroup(b)
<1>1. ASSUME IInv, [Next]_vars
      PROVE  Local
  <2>. SUFFICES ASSUME NEW b \in Bots, Wrote(b), call[b].read = labels[call[b].issue]
                PROVE  ChangesOnlyItsGroup(b)
    OBVIOUS
  <2>1. /\ TypeOK
        /\ call[b].pc = "patch"
        /\ call[b] # Idle
        /\ call[b].issue \in Issues
        /\ call[b].group \in Swapped
        /\ call[b].label \in Labels \cup {Empty}
        /\ call[b].read \in SUBSET Labels
    BY <1>1, CallFields DEF Wrote, IInv
  <2>2. Write(b)
    <3>1. PICK d \in Bots : Patch(d) \/ Fails(d)
      BY <1>1, <2>1 DEF Wrote, Next, Request, Get, UpdateIssue, vars
    <3>2. d = b
      BY <2>1, <3>1 DEF Wrote, Patch, Fails, Return, TypeOK
    <3>. QED
      BY <3>1, <3>2 DEF Wrote, Patch, Fails
  <2>. DEFINE w == Kept(call[b].read, call[b].group) \cup New(call[b].label)
  <2>3. labels'[call[b].issue] = w
    BY <2>1, <2>2 DEF Write, TypeOK
  <2>4. \A h \in Groups : Of(w, h) = Of(New(call[b].label), h)
          \cup (IF h = call[b].group THEN {} ELSE Of(call[b].read, h))
    <3>1. PICK g \in Swapped, l \in Labels \cup {Empty}, ls \in SUBSET Labels :
            g = call[b].group /\ l = call[b].label /\ ls = call[b].read
      BY <2>1
    <3>2. \A h \in Groups : Of(Kept(ls, g) \cup New(l), h)
            = Of(New(l), h) \cup (IF h = g THEN {} ELSE Of(ls, h))
      BY WrittenGroups
    <3>. QED
      BY <3>1, <3>2
  <2>. HIDE DEF w
  <2>. QED
    BY <2>3, <2>4 DEF ChangesOnlyItsGroup
<1>2. IInv /\ [Next]_vars => [Local]_vars
  BY <1>1
<1>. QED
  BY <1>2, Invariance, PTL DEF Spec, FreshWritesAreLocal
=============================================================================
