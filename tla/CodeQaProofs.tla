---------------------------- MODULE CodeQaProofs -----------------------------
(***************************************************************************)
(* What an answer about code rests on, for any number of callers,          *)
(* repositories, pushes, kills and crashes.  A copy that was not spoilt is *)
(* being cloned by exactly one call or by none, and it is whole and recent *)
(* enough from the moment a call has updated it.                           *)
(***************************************************************************)
EXTENDS CodeQaCache, FiniteSetTheorems, TLAPS

Clones(c, r) == call[c].at \in {"fetch", "checkout"} /\ Repo(c) = r

(* The repositories a call has updated, and those it has listed, so far.   *)
Left(c)      == ToSet(call[c].todo)
UpdatedBy(c) == IF call[c].at \in {"list", "pick", "read"} THEN ToSet(call[c].order)
                                                           ELSE ToSet(call[c].order) \ Left(c)
ListedBy(c)  == CASE call[c].at = "list"             -> ToSet(call[c].order) \ Left(c)
                  [] call[c].at \in {"pick", "read"} -> ToSet(call[c].order)
                  [] OTHER                           -> {}

(* What a call has when.                                                   *)
InOrder(c) ==
  /\ call[c].at \notin {"list", "pick", "read"} => call[c].listed = {}
  /\ call[c].at # "read" => call[c].contents = {} /\ call[c].picks = {}
  /\ call[c].at = "idle" => call[c].order = <<>>
  /\ call[c].at \in {"pick", "read"} => call[c].todo = <<>>
  /\ \A r \in Repos : call[c].since[r] <= remote[r]
  /\ call[c].at \notin {"checkout", "received", "merge"} => call[c].fetched = 0
  /\ call[c].at \in {"checkout", "received", "merge"} =>
       call[c].fetched \in 1..remote[Repo(c)] /\ call[c].fetched >= call[c].since[Repo(c)]

(* A copy that was updated for a call stays as recent as the call needs,   *)
(* and what was listed is what is there, unless another call changed it.   *)
Fresh(c) ==
  \A r \in UpdatedBy(c) \ spoilt : copy[r].state = "whole" /\ copy[r].commit >= call[c].since[r]

AsListed(c) ==
  \A r \in ListedBy(c) \ call[c].crossed : [repo |-> r, commit |-> copy[r].commit] \in call[c].listed

Answer(c) ==
  \A got \in call[c].contents :
    /\ got.repo \in ToSet(call[c].order) \ spoilt => got.commit >= call[c].since[got.repo]
    /\ got.repo \in ToSet(call[c].order) \ call[c].crossed => got \in call[c].listed

CallInv(c) == InOrder(c) /\ Fresh(c) /\ AsListed(c) /\ Answer(c)

(* A copy that is not spoilt is never torn, and it is begun exactly while  *)
(* one call, and only one, clones it.                                      *)
CopyInv(r) ==
  r \notin spoilt =>
    /\ copy[r].state # "torn"
    /\ copy[r].state = "begun" <=> \E c \in Callers : Clones(c, r)
    /\ \A c, d \in Callers : Clones(c, r) /\ Clones(d, r) => c = d

IInv == /\ TypeOK
        /\ \A c \in Callers : CallInv(c)
        /\ \A r \in Repos : CopyInv(r)

-----------------------------------------------------------------------------
(* What a step has to show: a call that sets its own record, and a call    *)
(* that changes the copy of a repository.                                  *)

WellFormed(x) ==
  /\ x \in Call
  /\ ToSet(x.todo) \subseteq ToSet(x.order)
  /\ x.at \notin {"idle", "pick", "read"} => x.todo # <<>>
  /\ IsFiniteSet(x.picks) /\ Cardinality(x.picks) <= MaxPicks

HeadsOK == /\ fetchHead \in [Repos -> Commits \cup {0}]
           /\ \A r \in Repos : fetchHead[r] <= remote[r]

LEMMA FirstAndRest ==
  ASSUME NEW S, NEW s \in Seq(S), s # <<>>
  PROVE  /\ Head(s) \in S /\ Head(s) \in ToSet(s)
         /\ Tail(s) \in Seq(S) /\ ToSet(s) = ToSet(Tail(s)) \cup {Head(s)}
<1>1. Head(s) = s[1] /\ Tail(s) \in Seq(S) /\ Len(s) \in Nat \ {0} /\ DOMAIN s = 1..Len(s)
  OBVIOUS
<1>2. Len(Tail(s)) = Len(s) - 1 /\ \A i \in 1..Len(Tail(s)) : Tail(s)[i] = s[i + 1]
  OBVIOUS
<1>3. DOMAIN Tail(s) = 1..(Len(s) - 1)
  BY <1>1, <1>2
<1>4. \A i \in 1..Len(s) : i = 1 \/ (i - 1 \in 1..Len(Tail(s)) /\ Tail(s)[i - 1] = s[i])
  BY <1>1, <1>2
<1>5. \A i \in 1..Len(Tail(s)) : i + 1 \in 1..Len(s) /\ Tail(s)[i] = s[i + 1]
  BY <1>1, <1>2
<1>6. ToSet(s) \subseteq ToSet(Tail(s)) \cup {Head(s)}
  <2>1. ASSUME NEW i \in 1..Len(s)
        PROVE  s[i] = Head(s) \/ s[i] \in ToSet(Tail(s))
    <3>1. CASE i = 1
      BY <1>1, <3>1
    <3>2. CASE i # 1
      <4>1. i - 1 \in DOMAIN Tail(s) /\ Tail(s)[i - 1] = s[i]
        BY <1>2, <1>3, <1>4, <2>1, <3>2
      <4>. QED
        BY <4>1 DEF ToSet
    <3>. QED
      BY <3>1, <3>2
  <2>. QED
    BY <1>1, <2>1 DEF ToSet
<1>7. ToSet(Tail(s)) \subseteq ToSet(s)
  BY <1>1, <1>2, <1>3, <1>5 DEF ToSet
<1>8. Head(s) \in ToSet(s) /\ Head(s) \in S
  BY <1>1 DEF ToSet
<1>. QED
  BY <1>1, <1>6, <1>7, <1>8

LEMMA NothingInEmpty == ToSet(<<>>) = {}
BY DEF ToSet

LEMMA NamesAreRepos ==
  ASSUME NEW s \in Seq(Repos)
  PROVE  ToSet(s) \subseteq Repos
BY DEF ToSet

LEMMA IdleIsWellFormed == WellFormed(Idle) /\ Idle.at = "idle"
<1>1. IsFiniteSet({}) /\ Cardinality({}) <= MaxPicks
  BY FS_EmptySet, CodeQaAssumption
<1>2. 0 \in Commits \cup {0}
  OBVIOUS
<1>. QED
  BY <1>1, <1>2, NothingInEmpty DEF WellFormed, Idle, Call

LEMMA CallsAreWellFormed ==
  ASSUME TypeOK, NEW c \in Callers
  PROVE  WellFormed(call[c])
BY DEF TypeOK, WellFormed

LEMMA TurnIsTodo ==
  ASSUME NEW c \in Callers, call[c] \in Call, call[c].todo # <<>>
  PROVE  Repo(c) \in Left(c) /\ Repo(c) \in Repos
<1>1. call[c].todo \in Seq(Repos)
  BY DEF Call
<1>. QED
  BY <1>1, FirstAndRest DEF Repo, Left

LEMMA SinceType ==
  ASSUME TypeOK, NEW c \in Callers, NEW r \in Repos
  PROVE  call[c].since[r] \in Nat /\ remote[r] \in Nat /\ copy[r].commit \in Nat /\ copy[r] \in Copy
<1>1. Commits \subseteq Nat /\ 0 \in Nat
  BY CodeQaAssumption DEF Commits
<1>2. call[c].since \in [Repos -> Commits \cup {0}]
  BY DEF TypeOK, Call
<1>3. copy[r] \in Copy
  BY DEF TypeOK
<1>. QED
  BY <1>1, <1>2, <1>3 DEF TypeOK, Copy

LEMMA HeadsStay ==
  ASSUME IInv, UNCHANGED <<remote, fetchHead>>
  PROVE  HeadsOK'
BY DEF IInv, TypeOK, HeadsOK

LEMMA SetKeeps ==
  ASSUME IInv, NEW c \in Callers, NEW new, Sets(c, new), UNCHANGED <<remote, copy, cuts, spoilt>>,
         HeadsOK', WellFormed(new), CallInv(c)', \A r : Clones(c, r)' = Clones(c, r)
  PROVE  IInv'
<1>1. call'[c] = new /\ \A d \in Callers \ {c} : call'[d] = call[d]
  BY DEF Sets, IInv, TypeOK
<1>2. TypeOK'
  <2>1. call' \in [Callers -> Call]
    BY DEF IInv, TypeOK, Sets, WellFormed
  <2>2. \A d \in Callers : WellFormed(call'[d])
    BY <1>1, CallsAreWellFormed DEF IInv
  <2>. QED
    BY <2>1, <2>2 DEF IInv, TypeOK, WellFormed, HeadsOK
<1>3. ASSUME NEW d \in Callers, d # c
      PROVE  CallInv(d)' /\ \A r : Clones(d, r)' = Clones(d, r)
  <2>1. call'[d] = call[d] /\ Repo(d)' = Repo(d) /\ CallInv(d)
    BY <1>1, <1>3 DEF Repo, IInv
  <2>2. InOrder(d)'
    BY <2>1 DEF CallInv, InOrder
  <2>3. Fresh(d)' /\ AsListed(d)' /\ Answer(d)'
    BY <2>1 DEF CallInv, Fresh, AsListed, Answer, UpdatedBy, ListedBy, Left
  <2>. QED
    BY <2>1, <2>2, <2>3 DEF CallInv, Clones
<1>4. \A d \in Callers, r \in Repos : Clones(d, r)' = Clones(d, r)
  BY <1>3
<1>5. \A r \in Repos : CopyInv(r)'
  BY <1>4 DEF IInv, CopyInv
<1>. QED
  BY <1>2, <1>3, <1>5 DEF IInv

LEMMA ChangeKeeps ==
  ASSUME IInv, NEW c \in Callers, NEW r \in Repos, NEW new \in Copy, NEW after,
         Changes(c, r, new, after), UNCHANGED remote,
         spoilt \subseteq spoilt', spoilt' \subseteq Repos, cuts' \in 0..MaxCuts, HeadsOK',
         new.commit <= remote[r], new.state = "whole" => new.commit # 0,
         WellFormed(after), CallInv(c)', CopyInv(r)',
         \A q \in Repos \ {r} : ~Clones(c, q) /\ ~Clones(c, q)',
         \A d \in Callers \ {c} : r \in UpdatedBy(d) \ spoilt' =>
           new.state = "whole" /\ new.commit >= call[d].since[r]
  PROVE  IInv'
<1>. DEFINE noticed(d) == call[d].crossed \cup ({r} \cap { l.repo : l \in call[d].listed })
<1>1. /\ copy'[r] = new /\ \A q \in Repos \ {r} : copy'[q] = copy[q]
      /\ copy' \in [Repos -> Copy]
  BY DEF Changes, IInv, TypeOK
<1>2. call'[c] = after
  BY DEF Changes
<1>3. ASSUME NEW d \in Callers, d # c
      PROVE  /\ WellFormed(call'[d]) /\ call'[d].crossed = noticed(d)
             /\ call'[d].at = call[d].at /\ call'[d].order = call[d].order
             /\ call'[d].todo = call[d].todo /\ call'[d].fetched = call[d].fetched
             /\ call'[d].listed = call[d].listed /\ call'[d].picks = call[d].picks
             /\ call'[d].contents = call[d].contents /\ call'[d].since = call[d].since
             /\ Repo(d)' = Repo(d)
  <2>1. call'[d] = [call[d] EXCEPT !.crossed = noticed(d)]
    BY <1>3 DEF Changes
  <2>2. call[d] \in Call /\ WellFormed(call[d])
    BY CallsAreWellFormed DEF IInv, TypeOK
  <2>3. noticed(d) \in SUBSET Repos
    BY <2>2 DEF Call
  <2>. HIDE DEF noticed
  <2>4. /\ call'[d] \in Call /\ call'[d].crossed = noticed(d)
        /\ call'[d].at = call[d].at /\ call'[d].order = call[d].order
        /\ call'[d].todo = call[d].todo /\ call'[d].fetched = call[d].fetched
        /\ call'[d].listed = call[d].listed /\ call'[d].picks = call[d].picks
        /\ call'[d].contents = call[d].contents /\ call'[d].since = call[d].since
    BY <2>1, <2>2, <2>3 DEF Call
  <2>. QED
    BY <2>2, <2>4 DEF WellFormed, Repo
<1>4. TypeOK'
  <2>1. \A d \in Callers : WellFormed(call'[d])
    BY <1>2, <1>3
  <2>2. call' \in [Callers -> Call]
    BY <2>1 DEF Changes, WellFormed
  <2>3. \A q \in Repos : /\ copy'[q].commit <= remote[q]
                         /\ copy'[q].state = "whole" => copy'[q].commit # 0
    BY <1>1 DEF IInv, TypeOK
  <2>. QED
    BY <1>1, <2>1, <2>2, <2>3 DEF IInv, TypeOK, WellFormed, HeadsOK
<1>5. ASSUME NEW d \in Callers, d # c
      PROVE  CallInv(d)'
  <2>1. CallInv(d)
    BY DEF IInv
  <2>2. InOrder(d)'
    BY <1>3, <1>5, <2>1 DEF CallInv, InOrder
  <2>3. UpdatedBy(d)' = UpdatedBy(d) /\ ListedBy(d)' = ListedBy(d)
    BY <1>3, <1>5 DEF UpdatedBy, ListedBy, Left
  <2>4. UpdatedBy(d) \subseteq Repos /\ ListedBy(d) \subseteq Repos
    <3>1. ToSet(call[d].order) \subseteq Repos
      BY NamesAreRepos DEF IInv, TypeOK, Call
    <3>. QED
      BY <3>1 DEF UpdatedBy, ListedBy
  <2>5. Fresh(d)'
    <3>1. ASSUME NEW q \in UpdatedBy(d) \ spoilt'
          PROVE  copy'[q].state = "whole" /\ copy'[q].commit >= call[d].since[q]
      <4>1. CASE q = r
        BY <1>1, <1>5, <3>1, <4>1
      <4>2. CASE q # r
        BY <1>1, <2>1, <2>4, <3>1, <4>2 DEF CallInv, Fresh
      <4>. QED
        BY <4>1, <4>2
    <3>. QED
      BY <1>3, <1>5, <2>3, <3>1 DEF Fresh
  <2>6. AsListed(d)'
    <3>1. ASSUME NEW q \in ListedBy(d) \ call'[d].crossed
          PROVE  [repo |-> q, commit |-> copy'[q].commit] \in call[d].listed
      <4>1. [repo |-> q, commit |-> copy[q].commit] \in call[d].listed
        BY <1>3, <1>5, <2>1, <3>1 DEF CallInv, AsListed
      <4>2. q \in { l.repo : l \in call[d].listed }
        BY <4>1
      <4>3. q # r
        BY <1>3, <1>5, <3>1, <4>2
      <4>. QED
        BY <1>1, <2>4, <3>1, <4>1, <4>3
    <3>. QED
      BY <1>3, <1>5, <2>3, <3>1 DEF AsListed
  <2>7. Answer(d)'
    BY <1>3, <1>5, <2>1 DEF CallInv, Answer
  <2>. QED
    BY <2>2, <2>5, <2>6, <2>7 DEF CallInv
<1>6. ASSUME NEW q \in Repos, q # r
      PROVE  CopyInv(q)'
  <2>1. \A d \in Callers : Clones(d, q)' = Clones(d, q)
    BY <1>3, <1>6 DEF Clones
  <2>. QED
    BY <1>1, <1>6, <2>1 DEF IInv, CopyInv
<1>. QED
  BY <1>4, <1>5, <1>6 DEF IInv

-----------------------------------------------------------------------------
(* The steps that leave the copies alone.                                  *)

(* A call that ends, or that has not listed anything yet, has nothing to   *)
(* show but the copies it has updated.                                     *)
LEMMA RaisesKeeps ==
  ASSUME IInv, NEW c \in Callers, Raises(c), UNCHANGED <<remote, copy, fetchHead, cuts, spoilt>>,
         call[c].at \notin {"fetch", "checkout"}
  PROVE  IInv'
<1>1. Sets(c, Idle) /\ call'[c] = Idle
  BY DEF Raises, Sets, IInv, TypeOK
<1>2. CallInv(c)'
  <2>1. \A r \in Repos : remote'[r] >= 0
    BY SinceType DEF IInv
  <2>2. InOrder(c)'
    BY <1>1, <2>1 DEF InOrder, Idle
  <2>. QED
    BY <1>1, <2>2 DEF CallInv, Fresh, AsListed, Answer, UpdatedBy, ListedBy, Left, Idle
<1>3. \A r : Clones(c, r)' = Clones(c, r)
  BY <1>1 DEF Clones, Idle
<1>. QED
  BY <1>1, <1>2, <1>3, IdleIsWellFormed, SetKeeps, HeadsStay

LEMMA AskKeeps ==
  ASSUME IInv, NEW c \in Callers, NEW order \in Orders, Ask(c, order)
  PROVE  IInv'
<1>. DEFINE since == [r \in Repos |-> IF r \in ToSet(order) THEN remote[r] ELSE 0]
            new == [Idle EXCEPT !.at = IF order = <<>> THEN "pick" ELSE "update",
                                !.order = order, !.todo = order, !.since = since]
<1>1. order \in Seq(Repos)
  BY CodeQaAssumption
<1>2. \A r \in Repos : remote[r] \in Commits
  BY DEF IInv, TypeOK
<1>3. since \in [Repos -> Commits \cup {0}] /\ \A r \in Repos : since[r] <= remote[r]
  <2>1. \A r \in Repos : 0 <= remote[r] /\ remote[r] <= remote[r]
    BY <1>2, CodeQaAssumption DEF Commits
  <2>. QED
    BY <1>2, <2>1
<1>4. /\ At(c, "idle") /\ Sets(c, new) /\ UNCHANGED <<remote, copy, fetchHead, cuts, spoilt>>
  BY DEF Ask
<1>. HIDE DEF since
<1>5. /\ new \in Call /\ new.at = (IF order = <<>> THEN "pick" ELSE "update")
      /\ new.order = order /\ new.todo = order /\ new.fetched = 0 /\ new.since = since /\ new.listed = {}
      /\ new.contents = {} /\ new.picks = {} /\ new.crossed = {}
  BY <1>1, <1>3, IdleIsWellFormed DEF WellFormed, Call, Idle
<1>. HIDE DEF new
<1>6. WellFormed(new)
  BY <1>5, FS_EmptySet, CodeQaAssumption DEF WellFormed
<1>7. call'[c] = new
  BY <1>4 DEF Sets, IInv, TypeOK
<1>8. CallInv(c)'
  <2>1. InOrder(c)'
    BY <1>3, <1>4, <1>5, <1>7 DEF InOrder
  <2>2. UpdatedBy(c)' = {} /\ ListedBy(c)' = {}
    BY <1>5, <1>7, NothingInEmpty DEF UpdatedBy, ListedBy, Left
  <2>. QED
    BY <1>5, <1>7, <2>1, <2>2 DEF CallInv, Fresh, AsListed, Answer
<1>9. \A r : Clones(c, r)' = Clones(c, r)
  BY <1>4, <1>5, <1>7 DEF Clones, At
<1>. QED
  BY <1>4, <1>6, <1>8, <1>9, SetKeeps, HeadsStay

LEMMA UpdateKeeps ==
  ASSUME IInv, NEW c \in Callers, Update(c)
  PROVE  IInv'
<1>. DEFINE where == IF copy[Repo(c)].state = "absent" THEN "clone" ELSE "pull"
            new == [call[c] EXCEPT !.at = where]
<1>1. At(c, "update") /\ Sets(c, new) /\ UNCHANGED <<remote, copy, fetchHead, cuts, spoilt>>
  BY DEF Update
<1>2. where \in {"clone", "pull"}
  OBVIOUS
<1>3. WellFormed(call[c]) /\ call[c] \in Call /\ call[c].todo # <<>> /\ CallInv(c)
  BY <1>1, CallsAreWellFormed DEF IInv, TypeOK, At
<1>. HIDE DEF where
<1>4. /\ new \in Call /\ new.at = where /\ new.order = call[c].order /\ new.todo = call[c].todo
      /\ new.fetched = call[c].fetched /\ new.listed = call[c].listed /\ new.picks = call[c].picks
      /\ new.contents = call[c].contents /\ new.since = call[c].since
      /\ new.crossed = call[c].crossed
  BY <1>2, <1>3 DEF Call
<1>. HIDE DEF new
<1>5. WellFormed(new)
  BY <1>3, <1>4 DEF WellFormed
<1>6. call'[c] = new
  BY <1>1 DEF Sets, IInv, TypeOK
<1>7. CallInv(c)'
  <2>1. InOrder(c)'
    BY <1>1, <1>2, <1>3, <1>4, <1>6 DEF CallInv, InOrder, At
  <2>2. UpdatedBy(c)' = UpdatedBy(c) /\ ListedBy(c)' = {}
    BY <1>1, <1>2, <1>4, <1>6 DEF UpdatedBy, ListedBy, Left, At
  <2>3. Fresh(c)' /\ AsListed(c)'
    BY <1>1, <1>3, <1>4, <1>6, <2>2 DEF CallInv, Fresh, AsListed
  <2>4. Answer(c)'
    BY <1>1, <1>3, <1>4, <1>6 DEF CallInv, Answer
  <2>. QED
    BY <2>1, <2>3, <2>4 DEF CallInv
<1>8. \A r : Clones(c, r)' = Clones(c, r)
  BY <1>1, <1>2, <1>4, <1>6 DEF Clones, At
<1>. QED
  BY <1>1, <1>5, <1>7, <1>8, SetKeeps, HeadsStay

LEMMA CloneFetchesKeeps ==
  ASSUME IInv, NEW c \in Callers, CloneFetches(c)
  PROVE  IInv'
<1>. DEFINE r   == Repo(c)
            new == [call[c] EXCEPT !.at = "checkout", !.fetched = remote[r]]
<1>1. At(c, "fetch") /\ Sets(c, new) /\ UNCHANGED <<remote, copy, fetchHead, cuts, spoilt>>
  BY DEF CloneFetches
<1>2. WellFormed(call[c]) /\ call[c] \in Call /\ call[c].todo # <<>> /\ CallInv(c)
  BY <1>1, CallsAreWellFormed DEF IInv, TypeOK, At
<1>3. r \in Left(c) /\ r \in Repos
  BY <1>2, TurnIsTodo
<1>4. remote[r] \in Commits /\ remote[r] \in 1..remote[r] /\ remote[r] >= call[c].since[r]
  <2>1. remote[r] \in Commits
    BY <1>3 DEF IInv, TypeOK
  <2>2. remote[r] \in 1..remote[r]
    BY <2>1, CodeQaAssumption DEF Commits
  <2>3. call[c].since[r] <= remote[r] /\ call[c].since[r] \in Nat
    BY <1>2, <1>3, SinceType DEF CallInv, InOrder, IInv
  <2>. QED
    BY <2>1, <2>2, <2>3
<1>. HIDE DEF r
<1>5. /\ new \in Call /\ new.at = "checkout" /\ new.order = call[c].order /\ new.todo = call[c].todo
      /\ new.fetched = remote[r] /\ new.listed = call[c].listed /\ new.picks = call[c].picks
      /\ new.contents = call[c].contents /\ new.since = call[c].since
      /\ new.crossed = call[c].crossed
  BY <1>2, <1>4 DEF Call
<1>. HIDE DEF new
<1>6. WellFormed(new)
  BY <1>2, <1>5 DEF WellFormed
<1>7. call'[c] = new /\ Repo(c)' = r
  BY <1>1, <1>5 DEF Sets, IInv, TypeOK, Repo, r
<1>8. CallInv(c)'
  <2>1. InOrder(c)'
    BY <1>1, <1>2, <1>4, <1>5, <1>7 DEF CallInv, InOrder, At
  <2>2. UpdatedBy(c)' = UpdatedBy(c) /\ ListedBy(c)' = {}
    BY <1>1, <1>5, <1>7 DEF UpdatedBy, ListedBy, Left, At
  <2>3. Fresh(c)' /\ AsListed(c)'
    BY <1>1, <1>2, <1>5, <1>7, <2>2 DEF CallInv, Fresh, AsListed
  <2>4. Answer(c)'
    BY <1>1, <1>2, <1>5, <1>7 DEF CallInv, Answer
  <2>. QED
    BY <2>1, <2>3, <2>4 DEF CallInv
<1>9. \A q : Clones(c, q)' = Clones(c, q)
  BY <1>1, <1>5, <1>7 DEF Clones, At, r
<1>. QED
  BY <1>1, <1>6, <1>8, <1>9, SetKeeps, HeadsStay

LEMMA ListKeeps ==
  ASSUME IInv, NEW c \in Callers, List(c)
  PROVE  IInv'
<1>. DEFINE r    == Repo(c)
            todo == Tail(call[c].todo)
            seen == [repo |-> r, commit |-> copy[r].commit]
            list == { l \in call[c].listed : l.repo # r } \cup {seen}
            new  == [call[c] EXCEPT !.todo = todo, !.at = IF todo = <<>> THEN "pick" ELSE "list",
                                    !.listed = list]
<1>1. At(c, "list") /\ Sets(c, new) /\ UNCHANGED <<remote, copy, fetchHead, cuts, spoilt>>
  BY DEF List
<1>2. /\ WellFormed(call[c]) /\ call[c] \in Call /\ call[c].todo # <<>> /\ CallInv(c)
      /\ Left(c) \subseteq ToSet(call[c].order)
      /\ todo \in Seq(Repos) /\ Left(c) = ToSet(todo) \cup {r}
  <2>1. WellFormed(call[c]) /\ call[c] \in Call /\ call[c].todo # <<>> /\ CallInv(c)
    BY <1>1, CallsAreWellFormed DEF IInv, TypeOK, At
  <2>2. Left(c) \subseteq ToSet(call[c].order)
    BY <2>1 DEF WellFormed, Left
  <2>3. call[c].todo \in Seq(Repos)
    BY <2>1 DEF Call
  <2>. QED
    BY <2>1, <2>2, <2>3, FirstAndRest DEF Left, Repo
<1>3. r \in Left(c) /\ r \in Repos
  BY <1>2, TurnIsTodo
<1>4. seen \in State /\ seen.repo = r
  BY <1>3 DEF State, IInv, TypeOK, Copy
<1>5. seen = [repo |-> r, commit |-> copy[r].commit]
  OBVIOUS
<1>. HIDE DEF r, seen, todo
<1>6. /\ new \in Call /\ new.order = call[c].order /\ new.todo = todo
      /\ new.at = (IF todo = <<>> THEN "pick" ELSE "list")
      /\ new.fetched = call[c].fetched /\ new.listed = list
      /\ new.picks = call[c].picks /\ new.contents = call[c].contents /\ new.since = call[c].since
      /\ new.crossed = call[c].crossed
  BY <1>2, <1>4 DEF Call
<1>. HIDE DEF new
<1>7. WellFormed(new)
  BY <1>2, <1>3, <1>6 DEF WellFormed
<1>8. call'[c] = new
  BY <1>1 DEF Sets, IInv, TypeOK
<1>9. CallInv(c)'
  <2>1. InOrder(c)'
    BY <1>1, <1>2, <1>6, <1>8 DEF CallInv, InOrder, At
  <2>2. UpdatedBy(c)' = UpdatedBy(c)
    BY <1>1, <1>6, <1>8 DEF UpdatedBy, At
  <2>3. Fresh(c)'
    BY <1>1, <1>2, <1>6, <1>8, <2>2 DEF CallInv, Fresh
  <2>4. ListedBy(c)' \subseteq ListedBy(c) \cup {r}
    <3>1. ListedBy(c) = ToSet(call[c].order) \ Left(c)
      BY <1>1 DEF ListedBy, At
    <3>2. ListedBy(c)' = ToSet(call[c].order) \ ToSet(todo)
      BY <1>6, <1>8, NothingInEmpty DEF ListedBy, Left
    <3>. QED
      BY <1>2, <3>1, <3>2
  <2>5. AsListed(c)'
    <3>1. ASSUME NEW q \in ListedBy(c)' \ call[c].crossed
          PROVE  [repo |-> q, commit |-> copy[q].commit] \in list
      BY <1>2, <1>5, <2>4, <3>1 DEF CallInv, AsListed
    <3>. QED
      BY <1>1, <1>6, <1>8, <3>1 DEF AsListed
  <2>6. Answer(c)'
    <3>1. call[c].contents = {}
      BY <1>1, <1>2 DEF CallInv, InOrder, At
    <3>. QED
      BY <1>6, <1>8, <3>1 DEF Answer
  <2>. QED
    BY <2>1, <2>3, <2>5, <2>6 DEF CallInv
<1>10. \A q : Clones(c, q)' = Clones(c, q)
  BY <1>1, <1>6, <1>8 DEF Clones, At
<1>. QED
  BY <1>1, <1>7, <1>9, <1>10, SetKeeps, HeadsStay

LEMMA PickKeeps ==
  ASSUME IInv, NEW c \in Callers, NEW picks \in Picks, Pick(c, picks)
  PROVE  IInv'
<1>. DEFINE new == [call[c] EXCEPT !.at = "read", !.picks = picks]
<1>1. At(c, "pick") /\ Sets(c, new) /\ UNCHANGED <<remote, copy, fetchHead, cuts, spoilt>>
  BY DEF Pick
<1>2. WellFormed(call[c]) /\ call[c] \in Call /\ CallInv(c)
  BY CallsAreWellFormed DEF IInv, TypeOK
<1>3. picks \in SUBSET [repo : Repos, file : Files] /\ IsFiniteSet(picks) /\ Cardinality(picks) <= MaxPicks
  BY DEF Picks
<1>4. /\ new \in Call /\ new.at = "read" /\ new.order = call[c].order /\ new.todo = call[c].todo
      /\ new.fetched = call[c].fetched /\ new.listed = call[c].listed /\ new.picks = picks
      /\ new.contents = call[c].contents /\ new.since = call[c].since
      /\ new.crossed = call[c].crossed
  BY <1>2, <1>3 DEF Call
<1>. HIDE DEF new
<1>5. WellFormed(new)
  BY <1>2, <1>3, <1>4 DEF WellFormed
<1>6. call'[c] = new
  BY <1>1 DEF Sets, IInv, TypeOK
<1>7. CallInv(c)'
  <2>1. InOrder(c)'
    BY <1>1, <1>2, <1>4, <1>6 DEF CallInv, InOrder, At
  <2>2. UpdatedBy(c)' = UpdatedBy(c) /\ ListedBy(c)' = ListedBy(c)
    BY <1>1, <1>4, <1>6 DEF UpdatedBy, ListedBy, Left, At
  <2>3. Fresh(c)' /\ AsListed(c)' /\ Answer(c)'
    BY <1>1, <1>2, <1>4, <1>6, <2>2 DEF CallInv, Fresh, AsListed, Answer
  <2>. QED
    BY <2>1, <2>3 DEF CallInv
<1>8. \A r : Clones(c, r)' = Clones(c, r)
  BY <1>1, <1>4, <1>6 DEF Clones, At
<1>. QED
  BY <1>1, <1>5, <1>7, <1>8, SetKeeps, HeadsStay

(* What is read of a repository that was asked about is as recent as its   *)
(* copy, and the copy is what was listed.                                  *)
LEMMA ReadKeeps ==
  ASSUME IInv, NEW c \in Callers, NEW pick \in call[c].picks, Read(c, pick)
  PROVE  IInv'
<1>. DEFINE r    == pick.repo
            got  == [repo |-> r, commit |-> copy[r].commit]
<1>1. At(c, "read") /\ UNCHANGED <<remote, copy, fetchHead, cuts, spoilt>>
  BY DEF Read
<1>2. WellFormed(call[c]) /\ call[c] \in Call /\ CallInv(c)
  BY CallsAreWellFormed DEF IInv, TypeOK
<1>3. r \in Repos
  BY <1>2 DEF Call
<1>4. got \in State /\ got.repo = r /\ got.commit = copy[r].commit
  BY <1>3 DEF State, IInv, TypeOK, Copy
<1>5. PICK contents \in SUBSET State :
        /\ Sets(c, [call[c] EXCEPT !.picks = @ \ {pick}, !.contents = contents])
        /\ call[c].contents \subseteq contents /\ contents \subseteq call[c].contents \cup {got}
  <2>1. call[c].contents \in SUBSET State
    BY <1>2 DEF Call
  <2>2. CASE Sets(c, [call[c] EXCEPT !.picks = @ \ {pick}, !.contents = @ \cup {got}])
    BY <1>4, <2>1, <2>2
  <2>3. CASE Sets(c, [call[c] EXCEPT !.picks = @ \ {pick}])
    <3>1. [call[c] EXCEPT !.picks = @ \ {pick}]
            = [call[c] EXCEPT !.picks = @ \ {pick}, !.contents = call[c].contents]
      BY <1>2 DEF Call
    <3>. QED
      BY <2>1, <2>3, <3>1
  <2>. QED
    BY <2>2, <2>3 DEF Read
<1>. DEFINE new == [call[c] EXCEPT !.picks = @ \ {pick}, !.contents = contents]
<1>6. /\ new \in Call /\ new.at = "read" /\ new.order = call[c].order /\ new.todo = call[c].todo
      /\ new.fetched = call[c].fetched /\ new.listed = call[c].listed
      /\ new.picks = call[c].picks \ {pick} /\ new.contents = contents
      /\ new.since = call[c].since /\ new.crossed = call[c].crossed
  BY <1>1, <1>2 DEF Call, At
<1>7. Sets(c, new)
  BY <1>5
<1>. HIDE DEF new
<1>8. WellFormed(new)
  <2>1. IsFiniteSet(call[c].picks) /\ Cardinality(call[c].picks) <= MaxPicks
    BY <1>2 DEF WellFormed
  <2>2. IsFiniteSet(new.picks) /\ Cardinality(new.picks) <= Cardinality(call[c].picks)
    BY <1>6, <2>1, FS_Subset
  <2>3. Cardinality(new.picks) \in Nat /\ Cardinality(call[c].picks) \in Nat
    BY <2>1, <2>2, FS_CardinalityType
  <2>4. Cardinality(new.picks) <= MaxPicks
    BY <2>1, <2>2, <2>3, CodeQaAssumption
  <2>. QED
    BY <1>2, <1>6, <2>2, <2>4 DEF WellFormed
<1>9. call'[c] = new
  BY <1>7 DEF Sets, IInv, TypeOK
<1>10. CallInv(c)'
  <2>1. InOrder(c)'
    BY <1>1, <1>2, <1>6, <1>9 DEF CallInv, InOrder, At
  <2>2. /\ UpdatedBy(c)' = UpdatedBy(c) /\ ListedBy(c)' = ListedBy(c)
        /\ UpdatedBy(c) = ToSet(call[c].order) /\ ListedBy(c) = ToSet(call[c].order)
    BY <1>1, <1>6, <1>9 DEF UpdatedBy, ListedBy, Left, At
  <2>3. Fresh(c)' /\ AsListed(c)'
    BY <1>1, <1>2, <1>6, <1>9, <2>2 DEF CallInv, Fresh, AsListed
  <2>4. /\ got.repo \in ToSet(call[c].order) \ spoilt => got.commit >= call[c].since[got.repo]
        /\ got.repo \in ToSet(call[c].order) \ call[c].crossed => got \in call[c].listed
    BY <1>2, <1>4, <2>2 DEF CallInv, Fresh, AsListed
  <2>. HIDE DEF got
  <2>5. ASSUME NEW g \in contents
        PROVE  /\ g.repo \in ToSet(call[c].order) \ spoilt => g.commit >= call[c].since[g.repo]
               /\ g.repo \in ToSet(call[c].order) \ call[c].crossed => g \in call[c].listed
    BY <1>2, <1>5, <2>4 DEF CallInv, Answer
  <2>6. Answer(c)'
    BY <1>1, <1>6, <1>9, <2>5 DEF Answer
  <2>. QED
    BY <2>1, <2>3, <2>6 DEF CallInv
<1>11. \A q : Clones(c, q)' = Clones(c, q)
  BY <1>1, <1>6, <1>9 DEF Clones, At
<1>. QED
  BY <1>1, <1>7, <1>8, <1>10, <1>11, SetKeeps, HeadsStay

-----------------------------------------------------------------------------
(* The steps of git that change a copy.                                    *)

LEMMA OneTurn ==
  ASSUME TypeOK, NEW c \in Callers,
         call[c].at \in {"clone", "fetch", "checkout", "pull", "received", "merge"}
  PROVE  /\ Repo(c) \in Repos /\ Repo(c) \in Left(c)
         /\ call[c] \in Call /\ WellFormed(call[c]) /\ call[c].todo # <<>>
         /\ \A q : q # Repo(c) => ~Clones(c, q)
         /\ \A q \in Repos : copy[q] \in Copy
<1>1. call[c].todo # <<>> /\ call[c] \in Call
  BY DEF TypeOK
<1>. QED
  BY <1>1, TurnIsTodo, CallsAreWellFormed DEF TypeOK, Clones

(* Once a repository is updated the call goes on with the next.            *)
LEMMA UpdatedRecord ==
  ASSUME TypeOK, NEW c \in Callers,
         call[c].at \in {"clone", "fetch", "checkout", "pull", "received", "merge"}
  PROVE  /\ WellFormed(Updated(c))
         /\ Updated(c).at \in {"list", "update"}
         /\ Updated(c).at = "list" => /\ Updated(c).todo = call[c].order
                                      /\ Left(c) = {Repo(c)}
         /\ Updated(c).at = "update" => Left(c) = ToSet(Updated(c).todo) \cup {Repo(c)}
         /\ Updated(c).fetched = 0
         /\ Updated(c).order = call[c].order /\ Updated(c).listed = call[c].listed
         /\ Updated(c).picks = call[c].picks /\ Updated(c).contents = call[c].contents
         /\ Updated(c).since = call[c].since /\ Updated(c).crossed = call[c].crossed
<1>. DEFINE rest  == Tail(call[c].todo)
            where == IF rest = <<>> THEN "list" ELSE "update"
            todo  == IF rest = <<>> THEN call[c].order ELSE rest
            new   == [call[c] EXCEPT !.fetched = 0, !.at = where, !.todo = todo]
<1>1. call[c] \in Call /\ WellFormed(call[c]) /\ call[c].todo # <<>>
  BY OneTurn
<1>2. call[c].todo \in Seq(Repos) /\ call[c].order \in Seq(Repos)
  BY <1>1 DEF Call
<1>3. rest \in Seq(Repos) /\ Left(c) = ToSet(rest) \cup {Repo(c)}
  BY <1>1, <1>2, FirstAndRest DEF Left, Repo
<1>4. Left(c) \subseteq ToSet(call[c].order)
  BY <1>1 DEF WellFormed, Left
<1>. HIDE DEF rest
<1>5. call[c].order # <<>>
  BY <1>3, <1>4, NothingInEmpty
<1>6. /\ todo # <<>> /\ todo \in Seq(Repos) /\ ToSet(todo) \subseteq ToSet(call[c].order)
      /\ where \in {"list", "update"}
      /\ where = "list" => todo = call[c].order /\ Left(c) = {Repo(c)}
      /\ where = "update" => Left(c) = ToSet(todo) \cup {Repo(c)}
  BY <1>2, <1>3, <1>4, <1>5, NothingInEmpty
<1>7. Updated(c) = new
  BY DEF Updated, rest
<1>. HIDE DEF where, todo
<1>8. /\ new \in Call /\ new.at = where /\ new.order = call[c].order /\ new.todo = todo
      /\ new.fetched = 0 /\ new.listed = call[c].listed /\ new.picks = call[c].picks
      /\ new.contents = call[c].contents /\ new.since = call[c].since
      /\ new.crossed = call[c].crossed
  BY <1>1, <1>6 DEF Call
<1>. HIDE DEF new
<1>9. WellFormed(new)
  BY <1>1, <1>6, <1>8 DEF WellFormed
<1>. QED
  BY <1>6, <1>7, <1>8, <1>9

(* After an update that left a whole and recent copy.                      *)
LEMMA UpdatedCall ==
  ASSUME IInv, NEW c \in Callers, call[c].at \in {"checkout", "merge"}, NEW new \in Copy,
         Changes(c, Repo(c), new, Updated(c)), UNCHANGED remote, spoilt \subseteq spoilt',
         Repo(c) \notin spoilt' => new.state = "whole" /\ new.commit >= call[c].since[Repo(c)]
  PROVE  CallInv(c)' /\ \A q : ~Clones(c, q)'
<1>. DEFINE r == Repo(c)
<1>1. r \in Repos /\ ToSet(call[c].order) \subseteq Repos
  <2>1. call[c].order \in Seq(Repos)
    BY DEF IInv, TypeOK, Call
  <2>. QED
    BY <2>1, OneTurn, NamesAreRepos DEF IInv
<1>2. /\ Updated(c).at \in {"list", "update"}
      /\ Updated(c).at = "list" => Left(c) = {r}
      /\ Updated(c).at = "update" => Left(c) = ToSet(Updated(c).todo) \cup {r}
      /\ Updated(c).order = call[c].order /\ Updated(c).listed = call[c].listed
      /\ Updated(c).picks = call[c].picks /\ Updated(c).contents = call[c].contents
      /\ Updated(c).since = call[c].since /\ Updated(c).crossed = call[c].crossed
      /\ Updated(c).at = "list" => Updated(c).todo = call[c].order
      /\ Updated(c).fetched = 0
  BY UpdatedRecord DEF IInv
<1>3. call'[c] = Updated(c) /\ copy'[r] = new /\ \A q \in Repos \ {r} : copy'[q] = copy[q]
  BY <1>1 DEF Changes, IInv, TypeOK
<1>4. CallInv(c)
  BY DEF IInv
<1>5. call[c].listed = {} /\ call[c].contents = {} /\ call[c].picks = {}
  BY <1>4 DEF CallInv, InOrder
<1>. HIDE DEF r
<1>6. InOrder(c)'
  BY <1>2, <1>3, <1>4, <1>5 DEF CallInv, InOrder
<1>7. ListedBy(c)' = {}
  BY <1>2, <1>3 DEF ListedBy, Left
<1>8. UpdatedBy(c)' \subseteq UpdatedBy(c) \cup {r} /\ UpdatedBy(c) \subseteq Repos
  BY <1>1, <1>2, <1>3 DEF UpdatedBy, Left
<1>9. Fresh(c)'
  <2>1. ASSUME NEW q \in UpdatedBy(c)' \ spoilt'
        PROVE  copy'[q].state = "whole" /\ copy'[q].commit >= call[c].since[q]
    <3>1. CASE q = r
      BY <1>3, <2>1, <3>1 DEF r
    <3>2. CASE q # r
      BY <1>3, <1>4, <1>8, <2>1, <3>2 DEF CallInv, Fresh
    <3>. QED
      BY <3>1, <3>2
  <2>. QED
    BY <1>2, <1>3, <2>1 DEF Fresh
<1>10. AsListed(c)' /\ Answer(c)'
  BY <1>2, <1>3, <1>5, <1>7 DEF AsListed, Answer
<1>11. \A q : ~Clones(c, q)'
  BY <1>2, <1>3 DEF Clones
<1>. QED
  BY <1>6, <1>9, <1>10, <1>11 DEF CallInv

LEMMA EndedCall ==
  ASSUME IInv, NEW c \in Callers, NEW r, NEW new, Changes(c, r, new, Idle), UNCHANGED remote
  PROVE  CallInv(c)' /\ \A q : ~Clones(c, q)'
<1>1. call'[c] = Idle
  BY DEF Changes
<1>2. \A q \in Repos : remote'[q] >= 0
  BY SinceType DEF IInv
<1>3. InOrder(c)'
  BY <1>1, <1>2 DEF InOrder, Idle
<1>. QED
  BY <1>1, <1>3, NothingInEmpty
     DEF CallInv, Fresh, AsListed, Answer, UpdatedBy, ListedBy, Left, Clones, Idle

LEMMA OthersClone ==
  ASSUME NEW c \in Callers, NEW r, NEW new, NEW after, Changes(c, r, new, after), IInv,
         NEW d \in Callers, d # c, NEW q
  PROVE  Clones(d, q)' = Clones(d, q)
<1>. DEFINE noticed == call[d].crossed \cup ({r} \cap { l.repo : l \in call[d].listed })
<1>1. call'[d] = [call[d] EXCEPT !.crossed = noticed] /\ call[d] \in Call
  BY DEF Changes, IInv, TypeOK
<1>. HIDE DEF noticed
<1>2. call'[d].at = call[d].at /\ call'[d].todo = call[d].todo
  BY <1>1 DEF Call
<1>. QED
  BY <1>2 DEF Clones, Repo

LEMMA NoCommitFits ==
  ASSUME IInv, NEW r \in Repos
  PROVE  remote[r] \in Nat /\ 0 <= remote[r]
BY CodeQaAssumption DEF IInv, TypeOK, Commits

LEMMA CloneStartsKeeps ==
  ASSUME IInv, NEW c \in Callers, CloneStarts(c)
  PROVE  IInv'
<1>. DEFINE new == [state |-> "begun", commit |-> 0]
            after == [call[c] EXCEPT !.at = "fetch"]
<1>1. At(c, "clone") /\ UNCHANGED <<remote, fetchHead, cuts, spoilt>>
  BY DEF CloneStarts
<1>2. PICK r \in Repos : r = Repo(c)
  BY <1>1, OneTurn DEF IInv, At
<1>3. CASE copy[r].state # "absent"
  BY <1>2, <1>1, <1>3, RaisesKeeps DEF CloneStarts, At
<1>4. CASE copy[r].state = "absent"
  <2>1. Changes(c, r, new, after)
    BY <1>2, <1>4 DEF CloneStarts
  <2>2. /\ r \in Repos /\ r \in Left(c) /\ call[c] \in Call /\ WellFormed(call[c])
        /\ \A q : q # r => ~Clones(c, q)
    BY <1>2, <1>1, OneTurn DEF IInv, At
  <2>3. new \in Copy /\ new.state = "begun" /\ new.commit = 0
    BY DEF Copy
  <2>4. /\ after \in Call /\ after.at = "fetch" /\ after.order = call[c].order
        /\ after.todo = call[c].todo /\ after.fetched = call[c].fetched
        /\ after.listed = call[c].listed /\ after.picks = call[c].picks
        /\ after.contents = call[c].contents /\ after.since = call[c].since
        /\ after.crossed = call[c].crossed
    BY <2>2 DEF Call
  <2>. HIDE DEF new, after
  <2>5. WellFormed(after)
    BY <1>1, <2>2, <2>4 DEF WellFormed, At
  <2>6. call'[c] = after /\ Repo(c)' = r
    BY <1>2, <2>1, <2>4 DEF Changes, Repo
  <2>7. copy'[r] = new /\ \A q \in Repos \ {r} : copy'[q] = copy[q]
    BY <2>1, <2>2 DEF Changes, IInv, TypeOK
  <2>8. CallInv(c)'
    <3>1. CallInv(c)
      BY DEF IInv
    <3>2. InOrder(c)'
      BY <1>1, <2>4, <2>6, <3>1 DEF CallInv, InOrder, At
    <3>3. /\ UpdatedBy(c)' = UpdatedBy(c) /\ ListedBy(c)' = {}
          /\ UpdatedBy(c) \subseteq Repos \ {r}
      <4>1. ToSet(call[c].order) \subseteq Repos
        BY <2>2, NamesAreRepos DEF Call
      <4>2. UpdatedBy(c) = ToSet(call[c].order) \ Left(c)
        BY <1>1 DEF UpdatedBy, At
      <4>3. UpdatedBy(c)' = UpdatedBy(c) /\ ListedBy(c)' = {}
        BY <1>1, <2>4, <2>6 DEF UpdatedBy, ListedBy, Left, At
      <4>. QED
        BY <2>2, <4>1, <4>2, <4>3
    <3>4. Fresh(c)'
      BY <1>1, <2>4, <2>6, <2>7, <3>1, <3>3 DEF CallInv, Fresh
    <3>5. AsListed(c)' /\ Answer(c)'
      BY <1>1, <2>4, <2>6, <3>1, <3>3 DEF CallInv, AsListed, Answer
    <3>. QED
      BY <3>2, <3>4, <3>5 DEF CallInv
  <2>9. CopyInv(r)'
    <3>1. r \notin spoilt => \A d \in Callers : ~Clones(d, r)
      BY <1>4, <2>2 DEF IInv, CopyInv
    <3>2. Clones(c, r)'
      BY <2>4, <2>6 DEF Clones
    <3>3. r \notin spoilt => \A d \in Callers : Clones(d, r)' => d = c
      BY <2>1, <3>1, OthersClone
    <3>. QED
      BY <1>1, <2>3, <2>7, <3>2, <3>3 DEF CopyInv
  <2>10. \A q \in Repos \ {r} : ~Clones(c, q) /\ ~Clones(c, q)'
    BY <2>2, <2>6 DEF Clones
  <2>11. \A d \in Callers \ {c} : r \notin UpdatedBy(d) \ spoilt'
    BY <1>1, <1>4 DEF IInv, CallInv, Fresh
  <2>12. spoilt \subseteq spoilt' /\ spoilt' \subseteq Repos /\ cuts' \in 0..MaxCuts
    BY <1>1 DEF IInv, TypeOK
  <2>. QED
    BY <1>1, <2>1, <2>2, <2>3, <2>5, <2>8, <2>9, <2>10, <2>11, <2>12, HeadsStay, NoCommitFits, ChangeKeeps
<1>. QED
  BY <1>3, <1>4

LEMMA CloneEndsKeeps ==
  ASSUME IInv, NEW c \in Callers, CloneEnds(c)
  PROVE  IInv'
<1>1. At(c, "checkout") /\ UNCHANGED <<remote, fetchHead, cuts, spoilt>>
  BY DEF CloneEnds
<1>2. PICK r \in Repos : r = Repo(c)
  BY <1>1, OneTurn DEF IInv, At
<1>3. PICK state \in (IF copy[r].state = "begun" THEN {"whole"} ELSE {"whole", "torn"}) :
        Changes(c, r, [state |-> state, commit |-> call[c].fetched], Updated(c))
  BY <1>2 DEF CloneEnds
<1>. DEFINE new == [state |-> state, commit |-> call[c].fetched]
<1>4. /\ call[c].fetched \in 1..remote[r] /\ call[c].fetched >= call[c].since[r]
      /\ call[c].fetched \in Commits \cup {0}
      /\ CallInv(c)
  BY <1>1, <1>2 DEF IInv, CallInv, InOrder, At, TypeOK, Call
<1>5. /\ new \in Copy /\ new.state = state /\ new.commit = call[c].fetched
      /\ copy[r].state = "begun" => new.state = "whole"
  BY <1>4 DEF Copy
<1>6. Changes(c, r, new, Updated(c))
  BY <1>3
<1>. HIDE DEF new
<1>7. r \notin spoilt => copy[r].state = "begun" /\ \A d \in Callers \ {c} : ~Clones(d, r)
  BY <1>1, <1>2 DEF IInv, CopyInv, Clones, At
<1>8. WellFormed(Updated(c)) /\ \A q : q # r => ~Clones(c, q)
  BY <1>1, <1>2, UpdatedRecord, OneTurn DEF IInv, At
<1>9. CallInv(c)' /\ \A q : ~Clones(c, q)'
  <2>1. r \notin spoilt' => new.state = "whole" /\ new.commit >= call[c].since[r]
    BY <1>1, <1>4, <1>5, <1>7
  <2>2. call[c].at \in {"checkout", "merge"} /\ spoilt \subseteq spoilt'
    BY <1>1 DEF At
  <2>. QED
    BY <1>1, <1>2, <1>5, <1>6, <2>1, <2>2, UpdatedCall
<1>10. CopyInv(r)'
  <2>1. copy'[r] = new
    BY <1>6 DEF Changes, IInv, TypeOK
  <2>2. r \notin spoilt => \A d \in Callers : ~Clones(d, r)'
    BY <1>6, <1>7, <1>9, OthersClone
  <2>. QED
    BY <1>1, <1>5, <1>7, <2>1, <2>2 DEF CopyInv
<1>11. \A d \in Callers \ {c} : r \notin UpdatedBy(d) \ spoilt'
  BY <1>1, <1>7 DEF IInv, CallInv, Fresh
<1>12. spoilt \subseteq spoilt' /\ spoilt' \subseteq Repos /\ cuts' \in 0..MaxCuts
  BY <1>1 DEF IInv, TypeOK
<1>13. new.commit <= remote[r] /\ new.commit # 0 /\ HeadsOK'
  BY <1>1, <1>4, <1>5, HeadsStay
<1>14. \A q \in Repos \ {r} : ~Clones(c, q) /\ ~Clones(c, q)'
  BY <1>8, <1>9
<1>. QED
  BY <1>1, <1>5, <1>6, <1>8, <1>9, <1>10, <1>11, <1>12, <1>13, <1>14, ChangeKeeps

LEMMA CloneFailsKeeps ==
  ASSUME IInv, NEW c \in Callers, CloneFails(c)
  PROVE  IInv'
<1>1. call[c].at \in {"fetch", "checkout"} /\ UNCHANGED <<remote, cuts, spoilt>>
  BY DEF CloneFails, At
<1>2. PICK r \in Repos : r = Repo(c)
  BY <1>1, OneTurn DEF IInv
<1>3. Changes(c, r, Absent, Idle)
  BY <1>2 DEF CloneFails
<1>4. Absent \in Copy /\ Absent.state = "absent" /\ Absent.commit = 0
  BY DEF Absent, Copy
<1>5. r \notin spoilt => copy[r].state = "begun" /\ \A d \in Callers \ {c} : ~Clones(d, r)
  BY <1>1, <1>2 DEF IInv, CopyInv, Clones
<1>6. CallInv(c)' /\ \A q : ~Clones(c, q)'
  BY <1>1, <1>3, EndedCall
<1>7. \A q : q # r => ~Clones(c, q)
  BY <1>1, <1>2, OneTurn DEF IInv
<1>8. CopyInv(r)'
  <2>1. copy'[r] = Absent
    BY <1>3 DEF Changes, IInv, TypeOK
  <2>2. r \notin spoilt => \A d \in Callers : ~Clones(d, r)'
    BY <1>3, <1>5, <1>6, OthersClone
  <2>. QED
    BY <1>1, <1>4, <2>1, <2>2 DEF CopyInv
<1>9. \A d \in Callers \ {c} : r \notin UpdatedBy(d) \ spoilt'
  BY <1>1, <1>5 DEF IInv, CallInv, Fresh
<1>10. spoilt \subseteq spoilt' /\ spoilt' \subseteq Repos /\ cuts' \in 0..MaxCuts
  BY <1>1 DEF IInv, TypeOK
<1>11. \A q \in Repos \ {r} : ~Clones(c, q) /\ ~Clones(c, q)'
  BY <1>6, <1>7
<1>12. HeadsOK'
  <2>1. fetchHead' = [fetchHead EXCEPT ![r] = 0]
    BY <1>2 DEF CloneFails
  <2>. QED
    BY <1>1, <2>1, NoCommitFits DEF IInv, TypeOK, HeadsOK
<1>. QED
  BY <1>1, <1>3, <1>4, <1>6, <1>8, <1>9, <1>10, <1>11, <1>12, NoCommitFits, IdleIsWellFormed, ChangeKeeps

LEMMA PullFetchesKeeps ==
  ASSUME IInv, NEW c \in Callers, PullFetches(c)
  PROVE  IInv'
<1>. DEFINE r   == Repo(c)
            new == [call[c] EXCEPT !.at = "received", !.fetched = remote[r]]
<1>1. At(c, "pull") /\ Sets(c, new) /\ UNCHANGED <<remote, copy, fetchHead, cuts, spoilt>>
  BY DEF PullFetches
<1>2. WellFormed(call[c]) /\ call[c] \in Call /\ call[c].todo # <<>> /\ CallInv(c)
  BY <1>1, CallsAreWellFormed DEF IInv, TypeOK, At
<1>3. r \in Left(c) /\ r \in Repos
  BY <1>2, TurnIsTodo
<1>4. remote[r] \in Commits /\ remote[r] \in 1..remote[r] /\ remote[r] >= call[c].since[r]
  <2>1. remote[r] \in Commits
    BY <1>3 DEF IInv, TypeOK
  <2>2. remote[r] \in 1..remote[r]
    BY <2>1, CodeQaAssumption DEF Commits
  <2>3. call[c].since[r] <= remote[r] /\ call[c].since[r] \in Nat
    BY <1>2, <1>3, SinceType DEF CallInv, InOrder, IInv
  <2>. QED
    BY <2>1, <2>2, <2>3
<1>. HIDE DEF r
<1>5. /\ new \in Call /\ new.at = "received" /\ new.order = call[c].order
      /\ new.todo = call[c].todo
      /\ new.fetched = remote[r] /\ new.listed = call[c].listed /\ new.picks = call[c].picks
      /\ new.contents = call[c].contents /\ new.since = call[c].since
      /\ new.crossed = call[c].crossed
  BY <1>2, <1>4 DEF Call
<1>. HIDE DEF new
<1>6. WellFormed(new)
  BY <1>2, <1>5 DEF WellFormed
<1>7. call'[c] = new /\ Repo(c)' = r
  BY <1>1, <1>5 DEF Sets, IInv, TypeOK, Repo, r
<1>8. CallInv(c)'
  <2>1. InOrder(c)'
    BY <1>1, <1>2, <1>4, <1>5, <1>7 DEF CallInv, InOrder, At
  <2>2. UpdatedBy(c)' = UpdatedBy(c) /\ ListedBy(c)' = {}
    BY <1>1, <1>5, <1>7 DEF UpdatedBy, ListedBy, Left, At
  <2>3. Fresh(c)' /\ AsListed(c)'
    BY <1>1, <1>2, <1>5, <1>7, <2>2 DEF CallInv, Fresh, AsListed
  <2>4. Answer(c)'
    BY <1>1, <1>2, <1>5, <1>7 DEF CallInv, Answer
  <2>. QED
    BY <2>1, <2>3, <2>4 DEF CallInv
<1>9. \A q : Clones(c, q)' = Clones(c, q)
  BY <1>1, <1>5, <1>7 DEF Clones, At, r
<1>. QED
  BY <1>1, <1>6, <1>8, <1>9, SetKeeps, HeadsStay

LEMMA PullWritesKeeps ==
  ASSUME IInv, NEW c \in Callers, PullWrites(c)
  PROVE  IInv'
<1>. DEFINE new == [call[c] EXCEPT !.at = "merge"]
<1>1. At(c, "received") /\ Sets(c, new) /\ UNCHANGED <<remote, copy, cuts, spoilt>>
  BY DEF PullWrites
<1>2. WellFormed(call[c]) /\ call[c] \in Call /\ call[c].todo # <<>> /\ CallInv(c)
  BY <1>1, CallsAreWellFormed DEF IInv, TypeOK, At
<1>3. PICK r \in Repos : r = Repo(c)
  BY <1>2, TurnIsTodo
<1>4. call[c].fetched \in 1..remote[r] /\ call[c].fetched \in Commits \cup {0}
  BY <1>1, <1>2, <1>3 DEF CallInv, InOrder, At, Call
<1>5. /\ new \in Call /\ new.at = "merge" /\ new.order = call[c].order /\ new.todo = call[c].todo
      /\ new.fetched = call[c].fetched /\ new.listed = call[c].listed
      /\ new.picks = call[c].picks
      /\ new.contents = call[c].contents /\ new.since = call[c].since
      /\ new.crossed = call[c].crossed
  BY <1>2 DEF Call
<1>. HIDE DEF new
<1>6. WellFormed(new)
  BY <1>2, <1>5 DEF WellFormed
<1>7. call'[c] = new /\ Repo(c)' = Repo(c)
  BY <1>1, <1>5 DEF Sets, IInv, TypeOK, Repo
<1>8. CallInv(c)'
  <2>1. InOrder(c)'
    BY <1>1, <1>2, <1>5, <1>7 DEF CallInv, InOrder, At
  <2>2. UpdatedBy(c)' = UpdatedBy(c) /\ ListedBy(c)' = {}
    BY <1>1, <1>5, <1>7 DEF UpdatedBy, ListedBy, Left, At
  <2>3. Fresh(c)' /\ AsListed(c)'
    BY <1>1, <1>2, <1>5, <1>7, <2>2 DEF CallInv, Fresh, AsListed
  <2>4. Answer(c)'
    BY <1>1, <1>2, <1>5, <1>7 DEF CallInv, Answer
  <2>. QED
    BY <2>1, <2>3, <2>4 DEF CallInv
<1>9. \A q : Clones(c, q)' = Clones(c, q)
  BY <1>1, <1>5, <1>7 DEF Clones, At
<1>10. HeadsOK'
  <2>1. fetchHead' = [fetchHead EXCEPT ![r] = call[c].fetched]
    BY <1>3 DEF PullWrites
  <2>2. remote[r] \in Nat /\ call[c].fetched <= remote[r]
    BY <1>4, SinceType DEF IInv
  <2>. QED
    BY <1>1, <1>4, <2>1, <2>2 DEF IInv, TypeOK, HeadsOK
<1>. QED
  BY <1>1, <1>6, <1>8, <1>9, <1>10, SetKeeps

LEMMA NewerOfTwo ==
  ASSUME NEW a \in Nat, NEW b \in Nat, NEW m, m = IF a > b THEN a ELSE b
  PROVE  m \in Nat /\ m >= b /\ m \in {a, b} /\ (a # 0 => m # 0)
OBVIOUS

(* What a merge lands on is a commit that was pushed, and never older than *)
(* the copy was.                                                           *)
LEMMA MergedCommit ==
  ASSUME IInv, NEW r \in Repos
  PROVE  /\ Merged(r) \in Commits \cup {0} /\ Merged(r) \in Nat
         /\ Merged(r) <= remote[r] /\ Merged(r) >= copy[r].commit
         /\ fetchHead[r] # 0 => Merged(r) # 0
<1>1. /\ copy[r].commit \in Commits \cup {0} /\ fetchHead[r] \in Commits \cup {0}
      /\ copy[r].commit <= remote[r] /\ fetchHead[r] <= remote[r] /\ remote[r] \in Nat
  BY NoCommitFits DEF IInv, TypeOK, Copy
<1>2. Commits \subseteq Nat /\ 0 \notin Commits
  BY CodeQaAssumption DEF Commits
<1>3. copy[r].commit \in Nat /\ fetchHead[r] \in Nat
  BY <1>1, CodeQaAssumption DEF Commits
<1>4. Merged(r) = IF fetchHead[r] > copy[r].commit THEN fetchHead[r] ELSE copy[r].commit
  BY DEF Merged
<1>5. /\ Merged(r) \in Nat /\ Merged(r) >= copy[r].commit
      /\ Merged(r) \in {fetchHead[r], copy[r].commit}
      /\ fetchHead[r] # 0 => Merged(r) # 0
  BY <1>3, <1>4, NewerOfTwo
<1>6. Merged(r) <= remote[r] /\ Merged(r) \in Commits \cup {0}
  BY <1>1, <1>5
<1>. QED
  BY <1>5, <1>6

(* A pull that does not spoil its copy finds it whole: it is not absent,   *)
(* not torn, and nobody clones it; and it lands on what it has fetched, or *)
(* on something newer.                                                     *)
LEMMA PullEndsKeeps ==
  ASSUME IInv, NEW c \in Callers, PullEnds(c)
  PROVE  IInv'
<1>1. At(c, "merge") /\ UNCHANGED <<remote, fetchHead, cuts>>
  BY DEF PullEnds
<1>2. PICK r \in Repos : r = Repo(c)
  BY <1>1, OneTurn DEF IInv, At
<1>3. PICK state \in (IF copy[r].state = "whole" THEN {"whole"} ELSE {"whole", "torn"}) :
        Changes(c, r, [state |-> state, commit |-> Merged(r)], Updated(c))
  BY <1>2 DEF PullEnds
<1>. DEFINE new == [state |-> state, commit |-> Merged(r)]
<1>4. /\ copy[r].state # "absent" /\ fetchHead[r] # 0
      /\ spoilt' = IF Cloning(r) \/ Merged(r) < call[c].fetched THEN spoilt \cup {r} ELSE spoilt
  BY <1>2 DEF PullEnds
<1>5. /\ new \in Copy /\ new.state = state /\ new.commit = Merged(r)
      /\ copy[r].state = "whole" => new.state = "whole"
  BY MergedCommit DEF Copy
<1>6. Changes(c, r, new, Updated(c))
  BY <1>3
<1>. HIDE DEF new
<1>7. /\ call[c].fetched \in Nat /\ call[c].fetched >= call[c].since[r]
      /\ call[c].since[r] \in Nat /\ Merged(r) \in Nat
  BY <1>1, <1>2, SinceType, MergedCommit DEF IInv, CallInv, InOrder, At
<1>8. ASSUME r \notin spoilt'
      PROVE  /\ new.state = "whole" /\ \A d \in Callers : ~Clones(d, r)
             /\ new.commit >= call[c].since[r]
  <2>1. r \notin spoilt /\ ~Cloning(r) /\ ~(Merged(r) < call[c].fetched)
    BY <1>4, <1>8
  <2>2. \A d \in Callers : ~Clones(d, r)
    BY <2>1 DEF Cloning, Clones
  <2>3. copy[r].state \in {"absent", "begun", "torn", "whole"}
    BY DEF IInv, TypeOK, Copy
  <2>4. copy[r].state = "whole"
    BY <1>4, <2>1, <2>2, <2>3 DEF IInv, CopyInv
  <2>5. Merged(r) >= call[c].since[r]
    BY <1>7, <2>1
  <2>. QED
    BY <1>5, <2>2, <2>4, <2>5
<1>9. WellFormed(Updated(c)) /\ \A q : q # r => ~Clones(c, q)
  BY <1>1, <1>2, UpdatedRecord, OneTurn DEF IInv, At
<1>10. spoilt \subseteq spoilt' /\ spoilt' \subseteq Repos /\ cuts' \in 0..MaxCuts
  BY <1>1, <1>4 DEF IInv, TypeOK
<1>11. ASSUME NEW d \in Callers, r \in UpdatedBy(d) \ spoilt'
       PROVE  new.state = "whole" /\ new.commit >= call[d].since[r]
  <2>1. copy[r].commit >= call[d].since[r]
    BY <1>10, <1>11 DEF IInv, CallInv, Fresh
  <2>2. copy[r].commit \in Nat /\ call[d].since[r] \in Nat /\ Merged(r) >= copy[r].commit
    BY SinceType, MergedCommit DEF IInv
  <2>. QED
    BY <1>5, <1>7, <1>8, <1>11, <2>1, <2>2
<1>12. CallInv(c)' /\ \A q : ~Clones(c, q)'
  <2>1. call[c].at \in {"checkout", "merge"}
    BY <1>1 DEF At
  <2>. QED
    BY <1>1, <1>2, <1>5, <1>6, <1>8, <1>10, <2>1, UpdatedCall
<1>13. CopyInv(r)'
  <2>1. copy'[r] = new
    BY <1>6 DEF Changes, IInv, TypeOK
  <2>2. r \notin spoilt' => \A d \in Callers : ~Clones(d, r)'
    BY <1>6, <1>8, <1>12, OthersClone
  <2>. QED
    BY <1>8, <2>1, <2>2 DEF CopyInv
<1>14. new.commit <= remote[r] /\ new.commit # 0 /\ HeadsOK'
  BY <1>1, <1>4, <1>5, MergedCommit, HeadsStay
<1>15. \A q \in Repos \ {r} : ~Clones(c, q) /\ ~Clones(c, q)'
  BY <1>9, <1>12
<1>. QED
  BY <1>1, <1>5, <1>6, <1>9, <1>10, <1>11, <1>12, <1>13, <1>14, <1>15, ChangeKeeps

LEMMA GitKilledKeeps ==
  ASSUME IInv, NEW c \in Callers, GitKilled(c)
  PROVE  IInv'
<1>1. call[c].at \in {"fetch", "checkout", "merge"} /\ UNCHANGED <<remote, fetchHead>>
  BY DEF GitKilled, Writing
<1>2. PICK r \in Repos : r = Repo(c)
  BY <1>1, OneTurn DEF IInv
<1>3. PICK commit \in {copy[r].commit, IF At(c, "merge") THEN Merged(r) ELSE call[c].fetched} :
        Changes(c, r, [state |-> "torn", commit |-> commit], Idle)
  BY <1>2 DEF GitKilled
<1>. DEFINE target == IF At(c, "merge") THEN Merged(r) ELSE call[c].fetched
<1>. DEFINE new == [state |-> "torn", commit |-> commit]
<1>4. target \in Commits \cup {0} /\ target <= remote[r]
  <2>1. CASE At(c, "merge")
    BY <2>1, MergedCommit
  <2>2. CASE ~At(c, "merge")
    <3>1. call[c].fetched = 0 \/ call[c].fetched \in 1..remote[r]
      BY <1>2 DEF IInv, CallInv, InOrder
    <3>2. call[c].fetched \in Commits \cup {0}
      BY DEF IInv, TypeOK, Call
    <3>. QED
      BY <2>2, <3>1, <3>2, NoCommitFits
  <2>. QED
    BY <2>1, <2>2
<1>5. /\ new \in Copy /\ new.state = "torn" /\ new.commit <= remote[r]
      /\ Changes(c, r, new, Idle) /\ HeadsOK'
  BY <1>1, <1>3, <1>4, HeadsStay DEF IInv, TypeOK, Copy
<1>. HIDE DEF new
<1>6. spoilt' = spoilt \cup {r} /\ cuts' = cuts + 1 /\ cuts < MaxCuts
  BY <1>2 DEF GitKilled
<1>7. spoilt \subseteq spoilt' /\ spoilt' \subseteq Repos /\ cuts' \in 0..MaxCuts /\ r \in spoilt'
  BY <1>6, CodeQaAssumption DEF IInv, TypeOK
<1>8. CallInv(c)' /\ \A q : ~Clones(c, q)'
  BY <1>1, <1>5, EndedCall
<1>9. \A q : q # r => ~Clones(c, q)
  BY <1>1, <1>2, OneTurn DEF IInv
<1>10. CopyInv(r)'
  BY <1>7 DEF CopyInv
<1>11. \A q \in Repos \ {r} : ~Clones(c, q) /\ ~Clones(c, q)'
  BY <1>8, <1>9
<1>. QED
  BY <1>1, <1>5, <1>7, <1>8, <1>10, <1>11, IdleIsWellFormed, ChangeKeeps

-----------------------------------------------------------------------------
(* Pushes and crashes.                                                     *)
LEMMA PushKeeps ==
  ASSUME IInv, NEW r \in Repos, Push(r)
  PROVE  IInv'
<1>1. UNCHANGED <<copy, fetchHead, call, cuts, spoilt>> /\ remote[r] <= MaxPushes
  BY DEF Push
<1>2. \A q \in Repos : remote[q] \in Commits /\ remote[q] \in Nat
  BY CodeQaAssumption DEF IInv, TypeOK, Commits
<1>3. remote[r] + 1 \in Commits
  BY <1>1, <1>2, CodeQaAssumption DEF Commits
<1>4. /\ remote' \in [Repos -> Commits]
      /\ \A q \in Repos : remote'[q] \in Nat /\ remote[q] <= remote'[q]
  <2>1. remote' = [remote EXCEPT ![r] = remote[r] + 1] /\ remote \in [Repos -> Commits]
    BY DEF Push, IInv, TypeOK
  <2>2. \A q \in Repos : remote'[q] = IF q = r THEN remote[r] + 1 ELSE remote[q]
    BY <2>1
  <2>3. remote' \in [Repos -> Commits]
    BY <1>3, <2>1
  <2>. QED
    BY <1>2, <2>2, <2>3
<1>5. TypeOK'
  <2>1. \A q \in Repos : copy[q].commit <= remote'[q] /\ fetchHead[q] <= remote'[q]
    <3>1. \A q \in Repos : copy[q].commit \in Nat /\ fetchHead[q] \in Nat
      BY CodeQaAssumption DEF IInv, TypeOK, Copy, Commits
    <3>. QED
      BY <1>2, <1>4, <3>1 DEF IInv, TypeOK
  <2>. QED
    BY <1>1, <1>4, <2>1 DEF IInv, TypeOK
<1>6. ASSUME NEW c \in Callers
      PROVE  CallInv(c)'
  <2>1. CallInv(c)
    BY DEF IInv
  <2>2. \A q \in Repos : call[c].since[q] <= remote'[q]
    BY <1>2, <1>4, <2>1, SinceType DEF IInv, CallInv, InOrder
  <2>3. call[c].at \in {"checkout", "received", "merge"} => call[c].fetched \in 1..remote'[Repo(c)]
    <3>1. call[c].at \in {"checkout", "received", "merge"} => Repo(c) \in Repos
      BY OneTurn DEF IInv
    <3>. QED
      BY <1>2, <1>4, <2>1, <3>1 DEF CallInv, InOrder
  <2>4. Repo(c)' = Repo(c)
    BY <1>1 DEF Repo
  <2>5. InOrder(c)'
    BY <1>1, <2>1, <2>2, <2>3, <2>4 DEF CallInv, InOrder
  <2>6. Fresh(c)' /\ AsListed(c)' /\ Answer(c)'
    BY <1>1, <2>1 DEF CallInv, Fresh, AsListed, Answer, UpdatedBy, ListedBy, Left
  <2>. QED
    BY <2>5, <2>6 DEF CallInv
<1>7. \A q \in Repos : CopyInv(q)'
  BY <1>1 DEF IInv, CopyInv, Clones, Repo
<1>. QED
  BY <1>5, <1>6, <1>7 DEF IInv

(* What was being cloned when the process died is torn, and counted as     *)
(* spoilt; every other copy is left whole or absent.                       *)
LEMMA CrashKeeps ==
  ASSUME IInv, Crash
  PROVE  IInv'
<1>. DEFINE hit(r) == \E c \in Callers : Writing(c) /\ Repo(c) = r
            cut == { r \in Repos : hit(r) }
<1>1. /\ cuts < MaxCuts /\ cuts' = cuts + 1 /\ UNCHANGED <<remote, fetchHead>>
      /\ copy' = [r \in Repos |-> IF r \in cut THEN [copy[r] EXCEPT !.state = "torn"] ELSE copy[r]]
      /\ spoilt' = spoilt \cup cut
      /\ call' = [c \in Callers |-> Idle]
  BY DEF Crash
<1>2. ASSUME NEW r \in Repos
      PROVE  /\ copy'[r] \in Copy
             /\ r \in cut => copy'[r].state = "torn" /\ copy'[r].commit = copy[r].commit
             /\ r \notin cut => copy'[r] = copy[r]
  BY <1>1, <1>2 DEF IInv, TypeOK, Copy
<1>3. cut \subseteq Repos
  OBVIOUS
<1>4. \A r \in Repos \ cut, c \in Callers : Clones(c, r) => copy[r].state = "absent"
  BY DEF Clones, Writing
<1>. HIDE DEF cut
<1>5. TypeOK'
  <2>1. call' \in [Callers -> Call] /\ \A c \in Callers : WellFormed(call'[c])
    BY <1>1, IdleIsWellFormed DEF WellFormed
  <2>2. copy' \in [Repos -> Copy]
    BY <1>1, <1>2
  <2>3. \A r \in Repos : /\ copy'[r].commit <= remote[r]
                         /\ copy'[r].state = "whole" => copy'[r].commit # 0
    BY <1>2 DEF IInv, TypeOK
  <2>4. cuts' \in 0..MaxCuts /\ spoilt' \subseteq Repos
    BY <1>1, <1>3, CodeQaAssumption DEF IInv, TypeOK
  <2>. QED
    BY <1>1, <2>1, <2>2, <2>3, <2>4 DEF IInv, TypeOK, WellFormed
<1>6. ASSUME NEW c \in Callers
      PROVE  CallInv(c)'
  <2>1. call'[c] = Idle
    BY <1>1
  <2>2. \A r \in Repos : remote'[r] >= 0
    BY <1>1, SinceType DEF IInv
  <2>3. InOrder(c)'
    BY <2>1, <2>2 DEF InOrder, Idle
  <2>. QED
    BY <2>1, <2>3 DEF CallInv, Fresh, AsListed, Answer, UpdatedBy, ListedBy, Left, Idle
<1>7. ASSUME NEW r \in Repos
      PROVE  CopyInv(r)'
  <2>1. \A c \in Callers : ~Clones(c, r)'
    BY <1>1 DEF Clones, Idle
  <2>2. r \notin spoilt' => copy'[r].state \notin {"torn", "begun"}
    <3>1. ASSUME r \notin spoilt'
          PROVE  copy'[r].state \notin {"torn", "begun"}
      <4>1. r \notin spoilt /\ r \notin cut /\ copy'[r] = copy[r]
        BY <1>1, <1>2, <3>1
      <4>2. copy[r].state # "begun"
        <5>1. SUFFICES ASSUME copy[r].state = "begun" PROVE FALSE
          OBVIOUS
        <5>2. PICK c \in Callers : Clones(c, r)
          BY <4>1, <5>1 DEF IInv, CopyInv
        <5>. QED
          BY <1>4, <4>1, <5>1, <5>2
      <4>. QED
        BY <4>1, <4>2 DEF IInv, CopyInv
    <3>. QED
      BY <3>1
  <2>. QED
    BY <2>1, <2>2 DEF CopyInv
<1>. QED
  BY <1>5, <1>6, <1>7 DEF IInv

-----------------------------------------------------------------------------
LEMMA InitIInv == Init => IInv
<1>. SUFFICES ASSUME Init PROVE IInv
  OBVIOUS
<1>1. 1 \in Commits /\ 0 \in 0..MaxCuts
  BY CodeQaAssumption DEF Commits
<1>2. Absent \in Copy /\ Absent.state = "absent"
  BY DEF Absent, Copy
<1>3. \A r \in Repos : remote[r] = 1 /\ copy[r] = Absent /\ copy[r].commit = 0 /\ fetchHead[r] = 0
  BY DEF Init, Absent
<1>4. \A c \in Callers : call[c] = Idle
  BY DEF Init
<1>5. TypeOK
  <2>1. call \in [Callers -> Call] /\ \A c \in Callers : WellFormed(call[c])
    BY <1>4, IdleIsWellFormed DEF WellFormed, Init
  <2>. QED
    BY <1>1, <1>2, <1>3, <2>1 DEF Init, TypeOK, WellFormed
<1>6. ASSUME NEW c \in Callers
      PROVE  CallInv(c)
  <2>1. InOrder(c)
    BY <1>3, <1>4 DEF InOrder, Idle
  <2>. QED
    BY <1>4, <2>1 DEF CallInv, Fresh, AsListed, Answer, UpdatedBy, ListedBy, Left, Idle
<1>7. \A r \in Repos : CopyInv(r)
  BY <1>2, <1>3, <1>4 DEF CopyInv, Clones, Idle
<1>. QED
  BY <1>5, <1>6, <1>7 DEF IInv

LEMMA GitKeeps ==
  ASSUME IInv, NEW c \in Callers, Git(c)
  PROVE  IInv'
<1>1. CASE CloneStarts(c)
  BY <1>1, CloneStartsKeeps
<1>2. CASE CloneFetches(c)
  BY <1>2, CloneFetchesKeeps
<1>3. CASE CloneEnds(c)
  BY <1>3, CloneEndsKeeps
<1>4. CASE CloneFails(c)
  BY <1>4, CloneFailsKeeps
<1>5. CASE PullFetches(c)
  BY <1>5, PullFetchesKeeps
<1>6. CASE PullWrites(c)
  BY <1>6, PullWritesKeeps
<1>7. CASE PullEnds(c)
  BY <1>7, PullEndsKeeps
<1>8. CASE PullFails(c)
  BY <1>8, RaisesKeeps DEF PullFails
<1>9. CASE GitKilled(c)
  BY <1>9, GitKilledKeeps
<1>. QED
  BY <1>1, <1>2, <1>3, <1>4, <1>5, <1>6, <1>7, <1>8, <1>9 DEF Git

LEMMA QueryKeeps ==
  ASSUME IInv, NEW c \in Callers, Query(c)
  PROVE  IInv'
<1>1. ASSUME NEW order \in Orders, Ask(c, order)
      PROVE  IInv'
  BY <1>1, AskKeeps
<1>2. CASE Update(c)
  BY <1>2, UpdateKeeps
<1>3. CASE Git(c)
  BY <1>3, GitKeeps
<1>4. CASE List(c)
  BY <1>4, ListKeeps
<1>5. ASSUME NEW picks \in Picks, Pick(c, picks)
      PROVE  IInv'
  BY <1>5, PickKeeps
<1>6. ASSUME NEW pick \in call[c].picks, Read(c, pick)
      PROVE  IInv'
  BY <1>6, ReadKeeps
<1>7. CASE Return(c)
  BY <1>7, RaisesKeeps DEF Return
<1>. QED
  BY <1>1, <1>2, <1>3, <1>4, <1>5, <1>6, <1>7 DEF Query

LEMMA StepIInv ==
  ASSUME IInv, [Next]_vars
  PROVE  IInv'
<1>1. ASSUME NEW c \in Callers, Query(c)
      PROVE  IInv'
  BY <1>1, QueryKeeps
<1>2. ASSUME NEW r \in Repos, Push(r)
      PROVE  IInv'
  BY <1>2, PushKeeps
<1>3. CASE Crash
  BY <1>3, CrashKeeps
<1>4. CASE UNCHANGED vars
  <2>1. UNCHANGED <<remote, copy, fetchHead, call, cuts, spoilt>>
    BY <1>4 DEF vars
  <2>2. TypeOK'
    BY <2>1 DEF IInv, TypeOK
  <2>3. \A c \in Callers : CallInv(c)'
    BY <2>1 DEF IInv, CallInv, InOrder, Fresh, AsListed, Answer, UpdatedBy, ListedBy, Left, Repo
  <2>4. \A r \in Repos : CopyInv(r)'
    BY <2>1 DEF IInv, CopyInv, Clones, Repo
  <2>. QED
    BY <2>2, <2>3, <2>4 DEF IInv
<1>. QED
  BY <1>1, <1>2, <1>3, <1>4 DEF Next

LEMMA Invariance == Spec => []IInv
BY InitIInv, StepIInv, PTL DEF Spec

(* Every copy and every call has its type, and a whole copy is of a commit *)
(* that was pushed.                                                        *)
THEOREM CodeQaTyped == Spec => []TypeOK
BY Invariance, PTL DEF IInv

(* Whatever the calls, pulls and clones in flight, an answer rests on all  *)
(* that was pushed before its question came, in every repository whose     *)
(* copy no clone or merge was cut off in, no pull came to while it was     *)
(* cloned, and no pull left at less than it had fetched.                   *)
THEOREM AnswersRestOnPushed == Spec => []AnswersAreFresh
<1>1. IInv => AnswersAreFresh
  BY DEF IInv, CallInv, Answer, AnswersAreFresh, Named
<1>. QED
  BY <1>1, Invariance, PTL

(* What a call reads is of the commit it listed, unless another call has   *)
(* changed that copy since.                                                *)
THEOREM ReadsAreListed == Spec => []ReadsWhatWasListed
<1>1. IInv => ReadsWhatWasListed
  BY DEF IInv, CallInv, Answer, ReadsWhatWasListed, Named
<1>. QED
  BY <1>1, Invariance, PTL

=============================================================================
