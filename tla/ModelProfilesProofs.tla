------------------------ MODULE ModelProfilesProofs -------------------------
(***************************************************************************)
(* That a switch of the model profile holds, for any threads, profiles and *)
(* faults.  Once a switch was made the cache is never empty, so no thread  *)
(* starts to look in the file; and if none was looking when the switch     *)
(* came, nobody is left who could put an older name into the cache.        *)
(***************************************************************************)
EXTENDS ModelProfiles, TLAPS

(* A switch has its one answer when it is done, and none before.           *)
SwitchCalls ==
  /\ \A a \in Actors : actor[a].task = "switch" => a = EventLoop
  /\ actor[EventLoop].task = "switch" =>
       IF At(EventLoop, "done") THEN Len(actor[EventLoop].got) = 1 ELSE actor[EventLoop].got = <<>>

(* What a thread is about to put into the cache is a profile.              *)
FoundIsDefined == \A a \in Actors : At(a, "store") => actor[a].found \in profiles

Warm == /\ lastSwitch \in profiles
        /\ cache = lastSwitch
        /\ \A a \in Actors : ~Cold(a)
        /\ At(EventLoop, "done") /\ actor[EventLoop].task = "switch" =>
             actor[EventLoop].got = <<lastSwitch>>

IInv == /\ TypeOK
        /\ SwitchCalls
        /\ FoundIsDefined
        /\ lastSwitch # None /\ ~raced => Warm

LEMMA IdleIsACall == Idle \in Call
BY DEF Idle, Call

LEMMA InitIInv == Init => IInv
<1>. SUFFICES ASSUME Init PROVE IInv
  OBVIOUS
<1>1. \A a \in Actors : actor[a] = Idle
  BY DEF Init
<1>2. TypeOK
  BY IdleIsACall DEF Init, TypeOK
<1>. QED
  BY <1>1, <1>2 DEF Init, IInv, SwitchCalls, FoundIsDefined, At, Idle, Actors

(* What is in the file, or the default, is a profile.                      *)
LEMMA FallbackIsDefined == ASSUME TypeOK PROVE Persisted \in profiles
BY DEF TypeOK, Persisted, Fallback

LEMMA BeginsKeeps ==
  ASSUME IInv, NEW a \in Actors, NEW task \in {"run", "status"}, Begins(a, task)
  PROVE  IInv'
<1>. DEFINE call == [actor[a] EXCEPT !.task = task, !.at = "check"]
<1>1. actor[a] = Idle /\ actor[a] \in Call /\ actor' = [actor EXCEPT ![a] = call]
  BY DEF Begins, IInv, TypeOK
<1>2. call \in Call /\ call.task = task /\ call.at = "check"
  BY <1>1 DEF Call, Tasks
<1>. HIDE DEF call
<1>3. TypeOK'
  BY <1>1, <1>2 DEF Begins, IInv, TypeOK, bounds, ghosts
<1>4. (\A b \in Actors \ {a} : actor'[b] = actor[b]) /\ actor'[a] = call
  BY <1>1 DEF IInv, TypeOK
<1>5. SwitchCalls'
  BY <1>2, <1>4 DEF IInv, SwitchCalls, At, Actors
<1>8. profiles' = profiles
  BY DEF Begins
<1>6. FoundIsDefined'
  BY <1>2, <1>4, <1>8 DEF IInv, FoundIsDefined, At
<1>7. (lastSwitch # None /\ ~raced => Warm)'
  BY <1>2, <1>4 DEF Begins, IInv, Warm, Cold, At, ghosts, Actors
<1>. QED
  BY <1>3, <1>5, <1>6, <1>7 DEF IInv

LEMMA CheckKeeps == ASSUME IInv, NEW a \in Actors, CheckCache(a) PROVE IInv'
<1>1. CASE cache \in profiles
  <2>. DEFINE got == Append(actor[a].got, cache)
              at == IF Len(got) = Answers(actor[a].task) THEN "done" ELSE "check"
  <2>1. actor[a] \in Call /\ actor[a].at = "check" /\ cache \in Names
    BY <1>1 DEF CheckCache, IInv, TypeOK, At
  <2>0. actor[a].got \in Seq(Names)
    BY <2>1 DEF Call
  <2>2. got \in Seq(Names)
    BY <2>0, <2>1
  <2>a. actor[a].got = <<>> => got = <<cache>>
    OBVIOUS
  <2>3. actor' = [actor EXCEPT ![a] = [actor[a] EXCEPT !.got = got, !.found = None, !.at = at]]
    BY <1>1 DEF CheckCache, Gets, IInv, TypeOK
  <2>4. [actor[a] EXCEPT !.got = got, !.found = None, !.at = at] \in Call
    BY <2>1, <2>2 DEF Call
  <2>5. TypeOK'
    BY <2>3, <2>4 DEF CheckCache, IInv, TypeOK, bounds, ghosts
  <2>6. /\ \A b \in Actors \ {a} : actor'[b] = actor[b]
        /\ actor'[a].task = actor[a].task /\ actor'[a].got = got /\ actor'[a].at = at
    BY <2>1, <2>3 DEF IInv, TypeOK, Call
  <2>7. actor[a].task = "switch" => a = EventLoop /\ got = <<cache>> /\ at = "done"
    BY <2>1, <2>a DEF IInv, SwitchCalls, At, Answers
  <2>. HIDE DEF got
  <2>8. at \in {"done", "check"}
    OBVIOUS
  <2>. HIDE DEF at
  <2>9. SwitchCalls'
    BY <2>6, <2>7 DEF IInv, SwitchCalls, At, Actors
  <2>10. FoundIsDefined'
    BY <2>6, <2>8 DEF CheckCache, IInv, FoundIsDefined, At
  <2>11. (lastSwitch # None /\ ~raced => Warm)'
    BY <2>6, <2>7, <2>8 DEF CheckCache, IInv, Warm, Cold, At, ghosts, Actors
  <2>. QED
    BY <2>5, <2>9, <2>10, <2>11 DEF IInv
<1>2. CASE cache \notin profiles
  <2>1. /\ actor[a].at = "check" /\ actor[a] \in Call
        /\ actor' = [actor EXCEPT ![a] = [actor[a] EXCEPT !.at = "file"]]
    BY <1>2 DEF CheckCache, GoTo, IInv, TypeOK, At
  <2>0. [actor[a] EXCEPT !.at = "file"] \in Call
    BY <2>1 DEF Call
  <2>2. TypeOK'
    BY <2>0, <2>1 DEF CheckCache, IInv, TypeOK, bounds, ghosts
  <2>3. /\ \A b \in Actors \ {a} : actor'[b] = actor[b]
        /\ actor'[a].task = actor[a].task /\ actor'[a].got = actor[a].got /\ actor'[a].at = "file"
    BY <2>1 DEF IInv, TypeOK, Call
  <2>4. ~(lastSwitch # None /\ ~raced)
    BY <1>2 DEF IInv, Warm
  <2>. QED
    BY <2>1, <2>2, <2>3, <2>4
       DEF CheckCache, IInv, SwitchCalls, FoundIsDefined, At, ghosts, Actors
<1>. QED
  BY <1>1, <1>2

LEMMA ReadKeeps == ASSUME IInv, NEW a \in Actors, ReadFile(a) PROVE IInv'
<1>1. /\ actor[a].at = "file" /\ actor[a] \in Call
      /\ actor' = [actor EXCEPT ![a] = [actor[a] EXCEPT !.at = "store", !.found = Persisted]]
  BY DEF ReadFile, IInv, TypeOK, At
<1>2. Persisted \in profiles /\ Persisted \in Names
  BY FallbackIsDefined DEF IInv, TypeOK
<1>0. [actor[a] EXCEPT !.at = "store", !.found = Persisted] \in Call
  BY <1>1, <1>2 DEF Call
<1>3. TypeOK'
  BY <1>0, <1>1 DEF ReadFile, IInv, TypeOK, bounds, ghosts
<1>4. /\ \A b \in Actors \ {a} : actor'[b] = actor[b]
      /\ actor'[a].task = actor[a].task /\ actor'[a].got = actor[a].got
      /\ actor'[a].at = "store" /\ actor'[a].found = Persisted
  BY <1>1 DEF IInv, TypeOK, Call
<1>5. ~(lastSwitch # None /\ ~raced)
  BY <1>1 DEF IInv, Warm, Cold
<1>. QED
  BY <1>1, <1>2, <1>3, <1>4, <1>5
     DEF ReadFile, IInv, SwitchCalls, FoundIsDefined, At, ghosts, Actors

LEMMA StoreKeeps == ASSUME IInv, NEW a \in Actors, StoreCache(a) PROVE IInv'
<1>. DEFINE found == actor[a].found
            got == Append(actor[a].got, found)
            at == IF Len(got) = Answers(actor[a].task) THEN "done" ELSE "check"
<1>1. actor[a] \in Call /\ actor[a].at = "store" /\ found \in profiles /\ found \in Names
  BY DEF StoreCache, IInv, TypeOK, At, FoundIsDefined
<1>0. actor[a].got \in Seq(Names)
  BY <1>1 DEF Call
<1>2. got \in Seq(Names)
  BY <1>0, <1>1
<1>a. actor[a].got = <<>> => got = <<found>>
  OBVIOUS
<1>3. actor' = [actor EXCEPT ![a] = [actor[a] EXCEPT !.got = got, !.found = None, !.at = at]]
  BY DEF StoreCache, Gets, IInv, TypeOK
<1>4. [actor[a] EXCEPT !.got = got, !.found = None, !.at = at] \in Call
  BY <1>1, <1>2 DEF Call
<1>5. TypeOK'
  BY <1>1, <1>3, <1>4 DEF StoreCache, IInv, TypeOK, bounds, ghosts
<1>6. /\ \A b \in Actors \ {a} : actor'[b] = actor[b]
      /\ actor'[a].task = actor[a].task /\ actor'[a].got = got /\ actor'[a].at = at
  BY <1>1, <1>3 DEF IInv, TypeOK, Call
<1>7. actor[a].task = "switch" => a = EventLoop /\ got = <<found>> /\ at = "done"
  BY <1>1, <1>a DEF IInv, SwitchCalls, At, Answers
<1>8. ~(lastSwitch # None /\ ~raced)
  BY <1>1 DEF IInv, Warm, Cold
<1>. HIDE DEF got
<1>9. at \in {"done", "check"}
  OBVIOUS
<1>. HIDE DEF at
<1>10. SwitchCalls'
  BY <1>6, <1>7 DEF IInv, SwitchCalls, At, Actors
<1>11. FoundIsDefined'
  BY <1>6, <1>9 DEF StoreCache, IInv, FoundIsDefined, At
<1>. QED
  BY <1>5, <1>8, <1>10, <1>11 DEF StoreCache, IInv, ghosts

(* A call that ends, by an error or after its answers.                     *)
LEMMA EndKeeps ==
  ASSUME IInv, NEW a \in Actors, actor' = [actor EXCEPT ![a] = Idle],
         faults' \in Nat, UNCHANGED <<profiles, kept, file, cache, stops, ghosts>>
  PROVE  IInv'
<1>1. TypeOK'
  BY IdleIsACall DEF IInv, TypeOK, ghosts
<1>2. (\A b \in Actors \ {a} : actor'[b] = actor[b]) /\ actor'[a] = Idle
  BY DEF IInv, TypeOK
<1>. QED
  BY <1>1, <1>2 DEF IInv, SwitchCalls, FoundIsDefined, Warm, Cold, At, Idle, ghosts, Actors

(* A switch.  The event loop was idle; whoever is looking for a profile    *)
(* now makes the switch a raced one.                                       *)
LEMMA SwitchKeeps == ASSUME IInv, NEW name \in Names, Switch(name) PROVE IInv'
<1>. DEFINE new == [Idle EXCEPT !.task = "switch", !.at = IF kept THEN "open" ELSE "check"]
            cross(a) == [actor[a] EXCEPT !.crossed = actor[a] # Idle]
<1>1. name \in profiles /\ actor[EventLoop] = Idle
      /\ actor' = [a \in Actors |-> IF a = EventLoop THEN new ELSE cross(a)]
  BY DEF Switch
<1>2. /\ new \in Call /\ new.task = "switch" /\ new.got = <<>>
      /\ new.at \in {"open", "check"}
  <2>. DEFINE at == IF kept THEN "open" ELSE "check"
  <2>1. at \in {"open", "check"}
    OBVIOUS
  <2>2. new = [Idle EXCEPT !.task = "switch", !.at = at]
    OBVIOUS
  <2>. HIDE DEF at, new
  <2>3. /\ new = [task |-> "switch", at |-> at, got |-> <<>>, found |-> None, crossed |-> FALSE]
    BY <2>2 DEF Idle
  <2>. QED
    BY <2>1, <2>3 DEF Call, Tasks
<1>3. \A a \in Actors : /\ cross(a) \in Call /\ cross(a).task = actor[a].task
                        /\ cross(a).at = actor[a].at /\ cross(a).found = actor[a].found
  BY DEF IInv, TypeOK, Call
<1>. HIDE DEF new, cross
<1>4. TypeOK'
  BY <1>1, <1>2, <1>3 DEF Switch, IInv, TypeOK, bounds
<1>5. actor'[EventLoop] = new /\ \A a \in Actors \ {EventLoop} : actor'[a] = cross(a)
  BY <1>1 DEF Actors
<1>6. SwitchCalls'
  BY <1>2, <1>3, <1>5 DEF IInv, SwitchCalls, At, Actors
<1>7. FoundIsDefined'
  BY <1>2, <1>3, <1>5 DEF Switch, IInv, FoundIsDefined, At, Actors
<1>8. (lastSwitch # None /\ ~raced => Warm)'
  <2>. SUFFICES ASSUME ~raced' PROVE Warm'
    OBVIOUS
  <2>1. \A a \in Actors : ~Cold(a)
    BY DEF Switch
  <2>2. \A a \in Actors : ~Cold(a)'
    BY <2>1, <1>2, <1>3, <1>5 DEF Cold
  <2>3. ~At(EventLoop, "done")'
    BY <1>2, <1>5 DEF At
  <2>. QED
    BY <1>1, <2>2, <2>3 DEF Switch, Warm
<1>. QED
  BY <1>4, <1>6, <1>7, <1>8 DEF IInv

(* The steps of a switch that leave the cache alone: each moves the event  *)
(* loop on.                                                                *)
LEMMA PersistKeeps ==
  ASSUME IInv, NEW where \in {"write", "check"}, GoTo(EventLoop, where),
         At(EventLoop, "open") \/ At(EventLoop, "write"),
         file' \in Names \cup {None}, faults' \in Nat, torn' \in BOOLEAN,
         UNCHANGED <<profiles, kept, cache, stops, lastSwitch, chosen, raced>>
  PROVE  IInv'
<1>. DEFINE call == [actor[EventLoop] EXCEPT !.at = where]
<1>1. actor[EventLoop] \in Call /\ actor' = [actor EXCEPT ![EventLoop] = call]
  BY DEF GoTo, IInv, TypeOK, Actors
<1>2. /\ call \in Call /\ call.task = actor[EventLoop].task
      /\ call.got = actor[EventLoop].got /\ call.at = where
  BY <1>1 DEF Call
<1>. HIDE DEF call
<1>3. TypeOK'
  BY <1>1, <1>2 DEF IInv, TypeOK
<1>4. (\A b \in Actors \ {EventLoop} : actor'[b] = actor[b]) /\ actor'[EventLoop] = call
  BY <1>1 DEF IInv, TypeOK, Actors
<1>5. SwitchCalls'
  BY <1>2, <1>4 DEF IInv, SwitchCalls, At, Actors
<1>6. FoundIsDefined'
  BY <1>2, <1>4 DEF IInv, FoundIsDefined, At
<1>7. (lastSwitch # None /\ ~raced => Warm)'
  BY <1>2, <1>4 DEF IInv, Warm, Cold, At, Actors
<1>. QED
  BY <1>3, <1>5, <1>6, <1>7 DEF IInv

LEMMA CrashKeeps == ASSUME IInv, Crash PROVE IInv'
<1>0. actor' \in [Actors -> Call] /\ stops' \in Nat
  BY IdleIsACall DEF Crash, IInv, TypeOK
<1>1. TypeOK'
  BY <1>0 DEF Crash, IInv, TypeOK
<1>2. \A a \in Actors : actor'[a] = Idle
  BY DEF Crash
<1>. QED
  BY <1>1, <1>2 DEF Crash, IInv, SwitchCalls, FoundIsDefined, At, Idle, Actors

LEMMA StepKeeps == IInv /\ [Next]_vars => IInv'
<1>. SUFFICES ASSUME IInv, [Next]_vars PROVE IInv'
  OBVIOUS
<1>1. ASSUME NEW a \in Actors, Lookup(a) PROVE IInv'
  <2>1. ASSUME ReadRaises(a) PROVE IInv'
    <3>1. faults' \in Nat
      BY <2>1 DEF ReadRaises, Fault, IInv, TypeOK
    <3>. QED
      BY <2>1, <3>1, EndKeeps DEF ReadRaises
  <2>. QED
    BY <1>1, <2>1, CheckKeeps, ReadKeeps, StoreKeeps DEF Lookup
<1>2. ASSUME NEW a \in Actors, Leave(a) \/ MakeRaises(a) PROVE IInv'
  BY <1>2, EndKeeps DEF Leave, MakeRaises, IInv, TypeOK, bounds
<1>3. ASSUME NEW t \in Threads, Run(t) PROVE IInv'
  BY <1>3, BeginsKeeps DEF Run, Actors
<1>4. ASSUME Status PROVE IInv'
  BY <1>4, BeginsKeeps DEF Status, Actors
<1>5. ASSUME NEW name \in Names, Switch(name) PROVE IInv'
  BY <1>5, SwitchKeeps
<1>6. ASSUME OpenFile PROVE IInv'
  BY <1>6, PersistKeeps DEF OpenFile, IInv, TypeOK, bounds, ghosts
<1>7. ASSUME WriteFile PROVE IInv'
  BY <1>7, PersistKeeps DEF WriteFile, IInv, TypeOK, bounds
<1>8. ASSUME PersistFails PROVE IInv'
  BY <1>8, PersistKeeps DEF PersistFails, Fault, IInv, TypeOK, ghosts
<1>9. ASSUME Crash PROVE IInv'
  BY <1>9, CrashKeeps
<1>10. ASSUME UNCHANGED vars PROVE IInv'
  BY <1>10 DEF vars, bounds, ghosts, IInv, TypeOK, SwitchCalls, FoundIsDefined, Warm, Cold, At
<1>. QED
  BY <1>1, <1>2, <1>3, <1>4, <1>5, <1>6, <1>7, <1>8, <1>9, <1>10 DEF Next, Actors

LEMMA Invariance == Spec => []IInv
BY InitIInv, StepKeeps, PTL DEF Spec

(* Every state of the profile and its users is well typed; in particular   *)
(* the cache of get_active_profile_name names a profile or nothing, also   *)
(* when the file names one that is no longer defined.                      *)
THEOREM ProfilesTyped == Spec => []TypeOK
<1>1. IInv => TypeOK
  BY DEF IInv
<1>. QED
  BY <1>1, Invariance, PTL

(* set_active_profile holds until the next switch for any threads,         *)
(* profiles and faults, if no thread was just reading the file when it     *)
(* came.                                                                   *)
THEOREM SwitchesHold == Spec => []WarmSwitchHolds
<1>1. IInv => WarmSwitchHolds
  BY DEF IInv, Warm, WarmSwitchHolds, Holds, SwitchCalls, Cold, At
<1>. QED
  BY <1>1, Invariance, PTL

-----------------------------------------------------------------------------
(***************************************************************************)
(* What every thread is told.  Until the first switch of a process it is   *)
(* what the file says, which does not change before; afterwards it is the  *)
(* name switched to, unless that switch was raced.                         *)
(***************************************************************************)
Current == IF lastSwitch = None THEN Persisted ELSE lastSwitch

Agreed ==
  /\ cache \in {None, Current}
  /\ \A a \in Actors : At(a, "store") => actor[a].found = Current
  /\ \A a \in Actors : ~actor[a].crossed => \A i \in 1..Len(actor[a].got) : actor[a].got[i] = Current

(* The event loop writes the file only for a switch, whose choice is torn  *)
(* until it is done.                                                       *)
Written ==
  /\ lastSwitch # None => chosen = lastSwitch
  /\ At(EventLoop, "open") \/ At(EventLoop, "write") => torn /\ lastSwitch # None
  /\ kept /\ ~torn /\ chosen # None => file = chosen

JInv == /\ Written
        /\ lastSwitch = None => ~raced
        /\ ~raced => Agreed

Inv == IInv /\ JInv

LEMMA InitInv == Init => Inv
<1>. SUFFICES ASSUME Init PROVE JInv
  BY InitIInv DEF Inv
<1>1. \A a \in Actors : actor[a] = Idle
  BY DEF Init
<1>. QED
  BY <1>1 DEF Init, JInv, Written, Agreed, At, Idle, Actors

(* A step of one thread that only moves it, with no new answer.            *)
LEMMA MoveAgrees ==
  ASSUME Inv, NEW a \in Actors, NEW call, actor' = [actor EXCEPT ![a] = call],
         call.at \notin {"open", "write"} \/ call.at = actor[a].at,
         call.at = "store" => call.found = Persisted /\ Cold(a),
         \/ call.got = <<>>
         \/ call.got = actor[a].got /\ call.crossed = actor[a].crossed,
         UNCHANGED <<profiles, kept, file, cache, ghosts>>
  PROVE  JInv'
<1>1. (\A b \in Actors \ {a} : actor'[b] = actor[b]) /\ actor'[a] = call
  BY DEF Inv, IInv, TypeOK
<1>2. /\ profiles' = profiles /\ kept' = kept /\ file' = file /\ cache' = cache
      /\ lastSwitch' = lastSwitch /\ chosen' = chosen /\ torn' = torn /\ raced' = raced
  BY DEF ghosts
<1>3. Current' = Current
  BY <1>2 DEF Current, Persisted, Fallback
<1>4. Written'
  BY <1>1, <1>2 DEF Inv, JInv, Written, At, Actors
<1>5. ~raced => Agreed'
  <2>. SUFFICES ASSUME ~raced PROVE Agreed'
    OBVIOUS
  <2>1. ASSUME At(a, "store")' PROVE actor'[a].found = Current
    BY <1>1, <2>1 DEF At, Current, Inv, IInv, Warm
  <2>2. ASSUME ~actor'[a].crossed, NEW i \in 1..Len(actor'[a].got) PROVE actor'[a].got[i] = Current
    BY <1>1, <2>2 DEF Inv, JInv, Agreed
  <2>. QED
    BY <1>1, <1>2, <1>3, <2>1, <2>2 DEF Inv, JInv, Agreed, At
<1>. QED
  BY <1>2, <1>4, <1>5 DEF Inv, JInv

(* A step that gives a thread the current name.                            *)
LEMMA GetsAgrees ==
  ASSUME Inv, NEW a \in Actors, NEW name \in Names, Gets(a, name), ~raced => name = Current,
         cache' = name, actor[a].at \in {"check", "store"},
         UNCHANGED <<profiles, kept, file, ghosts>>
  PROVE  JInv'
<1>. DEFINE got == Append(actor[a].got, name)
            at == IF Len(got) = Answers(actor[a].task) THEN "done" ELSE "check"
<1>1. actor[a] \in Call /\ actor[a].got \in Seq(Names)
  BY DEF Inv, IInv, TypeOK, Call
<1>2. actor' = [actor EXCEPT ![a] = [actor[a] EXCEPT !.got = got, !.found = None, !.at = at]]
  BY DEF Gets, Inv, IInv, TypeOK
<1>3. at \in {"done", "check"}
  OBVIOUS
<1>4. \A i \in 1..Len(got) : got[i] = name \/ (i \in 1..Len(actor[a].got) /\ got[i] = actor[a].got[i])
  BY <1>1
<1>. HIDE DEF got, at
<1>5. /\ \A b \in Actors \ {a} : actor'[b] = actor[b]
      /\ actor'[a].got = got /\ actor'[a].at = at /\ actor'[a].crossed = actor[a].crossed
  BY <1>1, <1>2 DEF Inv, IInv, TypeOK, Call
<1>6. /\ profiles' = profiles /\ kept' = kept /\ file' = file
      /\ lastSwitch' = lastSwitch /\ chosen' = chosen /\ torn' = torn /\ raced' = raced
  BY DEF ghosts
<1>7. Current' = Current
  BY <1>6 DEF Current, Persisted, Fallback
<1>8. Written'
  BY <1>3, <1>5, <1>6 DEF Inv, JInv, Written, At, Actors
<1>9. ~raced => Agreed'
  <2>. SUFFICES ASSUME ~raced PROVE Agreed'
    OBVIOUS
  <2>1. ~At(a, "store")'
    BY <1>3, <1>5 DEF At
  <2>2. ASSUME ~actor'[a].crossed, NEW i \in 1..Len(actor'[a].got) PROVE actor'[a].got[i] = Current
    BY <1>4, <1>5, <2>2 DEF Inv, JInv, Agreed
  <2>. QED
    BY <1>5, <1>7, <2>1, <2>2 DEF Inv, JInv, Agreed, At
<1>. QED
  BY <1>6, <1>8, <1>9 DEF Inv, JInv

LEMMA SwitchAgrees == ASSUME Inv, NEW name \in Names, Switch(name) PROVE JInv'
<1>. DEFINE cross(a) == [actor[a] EXCEPT !.crossed = actor[a] # Idle]
            new == [Idle EXCEPT !.task = "switch", !.at = IF kept THEN "open" ELSE "check"]
<1>1. /\ actor' = [a \in Actors |-> IF a = EventLoop THEN new ELSE cross(a)]
      /\ cache' = name /\ lastSwitch' = name /\ chosen' = name /\ torn' = TRUE
      /\ name # None
  BY ModelProfilesAssumption DEF Switch
<1>2. new.got = <<>> /\ ~(new.at = "store")
  BY DEF Idle
<1>3. \A a \in Actors : /\ cross(a).at = actor[a].at /\ cross(a).got = actor[a].got
                        /\ cross(a).crossed \/ actor[a].got = <<>>
  <2>. SUFFICES ASSUME NEW a \in Actors
                PROVE  /\ cross(a).at = actor[a].at /\ cross(a).got = actor[a].got
                       /\ cross(a).crossed \/ actor[a].got = <<>>
    OBVIOUS
  <2>1. actor[a] \in Call
    BY DEF Inv, IInv, TypeOK
  <2>2. /\ cross(a).at = actor[a].at /\ cross(a).got = actor[a].got
        /\ cross(a).crossed = (actor[a] # Idle)
    BY <2>1 DEF Call
  <2>3. CASE actor[a] = Idle
    BY <2>2, <2>3 DEF Idle
  <2>4. CASE actor[a] # Idle
    BY <2>2, <2>4
  <2>. QED
    BY <2>3, <2>4
<1>. HIDE DEF cross, new
<1>4. actor'[EventLoop] = new /\ \A a \in Actors \ {EventLoop} : actor'[a] = cross(a)
  BY <1>1 DEF Actors
<1>5. Written'
  BY <1>1 DEF Written
<1>6. ~raced' => Agreed'
  <2>. SUFFICES ASSUME ~raced' PROVE Agreed'
    OBVIOUS
  <2>1. \A a \in Actors : ~Cold(a)
    BY DEF Switch
  <2>2. \A a \in Actors : ~At(a, "store")'
    BY <2>1, <1>2, <1>3, <1>4 DEF Cold, At, Actors
  <2>3. \A a \in Actors : actor'[a].crossed \/ actor'[a].got = <<>>
    BY <1>2, <1>3, <1>4 DEF Actors
  <2>4. cache' = Current'
    BY <1>1 DEF Current
  <2>. QED
    BY <2>2, <2>3, <2>4 DEF Agreed
<1>. QED
  BY <1>1, <1>5, <1>6 DEF JInv

(* The file changes only under a switch, when Current does not look at it. *)
LEMMA PersistAgrees ==
  ASSUME Inv, NEW where \in {"write", "check"}, GoTo(EventLoop, where),
         At(EventLoop, "open") \/ At(EventLoop, "write"),
         UNCHANGED <<profiles, kept, cache, lastSwitch, chosen, raced>>,
         torn' = torn \/ (where = "check" /\ torn' = FALSE /\ file' = lastSwitch)
  PROVE  JInv'
<1>. DEFINE call == [actor[EventLoop] EXCEPT !.at = where]
<1>1. actor[EventLoop] \in Call /\ actor' = [actor EXCEPT ![EventLoop] = call]
  BY DEF GoTo, Inv, IInv, TypeOK, Actors
<1>2. call.got = actor[EventLoop].got /\ call.crossed = actor[EventLoop].crossed /\ call.at = where
  BY <1>1 DEF Call
<1>. HIDE DEF call
<1>3. (\A b \in Actors \ {EventLoop} : actor'[b] = actor[b]) /\ actor'[EventLoop] = call
  BY <1>1 DEF Inv, IInv, TypeOK, Actors
<1>4. lastSwitch # None /\ torn /\ chosen = lastSwitch
  BY DEF Inv, JInv, Written
<1>5. Current' = Current
  BY <1>4 DEF Current
<1>6. Written'
  BY <1>2, <1>3, <1>4 DEF Written, At
<1>7. ~raced => Agreed'
  BY <1>2, <1>3, <1>5 DEF Inv, JInv, Agreed, At, Actors
<1>. QED
  BY <1>4, <1>6, <1>7 DEF JInv

LEMMA CrashAgrees == ASSUME Inv, Crash PROVE JInv'
<1>1. \A a \in Actors : actor'[a] = Idle
  BY DEF Crash
<1>2. Written'
  BY <1>1 DEF Crash, Inv, JInv, Written, At, Idle, Actors
<1>3. Agreed'
  BY <1>1 DEF Crash, Agreed, At, Idle
<1>. QED
  BY <1>2, <1>3 DEF Crash, JInv

LEMMA StepAgrees == Inv /\ [Next]_vars => Inv'
<1>. SUFFICES ASSUME Inv, [Next]_vars PROVE JInv'
  BY StepKeeps DEF Inv
<1>1. ASSUME NEW a \in Actors, CheckCache(a) PROVE JInv'
  <2>1. CASE cache \in profiles
    <3>1. cache \in Names /\ cache # None
      BY <2>1, ModelProfilesAssumption DEF Inv, IInv, TypeOK
    <3>2. ~raced => cache = Current
      BY <3>1 DEF Inv, JInv, Agreed
    <3>. QED
      BY <1>1, <2>1, <3>1, <3>2, GetsAgrees DEF CheckCache, At
  <2>2. CASE cache \notin profiles
    <3>1. actor[a] \in Call /\ actor' = [actor EXCEPT ![a] = [actor[a] EXCEPT !.at = "file"]]
      BY <1>1, <2>2 DEF CheckCache, GoTo, Inv, IInv, TypeOK
    <3>. QED
      BY <1>1, <3>1, MoveAgrees DEF CheckCache, Call
  <2>. QED
    BY <2>1, <2>2
<1>2. ASSUME NEW a \in Actors, ReadFile(a) PROVE JInv'
  <2>1. /\ actor[a] \in Call /\ Cold(a)
        /\ actor' = [actor EXCEPT ![a] = [actor[a] EXCEPT !.at = "store", !.found = Persisted]]
    BY <1>2 DEF ReadFile, At, Cold, Inv, IInv, TypeOK
  <2>. QED
    BY <1>2, <2>1, MoveAgrees DEF ReadFile, Call
<1>3. ASSUME NEW a \in Actors, actor' = [actor EXCEPT ![a] = Idle],
             UNCHANGED <<profiles, kept, file, cache, ghosts>>
      PROVE  JInv'
  BY <1>3, MoveAgrees DEF Idle
<1>4. ASSUME NEW a \in Actors, StoreCache(a) PROVE JInv'
  <2>1. actor[a].found \in Names
    BY <1>4 DEF StoreCache, Inv, IInv, FoundIsDefined, TypeOK
  <2>2. ~raced => actor[a].found = Current
    BY <1>4 DEF StoreCache, Inv, JInv, Agreed
  <2>. QED
    BY <1>4, <2>1, <2>2, GetsAgrees DEF StoreCache, At
<1>5. ASSUME NEW a \in Actors, NEW task, Begins(a, task) PROVE JInv'
  <2>1. actor[a] \in Call
        /\ actor' = [actor EXCEPT ![a] = [actor[a] EXCEPT !.task = task, !.at = "check"]]
    BY <1>5 DEF Begins, Inv, IInv, TypeOK
  <2>. QED
    BY <1>5, <2>1, MoveAgrees DEF Begins, Call
<1>6. ASSUME NEW name \in Names, Switch(name) PROVE JInv'
  BY <1>6, SwitchAgrees
<1>7. ASSUME OpenFile PROVE JInv'
  BY <1>7, PersistAgrees DEF OpenFile, ghosts
<1>8. ASSUME WriteFile PROVE JInv'
  BY <1>8, PersistAgrees DEF WriteFile
<1>9. ASSUME PersistFails PROVE JInv'
  BY <1>9, PersistAgrees DEF PersistFails, ghosts
<1>10. ASSUME Crash PROVE JInv'
  BY <1>10, CrashAgrees
<1>11. ASSUME UNCHANGED vars PROVE JInv'
  BY <1>11 DEF vars, ghosts, Inv, JInv, Written, Agreed, Current, Persisted, Fallback, At
<1>. QED
  BY <1>1, <1>2, <1>3, <1>4, <1>5, <1>6, <1>7, <1>8, <1>9, <1>10, <1>11
     DEF Next, Lookup, ReadRaises, Leave, MakeRaises, Run, Status, Actors

LEMMA AgreedInvariance == Spec => []Inv
BY InitInv, StepAgrees, PTL DEF Spec

(* A choice written in full survives every restart, for any profiles the   *)
(* new process defines beside it and any threads.                          *)
THEOREM RestartsKeepChoice == Spec => []RestartKeepsChoice
<1>1. Inv => RestartKeepsChoice
  BY ModelProfilesAssumption
     DEF Inv, IInv, TypeOK, JInv, Written, Agreed, Current, Persisted, RestartKeepsChoice
<1>. QED
  BY <1>1, AgreedInvariance, PTL

(* A conversation books its tokens under another profile than the one it   *)
(* used only if a switch came between its two calls, or raced.             *)
THEOREM MixesNeedASwitch == Spec => []MixesOnlyAcrossSwitch
<1>1. Inv => MixesOnlyAcrossSwitch
  BY DEF Inv, JInv, Agreed, MixesOnlyAcrossSwitch, Mixed
<1>. QED
  BY <1>1, AgreedInvariance, PTL
=============================================================================
