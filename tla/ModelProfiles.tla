--------------------------- MODULE ModelProfiles ----------------------------
(***************************************************************************)
(* The active model profile (llm/provider.py) and its users: the commands  *)
(* that switch and show it (make_model_switch_cog in discord_comms.py),    *)
(* which run on the event loop, and conversations (llm/loop.py), which run *)
(* in worker threads.  The choice is cached in a variable of the process   *)
(* and persisted in a file; the code holds no lock, and threads can take   *)
(* turns between any two of its accesses to the variable and the file.     *)
(***************************************************************************)
EXTENDS Naturals, Sequences

CONSTANTS
  Names,      \* profile names
  Default,    \* PANDABOT_DEFAULT_PROFILE
  None,       \* no name: the cache of a new process; an empty or no file
  Threads,    \* worker threads of conversations
  EventLoop,  \* the thread of the commands
  MaxFaults,  \* bound on file accesses that raise
  MaxStops    \* bound on crashes

ASSUME ModelProfilesAssumption ==
  /\ None \notin Names
  /\ EventLoop \notin Threads
  /\ MaxFaults \in Nat /\ MaxStops \in Nat

VARIABLES
  profiles,    \* the names the environment defines, read at the first use
  kept,        \* PANDABOT_DATA_DIR is set
  file,        \* what active_model.txt holds
  cache,       \* _active_profile_cache
  actor,       \* per thread the call it is in
  faults, stops,
  lastSwitch,  \* history: the last name given to set_active_profile in this process
  chosen,      \* history: the last name given to it in any process
  torn,        \* history: that name was not, or not yet, written to the file
  raced        \* history: a switch came while another thread looked for the
               \* profile of a process that had none

bounds == <<faults, stops>>
ghosts == <<lastSwitch, chosen, torn, raced>>
vars == <<profiles, kept, file, cache, actor, faults, stops, lastSwitch, chosen, torn, raced>>

Actors == Threads \cup {EventLoop}

(* at: the next access of the variable or the file.  got: the answers of   *)
(* get_active_profile_name so far.  crossed: a switch came in between.     *)
Tasks == {"run", "switch", "status"}
Idle  == [task |-> "none", at |-> "idle", got |-> <<>>, found |-> None, crossed |-> FALSE]

Call == [task : Tasks \cup {"none"},
         at : {"idle", "check", "file", "store", "open", "write", "done"},
         got : Seq(Names), found : Names \cup {None}, crossed : BOOLEAN]

TypeOK ==
  /\ profiles \in (SUBSET Names) \ {{}}
  /\ kept \in BOOLEAN
  /\ file \in Names \cup {None}
  /\ cache \in profiles \cup {None}
  /\ actor \in [Actors -> Call]
  /\ faults \in Nat /\ stops \in Nat
  /\ lastSwitch \in Names \cup {None} /\ chosen \in Names \cup {None}
  /\ torn \in BOOLEAN /\ raced \in BOOLEAN

Init ==
  /\ profiles \in (SUBSET Names) \ {{}}
  /\ kept \in BOOLEAN
  /\ file = None /\ cache = None
  /\ actor = [a \in Actors |-> Idle]
  /\ faults = 0 /\ stops = 0
  /\ lastSwitch = None /\ chosen = None /\ torn = FALSE /\ raced = FALSE

At(a, where)   == actor[a].at = where
GoTo(a, where) == actor' = [actor EXCEPT ![a].at = where]
Fault          == faults < MaxFaults /\ faults' = faults + 1

-----------------------------------------------------------------------------
(* get_active_profile_name.                                                *)

(* Env default or first profile                                            *)
Fallback == IF Default \in profiles THEN Default ELSE CHOOSE n \in profiles : TRUE

(* A conversation asks for its provider and then for the provider's name;  *)
(* the status command for the name and then the provider; the switch       *)
(* command for the provider whose model its banner shows.                  *)
Answers(task) == IF task = "switch" THEN 1 ELSE 2

Gets(a, name) ==
  LET got == Append(actor[a].got, name)
  IN  actor' = [actor EXCEPT ![a].got = got, ![a].found = None,
                             ![a].at = IF Len(got) = Answers(actor[a].task) THEN "done" ELSE "check"]

\* Mutant of CheckCache: the cache is not looked at.
CheckCacheNever(a) ==
  /\ At(a, "check")
  /\ GoTo(a, "file")
  /\ UNCHANGED <<profiles, kept, file, cache, bounds, ghosts>>

CheckCache(a) ==
  /\ At(a, "check")
  /\ IF cache \in profiles THEN Gets(a, cache) ELSE GoTo(a, "file")
  /\ UNCHANGED <<profiles, kept, file, cache, bounds, ghosts>>

\* Mutants of Persisted: the default goes first; the name is not looked up.
PersistedLast    == IF Default \in profiles THEN Default ELSE IF kept /\ file \in profiles THEN file ELSE Fallback
PersistedUnknown == IF kept /\ file # None THEN file ELSE Fallback

Persisted == IF kept /\ file \in profiles THEN file ELSE Fallback

ReadFile(a) ==
  /\ At(a, "file")
  /\ actor' = [actor EXCEPT ![a].at = "store", ![a].found = Persisted]
  /\ UNCHANGED <<profiles, kept, file, cache, bounds, ghosts>>

(* Any error but a missing file.                                           *)
ReadRaises(a) ==
  /\ At(a, "file") /\ kept
  /\ Fault
  /\ actor' = [actor EXCEPT ![a] = Idle]
  /\ UNCHANGED <<profiles, kept, file, cache, stops, ghosts>>

StoreCache(a) ==
  /\ At(a, "store")
  /\ cache' = actor[a].found
  /\ Gets(a, actor[a].found)
  /\ UNCHANGED <<profiles, kept, file, bounds, ghosts>>

Lookup(a) == CheckCache(a) \/ ReadFile(a) \/ ReadRaises(a) \/ StoreCache(a)

(* get_provider may raise when it builds the provider of that name; the    *)
(* conversation that asked for it ends.  (The provider is the last thing a *)
(* command asks for: it then ends without its reply, as in Leave.)         *)
MakeRaises(t) ==
  /\ t \in Threads /\ At(t, "check") /\ actor[t].got # <<>>
  /\ actor' = [actor EXCEPT ![t] = Idle]
  /\ UNCHANGED <<profiles, kept, file, cache, bounds, ghosts>>

(* The conversation goes on with what it got; the command replies.         *)
Leave(a) ==
  /\ At(a, "done")
  /\ actor' = [actor EXCEPT ![a] = Idle]
  /\ UNCHANGED <<profiles, kept, file, cache, bounds, ghosts>>

-----------------------------------------------------------------------------
Begins(a, task) ==
  /\ actor[a] = Idle
  /\ actor' = [actor EXCEPT ![a].task = task, ![a].at = "check"]
  /\ UNCHANGED <<profiles, kept, file, cache, bounds, ghosts>>

Run(t) == t \in Threads /\ Begins(t, "run")
Status == Begins(EventLoop, "status")

(* A thread that found no name in the cache and has not stored one yet.    *)
Cold(a) == actor[a].at \in {"file", "store"}

(* set_active_profile up to its assignment; an unknown name is refused.    *)
Switch(name) ==
  /\ actor[EventLoop] = Idle
  /\ name \in profiles
  /\ cache' = name
  /\ actor' = [a \in Actors |->
       IF a = EventLoop THEN [Idle EXCEPT !.task = "switch", !.at = IF kept THEN "open" ELSE "check"]
                        ELSE [actor[a] EXCEPT !.crossed = actor[a] # Idle]]
  /\ lastSwitch' = name /\ chosen' = name /\ torn' = TRUE
  /\ raced' = (raced \/ \E a \in Actors : Cold(a))
  /\ UNCHANGED <<profiles, kept, file, bounds>>

(* open(f, "w") empties the file.                                          *)
OpenFile ==
  /\ At(EventLoop, "open")
  /\ file' = None
  /\ GoTo(EventLoop, "write")
  /\ UNCHANGED <<profiles, kept, cache, bounds, ghosts>>

WriteFile ==
  /\ At(EventLoop, "write")
  /\ file' = lastSwitch
  /\ torn' = FALSE
  /\ GoTo(EventLoop, "check")
  /\ UNCHANGED <<profiles, kept, cache, bounds, lastSwitch, chosen, raced>>

(* Opening or writing raises, which is logged and otherwise ignored.       *)
PersistFails ==
  /\ At(EventLoop, "open") \/ At(EventLoop, "write")
  /\ Fault
  /\ GoTo(EventLoop, "check")
  /\ UNCHANGED <<profiles, kept, file, cache, stops, ghosts>>

(* The process dies and starts again, with the file as it is; by then the  *)
(* environment may define other profiles.                                  *)
Crash ==
  /\ stops < MaxStops
  /\ stops' = stops + 1
  /\ cache' = None
  /\ actor' = [a \in Actors |-> Idle]
  /\ profiles' \in (SUBSET Names) \ {{}}
  /\ lastSwitch' = None /\ raced' = FALSE
  /\ UNCHANGED <<kept, file, faults, chosen, torn>>

Next ==
  \/ \E a \in Actors : Lookup(a) \/ Leave(a)
  \/ \E t \in Threads : Run(t) \/ MakeRaises(t)
  \/ Status
  \/ \E name \in Names : Switch(name)
  \/ OpenFile \/ WriteFile \/ PersistFails
  \/ Crash

Spec == Init /\ [][Next]_vars

-----------------------------------------------------------------------------
(* A switch holds until the next one, and the model its banner shows is    *)
(* the one switched to, also when the choice could not be persisted;       *)
(* provided that no thread was just finding out the profile of a process   *)
(* that had not used it yet.                                               *)
Holds == /\ cache = lastSwitch
         /\ \A a \in Actors : At(a, "done") /\ actor[a].task = "switch" =>
              actor[a].got = <<lastSwitch>>

WarmSwitchHolds == lastSwitch # None /\ ~raced => Holds

(* A choice that was written in full is the active profile of every later  *)
(* process that still defines it, until the next switch.                   *)
RestartKeepsChoice ==
  kept /\ ~torn /\ chosen \in profiles /\ cache # None /\ lastSwitch = None => cache = chosen

(* A conversation gets its provider and the name under which its tokens    *)
(* are booked in two calls.  They are of one profile unless a switch came  *)
(* between, or raced.                                                      *)
Mixed(a) == At(a, "done") /\ Len(actor[a].got) = 2 /\ actor[a].got[1] # actor[a].got[2]

MixesOnlyAcrossSwitch == \A a \in Actors : Mixed(a) => actor[a].crossed \/ raced

=============================================================================
