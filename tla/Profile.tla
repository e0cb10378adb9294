------------------------------ MODULE Profile -------------------------------
(***************************************************************************)
(* The profiler (profile.c): profiles allocated with malloc(), the list of *)
(* active ones, the mudlle objects that refer to them through weak         *)
(* references, the profile timer, and the tick that its signal asks for.   *)
(***************************************************************************)
EXTENDS Integers, Sequences, FiniteSets

CONSTANTS Profiles,         \* profiles that can be allocated
          MaxCollections,   \* bound on nested collect_profile() calls
          MaxSignals        \* bound on the signals that wait for a tick

ASSUME ProfileAssumption == MaxCollections \in Nat /\ MaxSignals \in Nat

VARIABLES all_profiles,    \* the allocated profiles
          active_profiles, \* the list of active profiles, first to last
          profile,         \* is_active, referenced and whether limited, each
          refs,            \* how many mudlle objects refer to each profile
          collecting,      \* the collect_profile() calls under way
          is_profiling,    \* the timer runs
          flag,            \* XCOUNT_PROFILE_FLAG: a tick is due
          profile_count,   \* the signals that wait for a tick
          ticking,         \* inside profile_tick(), the flag cleared
          outcome,         \* "run", "assert" or "crash"
          stopped,         \* history: stop_profile() stopped a profile
          owed             \* history: the signals not yet charged to each profile

signal_vars == <<flag, profile_count, ticking>>
profile_vars == <<all_profiles, active_profiles, profile, refs, collecting, is_profiling,
                  signal_vars, outcome, stopped, owed>>

Listed == {active_profiles[i] : i \in 1..Len(active_profiles)}
Collections == Len(collecting)
Latest == collecting[Collections]
Earlier == SubSeq(collecting, 1, Collections - 1)

Blank == [is_active |-> FALSE, referenced |-> FALSE, limited |-> FALSE]

ProfileInit == /\ all_profiles = {} /\ active_profiles = <<>>
               /\ profile = [p \in Profiles |-> Blank]
               /\ refs = [p \in Profiles |-> 0]
               /\ collecting = <<>>
               /\ is_profiling = FALSE
               /\ flag = FALSE /\ profile_count = 0 /\ ticking = FALSE
               /\ owed = [p \in Profiles |-> 0]
               /\ outcome = "run" /\ stopped = FALSE

\* profile_tick() allocates nothing and calls no program
Mudlle == outcome = "run" /\ ~ticking

(***************************************************************************)
(* The routines of profile.c that the primitives are made of               *)
(***************************************************************************)
Position(p) == CHOOSE i \in 1..Len(active_profiles) : active_profiles[i] = p

\* the list without p
Without(p) ==
  IF p \in Listed
  THEN [i \in 1..(Len(active_profiles) - 1) |->
          active_profiles[IF i < Position(p) THEN i ELSE i + 1]]
  ELSE active_profiles

\* Mutant: every profile goes first
Activated_First(p, limited) == active_profiles' = <<p>> \o active_profiles

\* activate_profile(): unlimited profiles go first, limited ones last
Activated(p, limited) ==
  active_profiles' = IF limited THEN Append(active_profiles, p)
                                ELSE <<p>> \o active_profiles

\* maybe_start_profile_timer(), before p is activated: p is owed what comes
\* from then on, and what waits if the timer was running
StartTimer(p) == /\ is_profiling' = TRUE
                 /\ owed' = [owed EXCEPT ![p] = IF is_profiling THEN profile_count ELSE 0]
                 /\ UNCHANGED signal_vars

\* maybe_stop_profile_timer(), once the list is `left'
StopTimer(left) ==
  IF left = <<>>
  THEN /\ is_profiling' = FALSE /\ flag' = FALSE /\ profile_count' = 0
       /\ UNCHANGED ticking
  ELSE UNCHANGED <<is_profiling, signal_vars>>

\* dlist_remove() clears the links it takes out, so a second one writes
\* through NULL
deactivate_profile(p) ==
  IF p \in Listed THEN active_profiles' = Without(p) /\ UNCHANGED outcome
                  ELSE outcome' = "crash" /\ UNCHANGED active_profiles

\* maybe_free_profile() for the profile record r of p
maybe_free_profile(p, r) ==
  IF r.is_active \/ r.referenced
  THEN profile' = [profile EXCEPT ![p] = r] /\ UNCHANGED all_profiles
  ELSE profile' = [profile EXCEPT ![p] = Blank] /\ all_profiles' = all_profiles \ {p}

Held(p) == refs[p] > 0

(***************************************************************************)
(* Primitives of runtime/debug.c                                           *)
(***************************************************************************)
Start(p) == /\ StartTimer(p)
            /\ Activated(p, FALSE)
            /\ profile' = [profile EXCEPT ![p] = [is_active |-> TRUE,
                                                  referenced |-> TRUE,
                                                  limited |-> FALSE]]
            /\ refs' = [refs EXCEPT ![p] = @ + 1]
            /\ UNCHANGED <<collecting, outcome, stopped>>

\* start_profile(p|null): of a profile that runs, it just returns p.  As
\* is_active is never cleared, a profile that the program holds always runs.
start_profile == \E p \in Profiles :
                   /\ Mudlle
                   /\ p \in all_profiles => Held(p) /\ ~profile[p].is_active
                   /\ all_profiles' = all_profiles \cup {p}
                   /\ Start(p)

stop_profile == \E p \in all_profiles :
                  /\ Mudlle /\ Held(p) /\ profile[p].is_active
                  /\ deactivate_profile(p)
                  /\ stopped' = TRUE
                  /\ UNCHANGED <<all_profiles, profile, refs, collecting, is_profiling,
                                 signal_vars, owed>>

\* collect_profile(f, p|null), up to the call of f: a profile that runs
\* already just goes on
Collect(p, given) ==
  /\ Activated(p, TRUE)
  /\ StartTimer(p)
  /\ profile' = [profile EXCEPT ![p].is_active = TRUE, ![p].limited = TRUE]
  /\ collecting' = Append(collecting, [profile |-> p, given |-> given, limit |-> TRUE])
  /\ UNCHANGED <<refs, outcome, stopped>>

collect_new == \E p \in Profiles \ all_profiles :
                 /\ Mudlle /\ Collections < MaxCollections
                 /\ all_profiles' = all_profiles \cup {p}
                 /\ Collect(p, FALSE)

collect_profile ==
  \E p \in all_profiles :
    /\ Mudlle /\ Collections < MaxCollections /\ Held(p)
    /\ UNCHANGED all_profiles
    /\ IF ~profile[p].is_active THEN Collect(p, TRUE)
       ELSE /\ IF is_profiling
               THEN /\ collecting' = Append(collecting, [profile |-> p, given |-> TRUE,
                                                         limit |-> FALSE])
                    /\ UNCHANGED outcome
               ELSE outcome' = "assert" /\ UNCHANGED collecting
            /\ UNCHANGED <<active_profiles, profile, refs, is_profiling, signal_vars,
                           stopped, owed>>

\* the mudlle object of a profile that collect_profile() allocated
NewObject(p, given) ==
  IF given THEN UNCHANGED <<profile, refs>>
  ELSE /\ profile' = [profile EXCEPT ![p].referenced = TRUE]
       /\ refs' = [refs EXCEPT ![p] = @ + 1]

\* the rest of collect_profile(), after mcatch_call() or call0()
collected ==
  /\ Mudlle /\ collecting # <<>>
  /\ collecting' = Earlier
  /\ LET p == Latest.profile
     IN  IF ~Latest.limit
         THEN UNCHANGED <<active_profiles, profile, refs, is_profiling, signal_vars, outcome>>
         ELSE /\ deactivate_profile(p)
              /\ StopTimer(Without(p))
              /\ NewObject(p, Latest.given)
  /\ UNCHANGED <<all_profiles, stopped, owed>>

\* the collector frees a mudlle object that refers to a profile; the one that
\* collect_profile() was given stays reachable
Kept(p) == IF \E i \in 1..Collections : collecting[i].profile = p /\ collecting[i].given
           THEN 1 ELSE 0
profile_mudlle_free == \E p \in all_profiles :
                         /\ Mudlle /\ refs[p] > Kept(p)
                         /\ refs' = [refs EXCEPT ![p] = @ - 1]
                         /\ maybe_free_profile(p, [profile[p] EXCEPT !.referenced = FALSE])
                         /\ UNCHANGED <<active_profiles, collecting, is_profiling,
                                        signal_vars, outcome, stopped, owed>>

NotSignals == UNCHANGED <<all_profiles, active_profiles, profile, refs, collecting,
                          is_profiling, outcome, stopped>>

profile_sigprof_handler ==
  /\ outcome = "run" /\ is_profiling /\ profile_count < MaxSignals
  /\ flag' = TRUE /\ profile_count' = profile_count + 1
  /\ owed' = [p \in Profiles |-> IF p \in Listed THEN owed[p] + 1 ELSE owed[p]]
  /\ NotSignals /\ UNCHANGED ticking

\* what waits is taken in one access and charged to every profile of the list
Taken == /\ profile_count' = 0
         /\ owed' = [p \in Profiles |-> IF p \in Listed THEN owed[p] - profile_count
                                                        ELSE owed[p]]

\* Mutant: the flag is cleared after the signals are taken
profile_tick_ClearsLast ==
  \/ /\ Mudlle /\ flag
     /\ ticking' = TRUE /\ Taken
     /\ NotSignals /\ UNCHANGED flag
  \/ /\ outcome = "run" /\ ticking
     /\ ticking' = FALSE /\ flag' = FALSE
     /\ NotSignals /\ UNCHANGED <<profile_count, owed>>

\* the flag is cleared first; a signal may come before the signals are taken
profile_tick ==
  \/ /\ Mudlle /\ flag
     /\ ticking' = TRUE /\ flag' = FALSE
     /\ NotSignals /\ UNCHANGED <<profile_count, owed>>
  \/ /\ outcome = "run" /\ ticking
     /\ ticking' = FALSE /\ Taken
     /\ NotSignals /\ UNCHANGED flag

ProfileNext == \/ start_profile \/ stop_profile
               \/ collect_new \/ collect_profile \/ collected
               \/ profile_mudlle_free \/ profile_sigprof_handler \/ profile_tick

ProfileSpec == ProfileInit /\ [][ProfileNext]_profile_vars

-----------------------------------------------------------------------------
Record == [is_active : BOOLEAN, referenced : BOOLEAN, limited : BOOLEAN]
Collecting == [profile : Profiles, given : BOOLEAN, limit : BOOLEAN]

\* Every variable keeps to its type, and a profile has at most one object.
ProfileTypeOK == /\ all_profiles \subseteq Profiles
                 /\ active_profiles \in Seq(Profiles)
                 /\ profile \in [Profiles -> Record]
                 /\ refs \in [Profiles -> 0..1]
                 /\ collecting \in Seq(Collecting)
                 /\ is_profiling \in BOOLEAN /\ flag \in BOOLEAN /\ ticking \in BOOLEAN
                 /\ stopped \in BOOLEAN /\ profile_count \in Nat
                 /\ owed \in [Profiles -> Int]
                 /\ outcome \in {"run", "assert", "crash"}

\* The list holds each profile once, the unlimited ones first.
LimitedLast ==
  \A i, j \in 1..Len(active_profiles) : i < j =>
    /\ active_profiles[i] # active_profiles[j]
    /\ profile[active_profiles[i]].limited => profile[active_profiles[j]].limited

\* The collect_profile() calls that put their profile in the list
Limits == {i \in 1..Collections : collecting[i].limit}

\* The limited profiles of the list are those of these calls, in their order.
LimitsInOrder ==
  /\ {p \in Listed : profile[p].limited} = {collecting[i].profile : i \in Limits}
  /\ \A i, j \in Limits : \A a, b \in 1..Len(active_profiles) :
       i < j /\ active_profiles[a] = collecting[i].profile
             /\ active_profiles[b] = collecting[j].profile => a < b

\* While a profile is active the timer runs; unless stop_profile() was used, a
\* tick is only due while some profile is there to take it.
TickHasProfile == /\ active_profiles # <<>> => is_profiling
                  /\ flag => active_profiles # <<>> \/ stopped

\* "unlimited profiles are added first, limited are added last, and must be in
\* last-in-first-out (stack) order": the limited profiles of the list are
\* those of the collect_profile() calls under way, in their order, so that a tick
\* finds the limit of its stack trace in the last of them; and the timer runs
\* for them (profile.c).
StackOrder ==
  LimitedLast /\ TickHasProfile /\ (outcome = "run" /\ ~stopped => LimitsInOrder)

\* No signal is lost and none is charged twice: whatever signals come between
\* the two accesses of profile_tick(), and however profiles start, stop and
\* nest, every profile of the list has been charged for just the signals since
\* it was activated, or since the timer was started for it, and those that
\* waited then; and for those that still wait a tick is due or under way.
SignalsCounted == /\ \A p \in Listed : owed[p] = profile_count
                  /\ profile_count > 0 => flag \/ ticking

\* assert(was_profiling) in profile_call0()
AssertHolds == outcome # "assert"
=============================================================================
