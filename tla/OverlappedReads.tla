-------------------------- MODULE OverlappedReads --------------------------
(***************************************************************************)
(* ConcurrentEnforcer with a history of which memoized entries were        *)
(* published by a check that overlapped a write.                           *)
(***************************************************************************)
EXTENDS ConcurrentEnforcer

VARIABLES
    overlapped,  \* the goroutines in a reading call that overlapped a write
    lateSets,    \* the users whose cache entry such a call published
    lateRoles    \* the users whose directRoles entry such a call published

ovars == <<cvars, overlapped, lateSets, lateRoles>>

Reading(t) == frame[t] # Nil /\ frame[t].call.op \in Readers

\* The user for whom t, in this step, ends an overlapped call at its step step.
PublishedLate(t, step) ==
    IF t \in overlapped /\ At(t, step) /\ frame'[t] = Nil THEN {frame[t].id} ELSE {}

LateAt(steps) == UNION {PublishedLate(t, step) : t \in Threads, step \in steps}

OInit ==
    /\ CInit
    /\ overlapped = {}
    /\ lateSets = {}
    /\ lateRoles = {}

\* What a step does to the history.  An entry stays late until it is evicted or
\* a writer replaces it.
Track ==
    /\ overlapped' = {t \in Threads : Reading(t)' /\ (t \in overlapped \/ Writing')}
    /\ lateSets' = {id \in UserIDs :
          IF cache'[id] = cache[id]
          THEN id \in lateSets
          ELSE cache'[id] # Nil /\ id \in LateAt({"publish"})}
    /\ lateRoles' = {id \in UserIDs :
          IF directRoles'[id] = directRoles[id]
          THEN id \in lateRoles
          ELSE directRoles'[id] # Nil /\ id \in LateAt({"publish", "publishDirectRoles"})}

ONext == CNext /\ Track

OSpec == OInit /\ [][ONext]_ovars

-----------------------------------------------------------------------------
\* Between two writing calls everything memoized is right, and nothing is
\* memoized for a deleted user, except for entries that a check published that
\* overlapped a write and that no write has evicted or replaced since.  Every
\* other interleaving of Check and HasRole with a writer is harmless: a check
\* that starts after a write returned sees it, however many entries were
\* filled and evicted before (computeAndCache, directRolesOf, DeleteUser).
OnlyOverlappedReadsStale ==
    ~Writing => \A id \in UserIDs :
        /\ id \notin lateSets /\ cache[id] # Nil =>
              UserExists(id) /\ (Flat(id) => cache[id] = Effective(users[id]))
        /\ id \notin lateRoles /\ directRoles[id] # Nil =>
              UserExists(id) /\ directRoles[id] = users[id].roles
=============================================================================
