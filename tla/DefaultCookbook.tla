-------------------------- MODULE DefaultCookbook ---------------------------
(***************************************************************************)
(* ensure_default_cookbook of cookbook/service.py, statement by statement, *)
(* in overlapping requests of one user under READ COMMITTED, where the     *)
(* partial unique index uq_cookbooks_default_per_owner is the only thing   *)
(* that orders them.  Boards takes the whole of it as one step.            *)
(*                                                                         *)
(* A default cookbook, once committed, is never deleted (delete_cookbook   *)
(* answers 409).                                                           *)
(***************************************************************************)
EXTENDS Absent, FiniteSets

CONSTANTS Visit  \* the user's requests

ASSUME DefaultAssumption == None \notin Visit

VARIABLES
  visit,    \* each request: place in the code, and the cookbook it was given
  default   \* the rows of default cookbooks: the request that made it, committed

defaultVars == <<visit, default>>

Place == {"new", "missed", "tried", "unreachable", "served", "committed", "aborted"}

DefaultTypeOK ==
  /\ visit \in [Visit -> [at : Place, given : Visit \cup {None}]]
  /\ default \subseteq [by : Visit, committed : BOOLEAN]

DefaultInit ==
  /\ visit = [v \in Visit |-> [at |-> "new", given |-> None]]
  /\ default = {}

At(v, place) == visit[v].at = place
Move(v, place) == visit' = [visit EXCEPT ![v].at = place]

\* What a statement sees: what is committed when it begins, and the request's own row.
Seen(v) == {d \in default : d.committed \/ d.by = v}

\* _select_default_cookbook
Select(v, miss) ==
  /\ \/ \E d \in Seen(v) : visit' = [visit EXCEPT ![v] = [at |-> "served", given |-> d.by]]
     \/ Seen(v) = {} /\ Move(v, miss)
  /\ UNCHANGED default

Look(v) == At(v, "new") /\ Select(v, "missed")

\* Mutant of Settled: a conflict with a row that is not committed is skipped at once.
SettledOrNot(v) == TRUE

\* An insert that meets an uncommitted row of the index waits for its transaction to end.
Settled(v) == \A d \in default : d.committed

\* INSERT ... ON CONFLICT DO NOTHING
InsertDefault(v) ==
  /\ At(v, "missed")
  /\ Settled(v)
  /\ default' = IF default = {} THEN {[by |-> v, committed |-> FALSE]} ELSE default
  /\ Move(v, "tried")

Reselect(v) == At(v, "tried") /\ Select(v, "unreachable")

\* The end of the request, and its failure at any place.
CommitVisit(v) ==
  /\ At(v, "served")
  /\ Move(v, "committed")
  /\ default' = {[d EXCEPT !.committed = @ \/ d.by = v] : d \in default}

AbortVisit(v) ==
  /\ visit[v].at \notin {"new", "committed", "aborted"}
  /\ Move(v, "aborted")
  /\ default' = {d \in default : d.by # v}

DefaultNext ==
  \E v \in Visit :
    Look(v) \/ InsertDefault(v) \/ Reselect(v) \/ CommitVisit(v) \/ AbortVisit(v)

DefaultSpec == DefaultInit /\ [][DefaultNext]_defaultVars

-----------------------------------------------------------------------------
(* Properties *)

\* However requests overlap and fail, every one of them that goes on is given the same row,
\* and none falls through to the plain insert at the end, which the code calls unreachable.
OneDefaultGiven ==
  /\ \A v \in Visit : ~At(v, "unreachable")
  /\ \A v, w \in Visit :
       visit[v].at \in {"served", "committed"} /\ visit[w].at \in {"served", "committed"}
         => visit[v].given = visit[w].given
  /\ \A v \in Visit : At(v, "committed") => [by |-> visit[v].given, committed |-> TRUE] \in default

=============================================================================
