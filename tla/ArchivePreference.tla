------------------------- MODULE ArchivePreference -------------------------
(***************************************************************************)
(* The order of preference over the trials of a run, which are those an    *)
(* archive is driven with: failed, infeasible and feasible ones, and the   *)
(* populations that are selected from them.                                *)
(***************************************************************************)
EXTENDS Archive, Ranking

Run == Range(trials)

Ended == told = 0 /\ trials # <<>>

(***************************************************************************)
(* preferred() asks for dominance first and falls back on a key.  The two  *)
(* never contradict each other, so that preference is a strict total       *)
(* order: a chain of replacements, each by a preferred trial, never comes  *)
(* back to one that was given up.                                          *)
(***************************************************************************)
PreferenceIsTotal ==
    /\ \A s, t \in Run : s # t => Preferred(s, t) = ~Preferred(t, s)
    /\ \A t \in Run : ~Preferred(t, t)
    /\ \A s, t, u \in Run : Preferred(s, t) /\ Preferred(t, u) => Preferred(s, u)

(***************************************************************************)
(* non_dominated_sort() counts dominators down instead of comparing again, *)
(* and its own check for a cycle never fires: its fronts are what is left  *)
(* undominated when the earlier fronts are taken away, and they exhaust    *)
(* the trials.  select_population() then fills a population exactly,       *)
(* whatever front it has to cut and however its trials are spread, and     *)
(* never leaves out a trial of an earlier front than one it takes.         *)
(***************************************************************************)
SelectionFollowsTheFronts ==
    Ended =>
        LET fronts == NonDominatedSort(Run)
            Earlier(i) == UNION {fronts[j] : j \in 1 .. i - 1}
        IN  /\ Run = UNION ToSet(fronts)
            /\ \A i \in DOMAIN fronts :
                 fronts[i] = {t \in Run \ Earlier(i) :
                                ~\E u \in Run \ Earlier(i) : Dominates(u, t)}
            /\ \A size \in 0 .. Len(trials) :
                 LET selected == SelectPopulation(Run, size)
                 IN  /\ Cardinality(selected) = size
                     /\ \A i, j \in DOMAIN fronts :
                          i < j /\ fronts[j] \cap selected # {} => fronts[i] \subseteq selected
=============================================================================
