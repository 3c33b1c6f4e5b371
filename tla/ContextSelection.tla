--------------------------- MODULE ContextSelection ---------------------------
(***************************************************************************)
(* Which items of the stored context a model is shown                      *)
(* (context_selection.rs): candidates are ranked by a score, and taken in  *)
(* that order while items and bytes last.                                  *)
(*                                                                         *)
(* What a task's words match is data: TaskHits gives the score the words   *)
(* of a task earn for a path, SymbolHits how many symbol words match in    *)
(* it, RelationHits what the relationship index knows of it.               *)
(***************************************************************************)
EXTENDS Lists, FiniteSets, SequencesExt

CONSTANTS PromptPaths,   \* path -> [test, stem]
          TaskHits,      \* <<task, path>> -> 0, 40 or 65
          SymbolHits,    \* path -> matching symbol words
          RelationHits,  \* [path, kind, score, ambiguous]
          ItemBytes,     \* kind -> the bytes of an item's path and content
          MaxItems

KindScore == [modified |-> 90, user |-> 94, excerpt |-> 55, inspected |-> 35, tool |-> 25,
              instructions |-> 52, repository |-> 15, git |-> 10]
SourceKinds == {"excerpt", "inspected"}

(* score_candidate: the kind, what is known of the path, age and the task's words *)
ScoreCandidate(c, newest) ==
    LET age == newest - c.recency
    IN  KindScore[c.kind]
        + (IF c.modified THEN 80 ELSE 0)
        + (IF c.targeted THEN 65 ELSE 0)
        + (IF c.diagnostic THEN 75 ELSE 0)
        + (IF c.stale THEN -220 ELSE IF c.kind \in SourceKinds THEN 25 ELSE 0)
        + 24 - (IF age > 24 THEN 24 ELSE age)
        + (IF <<c.task, c.path>> \in DOMAIN TaskHits THEN TaskHits[<<c.task, c.path>>] ELSE 0)

(* phase_bonus, one line per phase of the workflow *)
PhaseBonus(c) ==
    LET Of(kinds, n) == IF c.kind \in kinds THEN n ELSE 0
        edited == {"modified"} \cup SourceKinds
        base == CASE c.phase = "discover" -> 32 - Of(SourceKinds, 24)
                  [] c.phase = "inspect"  -> Of(SourceKinds, 42) + Of({"repository", "instructions", "tool"}, 16)
                                             + Of({"modified", "user", "git"}, 8)
                  [] c.phase = "modify"   -> Of({"modified", "user"}, 48) + Of(SourceKinds, 32) + Of({"tool"}, 20)
                                             + Of({"repository", "instructions", "git"}, 4)
                  [] c.phase = "verify"   -> Of(edited, 38) + Of({"tool", "git"}, 34) + Of({"user"}, 28)
                                             + Of({"repository", "instructions"}, 4)
                  [] c.phase = "complete" -> Of({"tool", "git"}, 30) + Of(edited, 24) + Of({"user"}, 20)
                                             + Of({"repository", "instructions"}, 4)
    IN  base + (IF c.diagnostic /\ c.phase = "inspect" THEN 30 ELSE 0)
             + (IF c.targeted /\ c.phase = "modify" THEN 25 ELSE 0)

SymbolBonus(c) == IF c.path \in DOMAIN SymbolHits THEN 40 * SymbolHits[c.path] ELSE 0

RoleBonus == [definition |-> 56, implementation |-> 50, caller |-> 44, test |-> 48,
              dependency |-> 32, import |-> 24, module |-> 20]

RelationshipHintBonus(c) ==
    FoldLeft(LAMBDA sum, h : sum + RoleBonus[h.kind] + (IF h.score > 128 THEN 128 ELSE h.score) \div 8
                                 - (IF h.ambiguous THEN 10 ELSE 0),
             0, SetToSeq({h \in RelationHits : h.path = c.path}))

(* a test of a modified file *)
RelationshipBonus(c, candidates) ==
    LET p == c.path
    IN  IF /\ p \in DOMAIN PromptPaths /\ PromptPaths[p].test
           /\ \E i \in DOMAIN candidates :
                /\ candidates[i].modified /\ candidates[i].path \in DOMAIN PromptPaths
                /\ ~PromptPaths[candidates[i].path].test
                /\ PromptPaths[candidates[i].path].stem = PromptPaths[p].stem
        THEN 45 ELSE 0

(* Every candidate that is ranked is new to the model, so each gets the 48
   points of delta_bonus. *)
CandidateScore(c, candidates) ==
    LET newest == Len(candidates) - 1
    IN  ScoreCandidate(c, newest) + PhaseBonus(c) + 48 + SymbolBonus(c)
        + RelationshipHintBonus(c) + RelationshipBonus(c, candidates)

Overlap(r, s) == r[1] <= s[2] /\ s[1] <= r[2]

(* is_duplicate: an excerpt that overlaps one already taken, or the same content *)
IsDuplicate(c, taken) ==
    \E i \in DOMAIN taken :
        LET t == taken[i].item
        IN  /\ t.path = c.path /\ t.kind = c.kind
            /\ IF c.kind = "excerpt" THEN Overlap(c.range, t.range) ELSE c.content = t.content

ByteLen(c) == ItemBytes[c.kind]

(* one candidate in rank order; the last one taken may be cut short *)
TakeCandidate(acc, c, budget) ==
    LET left  == budget - acc.used
        bytes == IF ByteLen(c) < left THEN ByteLen(c) ELSE left
    IN  IF Len(acc.items) = MaxItems \/ left = 0 \/ IsDuplicate(c, acc.items) THEN acc
        ELSE [acc EXCEPT !.items = Append(@, [item |-> c, truncated |-> bytes < ByteLen(c)]),
                         !.used = @ + bytes]

(* the ones that are new to the model, best first *)
Scored(candidates) ==
    {[c |-> c, score |-> CandidateScore(c, candidates)] : c \in {c \in ToSet(candidates) : c.delta}}
RanksBefore(a, b) == a.score > b.score \/ (a.score = b.score /\ a.c.recency < b.c.recency)

TakeBest(acc, budget) ==
    LET best == {r \in acc.open : \A s \in acc.open \ {r} : RanksBefore(r, s)}
        r == CHOOSE r \in best : TRUE
    IN  IF best = {} THEN acc ELSE [TakeCandidate(acc, r.c, budget) EXCEPT !.open = @ \ {r}]

SelectContext(candidates, budget) ==
    LET taken[n \in 0 .. 4 * MaxItems] ==
            IF n = 0 THEN [open |-> Scored(candidates), items |-> <<>>, used |-> 0]
            ELSE TakeBest(taken[n - 1], budget)
    IN  IF budget <= 0 THEN <<>> ELSE taken[4 * MaxItems].items
===============================================================================
