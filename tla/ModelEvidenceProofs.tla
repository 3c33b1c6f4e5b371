------------------------ MODULE ModelEvidenceProofs ------------------------
(***************************************************************************)
(* Proofs about what the model answers and what is kept and made of it:    *)
(* the work ledger, the Rainy adapter and the coding policy.  The lemmas   *)
(* on lists and induction are those of ContextProofs.                      *)
(***************************************************************************)
EXTENDS ContextProofs, WorkLedger, RainyBackend, CodingPolicy

(***************************************************************************)
(* The work ledger.  Every update either leaves the criteria alone, clears *)
(* them, or satisfies those that a check speaks of; what it does to the    *)
(* units of work is another matter (SameLedger).                           *)
(***************************************************************************)

\* v differs from w in its units of work, its objective and what follows from them.
SameLedger(v, w) ==
    /\ DOMAIN v = DOMAIN w
    /\ v.criteria = w.criteria /\ v.checks = w.checks
    /\ v.revision = w.revision /\ v.taskRevision = w.taskRevision

\* The criteria of w are satisfied by checks of the set by.
Earned(w, by) ==
    \A i \in DOMAIN w.criteria : w.criteria[i].satisfied =>
        \E command \in by : CriterionSupported(w.criteria[i].mentions, command)

NothingSatisfied(w) == \A i \in DOMAIN w.criteria : ~w.criteria[i].satisfied

LEMMA SameLedgerIsOK ==
    ASSUME NEW v, NEW w, SameLedger(v, w), WorkOK(w)
    PROVE  WorkOK(v) /\ \A by : Earned(w, by) => Earned(v, by)
BY DEF SameLedger, WorkOK, Earned

LEMMA WorkFields ==
    DOMAIN EmptyWork = {"mode", "objective", "constraints", "criteria", "subgoals", "active", "blockers",
                        "checks", "taskRevision", "fingerprint", "revision"}
BY DEF EmptyWork

\* The choice of the active unit changes nothing else.
LEMMA SelectionIsLocal ==
    ASSUME NEW w, DOMAIN w = DOMAIN EmptyWork
    PROVE  SameLedger(SelectActiveSubgoal(w), w)
BY WorkFields DEF SelectActiveSubgoal, SameLedger

LEMMA OutdatedChecks ==
    ASSUME NEW checks \in Seq(WorkChecks)
    PROVE  Outdated(checks) \in Seq(WorkChecks) /\ Len(Outdated(checks)) = Len(checks)
<1>1. \A i \in 1 .. Len(checks) : checks[i] \in WorkChecks  OBVIOUS
<1>2. \A c \in WorkChecks : [c EXCEPT !.status = "stale"] \in WorkChecks
  BY DEF WorkChecks
<1>3. DOMAIN checks = 1 .. Len(checks) /\ Len(checks) \in Nat  OBVIOUS
<1> QED BY <1>1, <1>2, <1>3 DEF Outdated

LEMMA UnsatisfiedCriteria ==
    ASSUME NEW criteria \in Seq(Criteria)
    PROVE  /\ Unsatisfied(criteria) \in Seq(Criteria) /\ Len(Unsatisfied(criteria)) = Len(criteria)
           /\ \A i \in DOMAIN Unsatisfied(criteria) : ~Unsatisfied(criteria)[i].satisfied
<1>1. \A i \in 1 .. Len(criteria) : criteria[i] \in Criteria  OBVIOUS
<1>2. \A c \in Criteria : [c EXCEPT !.satisfied = FALSE] \in Criteria
  BY DEF Criteria
<1>3. \A c \in Criteria : ~[c EXCEPT !.satisfied = FALSE].satisfied
  BY DEF Criteria
<1>4. DOMAIN criteria = 1 .. Len(criteria) /\ Len(criteria) \in Nat  OBVIOUS
<1>5. Unsatisfied(criteria) = [i \in 1 .. Len(criteria) |-> [criteria[i] EXCEPT !.satisfied = FALSE]]
  BY <1>4 DEF Unsatisfied
<1>6. \A i \in 1 .. Len(criteria) : Unsatisfied(criteria)[i] = [criteria[i] EXCEPT !.satisfied = FALSE]
  BY <1>5
<1>7. \A i \in 1 .. Len(criteria) : ~Unsatisfied(criteria)[i].satisfied
  BY <1>1, <1>3, <1>6
<1>8. Unsatisfied(criteria) \in Seq(Criteria) /\ DOMAIN Unsatisfied(criteria) = 1 .. Len(criteria)
  BY <1>1, <1>2, <1>4, <1>5
<1>9. Len(Unsatisfied(criteria)) = Len(criteria)
  BY <1>4, <1>8
<1> QED BY <1>7, <1>8, <1>9

LEMMA SatisfiedCriteria ==
    ASSUME NEW criteria \in Seq(Criteria), NEW command
    PROVE  /\ Satisfied(criteria, command) \in Seq(Criteria)
           /\ Len(Satisfied(criteria, command)) = Len(criteria)
           /\ \A i \in DOMAIN criteria :
                /\ Satisfied(criteria, command)[i].mentions = criteria[i].mentions
                /\ Satisfied(criteria, command)[i].satisfied =>
                      criteria[i].satisfied \/ CriterionSupported(criteria[i].mentions, command)
<1>1. \A i \in 1 .. Len(criteria) : criteria[i] \in Criteria  OBVIOUS
<1>2. \A c \in Criteria : /\ [c EXCEPT !.satisfied = TRUE] \in Criteria
                          /\ [c EXCEPT !.satisfied = TRUE].mentions = c.mentions
  BY DEF Criteria
<1>3. DOMAIN criteria = 1 .. Len(criteria) /\ Len(criteria) \in Nat  OBVIOUS
<1> QED BY <1>1, <1>2, <1>3 DEF Satisfied

LEMMA PushedIsBounded ==
    ASSUME NEW S, NEW items \in Seq(S), NEW item \in S, NEW limit \in Nat, Len(items) <= limit
    PROVE  PushBounded(items, item, limit) \in Seq(S) /\ Len(PushBounded(items, item, limit)) <= limit
<1> DEFINE all == Append(items, item)
<1>1. all \in Seq(S) /\ Len(all) = Len(items) + 1 /\ all # <<>>  BY AppendProperties
<1>2. Tail(all) \in Seq(S) /\ Len(Tail(all)) = Len(items)  BY <1>1
<1> HIDE DEF all
<1>3. Len(items) \in Nat  OBVIOUS
<1>4. PushBounded(items, item, limit) = IF Len(all) > limit THEN Tail(all) ELSE all
  BY DEF PushBounded, all
<1> QED BY <1>1, <1>2, <1>3, <1>4

\* What a prompt spells out is unsatisfied.
LEMMA ExtractedCriteria ==
    ASSUME NEW prompt \in Prompts
    PROVE  /\ ExtractCriteria(prompt) \in Seq(Criteria) /\ Len(ExtractCriteria(prompt)) <= MaxCriteria
           /\ \A i \in DOMAIN ExtractCriteria(prompt) : ~ExtractCriteria(prompt)[i].satisfied
<1> DEFINE n == IF Len(prompt.criteria) < MaxCriteria THEN Len(prompt.criteria) ELSE MaxCriteria
<1>1. prompt.criteria \in Seq(SUBSET CriterionWords) /\ MaxCriteria \in Nat
  BY PromptsAssumption, WorkLedgerAssumption
<1>2. n \in Nat /\ n <= MaxCriteria /\ n <= Len(prompt.criteria)  BY <1>1
<1> HIDE DEF n
<1>3. \A i \in 1 .. n : prompt.criteria[i] \in SUBSET CriterionWords  BY <1>1, <1>2
<1>4. ExtractCriteria(prompt) = [i \in 1 .. n |-> [mentions |-> prompt.criteria[i], satisfied |-> FALSE]]
  BY DEF ExtractCriteria, n
<1>5. \A i \in 1 .. n : [mentions |-> prompt.criteria[i], satisfied |-> FALSE] \in Criteria
  BY <1>3 DEF Criteria
<1> QED BY <1>2, <1>4, <1>5

LEMMA InitialWork == WorkOK(EmptyWork) /\ NothingSatisfied(EmptyWork)
BY WorkLedgerAssumption DEF WorkOK, NothingSatisfied, EmptyWork

\* A change of the task starts over; a prompt that changes nothing keeps what was earned.
LEMMA TaskUpdates ==
    ASSUME NEW w, WorkOK(w), NEW prompt \in Prompts, NEW constraints
    PROVE  LET v == TaskUpdated(w, prompt, constraints)
           IN  /\ WorkOK(v)
               /\ \/ NothingSatisfied(v)
                  \/ v.criteria = w.criteria /\ v.taskRevision = w.taskRevision
<1> DEFINE fresh == w.objective = ""
           mode  == ClassifyWorkMode(prompt)
           w1    == IF fresh THEN [EmptyWork EXCEPT !.mode = mode, !.objective = prompt.objective]
                    ELSE [w EXCEPT !.objective = prompt.objective]
           next  == IF constraints = <<>> THEN w1.constraints
                    ELSE SubSeq(constraints[1], 1, IF Len(constraints[1]) < MaxRelations
                                                   THEN Len(constraints[1]) ELSE MaxRelations)
           print == TaskFingerprint(prompt, next)
           changed == fresh \/ w.objective # prompt.objective \/ next # w1.constraints
                        \/ w1.fingerprint # print
           w2    == [w1 EXCEPT !.constraints = next]
           w3    == IF changed THEN InvalidateTaskCompletion([w2 EXCEPT !.taskRevision = @ + 1]) ELSE w2
           w4    == IF mode = "structured" THEN [w3 EXCEPT !.mode = "structured"] ELSE w3
           w5    == IF w4.subgoals = <<>> /\ mode = "structured"
                    THEN [w4 EXCEPT !.subgoals = <<[Subgoal(Root, {}, {}) EXCEPT !.status = "active"]>>,
                                    !.active = Root]
                    ELSE w4
           criteria == ExtractCriteria(prompt)
           v     == [w5 EXCEPT !.fingerprint = print,
                               !.criteria = IF @ = <<>> \/ (changed /\ criteria # <<>>) THEN criteria ELSE @]
<1>0. DOMAIN w = DOMAIN EmptyWork  BY DEF WorkOK
<1>1. WorkOK(w1) /\ (~fresh => SameLedger(w1, w))
  <2>1. CASE fresh
    BY <2>1, InitialWork, WorkFields DEF WorkOK
  <2>2. CASE ~fresh
    <3>1. SameLedger(w1, w)  BY <2>2, <1>0, WorkFields DEF SameLedger
    <3> QED BY <3>1, <2>2, SameLedgerIsOK
  <2> QED BY <2>1, <2>2
<1> HIDE DEF w1, next, print
<1>2. WorkOK(w2) /\ SameLedger(w2, w1)
  <2>1. SameLedger(w2, w1)  BY <1>1, WorkFields DEF SameLedger, WorkOK
  <2> QED BY <2>1, <1>1, SameLedgerIsOK
<1> HIDE DEF w2
<1>3. WorkOK(w3) /\ (changed => NothingSatisfied(w3)) /\ (~changed => SameLedger(w3, w2))
  <2>1. CASE changed
    <3> DEFINE u0 == [w2 EXCEPT !.taskRevision = @ + 1]
               u1 == MapSubgoals(u0, Stale)
               u2 == [u1 EXCEPT !.criteria = Unsatisfied(@), !.active = NoSubgoal]
    <3>1. WorkOK(u0)  BY <1>2, WorkFields DEF WorkOK
    <3> HIDE DEF u0
    <3>2. WorkOK(u1)  BY <3>1, WorkFields DEF WorkOK, MapSubgoals
    <3> HIDE DEF u1
    <3>3. u2.criteria = Unsatisfied(u1.criteria)
      BY <3>2, WorkFields DEF WorkOK
    <3>4. WorkOK(u2) /\ NothingSatisfied(u2)
      BY <3>2, <3>3, UnsatisfiedCriteria, WorkFields DEF WorkOK, NothingSatisfied
    <3>5. w3 = SelectActiveSubgoal(u2)
      BY <2>1 DEF InvalidateTaskCompletion, u0, u1, u2
    <3> HIDE DEF u2, w3
    <3>6. SameLedger(w3, u2)  BY <3>4, <3>5, SelectionIsLocal DEF WorkOK
    <3>7. WorkOK(w3) /\ NothingSatisfied(w3)
      BY <3>4, <3>6, SameLedgerIsOK DEF SameLedger, NothingSatisfied
    <3> QED BY <3>7, <2>1
  <2>2. CASE ~changed
    <3>1. w3 = w2  BY <2>2
    <3> QED BY <3>1, <2>2, <1>2 DEF SameLedger
  <2> QED BY <2>1, <2>2
<1> HIDE DEF w3
<1>4. SameLedger(w4, w3)  BY <1>3, WorkFields DEF SameLedger, WorkOK
<1> HIDE DEF w4
<1>5. SameLedger(w5, w4)  BY <1>3, <1>4, WorkFields DEF SameLedger, WorkOK
<1> HIDE DEF w5
<1>6. SameLedger(w5, w3) /\ WorkOK(w5)
  BY <1>3, <1>4, <1>5, SameLedgerIsOK DEF SameLedger
<1> DEFINE extracted == w5.criteria = <<>> \/ (changed /\ criteria # <<>>)
<1>7. /\ v.criteria = (IF extracted THEN criteria ELSE w5.criteria)
      /\ DOMAIN v = DOMAIN EmptyWork /\ v.checks = w5.checks
      /\ v.revision = w5.revision /\ v.taskRevision = w5.taskRevision
  BY <1>6, WorkFields DEF WorkOK
<1>8. v = TaskUpdated(w, prompt, constraints)
  BY DEF TaskUpdated, w1, next, print, w2, w3, w4, w5
<1>9. /\ criteria \in Seq(Criteria) /\ Len(criteria) <= MaxCriteria
      /\ \A i \in DOMAIN criteria : ~criteria[i].satisfied
  BY ExtractedCriteria
<1> HIDE DEF v, criteria, extracted
<1>10. WorkOK(v)  BY <1>6, <1>7, <1>9 DEF WorkOK
<1>11. CASE extracted
  <2>1. NothingSatisfied(v)  BY <1>11, <1>7, <1>9 DEF NothingSatisfied
  <2> QED BY <2>1, <1>10, <1>8
<1>12. CASE ~extracted /\ changed
  <2>1. v.criteria = w3.criteria  BY <1>12, <1>7, <1>6 DEF SameLedger
  <2>2. NothingSatisfied(v)  BY <2>1, <1>3, <1>12 DEF NothingSatisfied
  <2> QED BY <2>2, <1>10, <1>8
<1>13. CASE ~extracted /\ ~changed
  <2>1. ~fresh  BY <1>13
  <2>2. v.criteria = w.criteria /\ v.taskRevision = w.taskRevision
    BY <2>1, <1>13, <1>1, <1>2, <1>3, <1>6, <1>7 DEF SameLedger
  <2> QED BY <2>2, <1>10, <1>8
<1> QED BY <1>11, <1>12, <1>13

\* The units of work are rewritten one by one, and everything else stays.
LEMMA MappingIsLocal ==
    ASSUME NEW w, DOMAIN w = DOMAIN EmptyWork, NEW units
    PROVE  SameLedger([w EXCEPT !.subgoals = units], w)
BY WorkFields DEF SameLedger

LEMMA OutlinesAreLocal ==
    ASSUME NEW w, DOMAIN w = DOMAIN EmptyWork, NEW outline
    PROVE  SameLedger(ModelUpdated(w, outline), w)
<1> DEFINE w1 == [w EXCEPT !.subgoals = WithProposals(@, outline.subgoals), !.mode = "structured"]
<1>1. SameLedger(w1, w)  BY WorkFields DEF SameLedger
<1>2. ModelUpdated(w, outline) = IF outline.active # NoSubgoal THEN [w1 EXCEPT !.active = outline.active]
                                 ELSE SelectActiveSubgoal(w1)
  BY DEF ModelUpdated
<1>3. DOMAIN w1 = DOMAIN EmptyWork  BY <1>1 DEF SameLedger
<1> HIDE DEF w1
<1>4. SameLedger([w1 EXCEPT !.active = outline.active], w1)  BY <1>3, WorkFields DEF SameLedger
<1>5. SameLedger(SelectActiveSubgoal(w1), w1)  BY <1>3, SelectionIsLocal
<1> QED BY <1>1, <1>2, <1>4, <1>5 DEF SameLedger

LEMMA BlockersAreLocal ==
    ASSUME NEW w, DOMAIN w = DOMAIN EmptyWork, NEW key
    PROVE  SameLedger(BlockerRecorded(w, key), w) /\ SameLedger(BlockerCleared(w, key), w)
<1>1. SameLedger(BlockerRecorded(w, key), w)
  BY WorkFields DEF SameLedger, BlockerRecorded, MapSubgoals
<1>2. SameLedger(BlockerCleared(w, key), w)
  <2> DEFINE Unblock(s) == IF s.status = "blocked" THEN [s EXCEPT !.status = "active"] ELSE s
             w1 == [w EXCEPT !.blockers = Remaining(@, key)]
             w2 == MapSubgoals(w1, Unblock)
  <2>1. SameLedger(w2, w)  BY WorkFields DEF SameLedger, MapSubgoals
  <2>2. BlockerCleared(w, key) = SelectActiveSubgoal(w2)  BY DEF BlockerCleared
  <2> HIDE DEF w2
  <2>3. SameLedger(SelectActiveSubgoal(w2), w2)  BY <2>1, SelectionIsLocal DEF SameLedger
  <2> QED BY <2>1, <2>2, <2>3 DEF SameLedger
<1> QED BY <1>1, <1>2

\* Changes from outside make the checks stale; the criteria are the task's, not the workspace's.
LEMMA InvalidationKeepsCriteria ==
    ASSUME NEW w, WorkOK(w)
    PROVE  WorkOK(WorkspaceInvalidated(w)) /\ WorkspaceInvalidated(w).criteria = w.criteria
<1> DEFINE w1 == MapSubgoals(w, Stale)
           w2 == [w1 EXCEPT !.active = NoSubgoal, !.checks = Outdated(@)]
<1>1. SameLedger(w1, w)  BY WorkFields DEF WorkOK, SameLedger, MapSubgoals
<1>2. WorkOK(w1)  BY <1>1, SameLedgerIsOK
<1> HIDE DEF w1
<1>3. w2.checks = Outdated(w1.checks) /\ w2.criteria = w1.criteria
  BY <1>2, WorkFields DEF WorkOK
<1>4. WorkOK(w2)  BY <1>2, <1>3, OutdatedChecks, WorkFields DEF WorkOK
<1>5. WorkspaceInvalidated(w) = SelectActiveSubgoal(w2)  BY DEF WorkspaceInvalidated, w1
<1>6. w2.criteria = w.criteria  BY <1>1, <1>3 DEF SameLedger
<1> HIDE DEF w2
<1>7. SameLedger(SelectActiveSubgoal(w2), w2)  BY <1>4, SelectionIsLocal DEF WorkOK
<1> QED BY <1>4, <1>5, <1>6, <1>7, SameLedgerIsOK DEF SameLedger

\* A mutation takes back what older checks earned.
LEMMA MutationsUnsatisfy ==
    ASSUME NEW w, WorkOK(w), NEW paths
    PROVE  WorkOK(MutationRecorded(w, paths)) /\ NothingSatisfied(MutationRecorded(w, paths))
<1> DEFINE w1 == [w EXCEPT !.revision = @ + 1, !.criteria = Unsatisfied(@),
                           !.subgoals = WithPaths(w, paths), !.checks = Outdated(@)]
<1>1. /\ w1.criteria = Unsatisfied(w.criteria) /\ w1.checks = Outdated(w.checks)
      /\ w1.revision = w.revision + 1 /\ w1.taskRevision = w.taskRevision
      /\ DOMAIN w1 = DOMAIN EmptyWork
  BY WorkFields DEF WorkOK
<1>2. MutationRecorded(w, paths) = SelectActiveSubgoal(w1)  BY DEF MutationRecorded
<1> HIDE DEF w1
<1>3. WorkOK(w1) /\ NothingSatisfied(w1)
  BY <1>1, OutdatedChecks, UnsatisfiedCriteria DEF WorkOK, NothingSatisfied
<1>4. SameLedger(SelectActiveSubgoal(w1), w1)  BY <1>3, SelectionIsLocal DEF WorkOK
<1> QED BY <1>2, <1>3, <1>4, SameLedgerIsOK DEF SameLedger, NothingSatisfied

\* A check is put in the place of the one it repeats, or at the end of a bounded list.
LEMMA ChecksAreRecorded ==
    ASSUME NEW w, WorkOK(w), NEW command \in WorkCommands, NEW passed
    PROVE  WorkOK(WithCheck(w, command, passed)) /\ WithCheck(w, command, passed).criteria = w.criteria
<1> DEFINE check == [command |-> command.name, revision |-> w.revision,
                     status |-> IF passed THEN "passed" ELSE "failed"]
           same == {i \in DOMAIN w.checks : /\ w.checks[i].command = command.name
                                            /\ w.checks[i].revision = w.revision}
           place == CHOOSE i \in same : \A j \in same : i <= j
           put == [w.checks EXCEPT ![place] = check]
           pushed == PushBounded(w.checks, check, MaxWorkChecks)
<1>1. check \in WorkChecks  BY DEF WorkChecks, WorkOK
<1>2. pushed \in Seq(WorkChecks) /\ Len(pushed) <= MaxWorkChecks
  BY <1>1, PushedIsBounded, WorkLedgerAssumption DEF WorkOK
<1>3. put \in Seq(WorkChecks) /\ Len(put) <= MaxWorkChecks
  <2>1. w.checks \in Seq(WorkChecks) /\ Len(w.checks) <= MaxWorkChecks  BY DEF WorkOK
  <2> HIDE DEF check, place
  <2>2. \A i \in 1 .. Len(w.checks) : put[i] \in WorkChecks  BY <1>1, <2>1
  <2>3. Len(w.checks) \in Nat /\ DOMAIN put = 1 .. Len(w.checks)  BY <2>1
  <2>4. put = [i \in 1 .. Len(w.checks) |-> put[i]]  BY <2>3
  <2> HIDE DEF put
  <2>5. put \in Seq(WorkChecks)
    <3>1. put \in [1 .. Len(w.checks) -> WorkChecks]  BY <2>2, <2>4
    <3> QED BY <3>1, <2>3, SeqDef
  <2>6. Len(put) = Len(w.checks)  BY <2>3, <2>5
  <2> QED BY <2>1, <2>5, <2>6
<1>4. WithCheck(w, command, passed) =
         IF same # {} THEN [w EXCEPT !.checks = put] ELSE [w EXCEPT !.checks = pushed]
  BY WorkFields DEF WithCheck, WorkOK
<1> HIDE DEF check, same, place, put, pushed
<1> QED BY <1>2, <1>3, <1>4, WorkFields DEF WorkOK

\* A check that passes satisfies only what it speaks of.
LEMMA ChecksSatisfy ==
    ASSUME NEW w, WorkOK(w), NEW command \in WorkCommands, NEW passed \in BOOLEAN, NEW affected,
           NEW by, Earned(w, by)
    PROVE  LET v == VerificationRecorded(w, command, passed, affected)
           IN  WorkOK(v) /\ Earned(v, IF passed THEN by \cup {command} ELSE by)
<1> DEFINE w1 == WithCheck(w, command, passed)
           Covered(s) == s.paths # {} /\ s.paths \subseteq affected /\ DependenciesComplete(w1, s)
           Close(s) == IF Covered(s) THEN [s EXCEPT !.status = "complete"] ELSE s
           w2 == [MapSubgoals(w1, Close) EXCEPT !.criteria = Satisfied(@, command)]
           done == /\ \A s \in ToSet(w2.subgoals) : s.paths # {} => s.status = "complete"
                   /\ w2.blockers = <<>>
           CloseRoot(s) == IF done /\ s.id = Root THEN [s EXCEPT !.status = "complete"] ELSE s
           w3 == MapSubgoals(w2, CloseRoot)
<1>1. VerificationRecorded(w, command, passed, affected) = IF passed THEN SelectActiveSubgoal(w3) ELSE w1
  BY DEF VerificationRecorded
<1>2. WorkOK(w1) /\ w1.criteria = w.criteria  BY ChecksAreRecorded
<1> HIDE DEF w1
<1>3. /\ w2.criteria = Satisfied(w1.criteria, command) /\ w2.checks = w1.checks
      /\ w2.revision = w1.revision /\ w2.taskRevision = w1.taskRevision
      /\ DOMAIN w2 = DOMAIN EmptyWork
  BY <1>2, WorkFields DEF WorkOK, MapSubgoals
<1>4. SameLedger(w3, w2)  BY <1>3, WorkFields DEF SameLedger, MapSubgoals
<1> HIDE DEF w2, w3
<1>5. WorkOK(w2)  BY <1>2, <1>3, SatisfiedCriteria DEF WorkOK
<1>6. Earned(w2, by \cup {command})
  <2> SUFFICES ASSUME NEW i \in DOMAIN w2.criteria, w2.criteria[i].satisfied
               PROVE  \E c \in by \cup {command} : CriterionSupported(w2.criteria[i].mentions, c)
    BY DEF Earned
  <2>1. w.criteria \in Seq(Criteria) /\ w2.criteria = Satisfied(w.criteria, command)
    BY <1>2, <1>3 DEF WorkOK
  <2>2. i \in DOMAIN w.criteria  BY <2>1, SatisfiedCriteria DEF Satisfied
  <2>3. /\ w2.criteria[i].mentions = w.criteria[i].mentions
        /\ w.criteria[i].satisfied \/ CriterionSupported(w.criteria[i].mentions, command)
    BY <2>1, <2>2, SatisfiedCriteria
  <2> QED BY <2>2, <2>3 DEF Earned
<1>7. SameLedger(SelectActiveSubgoal(w3), w3)  BY <1>3, <1>4, SelectionIsLocal DEF SameLedger
<1>8. SameLedger(SelectActiveSubgoal(w3), w2)  BY <1>4, <1>7 DEF SameLedger
<1>9. CASE passed  BY <1>9, <1>1, <1>5, <1>6, <1>8, SameLedgerIsOK
<1>10. CASE ~passed  BY <1>10, <1>1, <1>2 DEF Earned
<1> QED BY <1>9, <1>10

\* The types of the ledger, the bounds of its criteria and checks, and that nothing is satisfied without
\* a check are kept by every update of the ledger (WorkState).
THEOREM LedgerInvHolds == LedgerSpec => []LedgerInv
<1>1. LedgerInit => LedgerInv
  BY InitialWork DEF LedgerInit, LedgerInv, LedgerTypeOK, SatisfiedWasChecked, NothingSatisfied
<1>2. LedgerInv /\ [LedgerNext]_ledgerVars => LedgerInv'
  <2> SUFFICES ASSUME LedgerInv, [LedgerNext]_ledgerVars PROVE LedgerInv'  OBVIOUS
  <2>0. WorkOK(work) /\ Earned(work, proved) /\ ledgerSteps \in Nat /\ proved \subseteq WorkCommands
    BY DEF LedgerInv, LedgerTypeOK, SatisfiedWasChecked, Earned
  <2> DEFINE Stays == WorkOK(work') /\ Earned(work', proved') /\ ledgerSteps' \in Nat
                        /\ proved' \subseteq WorkCommands
  <2>1. Stays => LedgerInv'
    BY DEF LedgerInv, LedgerTypeOK, SatisfiedWasChecked, Earned
  <2>2. ASSUME WorkOK(work'), NothingSatisfied(work'), ledgerSteps' = ledgerSteps + 1,
               proved' \subseteq WorkCommands
        PROVE  Stays
    BY <2>0, <2>2 DEF Earned, NothingSatisfied
  <2>3. ASSUME WorkOK(work'), work'.criteria = work.criteria, ledgerSteps' = ledgerSteps + 1, proved' = proved
        PROVE  Stays
    BY <2>0, <2>3 DEF Earned
  <2>4. ASSUME SameLedger(work', work), ledgerSteps' = ledgerSteps + 1, proved' = proved
        PROVE  Stays
    BY <2>0, <2>3, <2>4, SameLedgerIsOK DEF SameLedger
  <2> HIDE DEF Stays
  <2>5. ASSUME ApplyTaskUpdate PROVE Stays
    <3>1. PICK prompt \in Prompts, constraints \in {<<>>, <<<<>>>>, <<<<"c">>>>} :
             /\ work' = TaskUpdated(work, prompt, constraints) /\ ledgerSteps' = ledgerSteps + 1
             /\ proved' = IF work'.taskRevision # work.taskRevision THEN {} ELSE proved
      BY <2>5 DEF ApplyTaskUpdate, Ledger
    <3>2. /\ WorkOK(work')
          /\ \/ NothingSatisfied(work')
             \/ work'.criteria = work.criteria /\ work'.taskRevision = work.taskRevision
      BY <2>0, <3>1, TaskUpdates
    <3>3. CASE NothingSatisfied(work')  BY <2>0, <2>2, <3>1, <3>2, <3>3
    <3>4. CASE work'.criteria = work.criteria /\ work'.taskRevision = work.taskRevision
      BY <2>3, <3>1, <3>2, <3>4
    <3> QED BY <3>2, <3>3, <3>4
  <2>6. ASSUME ApplyModelUpdate PROVE Stays
    <3>1. PICK outline \in Outlines :
             /\ work' = IF Acceptable(work, outline) THEN ModelUpdated(work, outline) ELSE work
             /\ ledgerSteps' = ledgerSteps + 1 /\ proved' = proved
      BY <2>6 DEF ApplyModelUpdate, Ledger
    <3>2. SameLedger(work', work)  BY <2>0, <3>1, OutlinesAreLocal DEF WorkOK, SameLedger
    <3> QED BY <2>4, <3>1, <3>2
  <2>7. ASSUME RecordLedgerMutation PROVE Stays
    <3>1. PICK paths : /\ work' = MutationRecorded(work, paths)
                       /\ ledgerSteps' = ledgerSteps + 1 /\ proved' = {}
      BY <2>7 DEF RecordLedgerMutation, Ledger
    <3> QED BY <2>0, <2>2, <3>1, MutationsUnsatisfy
  <2>8. ASSUME RecordLedgerVerification PROVE Stays
    <3>1. PICK command \in WorkCommands, passed \in BOOLEAN, affected \in SUBSET WorkPaths :
             /\ work' = VerificationRecorded(work, command, passed, affected)
             /\ ledgerSteps' = ledgerSteps + 1
             /\ proved' = IF passed THEN proved \cup {command} ELSE proved
      BY <2>8 DEF RecordLedgerVerification, Ledger
    <3>2. WorkOK(work') /\ Earned(work', proved')  BY <2>0, <3>1, ChecksSatisfy
    <3> QED BY <2>0, <3>1, <3>2 DEF Stays
  <2>9. ASSUME RecordBlocker PROVE Stays
    <3>1. PICK key \in BlockerKeys : /\ work' = BlockerRecorded(work, key)
                                     /\ ledgerSteps' = ledgerSteps + 1 /\ proved' = proved
      BY <2>9 DEF RecordBlocker, Ledger
    <3> QED BY <2>0, <2>4, <3>1, BlockersAreLocal DEF WorkOK
  <2>10. ASSUME ClearBlocker PROVE Stays
    <3>1. PICK key \in BlockerKeys : /\ work' = BlockerCleared(work, key)
                                     /\ ledgerSteps' = ledgerSteps + 1 /\ proved' = proved
      BY <2>10 DEF ClearBlocker, Ledger
    <3> QED BY <2>0, <2>4, <3>1, BlockersAreLocal DEF WorkOK
  <2>11. ASSUME InvalidateForWorkspaceChange PROVE Stays
    <3>1. work' = WorkspaceInvalidated(work) /\ ledgerSteps' = ledgerSteps + 1 /\ proved' = proved
      BY <2>11 DEF InvalidateForWorkspaceChange, Ledger
    <3> QED BY <2>0, <2>3, <3>1, InvalidationKeepsCriteria
  <2>12. ASSUME UNCHANGED ledgerVars PROVE Stays
    BY <2>0, <2>12 DEF ledgerVars, Stays
  <2> QED BY <2>1, <2>5, <2>6, <2>7, <2>8, <2>9, <2>10, <2>11, <2>12 DEF LedgerNext
<1> QED BY <1>1, <1>2, PTL DEF LedgerSpec

\* An acceptance criterion is satisfied only by a check that passed after the last mutation and the
\* last change of the task (record_mutation, invalidate_task_completion), for any prompts, outlines,
\* checks and limits of the lists.
THEOREM CriteriaAreEarned == LedgerSpec => []SatisfiedWasChecked
BY LedgerInvHolds, PTL DEF LedgerInv

(***************************************************************************)
(* The outline of the work.  Most updates change what the units are, not   *)
(* which there are or what they wait for.                                  *)
(***************************************************************************)

Outlined(w) == DOMAIN w = DOMAIN EmptyWork /\ UnitsOK(w.subgoals)

LEMMA UnitFields == DOMAIN Subgoal(Root, {}, {}) = {"id", "status", "deps", "paths"}
BY DEF Subgoal

LEMMA ItsOwnSequence ==
    ASSUME NEW f, NEW n \in Nat, f = [i \in 1 .. n |-> f[i]]
    PROVE  f \in Seq(ToSet(f)) /\ Len(f) = n /\ DOMAIN f = 1 .. n
<1>1. DOMAIN f = 1 .. n  OBVIOUS
<1>2. \A i \in 1 .. n : f[i] \in ToSet(f)  BY <1>1 DEF ToSet
<1> QED BY <1>1, <1>2

LEMMA UnitsForm ==
    ASSUME NEW units, UnitsOK(units)
    PROVE  /\ Len(units) \in Nat /\ DOMAIN units = 1 .. Len(units)
           /\ units = [i \in 1 .. Len(units) |-> units[i]]
BY DEF UnitsOK

\* Units that are the same but for their status and paths.
LEMMA SameOutline ==
    ASSUME NEW units, UnitsOK(units), NEW vs, vs = [i \in DOMAIN units |-> vs[i]],
           \A i \in DOMAIN units : /\ vs[i].id = units[i].id /\ vs[i].deps = units[i].deps
                                   /\ DOMAIN vs[i] = DOMAIN units[i]
    PROVE  UnitsOK(vs)
<1>1. Len(units) \in Nat /\ DOMAIN units = 1 .. Len(units)  BY UnitsForm
<1>2. vs \in Seq(ToSet(vs)) /\ DOMAIN vs = DOMAIN units  BY <1>1, ItsOwnSequence
<1>3. {vs[i].id : i \in DOMAIN vs} = {units[i].id : i \in DOMAIN units}  BY <1>2
<1>4. ~Circular(vs)
  <2> SUFFICES ASSUME Circular(vs) PROVE Circular(units)
    BY DEF UnitsOK
  <2> QED BY <1>2, <1>3 DEF Circular
<1> QED BY <1>2, <1>4 DEF UnitsOK

LEMMA SelectingIsOutlined ==
    ASSUME NEW w, Outlined(w)
    PROVE  Outlined(SelectActiveSubgoal(w))
<1> DEFINE ready == {i \in DOMAIN w.subgoals : /\ w.subgoals[i].status \in {"pending", "active", "stale"}
                                               /\ DependenciesComplete(w, w.subgoals[i])}
           first == CHOOSE i \in ready : \A j \in ready : i <= j
           unit == [w.subgoals[first] EXCEPT !.status = "active"]
           units == [w.subgoals EXCEPT ![first] = unit]
<1>0. DOMAIN w = DOMAIN EmptyWork /\ UnitsOK(w.subgoals)  BY DEF Outlined
<1>1. CASE ready = {}
  <2>1. SelectActiveSubgoal(w) = [w EXCEPT !.active = NoSubgoal]  BY <1>1 DEF SelectActiveSubgoal
  <2>2. [w EXCEPT !.active = NoSubgoal].subgoals = w.subgoals  BY <1>0, WorkFields
  <2> QED BY <1>0, <2>1, <2>2 DEF Outlined
<1>2. CASE ready # {}
  <2>1. SelectActiveSubgoal(w) = [w EXCEPT !.active = w.subgoals[first].id, !.subgoals[first].status = "active"]
    BY <1>2 DEF SelectActiveSubgoal
  <2> HIDE DEF first, ready
  <2>2. \A i \in DOMAIN w.subgoals : DOMAIN w.subgoals[i] = {"id", "status", "deps", "paths"}
    BY <1>0, UnitFields DEF UnitsOK
  <2>3. /\ DOMAIN units = DOMAIN w.subgoals /\ units = [i \in DOMAIN w.subgoals |-> units[i]]
        /\ \A i \in DOMAIN units : /\ units[i].id = w.subgoals[i].id /\ units[i].deps = w.subgoals[i].deps
                                   /\ DOMAIN units[i] = DOMAIN w.subgoals[i]
    BY <2>2
  <2>4. [w EXCEPT !.active = w.subgoals[first].id, !.subgoals[first].status = "active"].subgoals = units
    BY <1>0, WorkFields
  <2>5. UnitsOK(units)
    <3> HIDE DEF units
    <3> QED BY <1>0, <2>3, SameOutline
  <2> QED BY <1>0, <2>1, <2>4, <2>5, WorkFields DEF Outlined
<1> QED BY <1>1, <1>2

\* A field that is not the list of units does not matter; a list of the same units may replace it.
LEMMA OtherFields ==
    ASSUME NEW w, Outlined(w), NEW v, DOMAIN v = DOMAIN w,
           v.subgoals = w.subgoals
    PROVE  Outlined(v)
BY DEF Outlined

LEMMA StaleUnits ==
    ASSUME NEW w, Outlined(w)
    PROVE  Outlined(MapSubgoals(w, Stale))
<1> DEFINE units == [i \in DOMAIN w.subgoals |-> Stale(w.subgoals[i])]
<1>0. DOMAIN w = DOMAIN EmptyWork /\ UnitsOK(w.subgoals)  BY DEF Outlined
<1>1. \A i \in DOMAIN w.subgoals : DOMAIN w.subgoals[i] = {"id", "status", "deps", "paths"}
  BY <1>0, UnitFields DEF UnitsOK
<1>2. \A i \in DOMAIN w.subgoals : /\ units[i].id = w.subgoals[i].id /\ units[i].deps = w.subgoals[i].deps
                                   /\ DOMAIN units[i] = DOMAIN w.subgoals[i]
  BY <1>1 DEF Stale
<1>3. MapSubgoals(w, Stale).subgoals = units /\ DOMAIN MapSubgoals(w, Stale) = DOMAIN w
  BY <1>0, WorkFields DEF MapSubgoals
<1>4. units = [i \in DOMAIN w.subgoals |-> units[i]]  OBVIOUS
<1> HIDE DEF units
<1>5. UnitsOK(units)  BY <1>0, <1>2, <1>4, SameOutline
<1> QED BY <1>0, <1>3, <1>5 DEF Outlined

LEMMA InvalidatingIsOutlined ==
    ASSUME NEW w, Outlined(w)
    PROVE  Outlined(InvalidateTaskCompletion(w)) /\ Outlined(WorkspaceInvalidated(w))
<1> DEFINE s == MapSubgoals(w, Stale)
           a == [s EXCEPT !.criteria = Unsatisfied(@), !.active = NoSubgoal]
           b == [s EXCEPT !.active = NoSubgoal, !.checks = Outdated(@)]
<1>1. Outlined(s)  BY StaleUnits
<1>2. InvalidateTaskCompletion(w) = SelectActiveSubgoal(a) /\ WorkspaceInvalidated(w) = SelectActiveSubgoal(b)
  BY DEF InvalidateTaskCompletion, WorkspaceInvalidated
<1> HIDE DEF s
<1>3. DOMAIN a = DOMAIN s /\ a.subgoals = s.subgoals /\ DOMAIN b = DOMAIN s /\ b.subgoals = s.subgoals
  BY <1>1, WorkFields DEF Outlined
<1> HIDE DEF a, b
<1>4. Outlined(a) /\ Outlined(b)  BY <1>1, <1>3, OtherFields
<1> QED BY <1>2, <1>4, SelectingIsOutlined

LEMMA CheckingIsOutlined ==
    ASSUME NEW w, Outlined(w), NEW command, NEW passed, NEW affected
    PROVE  Outlined(VerificationRecorded(w, command, passed, affected))
<1> DEFINE w1 == WithCheck(w, command, passed)
           Covered(s) == s.paths # {} /\ s.paths \subseteq affected /\ DependenciesComplete(w1, s)
           Close(s) == IF Covered(s) THEN [s EXCEPT !.status = "complete"] ELSE s
           closed == MapSubgoals(w1, Close)
           w2 == [closed EXCEPT !.criteria = Satisfied(@, command)]
           done == /\ \A s \in ToSet(w2.subgoals) : s.paths # {} => s.status = "complete"
                   /\ w2.blockers = <<>>
           CloseRoot(s) == IF done /\ s.id = Root THEN [s EXCEPT !.status = "complete"] ELSE s
           w3 == MapSubgoals(w2, CloseRoot)
<1>1. VerificationRecorded(w, command, passed, affected) = IF passed THEN SelectActiveSubgoal(w3) ELSE w1
  BY DEF VerificationRecorded
<1>2. Outlined(w1)
  <2>1. DOMAIN w1 = DOMAIN w /\ w1.subgoals = w.subgoals  BY WorkFields DEF WithCheck, Outlined
  <2> HIDE DEF w1
  <2> QED BY <2>1, OtherFields
<1> HIDE DEF w1
<1>3. Outlined(closed)
  <2> DEFINE units == [i \in DOMAIN w1.subgoals |-> Close(w1.subgoals[i])]
  <2>0. DOMAIN w1 = DOMAIN EmptyWork /\ UnitsOK(w1.subgoals)  BY <1>2 DEF Outlined
  <2>1. \A i \in DOMAIN w1.subgoals : DOMAIN w1.subgoals[i] = {"id", "status", "deps", "paths"}
    BY <2>0, UnitFields DEF UnitsOK
  <2> HIDE DEF Covered
  <2>2. \A i \in DOMAIN w1.subgoals : /\ units[i].id = w1.subgoals[i].id /\ units[i].deps = w1.subgoals[i].deps
                                      /\ DOMAIN units[i] = DOMAIN w1.subgoals[i]
    BY <2>1
  <2>3. closed.subgoals = units /\ DOMAIN closed = DOMAIN w1
    BY <2>0, WorkFields DEF MapSubgoals
  <2>4. units = [i \in DOMAIN w1.subgoals |-> units[i]]  OBVIOUS
  <2> HIDE DEF units
  <2>5. UnitsOK(units)  BY <2>0, <2>2, <2>4, SameOutline
  <2> QED BY <2>0, <2>3, <2>5 DEF Outlined
<1> HIDE DEF closed
<1>4. Outlined(w2)
  <2>1. DOMAIN w2 = DOMAIN closed /\ w2.subgoals = closed.subgoals  BY <1>3, WorkFields DEF Outlined
  <2> HIDE DEF w2
  <2> QED BY <1>3, <2>1, OtherFields
<1> HIDE DEF w2
<1>5. Outlined(w3)
  <2> DEFINE units == [i \in DOMAIN w2.subgoals |-> CloseRoot(w2.subgoals[i])]
  <2>0. DOMAIN w2 = DOMAIN EmptyWork /\ UnitsOK(w2.subgoals)  BY <1>4 DEF Outlined
  <2>1. \A i \in DOMAIN w2.subgoals : DOMAIN w2.subgoals[i] = {"id", "status", "deps", "paths"}
    BY <2>0, UnitFields DEF UnitsOK
  <2> HIDE DEF done
  <2>2. \A i \in DOMAIN w2.subgoals : /\ units[i].id = w2.subgoals[i].id /\ units[i].deps = w2.subgoals[i].deps
                                      /\ DOMAIN units[i] = DOMAIN w2.subgoals[i]
    BY <2>1
  <2>3. w3.subgoals = units /\ DOMAIN w3 = DOMAIN w2
    BY <2>0, WorkFields DEF MapSubgoals
  <2>4. units = [i \in DOMAIN w2.subgoals |-> units[i]]  OBVIOUS
  <2> HIDE DEF units
  <2>5. UnitsOK(units)  BY <2>0, <2>2, <2>4, SameOutline
  <2> QED BY <2>0, <2>3, <2>5 DEF Outlined
<1> HIDE DEF w3
<1> QED BY <1>1, <1>2, <1>5, SelectingIsOutlined

LEMMA BlockingIsOutlined ==
    ASSUME NEW w, Outlined(w), NEW key
    PROVE  Outlined(BlockerRecorded(w, key)) /\ Outlined(BlockerCleared(w, key))
<1> DEFINE Block(s) == IF s.id = w.active THEN [s EXCEPT !.status = "blocked"] ELSE s
           Unblock(s) == IF s.status = "blocked" THEN [s EXCEPT !.status = "active"] ELSE s
           a == [w EXCEPT !.blockers = PushBounded(@, key, MaxBlockers)]
           b == [w EXCEPT !.blockers = Remaining(@, key)]
           va == MapSubgoals(a, Block)
           vb == MapSubgoals(b, Unblock)
           ua == [i \in DOMAIN w.subgoals |-> Block(w.subgoals[i])]
           ub == [i \in DOMAIN w.subgoals |-> Unblock(w.subgoals[i])]
<1>0. DOMAIN w = DOMAIN EmptyWork /\ UnitsOK(w.subgoals)  BY DEF Outlined
<1>1. /\ BlockerRecorded(w, key) = IF \E i \in DOMAIN w.blockers : w.blockers[i] = key THEN w ELSE va
      /\ BlockerCleared(w, key) = SelectActiveSubgoal(vb)
  BY DEF BlockerRecorded, BlockerCleared
<1>2. /\ DOMAIN a = DOMAIN w /\ a.subgoals = w.subgoals
      /\ DOMAIN b = DOMAIN w /\ b.subgoals = w.subgoals
  BY <1>0, WorkFields
<1> HIDE DEF a, b
<1>3. /\ va.subgoals = ua /\ DOMAIN va = DOMAIN w /\ vb.subgoals = ub /\ DOMAIN vb = DOMAIN w
  BY <1>0, <1>2, WorkFields DEF MapSubgoals
<1> HIDE DEF va, vb
<1>4. \A i \in DOMAIN w.subgoals : DOMAIN w.subgoals[i] = {"id", "status", "deps", "paths"}
  BY <1>0, UnitFields DEF UnitsOK
<1>5. \A i \in DOMAIN w.subgoals : /\ ua[i].id = w.subgoals[i].id /\ ua[i].deps = w.subgoals[i].deps
                                   /\ DOMAIN ua[i] = DOMAIN w.subgoals[i]
  BY <1>4
<1>6. \A i \in DOMAIN w.subgoals : /\ ub[i].id = w.subgoals[i].id /\ ub[i].deps = w.subgoals[i].deps
                                   /\ DOMAIN ub[i] = DOMAIN w.subgoals[i]
  BY <1>4
<1>7. ua = [i \in DOMAIN w.subgoals |-> ua[i]] /\ ub = [i \in DOMAIN w.subgoals |-> ub[i]]  OBVIOUS
<1> HIDE DEF ua, ub
<1>8. UnitsOK(ua) /\ UnitsOK(ub)  BY <1>0, <1>5, <1>6, <1>7, SameOutline
<1>9. Outlined(va) /\ Outlined(vb)  BY <1>0, <1>3, <1>8 DEF Outlined
<1> QED BY <1>1, <1>9, SelectingIsOutlined

LEMMA OneUnit ==
    ASSUME NEW u, DOMAIN u = DOMAIN Subgoal(Root, {}, {}), u.deps = {}
    PROVE  UnitsOK(<<>>) /\ UnitsOK(<<u>>)
<1>1. UnitsOK(<<>>)  BY DEF UnitsOK, Circular, ToSet
<1>2. <<u>> \in Seq(ToSet(<<u>>)) /\ DOMAIN <<u>> = {1}  BY DEF ToSet
<1>3. ~Circular(<<u>>)  BY <1>2 DEF Circular
<1> QED BY <1>1, <1>2, <1>3 DEF UnitsOK

LEMMA TaskIsOutlined ==
    ASSUME NEW w, Outlined(w), NEW prompt, NEW constraints
    PROVE  Outlined(TaskUpdated(w, prompt, constraints))
<1> DEFINE fresh == w.objective = ""
           mode  == ClassifyWorkMode(prompt)
           w1    == IF fresh THEN [EmptyWork EXCEPT !.mode = mode, !.objective = prompt.objective]
                    ELSE [w EXCEPT !.objective = prompt.objective]
           next  == IF constraints = <<>> THEN w1.constraints
                    ELSE SubSeq(constraints[1], 1, IF Len(constraints[1]) < MaxRelations
                                                   THEN Len(constraints[1]) ELSE MaxRelations)
           print == TaskFingerprint(prompt, next)
           changed == fresh \/ w.objective # prompt.objective \/ next # w1.constraints
                        \/ w1.fingerprint # print
           w2    == [w1 EXCEPT !.constraints = next]
           w2a   == [w2 EXCEPT !.taskRevision = @ + 1]
           w3    == IF changed THEN InvalidateTaskCompletion(w2a) ELSE w2
           w4    == IF mode = "structured" THEN [w3 EXCEPT !.mode = "structured"] ELSE w3
           unit  == [Subgoal(Root, {}, {}) EXCEPT !.status = "active"]
           w5    == IF w4.subgoals = <<>> /\ mode = "structured"
                    THEN [w4 EXCEPT !.subgoals = <<unit>>, !.active = Root]
                    ELSE w4
           criteria == ExtractCriteria(prompt)
           w6    == [w5 EXCEPT !.fingerprint = print,
                               !.criteria = IF @ = <<>> \/ (changed /\ criteria # <<>>) THEN criteria ELSE @]
<1>0. DOMAIN w = DOMAIN EmptyWork /\ UnitsOK(w.subgoals)  BY DEF Outlined
<1>1. TaskUpdated(w, prompt, constraints) = w6  BY DEF TaskUpdated
<1>2. DOMAIN unit = DOMAIN Subgoal(Root, {}, {}) /\ unit.deps = {}  BY DEF Subgoal
<1>3. Outlined(w1)
  <2>1. CASE fresh
    <3>1. w1.subgoals = <<>> /\ DOMAIN w1 = DOMAIN EmptyWork  BY <2>1 DEF EmptyWork
    <3> HIDE DEF w1, unit
    <3> QED BY <3>1, <1>2, OneUnit DEF Outlined
  <2>2. CASE ~fresh
    <3>1. w1.subgoals = w.subgoals /\ DOMAIN w1 = DOMAIN w  BY <1>0, <2>2, WorkFields
    <3> HIDE DEF w1
    <3> QED BY <3>1, OtherFields
  <2> QED BY <2>1, <2>2
<1> HIDE DEF unit, mode, criteria, fresh, w1, next, print, changed
<1>4. Outlined(w2)
  <2>1. w2.subgoals = w1.subgoals /\ DOMAIN w2 = DOMAIN w1  BY <1>3, WorkFields DEF Outlined
  <2> HIDE DEF w2
  <2> QED BY <1>3, <2>1, OtherFields
<1> HIDE DEF w2
<1>5. Outlined(w2a)
  <2>1. w2a.subgoals = w2.subgoals /\ DOMAIN w2a = DOMAIN w2  BY <1>4, WorkFields DEF Outlined
  <2> HIDE DEF w2a
  <2> QED BY <1>4, <2>1, OtherFields
<1> HIDE DEF w2a
<1>6. Outlined(w3)  BY <1>4, <1>5, InvalidatingIsOutlined
<1> HIDE DEF w3
<1>7. Outlined(w4)
  <2>1. w4.subgoals = w3.subgoals /\ DOMAIN w4 = DOMAIN w3  BY <1>6, WorkFields DEF Outlined
  <2> HIDE DEF w4
  <2> QED BY <1>6, <2>1, OtherFields
<1> HIDE DEF w4
<1>8. Outlined(w5)
  <2> DEFINE v == [w4 EXCEPT !.subgoals = <<unit>>, !.active = Root]
  <2>1. v.subgoals = <<unit>> /\ DOMAIN v = DOMAIN EmptyWork  BY <1>7, WorkFields DEF Outlined
  <2>2. w5 = v \/ w5 = w4  OBVIOUS
  <2> HIDE DEF v, w5
  <2>3. Outlined(v)  BY <1>2, <2>1, OneUnit DEF Outlined
  <2> QED BY <1>7, <2>2, <2>3
<1> HIDE DEF w5
<1>9. Outlined(w6)
  <2>1. w6.subgoals = w5.subgoals /\ DOMAIN w6 = DOMAIN w5  BY <1>8, WorkFields DEF Outlined
  <2> HIDE DEF w6
  <2> QED BY <1>8, <2>1, OtherFields
<1> HIDE DEF w6
<1> QED BY <1>1, <1>9

\* The proposals are applied one after the other, and the paths get their units one after the other.
ProposedInOrder(after, units, proposals, N) ==
    /\ after[0] = units /\ after[N] = WithProposals(units, proposals)
    /\ \A n \in 1 .. N : after[n] = Proposed(after[n - 1], proposals[n])

EnsuredInOrder(after, units, paths, N) ==
    /\ after[0] = units /\ after[N] = PathsEnsured(units, paths)
    /\ \A n \in 1 .. N : after[n] = EnsurePathSubgoal(after[n - 1], paths[n])

LEMMA ProposalsInOrder ==
    ASSUME NEW units, NEW proposals, NEW N \in Nat, Len(proposals) = N
    PROVE  \E after : ProposedInOrder(after, units, proposals, N)
<1> DEFINE Goes(f, m) == f = [n \in 0 .. m |-> IF n = 0 THEN units ELSE Proposed(f[n - 1], proposals[n])]
           S == {m \in Nat : \E f : Goes(f, m)}
<1>1. 0 \in S
  <2> DEFINE f == [n \in 0 .. 0 |-> units]
  <2>1. f = [n \in 0 .. 0 |-> IF n = 0 THEN units ELSE Proposed(f[n - 1], proposals[n])]  OBVIOUS
  <2> HIDE DEF f
  <2>2. Goes(f, 0)  BY <2>1
  <2> QED BY <2>2
<1>2. ASSUME NEW m \in Nat, m \in S PROVE m + 1 \in S
  <2>1. PICK f : Goes(f, m)  BY <1>2
  <2> DEFINE step == Proposed(f[m], proposals[m + 1])
             g == [n \in 0 .. (m + 1) |-> IF n <= m THEN f[n] ELSE step]
  <2>2. \A n \in 0 .. m : f[n] = IF n = 0 THEN units ELSE Proposed(f[n - 1], proposals[n])  BY <2>1
  <2>3. \A n \in 0 .. m : g[n] = f[n]  OBVIOUS
  <2>4. g[m + 1] = step  OBVIOUS
  <2>5. \A n \in 0 .. (m + 1) : g[n] = IF n = 0 THEN units ELSE Proposed(g[n - 1], proposals[n])
    <3> TAKE n \in 0 .. (m + 1)
    <3>1. CASE n = m + 1
      <4>1. n # 0 /\ n - 1 = m /\ m \in 0 .. m  BY <3>1
      <4>2. g[m] = f[m]  BY <2>3, <4>1
      <4> HIDE DEF g
      <4> QED BY <3>1, <4>1, <4>2, <2>4
    <3>2. CASE n \in 0 .. m
      <4>1. n = 0 \/ n - 1 \in 0 .. m  BY <3>2
      <4>2. g[n] = f[n] /\ (n # 0 => g[n - 1] = f[n - 1])  BY <2>3, <3>2, <4>1
      <4> HIDE DEF g
      <4> QED BY <4>2, <3>2, <2>2
    <3> QED BY <3>1, <3>2
  <2>6. DOMAIN g = 0 .. (m + 1) /\ g = [n \in 0 .. (m + 1) |-> g[n]]  OBVIOUS
  <2> HIDE DEF g
  <2>7. Goes(g, m + 1)  BY <2>5, <2>6
  <2> QED BY <2>7
<1>3. N \in S
  <2> HIDE DEF S
  <2> QED BY <1>1, <1>2, Induction
<1>4. \E f : Goes(f, N)  BY <1>3
<1> DEFINE after == CHOOSE f : Goes(f, N)
<1>5. Goes(after, N)  BY <1>4
<1>6. WithProposals(units, proposals) = after[N]  BY DEF WithProposals
<1> HIDE DEF after
<1>7. \A n \in 0 .. N : after[n] = IF n = 0 THEN units ELSE Proposed(after[n - 1], proposals[n])  BY <1>5
<1>8. after[0] = units  BY <1>7
<1>9. \A n \in 1 .. N : after[n] = Proposed(after[n - 1], proposals[n])  BY <1>7
<1> QED BY <1>6, <1>8, <1>9 DEF ProposedInOrder

LEMMA PathsInOrder ==
    ASSUME NEW units, NEW paths, NEW N \in Nat, Len(paths) = N
    PROVE  \E after : EnsuredInOrder(after, units, paths, N)
<1> DEFINE Goes(f, m) == f = [n \in 0 .. m |-> IF n = 0 THEN units ELSE EnsurePathSubgoal(f[n - 1], paths[n])]
           S == {m \in Nat : \E f : Goes(f, m)}
<1>1. 0 \in S
  <2> DEFINE f == [n \in 0 .. 0 |-> units]
  <2>1. f = [n \in 0 .. 0 |-> IF n = 0 THEN units ELSE EnsurePathSubgoal(f[n - 1], paths[n])]  OBVIOUS
  <2> HIDE DEF f
  <2>2. Goes(f, 0)  BY <2>1
  <2> QED BY <2>2
<1>2. ASSUME NEW m \in Nat, m \in S PROVE m + 1 \in S
  <2>1. PICK f : Goes(f, m)  BY <1>2
  <2> DEFINE step == EnsurePathSubgoal(f[m], paths[m + 1])
             g == [n \in 0 .. (m + 1) |-> IF n <= m THEN f[n] ELSE step]
  <2>2. \A n \in 0 .. m : f[n] = IF n = 0 THEN units ELSE EnsurePathSubgoal(f[n - 1], paths[n])  BY <2>1
  <2>3. \A n \in 0 .. m : g[n] = f[n]  OBVIOUS
  <2>4. g[m + 1] = step  OBVIOUS
  <2>5. \A n \in 0 .. (m + 1) : g[n] = IF n = 0 THEN units ELSE EnsurePathSubgoal(g[n - 1], paths[n])
    <3> TAKE n \in 0 .. (m + 1)
    <3>1. CASE n = m + 1
      <4>1. n # 0 /\ n - 1 = m /\ m \in 0 .. m  BY <3>1
      <4>2. g[m] = f[m]  BY <2>3, <4>1
      <4> HIDE DEF g
      <4> QED BY <3>1, <4>1, <4>2, <2>4
    <3>2. CASE n \in 0 .. m
      <4>1. n = 0 \/ n - 1 \in 0 .. m  BY <3>2
      <4>2. g[n] = f[n] /\ (n # 0 => g[n - 1] = f[n - 1])  BY <2>3, <3>2, <4>1
      <4> HIDE DEF g
      <4> QED BY <4>2, <3>2, <2>2
    <3> QED BY <3>1, <3>2
  <2>6. DOMAIN g = 0 .. (m + 1) /\ g = [n \in 0 .. (m + 1) |-> g[n]]  OBVIOUS
  <2> HIDE DEF g
  <2>7. Goes(g, m + 1)  BY <2>5, <2>6
  <2> QED BY <2>7
<1>3. N \in S
  <2> HIDE DEF S
  <2> QED BY <1>1, <1>2, Induction
<1>4. \E f : Goes(f, N)  BY <1>3
<1> DEFINE after == CHOOSE f : Goes(f, N)
<1>5. Goes(after, N)  BY <1>4
<1>6. PathsEnsured(units, paths) = after[N]  BY DEF PathsEnsured
<1> HIDE DEF after
<1>7. \A n \in 0 .. N : after[n] = IF n = 0 THEN units ELSE EnsurePathSubgoal(after[n - 1], paths[n])  BY <1>5
<1>8. after[0] = units  BY <1>7
<1>9. \A n \in 1 .. N : after[n] = EnsurePathSubgoal(after[n - 1], paths[n])  BY <1>7
<1> QED BY <1>6, <1>8, <1>9 DEF EnsuredInOrder

LEMMA SequenceForm ==
    ASSUME NEW S, NEW s \in Seq(S)
    PROVE  /\ Len(s) \in Nat /\ DOMAIN s = 1 .. Len(s) /\ s = [i \in 1 .. Len(s) |-> s[i]]
           /\ s \in Seq(ToSet(s))
<1>1. Len(s) \in Nat /\ DOMAIN s = 1 .. Len(s) /\ s = [i \in 1 .. Len(s) |-> s[i]]  OBVIOUS
<1> QED BY <1>1, ItsOwnSequence

\* A unit more, with an id that is new and nothing that it waits for.
LEMMA AppendedUnit ==
    ASSUME NEW units, UnitsOK(units), NEW u, DOMAIN u = DOMAIN Subgoal(Root, {}, {}), u.deps = {},
           \A i \in DOMAIN units : units[i].id # u.id
    PROVE  UnitsOK(Append(units, u))
<1> DEFINE all == Append(units, u)
           n == Len(units)
           S0 == ToSet(units) \cup {u}
<1>1. n \in Nat /\ DOMAIN units = 1 .. n /\ units \in Seq(S0)  BY UnitsForm DEF UnitsOK, ToSet
<1>2. /\ all \in Seq(S0) /\ Len(all) = n + 1 /\ DOMAIN all = 1 .. (n + 1) /\ all[n + 1] = u
      /\ \A i \in 1 .. n : all[i] = units[i]
  <2> HIDE DEF S0
  <2>1. u \in S0 BY DEF S0
  <2> QED BY <1>1, <2>1, AppendProperties
<1>3. \A i : i \in 1 .. (n + 1) <=> i \in 1 .. n \/ i = n + 1  BY <1>1
<1> HIDE DEF all, n
<1>5. all \in Seq(ToSet(all))  BY <1>2, SequenceForm
<1>6. \A i \in DOMAIN all : DOMAIN all[i] = DOMAIN Subgoal(Root, {}, {})
  BY <1>1, <1>2, <1>3 DEF UnitsOK
<1>7. \A i, j \in DOMAIN all : all[i].id = all[j].id => i = j
  BY <1>1, <1>2, <1>3 DEF UnitsOK
<1>8. ~Circular(all)
  <2> SUFFICES ASSUME NEW S \in SUBSET {all[i].id : i \in DOMAIN all}, S # {},
                      \A i \in DOMAIN all : all[i].id \in S => all[i].deps \cap S # {}
               PROVE  FALSE
    BY DEF Circular
  <2>1. u.id \notin S  BY <1>2, <1>3
  <2>2. S \in SUBSET {units[i].id : i \in DOMAIN units}  BY <1>1, <1>2, <1>3, <2>1
  <2>3. \A i \in DOMAIN units : units[i].id \in S => units[i].deps \cap S # {}
    BY <1>1, <1>2, <1>3
  <2> QED BY <2>2, <2>3 DEF UnitsOK, Circular
<1> QED BY <1>5, <1>6, <1>7, <1>8 DEF UnitsOK, all

\* The oldest unit goes: who waited for it waits for nobody that is there.
LEMMA DroppedUnit ==
    ASSUME NEW units, UnitsOK(units), units # <<>>
    PROVE  UnitsOK(Tail(units))
<1> DEFINE rest == Tail(units)
           n == Len(units)
           S0 == ToSet(units)
<1>1. n \in Nat /\ DOMAIN units = 1 .. n /\ units \in Seq(S0)  BY UnitsForm DEF UnitsOK
<1>2. /\ rest \in Seq(S0) /\ n # 0 /\ Len(rest) = n - 1 /\ \A i \in 1 .. (n - 1) : rest[i] = units[i + 1]
  <2> HIDE DEF S0
  <2> QED BY <1>1
<1>3. DOMAIN rest = 1 .. (n - 1) /\ n - 1 \in Nat  BY <1>1, <1>2
<1> HIDE DEF rest, n, S0
<1>5. \A i \in DOMAIN rest : i + 1 \in DOMAIN units /\ rest[i] = units[i + 1] /\ i \in Nat
  BY <1>1, <1>2, <1>3
<1>6. rest \in Seq(ToSet(rest))  BY <1>2, SequenceForm
<1>7. \A i \in DOMAIN rest : DOMAIN rest[i] = DOMAIN Subgoal(Root, {}, {})
  BY <1>5 DEF UnitsOK
<1>8. \A i, j \in DOMAIN rest : rest[i].id = rest[j].id => i = j
  <2> TAKE i, j \in DOMAIN rest
  <2>1. rest[i].id = rest[j].id => i + 1 = j + 1  BY <1>5 DEF UnitsOK
  <2> QED BY <2>1, <1>5
<1>9. ~Circular(rest)
  <2> SUFFICES ASSUME NEW S \in SUBSET {rest[i].id : i \in DOMAIN rest}, S # {},
                      \A i \in DOMAIN rest : rest[i].id \in S => rest[i].deps \cap S # {}
               PROVE  FALSE
    BY DEF Circular
  <2>1. S \in SUBSET {units[i].id : i \in DOMAIN units}  BY <1>5
  <2>2. ASSUME NEW k \in DOMAIN units, units[k].id \in S PROVE units[k].deps \cap S # {}
    <3>1. PICK i \in DOMAIN rest : rest[i].id = units[k].id  BY <2>2
    <3>2. k = i + 1  BY <1>5, <3>1 DEF UnitsOK
    <3> QED BY <1>5, <2>2, <3>1, <3>2
  <2> QED BY <2>1, <2>2 DEF UnitsOK, Circular
<1> QED BY <1>6, <1>7, <1>8, <1>9 DEF UnitsOK, rest

LEMMA EnsuringIsOutlined ==
    ASSUME NEW units, UnitsOK(units), NEW path
    PROVE  UnitsOK(EnsurePathSubgoal(units, path))
<1> DEFINE id == <<"path", path>>
           Renew(s) == IF s.id # id THEN s
                       ELSE [s EXCEPT !.paths = @ \cup {path},
                                      !.status = IF @ = "stale" THEN "pending" ELSE @]
           vs == [i \in DOMAIN units |-> Renew(units[i])]
           u == Subgoal(id, {}, {path})
<1>1. CASE \E i \in DOMAIN units : units[i].id = id
  <2>1. EnsurePathSubgoal(units, path) = vs  BY <1>1 DEF EnsurePathSubgoal
  <2>2. \A i \in DOMAIN units : DOMAIN units[i] = {"id", "status", "deps", "paths"}
    BY UnitFields DEF UnitsOK
  <2> HIDE DEF id
  <2>3. \A i \in DOMAIN units : /\ vs[i].id = units[i].id /\ vs[i].deps = units[i].deps
                                /\ DOMAIN vs[i] = DOMAIN units[i]
    BY <2>2
  <2>4. vs = [i \in DOMAIN units |-> vs[i]]  OBVIOUS
  <2> HIDE DEF vs
  <2> QED BY <2>1, <2>3, <2>4, SameOutline
<1>2. CASE ~\E i \in DOMAIN units : units[i].id = id
  <2> DEFINE all == Append(units, u)
  <2>1. EnsurePathSubgoal(units, path) = IF Len(all) > MaxSubgoals THEN Tail(all) ELSE all
    BY <1>2 DEF EnsurePathSubgoal, PushBounded
  <2>2. u.id = id /\ u.deps = {} /\ DOMAIN u = DOMAIN Subgoal(Root, {}, {})  BY DEF Subgoal
  <2> HIDE DEF u, id
  <2>3. UnitsOK(all)  BY <1>2, <2>2, AppendedUnit
  <2>4. all # <<>>
    <3>1. Len(units) \in Nat /\ units \in Seq(ToSet(units) \cup {u})  BY UnitsForm DEF UnitsOK, ToSet
    <3>2. Len(all) = Len(units) + 1  BY <3>1, AppendProperties
    <3> HIDE DEF all
    <3>3. Len(all) # 0  BY <3>1, <3>2
    <3>4. Len(<<>>) = 0  OBVIOUS
    <3> QED BY <3>3, <3>4
  <2> HIDE DEF all
  <2>5. UnitsOK(Tail(all))  BY <2>3, <2>4, DroppedUnit
  <2> QED BY <2>1, <2>3, <2>5
<1> QED BY <1>1, <1>2

LEMMA PathsAreOutlined ==
    ASSUME NEW units, UnitsOK(units), NEW paths, Len(paths) \in Nat
    PROVE  UnitsOK(PathsEnsured(units, paths))
<1> DEFINE N == Len(paths)
<1>0. PICK after : EnsuredInOrder(after, units, paths, N)  BY PathsInOrder
<1>1. /\ after[0] = units /\ after[N] = PathsEnsured(units, paths)
      /\ \A n \in 1 .. N : after[n] = EnsurePathSubgoal(after[n - 1], paths[n])
  BY <1>0 DEF EnsuredInOrder
<1> DEFINE S == {n \in Nat : n <= N => UnitsOK(after[n])}
<1>2. 0 \in S  BY <1>1
<1>3. ASSUME NEW n \in Nat, n \in S PROVE n + 1 \in S
  <2> SUFFICES ASSUME n + 1 <= N PROVE UnitsOK(after[n + 1])
    OBVIOUS
  <2>1. n <= N /\ n + 1 \in 1 .. N /\ (n + 1) - 1 = n  OBVIOUS
  <2>2. UnitsOK(after[n])  BY <1>3, <2>1
  <2>3. after[n + 1] = EnsurePathSubgoal(after[n], paths[n + 1])  BY <1>1, <2>1
  <2> QED BY <2>2, <2>3, EnsuringIsOutlined
<1>4. N \in S
  <2> HIDE DEF S
  <2> QED BY <1>2, <1>3, Induction
<1> QED BY <1>1, <1>4

(***************************************************************************)
(* A model's outline.  It says what some units wait for and leaves others  *)
(* as they were; what was checked for circles is what comes out of it.     *)
(***************************************************************************)

\* Units that are told apart by their ids.
Apart(units) ==
    /\ units \in Seq(ToSet(units))
    /\ \A i \in DOMAIN units : DOMAIN units[i] = DOMAIN Subgoal(Root, {}, {})
    /\ \A i, j \in DOMAIN units : units[i].id = units[j].id => i = j

\* One proposal: its unit waits for what it says, every other for what it waited for.
LEMMA ProposedUnits ==
    ASSUME NEW units, Apart(units), NEW p
    PROVE  /\ Apart(Proposed(units, p))
           /\ \A i \in DOMAIN Proposed(units, p) :
                 \/ Proposed(units, p)[i].id = p.id /\ Proposed(units, p)[i].deps = p.deps
                 \/ /\ Proposed(units, p)[i].id # p.id
                    /\ \E j \in DOMAIN units : /\ units[j].id = Proposed(units, p)[i].id
                                               /\ units[j].deps = Proposed(units, p)[i].deps
<1> DEFINE Propose(s) == IF s.id # p.id THEN s
                         ELSE [s EXCEPT !.deps = p.deps, !.paths = p.paths,
                                        !.status = IF @ = "stale" THEN "pending" ELSE @]
           vs == [i \in DOMAIN units |-> Propose(units[i])]
           u == Subgoal(p.id, p.deps, p.paths)
           all == Append(units, u)
           n == Len(units)
           S0 == ToSet(units) \cup {u}
<1>1. n \in Nat /\ DOMAIN units = 1 .. n  BY SequenceForm DEF Apart
<1>2. \A i \in DOMAIN units : DOMAIN units[i] = {"id", "status", "deps", "paths"}
  BY UnitFields DEF Apart
<1>3. CASE \E i \in DOMAIN units : units[i].id = p.id
  <2>1. Proposed(units, p) = vs  BY <1>3 DEF Proposed
  <2>2. \A i \in DOMAIN units : DOMAIN vs[i] = DOMAIN units[i] /\ vs[i].id = units[i].id
    BY <1>2
  <2>3. \A i \in DOMAIN units : IF units[i].id = p.id THEN vs[i].deps = p.deps ELSE vs[i] = units[i]
    BY <1>2
  <2>4. DOMAIN vs = 1 .. n /\ vs = [i \in 1 .. n |-> vs[i]]  BY <1>1
  <2> HIDE DEF vs, n
  <2>5. vs \in Seq(ToSet(vs))  BY <1>1, <2>4, ItsOwnSequence
  <2>6. Apart(vs)  BY <1>1, <2>2, <2>4, <2>5 DEF Apart
  <2> QED BY <1>1, <2>1, <2>2, <2>3, <2>4, <2>6
<1>4. CASE ~\E i \in DOMAIN units : units[i].id = p.id
  <2>1. Proposed(units, p) = all  BY <1>4 DEF Proposed
  <2>2. u.id = p.id /\ u.deps = p.deps /\ DOMAIN u = DOMAIN Subgoal(Root, {}, {})  BY DEF Subgoal
  <2> HIDE DEF u
  <2>3. units \in Seq(S0)  BY <1>1 DEF Apart, ToSet
  <2>4. /\ all \in Seq(S0) /\ Len(all) = n + 1 /\ DOMAIN all = 1 .. (n + 1) /\ all[n + 1] = u
        /\ \A i \in 1 .. n : all[i] = units[i]
    <3>1. u \in S0  OBVIOUS
    <3> HIDE DEF S0
    <3> QED BY <1>1, <2>3, <3>1, AppendProperties
  <2>5. \A i : i \in 1 .. (n + 1) <=> i \in 1 .. n \/ i = n + 1  BY <1>1
  <2> HIDE DEF all, n
  <2>6. all \in Seq(ToSet(all))  BY <2>4, SequenceForm
  <2>7. \A i \in DOMAIN all : DOMAIN all[i] = DOMAIN Subgoal(Root, {}, {})
    BY <1>1, <2>2, <2>4, <2>5 DEF Apart
  <2>8. \A i, j \in DOMAIN all : all[i].id = all[j].id => i = j
    BY <1>1, <1>4, <2>2, <2>4, <2>5 DEF Apart
  <2>9. Apart(all)  BY <2>6, <2>7, <2>8 DEF Apart
  <2>10. \A i \in DOMAIN all : \/ all[i].id = p.id /\ all[i].deps = p.deps
                               \/ /\ all[i].id # p.id
                                  /\ \E j \in DOMAIN units : units[j].id = all[i].id /\ units[j].deps = all[i].deps
    BY <1>1, <1>4, <2>2, <2>4, <2>5
  <2> QED BY <2>1, <2>9, <2>10
<1> QED BY <1>3, <1>4

\* Every unit waits for what the proposals say of it, or for what it waited for before them.
LEMMA ProposalsDecide ==
    ASSUME NEW units, Apart(units), NEW ps, Len(ps) \in Nat
    PROVE  /\ Apart(WithProposals(units, ps))
           /\ \A i \in DOMAIN WithProposals(units, ps) :
                 \/ \E k \in 1 .. Len(ps) : /\ WithProposals(units, ps)[i].id = ps[k].id
                                            /\ WithProposals(units, ps)[i].deps = ps[k].deps
                 \/ /\ \A k \in 1 .. Len(ps) : WithProposals(units, ps)[i].id # ps[k].id
                    /\ \E j \in DOMAIN units : /\ units[j].id = WithProposals(units, ps)[i].id
                                               /\ units[j].deps = WithProposals(units, ps)[i].deps
<1> DEFINE N == Len(ps)
<1>0. PICK after : ProposedInOrder(after, units, ps, N)  BY ProposalsInOrder
<1>1. /\ after[0] = units /\ after[N] = WithProposals(units, ps)
      /\ \A n \in 1 .. N : after[n] = Proposed(after[n - 1], ps[n])
  BY <1>0 DEF ProposedInOrder
<1> DEFINE ProposedOf(v, n, i) == \E k \in 1 .. n : v[i].id = ps[k].id /\ v[i].deps = ps[k].deps
           KeptOf(v, n, i) == /\ \A k \in 1 .. n : v[i].id # ps[k].id
                              /\ \E j \in DOMAIN units : units[j].id = v[i].id /\ units[j].deps = v[i].deps
           Holds(v, n) == Apart(v) /\ \A i \in DOMAIN v : ProposedOf(v, n, i) \/ KeptOf(v, n, i)
<1> DEFINE S == {n \in Nat : n <= N => Holds(after[n], n)}
<1>2. 0 \in S
  <2>1. \A k \in 1 .. 0 : FALSE  OBVIOUS
  <2>2. Holds(units, 0)  BY <2>1
  <2> QED BY <1>1, <2>2
<1>3. ASSUME NEW n \in Nat, n \in S PROVE n + 1 \in S
  <2> SUFFICES ASSUME n + 1 <= N PROVE Holds(after[n + 1], n + 1)
    OBVIOUS
  <2> DEFINE v == after[n]
             v2 == after[n + 1]
             p == ps[n + 1]
  <2>1. n <= N /\ n + 1 \in 1 .. N /\ (n + 1) - 1 = n  OBVIOUS
  <2>2. Holds(v, n)  BY <1>3, <2>1
  <2>3. v2 = Proposed(v, p)  BY <1>1, <2>1
  <2>4. \A k : k \in 1 .. (n + 1) <=> k \in 1 .. n \/ k = n + 1  OBVIOUS
  <2> HIDE DEF v, v2
  <2>5. /\ Apart(v2)
        /\ \A i \in DOMAIN v2 :
              \/ v2[i].id = p.id /\ v2[i].deps = p.deps
              \/ v2[i].id # p.id /\ \E j \in DOMAIN v : v[j].id = v2[i].id /\ v[j].deps = v2[i].deps
    <3> HIDE DEF p
    <3> QED BY <2>2, <2>3, ProposedUnits
  <2>6. ASSUME NEW i \in DOMAIN v2 PROVE ProposedOf(v2, n + 1, i) \/ KeptOf(v2, n + 1, i)
    <3>1. CASE v2[i].id = p.id /\ v2[i].deps = p.deps  BY <3>1, <2>4
    <3>2. CASE v2[i].id # p.id /\ \E j \in DOMAIN v : v[j].id = v2[i].id /\ v[j].deps = v2[i].deps
      <4>1. PICK j \in DOMAIN v : v[j].id = v2[i].id /\ v[j].deps = v2[i].deps  BY <3>2
      <4>2. CASE ProposedOf(v, n, j)  BY <4>1, <4>2, <2>4
      <4>3. CASE KeptOf(v, n, j)  BY <3>2, <4>1, <4>3, <2>4
      <4> QED BY <4>2, <4>3, <2>2
    <3> QED BY <3>1, <3>2, <2>5
  <2> QED BY <2>5, <2>6 DEF v2
<1>4. N \in S
  <2> HIDE DEF S
  <2> QED BY <1>2, <1>3, Induction
<1>5. Holds(WithProposals(units, ps), N)  BY <1>1, <1>4
<1> QED BY <1>5

LEMMA UpTo ==
    ASSUME NEW n \in Nat
    PROVE  IsFiniteSet(1 .. n) /\ Cardinality(1 .. n) = n
<1>1. \A a, b \in Int : IsFiniteSet(a .. b) /\ Cardinality(a .. b) = IF a > b THEN 0 ELSE b - a + 1
  BY FS_Interval, Zenon
<1>2. IsFiniteSet(1 .. n) /\ Cardinality(1 .. n) = IF 1 > n THEN 0 ELSE n - 1 + 1  BY <1>1, SMT
<1> QED BY <1>2

\* As many ids as proposals: no two have the same.
LEMMA ProposalsAreApart ==
    ASSUME NEW ps, ps \in Seq(ToSet(ps)), Cardinality({p.id : p \in ToSet(ps)}) = Len(ps)
    PROVE  \A i, j \in 1 .. Len(ps) : ps[i].id = ps[j].id => i = j
<1> DEFINE n == Len(ps)
           T == {p.id : p \in ToSet(ps)}
           f == [i \in 1 .. n |-> ps[i].id]
<1>1. n \in Nat /\ DOMAIN ps = 1 .. n  BY SequenceForm
<1>2. T = {ps[i].id : i \in 1 .. n}  BY <1>1 DEF ToSet
<1>3. IsFiniteSet(1 .. n) /\ Cardinality(1 .. n) = n  BY <1>1, UpTo
<1>4. \A i \in 1 .. n : f[i] = ps[i].id  OBVIOUS
<1> HIDE DEF n, T
<1>5. f \in Surjection(1 .. n, T)  BY <1>2 DEF Surjection
<1>6. f \in Injection(1 .. n, T)  
  <2> HIDE DEF f
  <2> QED BY <1>3, <1>5, FS_Surjection DEF T, n
<1>7. \A i, j \in 1 .. n : f[i] = f[j] => i = j
  <2> HIDE DEF f
  <2>1. IsInjective(f) /\ DOMAIN f = 1 .. n  BY <1>6 DEF Injection
  <2> QED BY <2>1 DEF IsInjective
<1> QED BY <1>4, <1>7 DEF n

LEMMA OutlineParts ==
    ASSUME NEW units
    PROVE  UnitsOK(units) <=> Apart(units) /\ ~Circular(units)
BY DEF UnitsOK, Apart

\* The graph of what an outline leaves is the graph that was looked at: a circle in one is a circle
\* in the other.
LEMMA ProposalsAreOutlined ==
    ASSUME NEW w, Outlined(w), NEW outline \in Outlines, Acceptable(w, outline)
    PROVE  UnitsOK(WithProposals(w.subgoals, outline.subgoals))
<1> DEFINE units == w.subgoals
           ps == outline.subgoals
           N == Len(ps)
           proposals == ToSet(ps)
           vs == WithProposals(units, ps)
           graph == GraphOf(w, outline)
<1>1. UnitsOK(units) /\ Apart(units)  BY OutlineParts DEF Outlined
<1>2. ps \in Seq(ToSet(ps)) /\ N \in Nat /\ DOMAIN ps = 1 .. N
  BY OutlinesAssumption, SequenceForm
<1>3. Cardinality({p.id : p \in ToSet(ps)}) = N /\ ~DependencyCycle(graph)  BY DEF Acceptable
<1>4. \A i, j \in 1 .. N : ps[i].id = ps[j].id => i = j  
  <2> HIDE DEF ps
  <2> QED BY <1>2, <1>3, ProposalsAreApart
<1>5. /\ Apart(vs)
      /\ \A i \in DOMAIN vs :
            \/ \E k \in 1 .. N : vs[i].id = ps[k].id /\ vs[i].deps = ps[k].deps
            \/ /\ \A k \in 1 .. N : vs[i].id # ps[k].id
               /\ \E j \in DOMAIN units : units[j].id = vs[i].id /\ units[j].deps = vs[i].deps
  <2> HIDE DEF units, ps
  <2> QED BY <1>1, <1>2, ProposalsDecide
<1>6. /\ graph = [id \in Ids(w) \cup {p.id : p \in proposals} |->
                     IF \E p \in proposals : p.id = id
                     THEN (CHOOSE p \in proposals : p.id = id).deps
                     ELSE (CHOOSE s \in ToSet(units) : s.id = id).deps]
      /\ Ids(w) = {units[i].id : i \in DOMAIN units}
  BY DEF GraphOf, Ids
<1>7. \A p : p \in proposals <=> \E k \in 1 .. N : p = ps[k]  BY <1>2 DEF ToSet
<1>8. \A s : s \in ToSet(units) <=> \E j \in DOMAIN units : s = units[j]  BY DEF ToSet
<1> HIDE DEF vs, graph, units, ps, N, proposals
<1>9. \A k \in 1 .. N : ps[k].id \in DOMAIN graph /\ graph[ps[k].id] = ps[k].deps
  <2> TAKE k \in 1 .. N
  <2> DEFINE id == ps[k].id
             q == CHOOSE p \in proposals : p.id = id
  <2>1. id \in {p.id : p \in proposals} /\ \E p \in proposals : p.id = id  BY <1>7
  <2>2. q \in proposals /\ q.id = id  BY <2>1
  <2>3. q = ps[k]  BY <2>2, <1>4, <1>7
  <2> HIDE DEF q, id
  <2>4. id \in DOMAIN graph /\ graph[id] = (CHOOSE p \in proposals : p.id = id).deps  BY <1>6, <2>1
  <2> QED BY <2>3, <2>4 DEF q, id
<1>10. ASSUME NEW j \in DOMAIN units, \A k \in 1 .. N : units[j].id # ps[k].id
       PROVE  units[j].id \in DOMAIN graph /\ graph[units[j].id] = units[j].deps
  <2> DEFINE id == units[j].id
             q == CHOOSE s \in ToSet(units) : s.id = id
  <2>1. id \in Ids(w) /\ ~\E p \in proposals : p.id = id  BY <1>6, <1>7, <1>10
  <2>2. q \in ToSet(units) /\ q.id = id  BY <1>8
  <2>3. q = units[j]  BY <2>2, <1>1, <1>8 DEF Apart
  <2> HIDE DEF q, id
  <2>4. id \in DOMAIN graph /\ graph[id] = (CHOOSE s \in ToSet(units) : s.id = id).deps  BY <1>6, <2>1
  <2> QED BY <2>3, <2>4 DEF q, id
<1>11. \A i \in DOMAIN vs : vs[i].id \in DOMAIN graph /\ graph[vs[i].id] = vs[i].deps
  BY <1>5, <1>9, <1>10
<1>12. ~Circular(vs)
  <2> SUFFICES ASSUME NEW S \in SUBSET {vs[i].id : i \in DOMAIN vs}, S # {},
                      \A i \in DOMAIN vs : vs[i].id \in S => vs[i].deps \cap S # {}
               PROVE  DependencyCycle(graph)
    BY <1>3 DEF Circular
  <2>1. S \in SUBSET DOMAIN graph  BY <1>11
  <2>2. \A id \in S : graph[id] \cap S # {}  BY <1>11
  <2> QED BY <2>1, <2>2 DEF DependencyCycle
<1> QED BY <1>5, <1>12, OutlineParts DEF vs, units, ps

LEMMA ModelIsOutlined ==
    ASSUME NEW w, Outlined(w), NEW outline \in Outlines, Acceptable(w, outline)
    PROVE  Outlined(ModelUpdated(w, outline))
<1> DEFINE units == WithProposals(w.subgoals, outline.subgoals)
           w1 == [w EXCEPT !.subgoals = units, !.mode = "structured"]
           w2 == [w1 EXCEPT !.active = outline.active]
<1>1. ModelUpdated(w, outline) = IF outline.active # NoSubgoal THEN w2 ELSE SelectActiveSubgoal(w1)
  BY DEF ModelUpdated
<1>2. UnitsOK(units)  BY ProposalsAreOutlined
<1> HIDE DEF units
<1>3. DOMAIN w1 = DOMAIN EmptyWork /\ w1.subgoals = units  BY WorkFields DEF Outlined
<1>4. Outlined(w1)  BY <1>2, <1>3 DEF Outlined
<1> HIDE DEF w1
<1>5. DOMAIN w2 = DOMAIN w1 /\ w2.subgoals = w1.subgoals  BY <1>3, WorkFields
<1> HIDE DEF w2
<1>6. Outlined(w2)  BY <1>4, <1>5, OtherFields
<1>7. Outlined(SelectActiveSubgoal(w1))  BY <1>4, SelectingIsOutlined
<1> QED BY <1>1, <1>6, <1>7

LEMMA PathsHaveLength ==
    ASSUME NEW paths \in {<<p>> : p \in WorkPaths} \cup {SetToSeq(WorkPaths)}
    PROVE  Len(paths) \in Nat
<1>1. CASE paths \in {<<p>> : p \in WorkPaths}  BY <1>1
<1>2. CASE paths = SetToSeq(WorkPaths)
  <2> DEFINE n == Cardinality(WorkPaths)
  <2>1. n \in Nat /\ ExistsBijection(1 .. n, WorkPaths)
    BY WorkLedgerAssumption, FS_CardinalityType
  <2> HIDE DEF n
  <2>2. \E f \in [1 .. n -> WorkPaths] : IsInjective(f)
    BY <2>1 DEF ExistsBijection, Bijection, Injection
  <2>3. paths \in [1 .. n -> WorkPaths]  BY <1>2, <2>2 DEF SetToSeq, n
  <2> QED BY <2>1, <2>3
<1> QED BY <1>1, <1>2

LEMMA MutationIsOutlined ==
    ASSUME NEW w, Outlined(w), NEW paths, Len(paths) \in Nat
    PROVE  Outlined(MutationRecorded(w, paths))
<1> DEFINE units == WithPaths(w, paths)
           w1 == [w EXCEPT !.revision = @ + 1, !.criteria = Unsatisfied(@),
                           !.subgoals = units, !.checks = Outdated(@)]
<1>1. MutationRecorded(w, paths) = SelectActiveSubgoal(w1)  BY DEF MutationRecorded
<1>2. UnitsOK(units)  BY PathsAreOutlined DEF WithPaths, Outlined
<1> HIDE DEF units
<1>3. DOMAIN w1 = DOMAIN EmptyWork /\ w1.subgoals = units  BY WorkFields DEF Outlined
<1> HIDE DEF w1
<1>4. Outlined(w1)  BY <1>2, <1>3 DEF Outlined
<1> QED BY <1>1, <1>4, SelectingIsOutlined

\* Whatever the model proposes, the tools change and the user steers, units are told apart by their ids and
\* no set of them waits for itself (apply_model_update, ensure_path_subgoal, select_active_subgoal).
THEOREM OutlineInvHolds == LedgerSpec => []OutlineInv
<1>1. LedgerInit => OutlineInv
  <2>1. EmptyWork.subgoals = <<>>  BY DEF EmptyWork
  <2>2. UnitsOK(<<>>)  BY DEF UnitsOK, Circular, ToSet
  <2> QED BY <2>1, <2>2 DEF LedgerInit, OutlineInv
<1>2. OutlineInv /\ [LedgerNext]_ledgerVars => OutlineInv'
  <2> SUFFICES ASSUME OutlineInv, [LedgerNext]_ledgerVars PROVE OutlineInv'
    OBVIOUS
  <2>0. Outlined(work)  BY DEF OutlineInv, Outlined
  <2> SUFFICES Outlined(work')
    BY DEF OutlineInv, Outlined
  <2>1. CASE ApplyTaskUpdate
    BY <2>0, <2>1, TaskIsOutlined DEF ApplyTaskUpdate, Ledger
  <2>2. CASE ApplyModelUpdate
    BY <2>0, <2>2, ModelIsOutlined DEF ApplyModelUpdate, Ledger
  <2>3. CASE RecordLedgerMutation
    BY <2>0, <2>3, MutationIsOutlined, PathsHaveLength DEF RecordLedgerMutation, Ledger
  <2>4. CASE RecordLedgerVerification
    BY <2>0, <2>4, CheckingIsOutlined DEF RecordLedgerVerification, Ledger
  <2>5. CASE RecordBlocker
    BY <2>0, <2>5, BlockingIsOutlined DEF RecordBlocker, Ledger
  <2>6. CASE ClearBlocker
    BY <2>0, <2>6, BlockingIsOutlined DEF ClearBlocker, Ledger
  <2>7. CASE InvalidateForWorkspaceChange
    BY <2>0, <2>7, InvalidatingIsOutlined DEF InvalidateForWorkspaceChange, Ledger
  <2>8. CASE UNCHANGED ledgerVars  BY <2>0, <2>8 DEF ledgerVars
  <2> QED BY <2>1, <2>2, <2>3, <2>4, <2>5, <2>6, <2>7, <2>8 DEF LedgerNext
<1> QED BY <1>1, <1>2, PTL DEF LedgerSpec

\* No order of outlines makes units wait for each other: for any outlines, any number of units and paths,
\* and any limits of the lists (apply_model_update, dependency_cycle).
THEOREM OutlinesStayAcyclic == LedgerSpec => []OutlineStaysAcyclic
<1>1. OutlineInv => OutlineStaysAcyclic
  <2> DEFINE units == work.subgoals
             graph == [id \in Ids(work) |-> (CHOOSE s \in ToSet(units) : s.id = id).deps]
  <2> SUFFICES ASSUME OutlineInv PROVE ~DependencyCycle(graph)
    BY DEF OutlineStaysAcyclic
  <2>1. UnitsOK(units) /\ Ids(work) = {units[i].id : i \in DOMAIN units}  BY DEF OutlineInv, Ids
  <2>2. \A s : s \in ToSet(units) <=> \E j \in DOMAIN units : s = units[j]  BY DEF ToSet
  <2>3. DOMAIN graph = Ids(work) /\ \A id \in Ids(work) : graph[id] = (CHOOSE s \in ToSet(units) : s.id = id).deps
    OBVIOUS
  <2> HIDE DEF units, graph
  <2>4. ASSUME NEW i \in DOMAIN units PROVE graph[units[i].id] = units[i].deps
    <3> DEFINE id == units[i].id
               q == CHOOSE s \in ToSet(units) : s.id = id
    <3>1. id \in Ids(work)  BY <2>1
    <3>2. q \in ToSet(units) /\ q.id = id  BY <2>2
    <3>3. q = units[i]  BY <3>2, <2>1, <2>2 DEF UnitsOK
    <3> HIDE DEF q, id
    <3>4. graph[id] = (CHOOSE s \in ToSet(units) : s.id = id).deps  BY <2>3, <3>1
    <3> QED BY <3>3, <3>4 DEF q, id
  <2> SUFFICES ASSUME NEW S \in SUBSET DOMAIN graph, S # {}, \A id \in S : graph[id] \cap S # {}
               PROVE  FALSE
    BY DEF DependencyCycle
  <2>5. S \in SUBSET {units[i].id : i \in DOMAIN units}  BY <2>1, <2>3
  <2>6. \A i \in DOMAIN units : units[i].id \in S => units[i].deps \cap S # {}  BY <2>4
  <2> QED BY <2>1, <2>5, <2>6 DEF UnitsOK, Circular
<1> QED BY <1>1, OutlineInvHolds, PTL

(***************************************************************************)
(* The Rainy adapter.  What the stream has said grows one message at a     *)
(* time: the lemmas say what a message adds to it.                         *)
(***************************************************************************)

\* What has been said is well formed, as DoneIsTheWholeResponse has it.
Proper(said, begun) == said \in Seq(Messages) /\ ApartIn(said) /\ DoneLast(said, begun)

LEMMA NothingSaid ==
    ASSUME NEW begun
    PROVE  /\ Proper(<<>>, begun) /\ CallsOf(<<>>) = {} /\ ReportedIn(<<>>) = {}
           /\ \A type : ~Has(<<>>, type)
BY DEF Proper, ApartIn, DoneLast, CallsOf, ReportedIn, Has

LEMMA OneMoreMessage ==
    ASSUME NEW said \in Seq(Messages), NEW m \in Messages
    PROVE  /\ Append(said, m) \in Seq(Messages)
           /\ \A type : Has(Append(said, m), type) <=> Has(said, type) \/ m.type = type
           /\ CallsOf(Append(said, m)) = CallsOf(said) \cup (IF IsCall(m) THEN {m} ELSE {})
           /\ ReportedIn(Append(said, m)) = ReportedIn(said) \cup (IF IsCall(m) THEN {m.id} ELSE {})
           /\ ReportedOf(Append(said, m)) = ReportedOf(said) \cup (IF IsCall(m) THEN {m.of} ELSE {})
<1> DEFINE more == Append(said, m)
           n == Len(said)
<1>1. /\ more \in Seq(Messages) /\ n \in Nat /\ DOMAIN said = 1 .. n /\ DOMAIN more = 1 .. (n + 1)
      /\ more[n + 1] = m /\ \A i \in 1 .. n : more[i] = said[i]
  BY AppendProperties
<1>2. \A i : i \in 1 .. (n + 1) <=> i \in 1 .. n \/ i = n + 1  BY <1>1
<1> HIDE DEF more, n
<1>3. \A type : Has(more, type) <=> Has(said, type) \/ m.type = type
  BY <1>1, <1>2 DEF Has
<1>4. CallsOf(more) = CallsOf(said) \cup (IF IsCall(m) THEN {m} ELSE {})
  <2>1. \A c : c \in CallsOf(more) <=> \E i \in 1 .. (n + 1) : IsCall(more[i]) /\ c = more[i]
    BY <1>1 DEF CallsOf
  <2>2. \A c : c \in CallsOf(said) <=> \E i \in 1 .. n : IsCall(said[i]) /\ c = said[i]
    BY <1>1 DEF CallsOf
  <2> QED BY <1>1, <1>2, <2>1, <2>2
<1>5. /\ ReportedIn(more) = ReportedIn(said) \cup (IF IsCall(m) THEN {m.id} ELSE {})
      /\ ReportedOf(more) = ReportedOf(said) \cup (IF IsCall(m) THEN {m.of} ELSE {})
  BY <1>4 DEF ReportedIn, ReportedOf
<1> QED BY <1>1, <1>3, <1>4, <1>5 DEF more

\* A call may be said under an identifier that no call had, or for another index of Chat; the end of
\* what was whole may be said; anything else may be said before the end.
LEMMA SayingIsProper ==
    ASSUME NEW said, NEW begun, Proper(said, begun), ~Has(said, "done"), NEW m \in Messages,
           IsCall(m) => \/ m.id \notin ReportedIn(said)
                        \/ m.of \in ChatIndices \ ReportedOf(said) /\ ReportedOf(said) \subseteq ChatIndices,
           NEW all, m.type = "done" => ~Has(said, "error") /\ all \subseteq KeysIn(said)
    PROVE  Proper(Append(said, m), all)
<1> DEFINE more == Append(said, m)
           n == Len(said)
<1>1. said \in Seq(Messages)  BY DEF Proper
<1>2. /\ more \in Seq(Messages) /\ n \in Nat /\ DOMAIN said = 1 .. n /\ DOMAIN more = 1 .. (n + 1)
      /\ more[n + 1] = m /\ Len(more) = n + 1 /\ \A i \in 1 .. n : more[i] = said[i]
  BY <1>1, AppendProperties
<1>3. \A i : i \in 1 .. (n + 1) <=> i \in 1 .. n \/ i = n + 1  BY <1>2
<1>4. /\ \A type : Has(more, type) <=> Has(said, type) \/ m.type = type
      /\ ReportedIn(said) \subseteq ReportedIn(more) /\ ReportedOf(said) \subseteq ReportedOf(more)
  BY <1>1, OneMoreMessage
<1> HIDE DEF more, n
<1>5. \A i \in 1 .. n : IsCall(said[i]) => said[i].id \in ReportedIn(said) /\ said[i].of \in ReportedOf(said)
  <2>1. \A i \in 1 .. n : IsCall(said[i]) => said[i] \in CallsOf(said)  BY <1>2 DEF CallsOf
  <2> QED BY <2>1 DEF ReportedIn, ReportedOf
<1>6. ApartIn(more)
  <2> SUFFICES ASSUME NEW i \in DOMAIN more, NEW j \in DOMAIN more, IsCall(more[i]),
                      IsCall(more[j]), i # j
               PROVE  /\ more[i].of = more[j].of => more[i].id # more[j].id
                      /\ more[i].id = more[j].id => more[i].of \in ChatIndices
    BY DEF ApartIn
  <2>1. CASE i \in 1 .. n /\ j \in 1 .. n  BY <2>1, <1>2 DEF Proper, ApartIn
  <2>2. CASE i = n + 1 /\ j \in 1 .. n  BY <2>2, <1>2, <1>5
  <2>3. CASE i \in 1 .. n /\ j = n + 1  BY <2>3, <1>2, <1>5
  <2> QED BY <1>2, <1>3, <2>1, <2>2, <2>3
<1>7. DoneLast(more, all)
  <2> SUFFICES ASSUME NEW i \in DOMAIN more, more[i].type = "done"
               PROVE  i = Len(more) /\ ~Has(more, "error") /\ all \subseteq KeysIn(more)
    BY DEF DoneLast
  <2>1. i \notin 1 .. n  BY <1>2 DEF Has
  <2>2. i = n + 1  BY <1>2, <1>3, <2>1
  <2> QED BY <2>2, <1>2, <1>4 DEF KeysIn
<1> QED BY <1>2, <1>6, <1>7 DEF Proper, more

\* What was said before it was cut short.
LEMMA CuttingIsProper ==
    ASSUME NEW begun, NEW said \in Seq(Messages), NEW rest \in Seq(Messages), Proper(said \o rest, begun)
    PROVE  Proper(said, begun)
<1> DEFINE n == Len(said)
           k == Len(rest)
           whole == said \o rest
<1>1. /\ n \in Nat /\ k \in Nat /\ DOMAIN said = 1 .. n /\ DOMAIN whole = 1 .. (n + k)
      /\ Len(whole) = n + k /\ \A i \in 1 .. n : whole[i] = said[i]
  BY ConcatProperties
<1>2. k = 0 => rest = <<>>  OBVIOUS
<1>3. rest = <<>> => whole = said  OBVIOUS
<1> HIDE DEF n, k, whole
<1>4. \A i : i \in 1 .. n => i \in 1 .. (n + k)  BY <1>1
<1>5. ApartIn(said)  BY <1>1, <1>4 DEF Proper, ApartIn, whole
<1>6. ASSUME NEW i \in DOMAIN said, said[i].type = "done" PROVE whole = said
  <2>1. i = n + k /\ i \in 1 .. n  BY <1>1, <1>4, <1>6 DEF Proper, DoneLast, whole
  <2> QED BY <2>1, <1>1, <1>2, <1>3
<1>7. DoneLast(said, begun)  BY <1>6 DEF Proper, DoneLast, whole
<1> QED BY <1>5, <1>7 DEF Proper

\* What a step of the adapter leaves: a sound adapter, and a proper stream with what it will send.
Adapted(b, said, begun) ==
    /\ AdapterOK(b) /\ b.pc # "idle"
    /\ Proper(said \o b.outbox, begun) /\ StillOpen(said \o b.outbox, b, begun)

\* The state in which the adapter reads the next item of the stream.
Reading(a, said, begun) ==
    /\ AdapterOK(a) /\ a.pc # "idle" /\ a.outbox = <<>> /\ a.closing = FALSE
    /\ Proper(said, begun) /\ StillOpen(said, a, begun)

LEMMA AdapterFields ==
    DOMAIN NoRequest = {"pc", "calls", "completed", "chat", "terminal", "usage", "outbox", "closing", "events"}
BY DEF NoRequest

LEMMA ConcatOne ==
    ASSUME NEW said \in Seq(Messages), NEW m \in Messages
    PROVE  <<m>> \in Seq(Messages) /\ said \o <<m>> = Append(said, m)
OBVIOUS

LEMMA ConcatNone == ASSUME NEW said \in Seq(Messages) PROVE said \o <<>> = said
OBVIOUS

\* Nothing more is begun or ended before the end.
LEMMA ProperBeforeTheEnd ==
    ASSUME NEW said, NEW begun, Proper(said, begun), ~Has(said, "done"), NEW all
    PROVE  Proper(said, all)
BY DEF Proper, DoneLast, Has

\* The end by an error, whatever was begun.
LEMMA FailingIsProper ==
    ASSUME NEW a, NEW said, NEW begun, Reading(a, said, begun), NEW m \in Messages, m.type = "error",
           NEW all
    PROVE  Adapted([a EXCEPT !.outbox = <<m>>, !.closing = TRUE], said, all)
<1> DEFINE b == [a EXCEPT !.outbox = <<m>>, !.closing = TRUE]
<1>1. said \in Seq(Messages) /\ ~Has(said, "done")  BY DEF Reading, Proper, StillOpen
<1>2. <<m>> \in Seq(Messages) /\ said \o <<m>> = Append(said, m)  BY <1>1, ConcatOne
<1>3. Proper(said \o <<m>>, all)  BY <1>1, <1>2, SayingIsProper DEF Reading, IsCall
<1>4. b.outbox = <<m>> /\ b.closing = TRUE /\ b.pc # "idle"  BY AdapterFields DEF Reading, AdapterOK
<1>5. AdapterOK(b)  BY <1>2, AdapterFields DEF Reading, AdapterOK
<1> HIDE DEF b
<1>6. Adapted(b, said, all)  BY <1>3, <1>4, <1>5 DEF Adapted, StillOpen
<1> QED BY <1>6 DEF b

\* A mapping that fails says so and closes.
LEMMA UnmappedIsProper ==
    ASSUME NEW a, NEW said, NEW begun, Reading(a, said, begun), NEW name \in ErrorNames, NEW all
    PROVE  Adapted(Unmapped(a, name), said, all)
<1>1. Failure(name) \in Messages /\ Failure(name).type = "error"  BY DEF Failure, Messages
<1> QED BY <1>1, FailingIsProper DEF Unmapped

LEMMA ErrorsAreMapped ==
    ASSUME NEW error \in RainyErrors, NEW continuation
    PROVE  /\ MapRainyError(error, continuation) \in Messages
           /\ MapRainyError(error, continuation).type = "error"
BY DEF MapRainyError, Messages, ErrorNames

LEMMA HeadOfOne == \A x : Head(<<x>>) = x
OBVIOUS

LEMMA EmptyJoined ==
    /\ <<>> \o <<>> = <<>>
    /\ \A x : <<>> \o <<x>> = <<x>> /\ <<x>> \o <<>> = <<x>>
<1>1. <<>> \o <<>> = <<>>  OBVIOUS
<1>2. \A x : <<>> \o <<x>> = <<x>>  OBVIOUS
<1>3. \A x : <<x>> \o <<>> = <<x>>  OBVIOUS
<1> QED BY <1>1, <1>2, <1>3

LEMMA HeadOfTwo ==
    ASSUME NEW x, NEW y
    PROVE  Head(<<x>> \o <<y>>) = x
<1>1. \A S, s, z : s \in Seq(S) /\ z \in S => Head(<<z>> \o s) = z  OBVIOUS
<1> DEFINE S == {x, y}
<1>2. <<y>> \in Seq(S) /\ x \in S  OBVIOUS
<1> QED BY <1>1, <1>2

LEMMA RainyBounds == ChannelCapacity \in Nat \ {0} /\ MaxEvents \in Nat /\ MaxSteps \in Nat
BY RainyAssumption, Zenon

LEMMA NamingsTyped == Namings \subseteq [of : ProviderCalls, call : IdField, item : IdField]
BY RainyAssumption, Zenon

\* The first identifier that an event carries, unless it is empty, is one that the provider uses.
LEMMA IdsAreCallIds ==
    ASSUME NEW e, e.names \in Namings, HasId(e)
    PROVE  EventString(e) \in CallIds /\ e.names.of \in ProviderCalls
<1>1. e.names \in [of : ProviderCalls, call : IdField, item : IdField]  BY NamingsTyped
<1>2. e.names.call \in IdField /\ e.names.item \in IdField /\ e.names.of \in ProviderCalls  BY <1>1
<1> DEFINE c == e.names.call
           i == e.names.item
<1>3. IdStrings(e) = c \o i  BY DEF IdStrings
<1>4. c \o i # <<>> /\ Head(c \o i) # "" /\ EventString(e) = Head(c \o i)
  BY <1>3 DEF HasId, EventString
<1>5. \A f \in IdField : f = <<>> \/ \E x \in CallIds \cup {""} : f = <<x>>  BY DEF IdField
<1>6. c \in IdField /\ i \in IdField  BY <1>2
<1> HIDE DEF c, i
<1>7. CASE c = <<>> /\ i = <<>>
  <2>1. c \o i = <<>>  BY <1>7, EmptyJoined, Zenon
  <2> QED BY <2>1, <1>4
<1>8. CASE c = <<>> /\ \E x \in CallIds \cup {""} : i = <<x>>
  <2>1. PICK x \in CallIds \cup {""} : i = <<x>>  BY <1>8
  <2>2. c \o i = <<x>>  BY <1>8, <2>1, EmptyJoined, Zenon
  <2>3. Head(c \o i) = x  BY <2>2, HeadOfOne, Zenon
  <2> QED BY <1>2, <1>4, <2>3
<1>9. CASE \E x \in CallIds \cup {""} : c = <<x>>
  <2>1. PICK x \in CallIds \cup {""} : c = <<x>>  BY <1>9
  <2>2. Head(c \o i) = x
    <3>1. CASE i = <<>>
      <4>1. c \o i = <<x>>  BY <2>1, <3>1, EmptyJoined, Zenon
      <4> QED BY <4>1, HeadOfOne, Zenon
    <3>2. CASE \E y \in CallIds \cup {""} : i = <<y>>
      <4>1. PICK y \in CallIds \cup {""} : i = <<y>>  BY <3>2
      <4> QED BY <2>1, <4>1, HeadOfTwo, Zenon
    <3> QED BY <1>5, <1>6, <3>1, <3>2
  <2> QED BY <1>2, <1>4, <2>2
<1> QED BY <1>5, <1>6, <1>7, <1>8, <1>9

\* A call of the Responses stream is reported once under its identifier, when its arguments are complete.
LEMMA CompletingIsProper ==
    ASSUME NEW a, NEW said, NEW begun, Reading(a, said, begun), a.pc = "responses",
           NEW e, e.names \in Namings, HasId(e), EventString(e) \notin a.completed,
           NEW name \in {"", "n"}, NEW arguments
    PROVE  Adapted(Complete(a, e, name, arguments), said, begun)
<1> DEFINE id == EventString(e)
<1>0. id \in CallIds /\ e.names.of \in ProviderCalls  BY IdsAreCallIds
<1>1. CASE arguments \notin ValidJson
  <2>1. Complete(a, e, name, arguments) = Unmapped(a, "mapping")  BY <1>1 DEF Complete
  <2>2. "mapping" \in ErrorNames  BY DEF ErrorNames
  <2> QED BY <2>1, <2>2, UnmappedIsProper
<1>2. CASE arguments \in ValidJson
  <2> DEFINE m == Call(e.names.of, id, name, arguments)
             left == Without(a.calls, id)
             b == [a EXCEPT !.calls = left, !.completed = @ \cup {id}, !.outbox = <<m>>]
  <2>1. AdapterOK(a) /\ DOMAIN a = DOMAIN NoRequest  BY DEF Reading, AdapterOK
  <2>2. m \in Messages /\ IsCall(m) /\ m.id = id /\ m.type = "call"
    BY <1>0, <1>2 DEF Call, Messages, IsCall
  <2>3. Complete(a, e, name, arguments) = b
    BY <1>2, <2>1, AdapterFields DEF Complete, Mapped
  <2>4. DOMAIN left = DOMAIN a.calls \ {id} /\ \A x \in DOMAIN left : left[x] = a.calls[x]
    BY DEF Without
  <2> HIDE DEF m, left, id
  <2>5. /\ b.calls = left /\ b.completed = a.completed \cup {id} /\ b.outbox = <<m>>
        /\ b.pc = a.pc /\ b.closing = a.closing /\ b.chat = a.chat /\ b.terminal = a.terminal
        /\ b.usage = a.usage /\ b.events = a.events /\ DOMAIN b = DOMAIN NoRequest
    BY <2>1, AdapterFields
  <2> HIDE DEF b
  <2>6. /\ said \in Seq(Messages) /\ ~Has(said, "done") /\ ~Has(said, "error")
        /\ ReportedIn(said) = a.completed /\ begun \subseteq a.completed \cup DOMAIN a.calls
        /\ a.closing = FALSE
    BY DEF Reading, Proper, StillOpen
  <2>7. <<m>> \in Seq(Messages) /\ said \o <<m>> = Append(said, m)  BY <2>2, <2>6, ConcatOne
  <2>8. AdapterOK(b)  BY <1>0, <2>1, <2>4, <2>5, <2>7 DEF AdapterOK
  <2>9. Proper(said \o <<m>>, begun)
    <3>1. m.id \notin ReportedIn(said)  BY <2>2, <2>6 DEF id
    <3> QED BY <2>2, <2>6, <2>7, <3>1, SayingIsProper DEF Reading
  <2>10. /\ ~Has(said \o <<m>>, "done") /\ ~Has(said \o <<m>>, "error")
         /\ ReportedIn(said \o <<m>>) = a.completed \cup {id}
    BY <2>2, <2>6, <2>7, OneMoreMessage
  <2>11. begun \subseteq b.completed \cup DOMAIN b.calls  BY <2>4, <2>5, <2>6
  <2>12. StillOpen(said \o <<m>>, b, begun)  BY <2>5, <2>10, <2>11 DEF StillOpen
  <2> QED BY <2>3, <2>5, <2>8, <2>9, <2>12 DEF Adapted
<1> QED BY <1>1, <1>2

\* The stream goes on: nothing is said but text, and every call that was begun is known.
LEMMA GoingOnIsProper ==
    ASSUME NEW a, NEW said, NEW begun, Reading(a, said, begun), NEW b, AdapterOK(b),
           b.closing = FALSE, b.pc = a.pc, b.completed = a.completed,
           b.outbox = <<>> \/ b.outbox = <<Text>>,
           NEW all, a.pc = "responses" => all \subseteq b.completed \cup DOMAIN b.calls,
           a.pc = "chat" => all \subseteq DOMAIN b.chat
    PROVE  Adapted(b, said, all)
<1>1. said \in Seq(Messages) /\ ~Has(said, "done") /\ ~Has(said, "error")
  BY DEF Reading, Proper, StillOpen
<1>2. Text \in Messages /\ Text.type = "text"  BY DEF Text, Messages
<1> DEFINE more == said \o b.outbox
<1>3. Proper(said, all)  BY <1>1, ProperBeforeTheEnd DEF Reading
<1>4. /\ Proper(more, all) /\ ~Has(more, "done") /\ ~Has(more, "error")
      /\ ReportedIn(more) = ReportedIn(said)
  <2>1. CASE b.outbox = <<>>
    <3>1. more = said  BY <2>1, <1>1, ConcatNone
    <3> QED BY <3>1, <1>1, <1>3
  <2>2. CASE b.outbox = <<Text>>
    <3>1. more = Append(said, Text)  BY <2>2, <1>1, <1>2, ConcatOne
    <3> HIDE DEF more
    <3>2. Proper(more, all)  BY <3>1, <1>1, <1>2, SayingIsProper DEF Reading, IsCall
    <3> QED BY <3>1, <3>2, <1>1, <1>2, OneMoreMessage DEF IsCall
  <2> QED BY <2>1, <2>2
<1> HIDE DEF more
<1>5. StillOpen(more, b, all)  BY <1>4 DEF Reading, StillOpen
<1> QED BY <1>4, <1>5 DEF Adapted, Reading, more

LEMMA EventFields ==
    ASSUME NEW e \in ResponsesEvents
    PROVE  /\ e.kind \in {"text", "failed", "incomplete", "error", "eof", "delta", "arguments_done",
                          "item_added", "item_done", "completed", "broken"}
           /\ e.kind = "delta" => e.names \in Namings /\ e.piece \in Pieces
           /\ e.kind = "arguments_done" =>
                 /\ e.names \in Namings /\ e.name \in {<<>>, <<"n">>}
           /\ e.kind \in {"item_added", "item_done"} =>
                 /\ e.names \in Namings /\ e.name \in {<<>>, <<"n">>} /\ e.function \in BOOLEAN
                 /\ e.arguments \in {<<>>, <<<<>>>>} \cup {<<x>> : x \in SomeArguments}
           /\ e.kind = "broken" => e.error \in RainyErrors
<1>1. {"{", "}"} \subseteq Pieces  BY DEF Pieces
<1> QED BY <1>1 DEF ResponsesEvents

LEMMA NoPieces == <<>> \in Seq(Pieces)
OBVIOUS

LEMMA OpenCallParts ==
    /\ \A c \in OpenCall : c[1] \in {"", "n"} /\ c[2] \in Seq(Pieces)
    /\ \A name \in {"", "n"}, pieces \in Seq(Pieces) : <<name, pieces>> \in OpenCall
    /\ \A pieces \in Seq(Pieces), piece \in Pieces : Append(pieces, piece) \in Seq(Pieces)
<1>1. \A pieces \in Seq(Pieces), piece \in Pieces : Append(pieces, piece) \in Seq(Pieces)
  OBVIOUS
<1> QED BY <1>1 DEF OpenCall

\* A call is begun, or known better.
LEMMA PuttingIsProper ==
    ASSUME NEW a, NEW said, NEW begun, Reading(a, said, begun), a.pc = "responses",
           NEW id \in CallIds, NEW call \in OpenCall
    PROVE  Adapted([a EXCEPT !.calls = Put(a.calls, id, call)], said, begun \cup {id})
<1> DEFINE put == Put(a.calls, id, call)
           b == [a EXCEPT !.calls = put]
           all == begun \cup {id}
<1>1. AdapterOK(a) /\ DOMAIN a = DOMAIN NoRequest  BY DEF Reading, AdapterOK
<1>2. DOMAIN put = DOMAIN a.calls \cup {id} /\ \A x \in DOMAIN put : put[x] \in OpenCall
  BY <1>1 DEF Put, AdapterOK
<1> HIDE DEF put
<1>3. /\ b.calls = put /\ b.completed = a.completed /\ b.outbox = a.outbox
      /\ b.pc = a.pc /\ b.closing = a.closing /\ b.chat = a.chat /\ b.terminal = a.terminal
      /\ b.usage = a.usage /\ b.events = a.events /\ DOMAIN b = DOMAIN NoRequest
  BY <1>1, AdapterFields
<1> HIDE DEF b
<1>4. AdapterOK(b)  BY <1>1, <1>2, <1>3 DEF AdapterOK
<1>5. begun \subseteq a.completed \cup DOMAIN a.calls  BY DEF Reading, StillOpen
<1>6. all \subseteq b.completed \cup DOMAIN b.calls  BY <1>2, <1>3, <1>5
<1> HIDE DEF all
<1>7. Adapted(b, said, all)  BY <1>3, <1>4, <1>6, GoingOnIsProper DEF Reading
<1> QED BY <1>7 DEF all, b, put

\* A piece of the arguments of a call, which it may begin.
LEMMA DeltasAreProper ==
    ASSUME NEW a, NEW said, NEW begun, Reading(a, said, begun), a.pc = "responses",
           NEW e, e.names \in Namings, e.piece \in Pieces
    PROVE  Adapted(ArgumentsDelta(a, e), said, begun \cup (IF HasId(e) THEN {EventString(e)} ELSE {}))
<1>1. CASE ~HasId(e)
  <2>1. ArgumentsDelta(a, e) = Unmapped(a, "mapping")  BY <1>1 DEF ArgumentsDelta
  <2>2. "mapping" \in ErrorNames  BY DEF ErrorNames
  <2> QED BY <2>1, <2>2, UnmappedIsProper
<1>2. CASE HasId(e)
  <2> DEFINE id == EventString(e)
             entry == IF id \in DOMAIN a.calls THEN a.calls[id] ELSE <<"", <<>>>>
             call == <<entry[1], Append(entry[2], e.piece)>>
  <2>1. id \in CallIds  BY <1>2, IdsAreCallIds
  <2>2. ArgumentsDelta(a, e) = [a EXCEPT !.calls = Put(a.calls, id, call)]  BY <1>2 DEF ArgumentsDelta
  <2>3. entry \in OpenCall
    <3>1. <<"", <<>>>> \in OpenCall  BY NoPieces, OpenCallParts
    <3> QED BY <3>1 DEF Reading, AdapterOK
  <2> HIDE DEF entry
  <2>4. call \in OpenCall  BY <2>3, OpenCallParts
  <2> HIDE DEF id, call
  <2>5. Adapted(ArgumentsDelta(a, e), said, begun \cup {id})  BY <2>1, <2>2, <2>4, PuttingIsProper
  <2> QED BY <2>5, <1>2 DEF id
<1> QED BY <1>1, <1>2

\* An adapter that skips an item has completed the call that the item is about, if it is about one.
LEMMA SkippingIsProper ==
    ASSUME NEW a, NEW said, NEW begun, Reading(a, said, begun), a.pc = "responses",
           NEW ids, ids \subseteq a.completed
    PROVE  Adapted(a, said, begun \cup ids)
<1> DEFINE all == begun \cup ids
<1>1. begun \subseteq a.completed \cup DOMAIN a.calls  BY DEF Reading, StillOpen
<1>2. all \subseteq a.completed \cup DOMAIN a.calls  BY <1>1
<1> HIDE DEF all
<1>3. Adapted(a, said, all)  BY <1>2, GoingOnIsProper DEF Reading
<1> QED BY <1>3 DEF all

\* The end of a call's arguments.
LEMMA ArgumentsAreProper ==
    ASSUME NEW a, NEW said, NEW begun, Reading(a, said, begun), a.pc = "responses",
           NEW e, e.names \in Namings, e.name \in {<<>>, <<"n">>}
    PROVE  Adapted(ArgumentsDone(a, e), said, begun)
<1> DEFINE id == EventString(e)
           known == id \in DOMAIN a.calls
           name == IF e.name # <<>> THEN e.name[1] ELSE a.calls[id][1]
           arguments == IF e.arguments # <<>> THEN e.arguments[1]
                        ELSE IF known THEN a.calls[id][2] ELSE <<"{}">>
<1>1. "mapping" \in ErrorNames  BY DEF ErrorNames
<1>2. Adapted(Unmapped(a, "mapping"), said, begun)  BY <1>1, UnmappedIsProper
<1>3. Adapted(a, said, begun)
  <2>1. Adapted(a, said, begun \cup {})  BY SkippingIsProper
  <2> QED BY <2>1
<1>4. CASE ~HasId(e)  BY <1>4, <1>2 DEF ArgumentsDone
<1>5. CASE HasId(e) /\ id \in a.completed  BY <1>5, <1>3 DEF ArgumentsDone
<1>6. CASE HasId(e) /\ id \notin a.completed /\ e.name = <<>> /\ ~known
  BY <1>6, <1>2 DEF ArgumentsDone
<1>7. CASE HasId(e) /\ id \notin a.completed /\ ~(e.name = <<>> /\ ~known)
  <2>1. id \in CallIds  BY <1>7, IdsAreCallIds
  <2>2. name \in {"", "n"}
    <3>1. CASE e.name # <<>>
      <4>1. e.name = <<"n">>  BY <3>1
      <4>2. e.name[1] = "n"  BY <4>1
      <4> QED BY <3>1, <4>2
    <3>2. CASE e.name = <<>>
      <4>1. a.calls[id] \in OpenCall  BY <3>2, <1>7 DEF Reading, AdapterOK
      <4> QED BY <3>2, <4>1, OpenCallParts
    <3> QED BY <3>1, <3>2
  <2>3. ArgumentsDone(a, e) = Complete(a, e, name, arguments)  BY <1>7 DEF ArgumentsDone
  <2> HIDE DEF name, arguments
  <2>4. Adapted(Complete(a, e, name, arguments), said, begun)  BY <1>7, <2>2, CompletingIsProper
  <2> QED BY <2>3, <2>4
<1> QED BY <1>4, <1>5, <1>6, <1>7

LEMMA PiecesOfItems ==
    ASSUME NEW arguments \in {<<>>, <<<<>>>>} \cup {<<x>> : x \in SomeArguments}
    PROVE  (IF arguments # <<>> THEN arguments[1] ELSE <<"{}">>) \in Seq(Pieces)
<1>1. \A p \in Pieces : <<p>> \in Seq(Pieces)  OBVIOUS
<1>2. "{}" \in Pieces /\ "{" \in Pieces  BY Zenon DEF Pieces
<1>3. <<"{}">> \in Seq(Pieces) /\ SomeArguments \subseteq Seq(Pieces)
  BY <1>1, <1>2, Zenon DEF SomeArguments
<1>4. \A x : <<x>>[1] = x  OBVIOUS
<1>5. CASE arguments = <<>>  BY <1>3, <1>5, Zenon
<1>6. CASE arguments # <<>>
  <2>1. arguments[1] \in Seq(Pieces)  BY <1>3, <1>4, <1>6, NoPieces
  <2> QED BY <2>1, <1>6, Zenon
<1> QED BY <1>5, <1>6

\* An item that is a call begins it, or completes it.
LEMMA ItemsAreProper ==
    ASSUME NEW a, NEW said, NEW begun, Reading(a, said, begun), a.pc = "responses",
           NEW e, e.names \in Namings, e.name \in {<<>>, <<"n">>}, e.function \in BOOLEAN,
           e.arguments \in {<<>>, <<<<>>>>} \cup {<<x>> : x \in SomeArguments}
    PROVE  Adapted(OutputItem(a, e), said,
                   begun \cup (IF e.kind = "item_added" /\ e.function /\ HasId(e)
                              THEN {EventString(e)} ELSE {}))
<1> DEFINE id == EventString(e)
           begins == IF e.kind = "item_added" /\ e.function /\ HasId(e) THEN {id} ELSE {}
           all == begun \cup begins
           arguments == IF e.arguments # <<>> THEN e.arguments[1] ELSE <<"{}">>
<1>1. "mapping" \in ErrorNames  BY DEF ErrorNames
<1> HIDE DEF all
<1>2. Adapted(Unmapped(a, "mapping"), said, all)  BY <1>1, UnmappedIsProper
<1>3. begins \subseteq a.completed => Adapted(a, said, all)  BY SkippingIsProper DEF all
<1>4. SUFFICES Adapted(OutputItem(a, e), said, all)  BY DEF all
<1>5. CASE ~e.function  BY <1>5, <1>3 DEF OutputItem
<1>6. CASE e.function /\ ~HasId(e)  BY <1>6, <1>2 DEF OutputItem
<1>7. CASE e.function /\ HasId(e) /\ id \in a.completed  BY <1>7, <1>3 DEF OutputItem
<1>8. CASE e.function /\ HasId(e) /\ id \notin a.completed /\ e.name = <<>>
  BY <1>8, <1>2 DEF OutputItem
<1>9. CASE e.function /\ HasId(e) /\ id \notin a.completed /\ e.name # <<>>
  <2>1. id \in CallIds  BY <1>9, IdsAreCallIds
  <2>2. e.name[1] = "n"
    <3>1. e.name = <<"n">>  BY <1>9
    <3> QED BY <3>1
  <2>3. arguments \in Seq(Pieces)  BY PiecesOfItems
  <2>4. CASE e.kind = "item_added"
    <3> DEFINE call == <<e.name[1], arguments>>
    <3>1. OutputItem(a, e) = [a EXCEPT !.calls = Put(a.calls, id, call)]
      BY <1>9, <2>4 DEF OutputItem
    <3>2. all = begun \cup {id}  BY <1>9, <2>4 DEF all
    <3> HIDE DEF arguments
    <3>3. call \in OpenCall  BY <2>2, <2>3, OpenCallParts
    <3> HIDE DEF id, call
    <3> QED BY <2>1, <3>1, <3>2, <3>3, PuttingIsProper
  <2>5. CASE e.kind # "item_added"
    <3>1. OutputItem(a, e) = Complete(a, e, e.name[1], arguments)  BY <1>9, <2>5 DEF OutputItem
    <3>2. all = begun  BY <2>5 DEF all
    <3> HIDE DEF arguments
    <3>3. Adapted(Complete(a, e, "n", arguments), said, begun)  BY <1>9, CompletingIsProper
    <3> QED BY <2>2, <3>1, <3>2, <3>3
  <2> QED BY <2>4, <2>5
<1> QED BY <1>5, <1>6, <1>7, <1>8, <1>9

\* The end of a response in which no call is open: its usage, if it says it, and done.
LEMMA EndingIsProper ==
    ASSUME NEW a, NEW said, NEW begun, Reading(a, said, begun), a.pc = "responses", ~OpenCalls(a),
           NEW e, e.kind = "completed"
    PROVE  Adapted(ResponseCompleted(a, e), said, begun)
<1>1. CASE ~e.id
  <2>1. ResponseCompleted(a, e) = Unmapped(a, "mapping")  BY <1>1 DEF ResponseCompleted
  <2>2. "mapping" \in ErrorNames  BY DEF ErrorNames
  <2> QED BY <2>1, <2>2, UnmappedIsProper
<1>2. CASE e.id
  <2> DEFINE usage == IF e.usage THEN <<Usage>> ELSE <<>>
             done == Done("response")
             b == [a EXCEPT !.outbox = usage \o <<done>>, !.closing = TRUE]
             told == said \o usage
  <2>1. /\ said \in Seq(Messages) /\ ~Has(said, "done") /\ ~Has(said, "error")
        /\ ReportedIn(said) = a.completed /\ begun \subseteq a.completed \cup DOMAIN a.calls
    BY DEF Reading, Proper, StillOpen
  <2>2. AdapterOK(a) /\ DOMAIN a = DOMAIN NoRequest  BY DEF Reading, AdapterOK
  <2>3. begun \subseteq KeysIn(said)  BY <2>1 DEF OpenCalls, KeysIn
  <2>4. Usage \in Messages /\ Usage.type = "usage"  BY DEF Usage, Messages
  <2>5. done \in Messages /\ done.type = "done"  BY DEF Done, Messages
  <2>6. usage \in Seq(Messages)  BY <2>4
  <2>7. /\ told \in Seq(Messages) /\ Proper(told, begun) /\ ~Has(told, "done")
        /\ ~Has(told, "error") /\ KeysIn(told) = KeysIn(said)
    <3>1. CASE e.usage
      <4>1. told = Append(said, Usage)  BY <3>1, <2>1, <2>4, ConcatOne
      <4> HIDE DEF told
      <4>2. Proper(told, begun)  BY <4>1, <2>1, <2>4, SayingIsProper DEF Reading, IsCall
      <4> QED BY <4>1, <4>2, <2>1, <2>4, OneMoreMessage DEF IsCall, KeysIn
    <3>2. CASE ~e.usage
      <4>1. told = said  BY <3>2, <2>1, ConcatNone
      <4> QED BY <4>1, <2>1 DEF Reading
    <3> QED BY <3>1, <3>2
  <2>8. ResponseCompleted(a, e) = b
    BY <1>2, <2>2, AdapterFields DEF ResponseCompleted, Mapped
  <2> HIDE DEF usage, done
  <2>9. usage \o <<done>> \in Seq(Messages) /\ said \o (usage \o <<done>>) = told \o <<done>>
    BY <2>1, <2>5, <2>6
  <2> HIDE DEF told
  <2>10. told \o <<done>> = Append(told, done)  BY <2>5, <2>7, ConcatOne
  <2>11. Proper(told \o <<done>>, begun)
    BY <2>3, <2>5, <2>7, <2>10, SayingIsProper DEF IsCall
  <2>12. b.outbox = usage \o <<done>> /\ b.closing = TRUE /\ b.pc # "idle"  BY <2>2, AdapterFields
  <2>13. AdapterOK(b)  BY <2>2, <2>9, AdapterFields DEF AdapterOK
  <2> HIDE DEF b
  <2> QED BY <2>8, <2>9, <2>11, <2>12, <2>13 DEF Adapted, StillOpen
<1> QED BY <1>1, <1>2

\* Whatever the provider sends next on a Responses stream.
LEMMA EventsAreProper ==
    ASSUME NEW a, NEW said, NEW begun, Reading(a, said, begun), a.pc = "responses",
           NEW e \in ResponsesEvents
    PROVE  Adapted(AdaptEvent(a, e), said, begun \cup Begins(e))
<1> DEFINE all == begun \cup Begins(e)
<1> HIDE DEF all
<1> SUFFICES Adapted(AdaptEvent(a, e), said, all)  BY DEF all
<1>0. /\ {"mapping", "response_failed", "response_incomplete", "operation", "incomplete_stream"}
            \subseteq ErrorNames
      /\ \A name \in ErrorNames : Adapted(Unmapped(a, name), said, all)
  BY UnmappedIsProper DEF ErrorNames
<1>1. CASE e.kind = "text"
  <2> DEFINE b == [a EXCEPT !.outbox = <<Text>>]
  <2>1. AdaptEvent(a, e) = b  BY <1>1 DEF AdaptEvent, MapEvent, Mapped
  <2>2. all = begun  BY <1>1 DEF all, Begins
  <2>3. <<Text>> \in Seq(Messages)  BY DEF Text, Messages
  <2>4. AdapterOK(b) /\ b.outbox = <<Text>> /\ b.pc = a.pc /\ b.calls = a.calls
        /\ b.completed = a.completed /\ b.closing = a.closing
    BY <2>3, AdapterFields DEF Reading, AdapterOK
  <2> HIDE DEF b
  <2>5. begun \subseteq a.completed \cup DOMAIN a.calls  BY DEF Reading, StillOpen
  <2>6. Adapted(b, said, begun)  BY <2>4, <2>5, GoingOnIsProper DEF Reading
  <2> QED BY <2>1, <2>2, <2>6
<1>2. CASE e.kind = "delta"
  <2>1. AdaptEvent(a, e) = ArgumentsDelta(a, e)  BY <1>2 DEF AdaptEvent, MapEvent
  <2>2. all = begun \cup (IF HasId(e) THEN {EventString(e)} ELSE {})  BY <1>2 DEF all, Begins
  <2>3. e.names \in Namings /\ e.piece \in Pieces  BY <1>2, EventFields
  <2> QED BY <2>1, <2>2, <2>3, DeltasAreProper
<1>3. CASE e.kind = "arguments_done"
  <2>1. AdaptEvent(a, e) = ArgumentsDone(a, e)  BY <1>3 DEF AdaptEvent, MapEvent
  <2>2. all = begun  BY <1>3 DEF all, Begins
  <2>3. e.names \in Namings /\ e.name \in {<<>>, <<"n">>}  BY <1>3, EventFields
  <2> QED BY <2>1, <2>2, <2>3, ArgumentsAreProper
<1>4. CASE e.kind \in {"item_added", "item_done"}
  <2>1. AdaptEvent(a, e) = OutputItem(a, e)  BY <1>4 DEF AdaptEvent, MapEvent
  <2>2. all = begun \cup (IF e.kind = "item_added" /\ e.function /\ HasId(e)
                         THEN {EventString(e)} ELSE {})
    <3>1. CASE e.kind = "item_added" /\ e.function /\ HasId(e)  BY <3>1 DEF all, Begins
    <3>2. CASE ~(e.kind = "item_added" /\ e.function /\ HasId(e))  BY <1>4, <3>2 DEF all, Begins
    <3> QED BY <3>1, <3>2
  <2>3. /\ e.names \in Namings /\ e.name \in {<<>>, <<"n">>} /\ e.function \in BOOLEAN
        /\ e.arguments \in {<<>>, <<<<>>>>} \cup {<<x>> : x \in SomeArguments}
    BY <1>4, EventFields
  <2> QED BY <2>1, <2>2, <2>3, ItemsAreProper
<1>5. CASE e.kind = "completed" /\ OpenCalls(a)
  <2>1. AdaptEvent(a, e) = Unmapped(a, "incomplete_stream")  BY <1>5 DEF AdaptEvent
  <2> QED BY <2>1, <1>0
<1>6. CASE e.kind = "completed" /\ ~OpenCalls(a)
  <2>1. AdaptEvent(a, e) = ResponseCompleted(a, e)  BY <1>6 DEF AdaptEvent, MapEvent
  <2>2. all = begun  BY <1>6 DEF all, Begins
  <2> QED BY <1>6, <2>1, <2>2, EndingIsProper
<1>7. CASE e.kind = "failed"
  <2>1. AdaptEvent(a, e) = Unmapped(a, "response_failed")  BY <1>7 DEF AdaptEvent, MapEvent
  <2> QED BY <2>1, <1>0
<1>8. CASE e.kind = "incomplete"
  <2>1. AdaptEvent(a, e) = Unmapped(a, "response_incomplete")  BY <1>8 DEF AdaptEvent, MapEvent
  <2> QED BY <2>1, <1>0
<1>9. CASE e.kind = "error"
  <2>1. AdaptEvent(a, e) = Unmapped(a, "operation")  BY <1>9 DEF AdaptEvent, MapEvent
  <2> QED BY <2>1, <1>0
<1>10. CASE e.kind = "eof"
  <2>1. AdaptEvent(a, e) = Unmapped(a, "incomplete_stream")  BY <1>10 DEF AdaptEvent
  <2> QED BY <2>1, <1>0
<1>11. CASE e.kind = "broken"
  <2> DEFINE m == MapRainyError(e.error, attached)
  <2>1. m \in Messages /\ m.type = "error"  BY <1>11, EventFields, ErrorsAreMapped
  <2>2. AdaptEvent(a, e) = [a EXCEPT !.outbox = <<m>>, !.closing = TRUE]
    BY <1>11, AdapterFields DEF AdaptEvent, Reading, AdapterOK
  <2> HIDE DEF m
  <2>3. Adapted([a EXCEPT !.outbox = <<m>>, !.closing = TRUE], said, all)
    BY <2>1, FailingIsProper
  <2> QED BY <2>2, <2>3, Zenon
<1> QED BY <1>1, <1>2, <1>3, <1>4, <1>5, <1>6, <1>7, <1>8, <1>9, <1>10, <1>11, EventFields

LEMMA ChunkFields ==
    ASSUME NEW c \in ChatChunks
    PROVE  /\ c.kind \in {"chunk", "eof", "broken"}
           /\ c.kind = "broken" => c.error \in RainyErrors
BY DEF ChatChunks

LEMMA ChunkFinishes == \A c \in ChatChunks : c.kind = "chunk" => c.finish \in BOOLEAN
BY DEF ChatChunks

LEMMA ChunkDeltas ==
    \A c \in ChatChunks : c.kind = "chunk" /\ c.delta # <<>> =>
        Head(c.delta).index \in ChatIndices /\ Head(c.delta).id \in CallIds \cup {""}
<1>1. \A d \in ChatDeltas : Head(<<d>>).index \in ChatIndices /\ Head(<<d>>).id \in CallIds \cup {""}
  BY HeadOfOne DEF ChatDeltas
<1>2. \A x \in {<<d>> : d \in ChatDeltas} : Head(x).index \in ChatIndices /\ Head(x).id \in CallIds \cup {""}
  BY <1>1
<1>3. \A c \in ChatChunks : c.kind = "chunk" => c.delta = <<>> \/ c.delta \in {<<d>> : d \in ChatDeltas}
  BY DEF ChatChunks
<1> QED BY <1>2, <1>3

\* One call of a chat that ends whole.
LEMMA ReportsAreProper ==
    ASSUME NEW said, NEW begun, Proper(said, begun), ~Has(said, "done"), ~Has(said, "error"),
           NEW n \in ChatIndices, n \notin ReportedOf(said), ReportedOf(said) \subseteq ChatIndices,
           NEW calls, n \in DOMAIN calls => ChatCallValid(calls[n]) /\ calls[n].id \in CallIds \cup {"none"}
    PROVE  LET out == EmitChatCall(calls, n)
           IN  /\ out \in Seq(Messages) /\ Proper(said \o out, begun)
               /\ ~Has(said \o out, "done") /\ ~Has(said \o out, "error")
               /\ ReportedOf(said \o out) = ReportedOf(said) \cup (IF n \in DOMAIN calls THEN {n} ELSE {})
<1> DEFINE out == EmitChatCall(calls, n)
<1>0. said \in Seq(Messages)  BY DEF Proper
<1>1. CASE n \notin DOMAIN calls
  <2>1. out = <<>>  BY <1>1 DEF EmitChatCall
  <2>2. said \o out = said  BY <2>1, <1>0, ConcatNone
  <2>3. out \in Seq(Messages)  BY <2>1
  <2> HIDE DEF out
  <2> QED BY <1>1, <2>2, <2>3 DEF out
<1>2. CASE n \in DOMAIN calls
  <2> DEFINE m == Call(n, calls[n].id, "n", ChatArguments(calls[n]))
  <2>1. out = <<m>>  BY <1>2 DEF EmitChatCall
  <2>2. m \in Messages /\ IsCall(m) /\ m.type = "call" /\ m.of = n
    BY <1>2 DEF Call, Messages, ChatCallValid, IsCall
  <2> HIDE DEF m, out
  <2>3. out \in Seq(Messages) /\ said \o out = Append(said, m)  BY <1>0, <2>1, <2>2, ConcatOne
  <2>4. Proper(Append(said, m), begun)  BY <2>2, SayingIsProper
  <2>5. /\ ~Has(Append(said, m), "done") /\ ~Has(Append(said, m), "error")
        /\ ReportedOf(Append(said, m)) = ReportedOf(said) \cup {n}
    BY <1>0, <2>2, OneMoreMessage
  <2> QED BY <1>2, <2>3, <2>4, <2>5 DEF out
<1> QED BY <1>1, <1>2

\* The end of a chat: every call that was begun is whole and is reported, or the chat ends in an error.
LEMMA ChatEndIsProper ==
    ASSUME NEW a, NEW said, NEW begun, Reading(a, said, begun), a.pc = "chat"
    PROVE  Adapted(ChatEnd(a), said, begun)
<1> DEFINE out0 == EmitChatCall(a.chat, "0")
           out1 == EmitChatCall(a.chat, "1")
           whole == \A c \in DOMAIN a.chat : ChatCallValid(a.chat[c])
           usage == IF a.usage THEN <<Usage>> ELSE <<>>
           done == Done("none")
           said0 == said \o out0
           said1 == said0 \o out1
           told == said1 \o usage
<1>0. /\ said \in Seq(Messages) /\ ~Has(said, "done") /\ ~Has(said, "error")
      /\ ReportedOf(said) = {} /\ begun \subseteq DOMAIN a.chat /\ Proper(said, begun)
  BY DEF Reading, Proper, StillOpen, ReportedIn, ReportedOf
<1>1. /\ AdapterOK(a) /\ DOMAIN a = DOMAIN NoRequest /\ DOMAIN a.chat \subseteq {"0", "1"}
      /\ \A n \in DOMAIN a.chat : a.chat[n].id \in CallIds \cup {"none"}
  BY DEF Reading, AdapterOK, ChatIndices
<1>2. CASE ~a.terminal
  <2>1. ChatEnd(a) = Unmapped(a, "incomplete_stream")  BY <1>2 DEF ChatEnd
  <2>2. "incomplete_stream" \in ErrorNames  BY DEF ErrorNames
  <2> QED BY <2>1, <2>2, UnmappedIsProper
<1>3. ASSUME NEW out \in Seq(Messages), Proper(said \o out, begun),
             ChatEnd(a) = [a EXCEPT !.closing = TRUE, !.outbox = out]
      PROVE  Adapted(ChatEnd(a), said, begun)
  <2> DEFINE b == [a EXCEPT !.closing = TRUE, !.outbox = out]
  <2>1. b.outbox = out /\ b.closing = TRUE /\ b.pc # "idle"  BY <1>1, AdapterFields
  <2>2. AdapterOK(b)  BY <1>1, <1>3, AdapterFields DEF AdapterOK
  <2> HIDE DEF b
  <2>3. Adapted(b, said, begun)  BY <1>3, <2>1, <2>2 DEF Adapted, StillOpen
  <2> QED BY <2>3, <1>3 DEF b
<1>4. Failure("mapping") \in Messages /\ Failure("mapping").type = "error"
  BY DEF Failure, Messages, ErrorNames
<1>0a. ~IsCall(Failure("mapping"))  BY <1>4 DEF IsCall
<1>5. {"0", "1"} \subseteq ChatIndices /\ "0" # "1"  BY DEF ChatIndices
<1>6. CASE a.terminal /\ "0" \in DOMAIN a.chat /\ ~ChatCallValid(a.chat["0"])
  <2> DEFINE out == <<Failure("mapping")>>
  <2>1. ChatEnd(a) = [a EXCEPT !.closing = TRUE, !.outbox = out]
    BY <1>6, <1>1, AdapterFields DEF ChatEnd, EmitChatToolCalls, EmitChatCall
  <2>2. out \in Seq(Messages) /\ said \o out = Append(said, Failure("mapping"))
    BY <1>0, <1>4, ConcatOne
  <2>3. Proper(Append(said, Failure("mapping")), begun)  BY <1>0, <1>0a, <1>4, SayingIsProper
  <2> HIDE DEF out
  <2> QED BY <1>3, <2>1, <2>2, <2>3
<1>7. CASE a.terminal /\ ("0" \in DOMAIN a.chat => ChatCallValid(a.chat["0"]))
  <2>1. /\ out0 \in Seq(Messages) /\ Proper(said0, begun) /\ said0 \in Seq(Messages)
        /\ ~Has(said0, "done") /\ ~Has(said0, "error")
        /\ ReportedOf(said0) = IF "0" \in DOMAIN a.chat THEN {"0"} ELSE {}
    <3>1. /\ "0" \in ChatIndices /\ "0" \notin ReportedOf(said)
          /\ ReportedOf(said) \subseteq ChatIndices
      BY <1>0, <1>5
    <3>2. /\ out0 \in Seq(Messages) /\ Proper(said0, begun)
          /\ ~Has(said0, "done") /\ ~Has(said0, "error")
          /\ ReportedOf(said0) = ReportedOf(said) \cup (IF "0" \in DOMAIN a.chat THEN {"0"} ELSE {})
      BY <1>0, <1>1, <1>7, <3>1, ReportsAreProper
    <3> HIDE DEF out0, said0
    <3> QED BY <1>0, <3>2 DEF Proper
  <2>2. EmitChatToolCalls(a.chat) = out0 \o out1  BY <1>7 DEF EmitChatToolCalls
  <2>3. CASE "1" \in DOMAIN a.chat /\ ~ChatCallValid(a.chat["1"])
    <3>1. out1 = <<Failure("mapping")>>  BY <2>3 DEF EmitChatCall
    <3>2. ~whole  BY <2>3
    <3> HIDE DEF out0, whole
    <3>3. ChatEnd(a) = [a EXCEPT !.closing = TRUE, !.outbox = out0 \o out1]
      BY <1>7, <1>1, <2>2, <3>2, AdapterFields DEF ChatEnd, whole
    <3>4. out1 \in Seq(Messages)  BY <2>1, <3>1, <1>4, ConcatOne
    <3>5. said1 = Append(said0, Failure("mapping"))  BY <2>1, <3>1, <1>4, ConcatOne
    <3> HIDE DEF out1, said0
    <3>6. Proper(said1, begun)  BY <2>1, <3>5, <1>0a, <1>4, SayingIsProper
    <3>7. said1 = said \o (out0 \o out1) /\ out0 \o out1 \in Seq(Messages)
      BY <1>0, <2>1, <3>4 DEF said0
    <3> HIDE DEF said1
    <3> QED BY <1>3, <3>3, <3>6, <3>7
  <2>4. CASE "1" \in DOMAIN a.chat => ChatCallValid(a.chat["1"])
    <3>1. whole  BY <1>1, <1>7, <2>4
    <3> HIDE DEF whole, out0, said0
    <3>2. /\ out1 \in Seq(Messages) /\ Proper(said1, begun) /\ said1 \in Seq(Messages)
          /\ ~Has(said1, "done") /\ ~Has(said1, "error")
          /\ ReportedOf(said1) = ReportedOf(said0) \cup (IF "1" \in DOMAIN a.chat THEN {"1"} ELSE {})
      BY <1>1, <2>1, <1>5, <2>4, ReportsAreProper DEF Proper
    <3>3. begun \subseteq KeysIn(said1)  BY <1>0, <1>1, <2>1, <3>2 DEF KeysIn
    <3> HIDE DEF out1, said1
    <3>4. Usage \in Messages /\ Usage.type = "usage"  BY DEF Usage, Messages
    <3>5. done \in Messages /\ done.type = "done"  BY DEF Done, Messages
    <3>6. usage \in Seq(Messages)  BY <3>4
    <3>7. /\ told \in Seq(Messages) /\ Proper(told, begun) /\ ~Has(told, "done")
          /\ ~Has(told, "error") /\ KeysIn(told) = KeysIn(said1)
      <4>1. CASE a.usage
        <5>1. told = Append(said1, Usage)  BY <4>1, <3>2, <3>4, ConcatOne
        <5> HIDE DEF told
        <5>2. Proper(told, begun)  BY <5>1, <3>2, <3>4, SayingIsProper DEF IsCall
        <5> QED BY <5>1, <5>2, <3>2, <3>4, OneMoreMessage DEF IsCall, KeysIn
      <4>2. CASE ~a.usage
        <5>1. told = said1  BY <4>2, <3>2, ConcatNone
        <5> QED BY <5>1, <3>2
      <4> QED BY <4>1, <4>2
    <3> DEFINE out == (out0 \o out1) \o (usage \o <<done>>)
    <3>8. ChatEnd(a) = [a EXCEPT !.closing = TRUE, !.outbox = (out0 \o out1) \o usage \o <<done>>]
      BY <1>7, <1>1, <2>2, <3>1, AdapterFields DEF ChatEnd, whole
    <3> HIDE DEF usage, done
    <3>9. <<done>> \in Seq(Messages) /\ told \o <<done>> = Append(told, done)
      BY <3>5, <3>7, ConcatOne
    <3>10. out0 \o out1 \in Seq(Messages) /\ said1 = said \o (out0 \o out1)
      BY <1>0, <2>1, <3>2 DEF said0, said1
    <3> DEFINE calls == out0 \o out1
    <3> HIDE DEF calls
    <3>11. /\ calls \o usage \o <<done>> \in Seq(Messages)
           /\ said \o (calls \o usage \o <<done>>) = ((said \o calls) \o usage) \o <<done>>
      BY <1>0, <3>6, <3>9, <3>10 DEF calls
    <3>12. said \o (calls \o usage \o <<done>>) = told \o <<done>>
      BY <3>10, <3>11 DEF calls
    <3> HIDE DEF told
    <3>13. Proper(told \o <<done>>, begun)  BY <3>3, <3>5, <3>7, <3>9, SayingIsProper DEF IsCall
    <3> DEFINE all == calls \o usage \o <<done>>
    <3>14. ChatEnd(a) = [a EXCEPT !.closing = TRUE, !.outbox = all]  BY <3>8 DEF calls
    <3> HIDE DEF all
    <3> QED BY <1>3, <3>11, <3>12, <3>13, <3>14 DEF all
  <2> QED BY <2>3, <2>4
<1> QED BY <1>2, <1>6, <1>7

\* What a delta leaves of the identifiers of the calls: its own, if it has one, for its index.
FromDelta(merged, calls, d) ==
    \A n \in DOMAIN merged :
       \/ n \in DOMAIN calls /\ merged[n].id = calls[n].id
       \/ n = d.index /\ d.id # "" /\ merged[n].id = d.id
       \/ merged[n].id = "none"

LEMMA MergedIds == ASSUME NEW calls, NEW d PROVE FromDelta(MergeDelta(calls, d), calls, d)
<1> DEFINE old == IF d.index \in DOMAIN calls THEN calls[d.index] ELSE NewCall
           new == [id |-> IF d.id = "" THEN old.id ELSE d.id,
                   named |-> old.named \/ d.name,
                   arguments |-> IF d.piece = "none" THEN old.arguments ELSE Append(old.arguments, d.piece)]
<1>1. MergeDelta(calls, d) = [x \in DOMAIN calls \cup {d.index} |-> IF x = d.index THEN new ELSE calls[x]]
  BY DEF MergeDelta, Put
<1>2. new.id = IF d.id = "" THEN old.id ELSE d.id  OBVIOUS
<1>3. old.id = IF d.index \in DOMAIN calls THEN calls[d.index].id ELSE "none"  BY DEF NewCall
<1> HIDE DEF old, new
<1> QED BY <1>1, <1>2, <1>3 DEF FromDelta

\* Whatever the provider sends next on a chat stream.
LEMMA ChunksAreProper ==
    ASSUME NEW a, NEW said, NEW begun, Reading(a, said, begun), a.pc = "chat",
           a.terminal = adapter.terminal, NEW c \in ChatChunks
    PROVE  Adapted(AdaptChunk(a, c), said, begun \cup Begins(c))
<1> DEFINE all == begun \cup Begins(c)
<1> HIDE DEF all
<1> SUFFICES Adapted(AdaptChunk(a, c), said, all)  BY DEF all
<1>0. AdapterOK(a) /\ DOMAIN a = DOMAIN NoRequest /\ begun \subseteq DOMAIN a.chat
  BY DEF Reading, AdapterOK, StillOpen
<1>5. c.kind = "chunk" => c.finish \in BOOLEAN  BY ChunkFinishes, Zenon
<1>6. c.kind = "chunk" /\ c.delta # <<>> =>
         Head(c.delta).index \in ChatIndices /\ Head(c.delta).id \in CallIds \cup {""}
  BY ChunkDeltas, Zenon
<1>1. CASE c.kind = "eof"
  <2>1. AdaptChunk(a, c) = ChatEnd(a)  BY <1>1 DEF AdaptChunk
  <2>2. all = begun  BY <1>1 DEF all, Begins
  <2> QED BY <2>1, <2>2, ChatEndIsProper
<1>2. CASE c.kind = "broken"
  <2> DEFINE m == MapRainyError(c.error, FALSE)
  <2>1. m \in Messages /\ m.type = "error"  BY <1>2, ChunkFields, ErrorsAreMapped
  <2>2. AdaptChunk(a, c) = [a EXCEPT !.outbox = <<m>>, !.closing = TRUE]
    BY <1>0, <1>2, AdapterFields DEF AdaptChunk
  <2> HIDE DEF m
  <2>3. Adapted([a EXCEPT !.outbox = <<m>>, !.closing = TRUE], said, all)
    BY <2>1, FailingIsProper
  <2> QED BY <2>2, <2>3, Zenon
<1>3. CASE c.kind = "chunk" /\ a.terminal
  <2> DEFINE b == [a EXCEPT !.usage = @ \/ c.usage]
  <2>1. AdaptChunk(a, c) = b  BY <1>3 DEF AdaptChunk
  <2>2. all = begun  BY <1>3 DEF all, Begins
  <2>3. AdapterOK(b)  BY <1>0, AdapterFields DEF AdapterOK
  <2>4. /\ b.pc = a.pc /\ b.closing = a.closing /\ b.completed = a.completed
        /\ b.outbox = a.outbox /\ b.chat = a.chat
    BY <1>0, AdapterFields
  <2> HIDE DEF b
  <2>5. Adapted(b, said, begun)  BY <1>0, <2>3, <2>4, GoingOnIsProper DEF Reading
  <2> QED BY <2>1, <2>2, <2>5
<1>4. CASE c.kind = "chunk" /\ ~a.terminal
  <2> DEFINE out == IF c.text THEN <<Text>> ELSE <<>>
             chat == IF c.delta = <<>> THEN a.chat ELSE MergeDelta(a.chat, Head(c.delta))
             b == [a EXCEPT !.usage = @ \/ c.usage, !.terminal = c.finish, !.outbox = out, !.chat = chat]
  <2>1. AdaptChunk(a, c) = b  BY <1>0, <1>4, AdapterFields DEF AdaptChunk
  <2>2. all = begun \cup (IF c.delta # <<>> THEN {Head(c.delta).index} ELSE {})
    BY <1>4 DEF all, Begins
  <2>3. /\ c.finish \in BOOLEAN
        /\ c.delta # <<>> => Head(c.delta).index \in ChatIndices /\ Head(c.delta).id \in CallIds \cup {""}
    BY <1>4, <1>5, <1>6, Zenon
  <2>4. DOMAIN chat = DOMAIN a.chat \cup (IF c.delta # <<>> THEN {Head(c.delta).index} ELSE {})
    BY DEF MergeDelta, Put
  <2>4a. \A n \in DOMAIN chat : chat[n].id \in CallIds \cup {"none"}
    <3>1. \A n \in DOMAIN a.chat : a.chat[n].id \in CallIds \cup {"none"}  BY <1>0 DEF AdapterOK
    <3>2. CASE c.delta = <<>>  BY <3>1, <3>2
    <3>3. CASE c.delta # <<>>
      <4> DEFINE d == Head(c.delta)
      <4>1. d.id \in CallIds \cup {""} /\ chat = MergeDelta(a.chat, d)  BY <2>3, <3>3
      <4> HIDE DEF d, chat
      <4>2. ASSUME NEW n \in DOMAIN chat PROVE chat[n].id \in CallIds \cup {"none"}
        <5>1. FromDelta(chat, a.chat, d)  BY <4>1, MergedIds, Zenon
        <5> QED BY <3>1, <4>1, <5>1 DEF FromDelta
      <4> QED BY <4>2
    <3> QED BY <3>2, <3>3
  <2>5. out \in Seq(Messages) /\ (out = <<>> \/ out = <<Text>>)
    <3>1. <<Text>> \in Seq(Messages) /\ <<>> \in Seq(Messages)  BY DEF Text, Messages
    <3>2. out = <<>> \/ out = <<Text>>  BY Zenon
    <3> HIDE DEF out
    <3> QED BY <3>1, <3>2
  <2> HIDE DEF out, chat
  <2>6. /\ b.pc = a.pc /\ b.closing = a.closing /\ b.completed = a.completed /\ b.calls = a.calls
        /\ b.outbox = out /\ b.chat = chat /\ b.terminal = c.finish /\ b.usage = (a.usage \/ c.usage)
        /\ b.events = a.events /\ DOMAIN b = DOMAIN NoRequest
    BY <1>0, AdapterFields
  <2> HIDE DEF b
  <2>7. AdapterOK(b)  BY <1>0, <2>3, <2>4, <2>4a, <2>5, <2>6 DEF AdapterOK
  <2>8. all \subseteq DOMAIN b.chat  BY <1>0, <2>2, <2>4, <2>6
  <2>9. Adapted(b, said, all)  BY <2>5, <2>6, <2>7, <2>8, GoingOnIsProper DEF Reading
  <2> QED BY <2>1, <2>9
<1> QED BY <1>1, <1>2, <1>3, <1>4, ChunkFields

(***************************************************************************)
(* A call is reported under an identifier that the stream gave to it.      *)
(***************************************************************************)

LEMMA JoinedCalls ==
    ASSUME NEW s \in Seq(Messages), NEW t \in Seq(Messages)
    PROVE  s \o t \in Seq(Messages) /\ CallsOf(s \o t) = CallsOf(s) \cup CallsOf(t)
<1> DEFINE n == Len(s)
           k == Len(t)
           whole == s \o t
<1>1. /\ n \in Nat /\ k \in Nat /\ DOMAIN s = 1 .. n /\ DOMAIN t = 1 .. k /\ DOMAIN whole = 1 .. (n + k)
      /\ whole \in Seq(Messages)
      /\ \A i \in 1 .. n : whole[i] = s[i]
      /\ \A i \in 1 .. k : whole[n + i] = t[i]
  OBVIOUS
<1>2. \A i \in 1 .. (n + k) : i \in 1 .. n \/ (i - n \in 1 .. k /\ i = n + (i - n))  BY <1>1
<1>3. \A i \in 1 .. k : n + i \in 1 .. (n + k)  BY <1>1
<1>4. \A i \in 1 .. n : i \in 1 .. (n + k)  BY <1>1
<1> HIDE DEF n, k, whole
<1>5. CallsOf(whole) \subseteq CallsOf(s) \cup CallsOf(t)
  <2> SUFFICES ASSUME NEW i \in 1 .. (n + k), IsCall(whole[i])
               PROVE  whole[i] \in CallsOf(s) \cup CallsOf(t)
    BY <1>1 DEF CallsOf
  <2>1. CASE i \in 1 .. n  BY <2>1, <1>1 DEF CallsOf
  <2>2. CASE i - n \in 1 .. k /\ i = n + (i - n)
    <3>1. whole[i] = t[i - n]  BY <2>2, <1>1
    <3> QED BY <3>1, <2>2, <1>1 DEF CallsOf
  <2> QED BY <1>2, <2>1, <2>2
<1>6. CallsOf(s) \subseteq CallsOf(whole)  BY <1>1, <1>4 DEF CallsOf
<1>7. CallsOf(t) \subseteq CallsOf(whole)  BY <1>1, <1>3 DEF CallsOf
<1> QED BY <1>1, <1>5, <1>6, <1>7 DEF whole

LEMMA OneCall ==
    /\ CallsOf(<<>>) = {}
    /\ \A m : CallsOf(<<m>>) = IF IsCall(m) THEN {m} ELSE {}
<1>1. DOMAIN <<>> = {}  OBVIOUS
<1>2. ASSUME NEW m PROVE CallsOf(<<m>>) = IF IsCall(m) THEN {m} ELSE {}
  <2>1. DOMAIN <<m>> = {1} /\ <<m>>[1] = m  OBVIOUS
  <2> QED BY <2>1 DEF CallsOf
<1> QED BY <1>1, <1>2 DEF CallsOf

LEMMA OthersAreNoCalls ==
    /\ ~IsCall(Text) /\ ~IsCall(Usage) /\ \A c : ~IsCall(Done(c))
    /\ \A name : ~IsCall(Failure(name))
    /\ \A error, continuation : ~IsCall(MapRainyError(error, continuation))
BY DEF IsCall, Text, Usage, Done, Failure, MapRainyError

LEMMA UsageAndDone ==
    ASSUME NEW continuation \in {"response", "none"}, NEW usage \in {<<>>, <<Usage>>}
    PROVE  CallsOf(usage \o <<Done(continuation)>>) = {}
<1> DEFINE d == Done(continuation)
<1>1. Usage \in Messages /\ d \in Messages  BY DEF Usage, Done, Messages
<1>2. ~IsCall(Usage) /\ ~IsCall(d)  BY OthersAreNoCalls
<1>3. <<>> \in Seq(Messages) /\ <<Usage>> \in Seq(Messages) /\ <<d>> \in Seq(Messages)
  BY <1>1
<1> HIDE DEF d
<1>4. usage \in Seq(Messages) /\ CallsOf(usage) = {}  BY <1>2, <1>3, OneCall
<1>5. CallsOf(<<d>>) = {}  BY <1>2, OneCall
<1>6. CallsOf(usage \o <<d>>) = CallsOf(usage) \cup CallsOf(<<d>>)
  BY <1>3, <1>4, JoinedCalls, Zenon
<1>7. CallsOf(usage \o <<d>>) = {}  BY <1>4, <1>5, <1>6
<1> QED BY <1>7 DEF d

\* What an item makes of the adapter, as far as its reports go.
ReportsTheCallOf(b, a, e) ==
    b.chat = a.chat /\ \A c \in CallsOf(b.outbox) : <<c.of, c.id>> \in Names(e)

\* A Responses event reports only the call that it is about, under the identifier that it gives.
LEMMA EventsReportTheirCalls ==
    ASSUME NEW a, DOMAIN a = DOMAIN NoRequest, a.outbox = <<>>, NEW e \in ResponsesEvents
    PROVE  ReportsTheCallOf(AdaptEvent(a, e), a, e)
<1>1. ReportsTheCallOf(a, a, e)  BY OneCall DEF ReportsTheCallOf
<1>2. ASSUME NEW m, ~IsCall(m)
      PROVE  /\ ReportsTheCallOf([a EXCEPT !.outbox = <<m>>], a, e)
             /\ ReportsTheCallOf([a EXCEPT !.outbox = <<m>>, !.closing = TRUE], a, e)
             /\ ReportsTheCallOf([a EXCEPT !.closing = TRUE, !.outbox = <<m>>], a, e)
  <2>1. CallsOf(<<m>>) = {}  BY <1>2, OneCall
  <2> QED BY <2>1, AdapterFields DEF ReportsTheCallOf
<1>3. \A name : ReportsTheCallOf(Unmapped(a, name), a, e)
  <2> TAKE name
  <2>1. ~IsCall(Failure(name))  BY OthersAreNoCalls
  <2> QED BY <2>1, <1>2 DEF Unmapped
<1>4. ASSUME <<e.names.of, EventString(e)>> \in Names(e), NEW name, NEW arguments
      PROVE  ReportsTheCallOf(Complete(a, e, name, arguments), a, e)
  <2> DEFINE m == Call(e.names.of, EventString(e), name, arguments)
             b == [a EXCEPT !.calls = Without(a.calls, EventString(e)),
                            !.completed = @ \cup {EventString(e)}, !.outbox = <<m>>]
  <2>1. CASE arguments \notin ValidJson  BY <2>1, <1>3 DEF Complete
  <2>2. CASE arguments \in ValidJson
    <3>1. Complete(a, e, name, arguments) = b
      BY <2>2, AdapterFields DEF Complete, Mapped
    <3>2. b.chat = a.chat /\ b.outbox = <<m>>  BY AdapterFields
    <3>3. m.of = e.names.of /\ m.id = EventString(e)  BY DEF Call
    <3> HIDE DEF m, b
    <3>4. CallsOf(b.outbox) \subseteq {m}  BY <3>2, OneCall
    <3> QED BY <1>4, <3>1, <3>2, <3>3, <3>4 DEF ReportsTheCallOf
  <2> QED BY <2>1, <2>2
<1>5. ASSUME NEW calls PROVE ReportsTheCallOf([a EXCEPT !.calls = calls], a, e)
  <2>1. [a EXCEPT !.calls = calls].chat = a.chat /\ [a EXCEPT !.calls = calls].outbox = <<>>
    BY AdapterFields
  <2> QED BY <2>1, OneCall DEF ReportsTheCallOf
<1>6. CASE e.kind = "text"
  <2>1. AdaptEvent(a, e) = [a EXCEPT !.outbox = <<Text>>]  BY <1>6 DEF AdaptEvent, MapEvent, Mapped
  <2>2. ~IsCall(Text)  BY OthersAreNoCalls
  <2> QED BY <2>1, <2>2, <1>2
<1>7. CASE e.kind = "delta"
  <2>1. AdaptEvent(a, e) = ArgumentsDelta(a, e)  BY <1>7 DEF AdaptEvent, MapEvent
  <2> QED BY <2>1, <1>3, <1>5 DEF ArgumentsDelta
<1>8. CASE e.kind = "arguments_done"
  <2>1. AdaptEvent(a, e) = ArgumentsDone(a, e)  BY <1>8 DEF AdaptEvent, MapEvent
  <2>2. CASE ~HasId(e)  BY <2>1, <2>2, <1>3 DEF ArgumentsDone
  <2>3. CASE HasId(e)
    <3>1. <<e.names.of, EventString(e)>> \in Names(e)  BY <1>8, <2>3 DEF Names
    <3> QED BY <2>1, <2>3, <3>1, <1>1, <1>3, <1>4 DEF ArgumentsDone
  <2> QED BY <2>2, <2>3
<1>9. CASE e.kind \in {"item_added", "item_done"}
  <2>1. AdaptEvent(a, e) = OutputItem(a, e)  BY <1>9 DEF AdaptEvent, MapEvent
  <2>2. CASE ~e.function \/ ~HasId(e)  BY <2>1, <2>2, <1>1, <1>3 DEF OutputItem
  <2>3. CASE e.function /\ HasId(e)
    <3>1. <<e.names.of, EventString(e)>> \in Names(e)  BY <1>9, <2>3 DEF Names
    <3> QED BY <2>1, <2>3, <3>1, <1>1, <1>3, <1>4, <1>5 DEF OutputItem
  <2> QED BY <2>2, <2>3
<1>10. CASE e.kind = "completed" /\ OpenCalls(a)
  BY <1>10, <1>3 DEF AdaptEvent
<1>11. CASE e.kind = "completed" /\ ~OpenCalls(a)
  <2>1. AdaptEvent(a, e) = ResponseCompleted(a, e)  BY <1>11 DEF AdaptEvent, MapEvent
  <2>2. CASE ~e.id  BY <2>1, <2>2, <1>3 DEF ResponseCompleted
  <2>3. CASE e.id
    <3> DEFINE usage == IF e.usage THEN <<Usage>> ELSE <<>>
               out == usage \o <<Done("response")>>
    <3>1. CallsOf(out) = {}  BY UsageAndDone
    <3>2. AdaptEvent(a, e) = [a EXCEPT !.outbox = out, !.closing = TRUE]
      BY <2>1, <2>3, AdapterFields DEF ResponseCompleted, Mapped
    <3> HIDE DEF out
    <3>3. AdaptEvent(a, e).chat = a.chat /\ AdaptEvent(a, e).outbox = out  BY <3>2, AdapterFields
    <3> QED BY <3>1, <3>3 DEF ReportsTheCallOf
  <2> QED BY <2>2, <2>3
<1>12. CASE e.kind \in {"failed", "incomplete", "error", "eof"}
  BY <1>12, <1>3 DEF AdaptEvent, MapEvent
<1>13. CASE e.kind = "broken"
  <2>1. ~IsCall(MapRainyError(e.error, attached))  BY OthersAreNoCalls
  <2>2. AdaptEvent(a, e) = [a EXCEPT !.closing = TRUE, !.outbox = <<MapRainyError(e.error, attached)>>]
    BY <1>13 DEF AdaptEvent
  <2> QED BY <2>1, <2>2, <1>2
<1> QED BY <1>6, <1>7, <1>8, <1>9, <1>10, <1>11, <1>12, <1>13, EventFields

LEMMA NoChat == NoRequest.chat = <<>> /\ \A given : ChatGiven(<<>>, given)
<1>1. DOMAIN <<>> = {}  OBVIOUS
<1>2. \A given : ChatGiven(<<>>, given)  BY <1>1 DEF ChatGiven
<1> QED BY <1>2 DEF NoRequest

LEMMA EmittedCalls ==
    ASSUME NEW chat, \A n \in DOMAIN chat : chat[n].id \in CallIds \cup {"none"}, NEW n \in ChatIndices,
           NEW given, ChatGiven(chat, given)
    PROVE  LET out == EmitChatCall(chat, n)
           IN  out \in Seq(Messages) /\ \A c \in CallsOf(out) : <<c.of, c.id>> \in given
<1>1. CASE n \notin DOMAIN chat
  <2>1. EmitChatCall(chat, n) = <<>>  BY <1>1 DEF EmitChatCall
  <2>2. <<>> \in Seq(Messages)  OBVIOUS
  <2> QED BY <2>1, <2>2, OneCall
<1>2. CASE n \in DOMAIN chat /\ ~ChatCallValid(chat[n])
  <2>1. EmitChatCall(chat, n) = <<Failure("mapping")>>  BY <1>2 DEF EmitChatCall
  <2>2. Failure("mapping") \in Messages /\ ~IsCall(Failure("mapping"))
    BY OthersAreNoCalls DEF Failure, Messages, ErrorNames
  <2>3. <<Failure("mapping")>> \in Seq(Messages)  BY <2>2
  <2> QED BY <2>1, <2>2, <2>3, OneCall
<1>3. CASE n \in DOMAIN chat /\ ChatCallValid(chat[n])
  <2> DEFINE m == Call(n, chat[n].id, "n", ChatArguments(chat[n]))
  <2>1. EmitChatCall(chat, n) = <<m>>  BY <1>3 DEF EmitChatCall
  <2>2. m \in Messages /\ m.of = n /\ m.id = chat[n].id /\ chat[n].id # "none"
    BY <1>3 DEF Call, Messages, ChatCallValid
  <2> HIDE DEF m
  <2>3. <<m>> \in Seq(Messages) /\ CallsOf(<<m>>) \subseteq {m}
    <3>1. <<m>> \in Seq(Messages)  BY <2>2
    <3>2. CallsOf(<<m>>) = IF IsCall(m) THEN {m} ELSE {}  BY OneCall, Zenon
    <3> QED BY <3>1, <3>2
  <2>4. <<m.of, m.id>> \in given  BY <1>3, <2>2 DEF ChatGiven
  <2> QED BY <2>1, <2>3, <2>4
<1> QED BY <1>1, <1>2, <1>3

\* A chunk gives an identifier to the index that it is about; the end of the chat reports the calls
\* under the identifiers that were given.
LEMMA ChunksReportTheirCalls ==
    ASSUME NEW a, AdapterOK(a), a.outbox = <<>>, a.terminal = adapter.terminal, NEW c \in ChatChunks,
           NEW given, ChatGiven(a.chat, given)
    PROVE  /\ ChatGiven(AdaptChunk(a, c).chat, given \cup Names(c))
           /\ \A m \in CallsOf(AdaptChunk(a, c).outbox) : <<m.of, m.id>> \in given
<1> DEFINE Good(b) == /\ ChatGiven(b.chat, given \cup Names(c))
                      /\ \A m \in CallsOf(b.outbox) : <<m.of, m.id>> \in given
<1>0. DOMAIN a = DOMAIN NoRequest  BY DEF AdapterOK
<1>1. ChatGiven(a.chat, given \cup Names(c))  BY DEF ChatGiven
<1>2. ASSUME NEW b, b.chat = a.chat, \A m \in CallsOf(b.outbox) : <<m.of, m.id>> \in given
      PROVE  Good(b)
  BY <1>1, <1>2
<1>3. CASE c.kind = "eof"
  <2> DEFINE out0 == EmitChatCall(a.chat, "0")
             out1 == EmitChatCall(a.chat, "1")
             whole == \A n \in DOMAIN a.chat : ChatCallValid(a.chat[n])
             usage == IF a.usage THEN <<Usage>> ELSE <<>>
             done == Done("none")
             calls == EmitChatToolCalls(a.chat)
             end == calls \o usage \o <<done>>
  <2>0. AdaptChunk(a, c) = ChatEnd(a)  BY <1>3 DEF AdaptChunk
  <2>1. "0" \in ChatIndices /\ "1" \in ChatIndices  BY DEF ChatIndices
  <2>2. \A n \in DOMAIN a.chat : a.chat[n].id \in CallIds \cup {"none"}  BY DEF AdapterOK
  <2>3. /\ out0 \in Seq(Messages) /\ \A m \in CallsOf(out0) : <<m.of, m.id>> \in given
        /\ out1 \in Seq(Messages) /\ \A m \in CallsOf(out1) : <<m.of, m.id>> \in given
    BY <2>1, <2>2, EmittedCalls
  <2>4. calls = out0 \/ calls = out0 \o out1  BY DEF EmitChatToolCalls
  <2> HIDE DEF out0, out1, calls
  <2>5. calls \in Seq(Messages) /\ \A m \in CallsOf(calls) : <<m.of, m.id>> \in given
    BY <2>3, <2>4, JoinedCalls
  <2>6. \A m \in CallsOf(end) : <<m.of, m.id>> \in given
    <3>1. CallsOf(usage \o <<done>>) = {}  BY UsageAndDone
    <3>2. Usage \in Messages /\ done \in Messages  BY DEF Usage, Done, Messages
    <3> HIDE DEF done
    <3>3. usage \in Seq(Messages) /\ <<done>> \in Seq(Messages)  BY <3>2
    <3> HIDE DEF usage
    <3>4. usage \o <<done>> \in Seq(Messages) /\ end = calls \o (usage \o <<done>>)  BY <2>5, <3>3
    <3> DEFINE rest == usage \o <<done>>
    <3> HIDE DEF rest, end
    <3>5. rest \in Seq(Messages) /\ end = calls \o rest /\ CallsOf(rest) = {}  BY <3>1, <3>4 DEF rest
    <3>6. CallsOf(calls \o rest) = CallsOf(calls) \cup CallsOf(rest)  BY <2>5, <3>5, JoinedCalls, Zenon
    <3>7. CallsOf(end) = CallsOf(calls)  BY <3>5, <3>6
    <3> QED BY <2>5, <3>7
  <2>7. CASE ~a.terminal
    <3>1. ChatEnd(a) = [a EXCEPT !.outbox = <<Failure("incomplete_stream")>>, !.closing = TRUE]
      BY <2>7 DEF ChatEnd, Unmapped
    <3>2. ~IsCall(Failure("incomplete_stream"))  BY OthersAreNoCalls
    <3>3. ChatEnd(a).chat = a.chat /\ ChatEnd(a).outbox = <<Failure("incomplete_stream")>>
      BY <1>0, <3>1, AdapterFields
    <3>4. CallsOf(ChatEnd(a).outbox) = {}  BY <3>2, <3>3, OneCall
    <3> QED BY <1>2, <2>0, <3>3, <3>4
  <2>8. CASE a.terminal
    <3>1. ChatEnd(a) = [a EXCEPT !.closing = TRUE, !.outbox = IF whole THEN end ELSE calls]
      BY <2>8 DEF ChatEnd, calls
    <3> HIDE DEF whole, end
    <3>2. ChatEnd(a).chat = a.chat /\ (ChatEnd(a).outbox = end \/ ChatEnd(a).outbox = calls)
      BY <1>0, <3>1, AdapterFields
    <3> QED BY <1>2, <2>0, <2>5, <2>6, <3>2
  <2> QED BY <2>7, <2>8
<1>4. CASE c.kind = "broken"
  <2> DEFINE m == MapRainyError(c.error, FALSE)
  <2>1. ~IsCall(m)  BY OthersAreNoCalls
  <2>2. AdaptChunk(a, c) = [a EXCEPT !.closing = TRUE, !.outbox = <<m>>]  BY <1>4 DEF AdaptChunk
  <2> HIDE DEF m
  <2>3. AdaptChunk(a, c).chat = a.chat /\ AdaptChunk(a, c).outbox = <<m>>  BY <1>0, <2>2, AdapterFields
  <2>4. CallsOf(AdaptChunk(a, c).outbox) = {}  BY <2>1, <2>3, OneCall
  <2> QED BY <1>2, <2>3, <2>4
<1>5. CASE c.kind = "chunk" /\ a.terminal
  <2>1. AdaptChunk(a, c) = [a EXCEPT !.usage = @ \/ c.usage]  BY <1>5 DEF AdaptChunk
  <2>2. AdaptChunk(a, c).chat = a.chat /\ AdaptChunk(a, c).outbox = <<>>  BY <1>0, <2>1, AdapterFields
  <2> QED BY <1>2, <2>2, OneCall
<1>6. CASE c.kind = "chunk" /\ ~a.terminal
  <2> DEFINE out == IF c.text THEN <<Text>> ELSE <<>>
             chat == IF c.delta = <<>> THEN a.chat ELSE MergeDelta(a.chat, Head(c.delta))
             b == [a EXCEPT !.usage = @ \/ c.usage, !.terminal = c.finish, !.outbox = out, !.chat = chat]
  <2>1. AdaptChunk(a, c) = b  BY <1>0, <1>6, AdapterFields DEF AdaptChunk
  <2>2. CallsOf(out) = {}
    <3>1. ~IsCall(Text)  BY OthersAreNoCalls
    <3> QED BY <3>1, OneCall
  <2> HIDE DEF out
  <2>3. ChatGiven(chat, given \cup Names(c))
    <3>1. CASE c.delta = <<>>  BY <1>1, <3>1
    <3>2. CASE c.delta # <<>>
      <4> DEFINE d == Head(c.delta)
      <4>1. chat = MergeDelta(a.chat, d)  BY <3>2
      <4>2. d.id # "" => <<d.index, d.id>> \in Names(c)  BY <1>6, <3>2 DEF Names
      <4> HIDE DEF d, chat
      <4>3. ASSUME NEW n \in DOMAIN chat, chat[n].id # "none"
            PROVE  <<n, chat[n].id>> \in given \cup Names(c)
        <5>0. FromDelta(chat, a.chat, d)  BY <4>1, MergedIds, Zenon
        <5>1. \/ n \in DOMAIN a.chat /\ chat[n].id = a.chat[n].id
              \/ n = d.index /\ d.id # "" /\ chat[n].id = d.id
              \/ chat[n].id = "none"
          BY <5>0 DEF FromDelta
        <5>2. CASE n \in DOMAIN a.chat /\ chat[n].id = a.chat[n].id
          BY <4>3, <5>2 DEF ChatGiven
        <5>3. CASE n = d.index /\ d.id # "" /\ chat[n].id = d.id
          BY <4>2, <5>3
        <5> QED BY <4>3, <5>1, <5>2, <5>3
      <4> QED BY <4>3 DEF ChatGiven
    <3> QED BY <3>1, <3>2
  <2> HIDE DEF chat
  <2>4. b.chat = chat /\ b.outbox = out  BY <1>0, AdapterFields
  <2> HIDE DEF b
  <2> QED BY <2>1, <2>2, <2>3, <2>4
<1> QED BY <1>3, <1>4, <1>5, <1>6, ChunkFields

(***************************************************************************)
(* The task, the channel and the requests.                                 *)
(***************************************************************************)

LEMMA ConcatAssoc ==
    ASSUME NEW r \in Seq(Messages), NEW q \in Seq(Messages), NEW o \in Seq(Messages)
    PROVE  /\ r \o q \in Seq(Messages) /\ r \o q \o o \in Seq(Messages)
           /\ r \o q \o <<>> = r \o q
OBVIOUS

LEMMA Regrouped ==
    ASSUME NEW r \in Seq(Messages), NEW q \in Seq(Messages), NEW o \in Seq(Messages)
    PROVE  (r \o q) \o o = r \o (q \o o)
OBVIOUS

\* A message moves from one place to the next.
LEMMA MovingHead ==
    ASSUME NEW s \in Seq(Messages), NEW t \in Seq(Messages), t # <<>>
    PROVE  /\ Append(s, Head(t)) \in Seq(Messages) /\ Tail(t) \in Seq(Messages)
           /\ Append(s, Head(t)) \o Tail(t) = s \o t
           /\ Len(Append(s, Head(t))) = Len(s) + 1 /\ Len(Tail(t)) = Len(t) - 1
<1>1. Head(t) \in Messages /\ Tail(t) \in Seq(Messages) /\ t = <<Head(t)>> \o Tail(t)
  OBVIOUS
<1> DEFINE h == Head(t)
           u == Tail(t)
<1>2. Len(u) = Len(t) - 1  OBVIOUS
<1>3. t = <<h>> \o u  BY <1>1
<1> HIDE DEF h, u
<1>4. h \in Messages /\ u \in Seq(Messages)  BY <1>1 DEF h, u
<1>5. Append(s, h) = s \o <<h>> /\ <<h>> \in Seq(Messages)  BY <1>4
<1>6. (s \o <<h>>) \o u = s \o (<<h>> \o u)  BY <1>4, <1>5
<1>7. Append(s, h) \in Seq(Messages) /\ Len(Append(s, h)) = Len(s) + 1  BY <1>4
<1> QED BY <1>2, <1>3, <1>4, <1>5, <1>6, <1>7 DEF h, u

\* The next item of the stream, with what the adapter makes of it.
LEMMA ItemsKeepTheInvariant ==
    ASSUME RainyInv, adapter.outbox = <<>>, ~adapter.closing, adapter.events < MaxEvents,
           adapter.pc # "idle",
           Adapted(adapter', received \o channel.queue, opened'),
           named \subseteq named', ChatGiven(adapter'.chat, named'),
           \A c \in CallsOf(adapter'.outbox) : <<c.of, c.id>> \in named',
           UNCHANGED <<catalogCache, deniedModels, offered, attached, channel, received, refused, rainySteps>>
    PROVE  RainyInv'
<1>1. Said' = received \o channel.queue \o adapter'.outbox  BY DEF Said
<1>2. RainyTypeOK'  BY DEF RainyInv, RainyTypeOK, Adapted
<1>5. GivenIn(Said)'
  <2> DEFINE said == received \o channel.queue
  <2>1. /\ received \in Seq(Messages) /\ channel.queue \in Seq(Messages)
        /\ adapter'.outbox \in Seq(Messages)
    BY DEF RainyInv, RainyTypeOK, Adapted, AdapterOK
  <2>2. Said = said /\ said \in Seq(Messages)  BY <2>1, ConcatAssoc DEF Said
  <2> HIDE DEF said
  <2>3. CallsOf(said \o adapter'.outbox) = CallsOf(Said) \cup CallsOf(adapter'.outbox)
    BY <2>1, <2>2, JoinedCalls
  <2>4. \A c \in CallsOf(said \o adapter'.outbox) : <<c.of, c.id>> \in named'
    BY <2>3 DEF RainyInv, StreamInv, GivenIn
  <2> QED BY <1>1, <2>4 DEF GivenIn, said
<1>3. StreamInv'  BY <1>1, <1>5 DEF StreamInv, Adapted, Proper, Running
<1>4. RefusalInv'  BY DEF RainyInv, RefusalInv, ToolsAreRefusedOnce
<1> QED BY <1>2, <1>3, <1>4 DEF RainyInv

\* The state in which the task reads an item is one of the adapter's lemmas.
LEMMA TaskReads ==
    ASSUME RainyInv, adapter.outbox = <<>>, ~adapter.closing, adapter.events < MaxEvents, adapter.pc # "idle"
    PROVE  LET a == [adapter EXCEPT !.events = @ + 1]
           IN  /\ Reading(a, received \o channel.queue, opened)
               /\ a.pc = adapter.pc /\ a.terminal = adapter.terminal /\ a.chat = adapter.chat
<1> DEFINE a == [adapter EXCEPT !.events = @ + 1]
           said == received \o channel.queue
<1>1. /\ AdapterOK(adapter) /\ DOMAIN adapter = DOMAIN NoRequest
      /\ received \in Seq(Messages) /\ channel.queue \in Seq(Messages)
  BY DEF RainyInv, RainyTypeOK, AdapterOK
<1>2. /\ a.calls = adapter.calls /\ a.completed = adapter.completed /\ a.outbox = adapter.outbox
      /\ a.pc = adapter.pc /\ a.closing = adapter.closing /\ a.chat = adapter.chat
      /\ a.terminal = adapter.terminal /\ a.usage = adapter.usage
      /\ a.events = adapter.events + 1 /\ DOMAIN a = DOMAIN NoRequest
  BY <1>1, AdapterFields
<1> HIDE DEF a
<1>3. AdapterOK(a)  BY <1>1, <1>2, RainyBounds DEF AdapterOK
<1>4. Said = said /\ said \in Seq(Messages)  BY <1>1, ConcatAssoc DEF Said
<1> HIDE DEF said
<1>5. Proper(said, opened) /\ StillOpen(said, adapter, opened)
  BY <1>4 DEF RainyInv, StreamInv, Proper, Running
<1>6. a.closing = FALSE  BY <1>1, <1>2 DEF AdapterOK
<1>7. Reading(a, said, opened)  BY <1>2, <1>3, <1>5, <1>6 DEF Reading, StillOpen
<1> QED BY <1>2, <1>7 DEF a, said

\* The task ends: what it had still to send is lost, and nothing else.
LEMMA EndingKeepsTheInvariant ==
    ASSUME RainyInv, adapter' = NoRequest,
           UNCHANGED <<catalogCache, deniedModels, offered, attached, channel, received, streamHistory,
                       refused, rainySteps>>
    PROVE  RainyInv'
<1>1. AdapterOK(NoRequest)
  BY RainyBounds DEF AdapterOK, NoRequest
<1>2. RainyTypeOK'  BY <1>1 DEF RainyInv, RainyTypeOK
<1>3. /\ AdapterOK(adapter) /\ received \in Seq(Messages) /\ channel.queue \in Seq(Messages)
      /\ adapter.outbox \in Seq(Messages)
  BY DEF RainyInv, RainyTypeOK, AdapterOK
<1>4. adapter'.pc = "idle" /\ adapter'.outbox = <<>>  BY DEF NoRequest
<1>5. Said' = received \o channel.queue  BY <1>3, <1>4, ConcatAssoc DEF Said
<1> DEFINE said == received \o channel.queue
<1>6. said \in Seq(Messages) /\ said \o adapter.outbox \in Seq(Messages) /\ Said = said \o adapter.outbox
  BY <1>3, ConcatAssoc DEF Said
<1> HIDE DEF said
<1>7. Proper(said, opened)
  BY <1>3, <1>6, CuttingIsProper DEF RainyInv, StreamInv, Proper
<1>8. opened' = opened /\ named' = named  BY DEF streamHistory
<1>10. GivenIn(Said)'
  <2>1. CallsOf(said) \subseteq CallsOf(Said)  BY <1>3, <1>6, JoinedCalls DEF said
  <2> QED BY <1>5, <1>8, <2>1 DEF RainyInv, StreamInv, GivenIn, said
<1>11. ChatGiven(adapter'.chat, named') /\ adapter'.chat = <<>>  BY NoChat
<1>12. StreamInv'  BY <1>4, <1>5, <1>7, <1>8, <1>10, <1>11 DEF StreamInv, Proper, Running, said
<1>9. RefusalInv'  BY DEF RainyInv, RefusalInv, ToolsAreRefusedOnce
<1> QED BY <1>2, <1>9, <1>12 DEF RainyInv

\* An error is all that a request that was not streamed has said.
LEMMA OneErrorIsProper ==
    ASSUME NEW m \in Messages, m.type = "error", NEW begun
    PROVE  <<m>> \in Seq(Messages) /\ Proper(<<m>>, begun) /\ CallsOf(<<m>>) = {}
<1>1. Append(<<>>, m) = <<m>> /\ <<m>> \in Seq(Messages)  OBVIOUS
<1>2. Proper(Append(<<>>, m), begun)  BY NothingSaid, SayingIsProper DEF IsCall
<1>3. CallsOf(<<m>>) = {}  BY OneCall DEF IsCall
<1> QED BY <1>1, <1>2, <1>3

\* What is neither the stream nor the refusals may change as it likes.
LEMMA CatalogKeepsTheInvariant ==
    ASSUME RainyInv, rainySteps' \in 0 .. MaxSteps,
           UNCHANGED <<deniedModels, attached, adapter, channel, received, streamHistory, refused>>
    PROVE  RainyInv'
<1>1. RainyTypeOK'  BY DEF RainyInv, RainyTypeOK
<1>2. Said' = Said /\ opened' = opened /\ named' = named  BY DEF Said, streamHistory
<1>3. StreamInv'  BY <1>2 DEF RainyInv, StreamInv, Running, GivenIn
<1>4. RefusalInv'  BY DEF RainyInv, RefusalInv, ToolsAreRefusedOnce
<1> QED BY <1>1, <1>3, <1>4 DEF RainyInv

\* A request that the adapter or the provider stops leaves one error and no task.
LEMMA StoppedRequestKeepsTheInvariant ==
    ASSUME RainyInv, ~Running, rainySteps' \in 0 .. MaxSteps,
           NEW m \in Messages, m.type = "error", received' = <<m>>,
           channel' = EmptyChannel, opened' = {}, named' = {}, UNCHANGED adapter,
           deniedModels' \subseteq ModelIds, refused' \in Seq(ModelIds), RefusalInv'
    PROVE  RainyInv'
<1>1. <<m>> \in Seq(Messages) /\ Proper(<<m>>, {}) /\ CallsOf(<<m>>) = {}  BY OneErrorIsProper
<1>2. adapter.outbox = <<>> /\ adapter.pc = "idle" /\ AdapterOK(adapter) /\ adapter.chat = <<>>
  BY DEF RainyInv, StreamInv, RainyTypeOK, Running
<1>3. channel'.queue = <<>> /\ channel'.open = TRUE /\ channel' \in [queue : Seq(Messages), open : BOOLEAN]
  BY DEF EmptyChannel
<1>4. Said' = <<m>> \o <<>> \o <<>>  BY <1>2, <1>3 DEF Said
<1>5. Said' = <<m>>  BY <1>1, <1>4
<1>6. Len(channel'.queue) <= ChannelCapacity  BY <1>3, RainyBounds
<1>7. RainyTypeOK'  BY <1>1, <1>2, <1>3, <1>6 DEF RainyTypeOK
<1>9. GivenIn(Said)'  BY <1>1, <1>5 DEF GivenIn
<1>10. ChatGiven(adapter'.chat, named')  BY <1>2, NoChat
<1>8. StreamInv'  BY <1>1, <1>2, <1>5, <1>9, <1>10 DEF StreamInv, Proper, Running
<1> QED BY <1>7, <1>8 DEF RainyInv

LEMMA RequestsKeepTheInvariant == RainyInv /\ StreamStep => RainyInv'
<1> SUFFICES ASSUME RainyInv, StreamStep PROVE RainyInv'
  OBVIOUS
<1>1. PICK request \in Requests :
         \/ Refused(request)
         \/ \E error \in RainyErrors : NotStreamed(request, error)
         \/ Streamed(request)
  BY DEF StreamStep
<1>2. ~Running /\ rainySteps' \in 0 .. MaxSteps /\ channel' = EmptyChannel /\ opened' = {} /\ named' = {}
  BY RainyBounds DEF StreamStep, RainyInv, RainyTypeOK
<1>3. deniedModels \subseteq ModelIds /\ refused \in Seq(ModelIds) /\ RefusalInv
  BY DEF RainyInv, RainyTypeOK
<1>4. CASE Refused(request)
  <2> DEFINE name == RequestError(request)
             m == Failure(name)
  <2>1. name \in ErrorNames /\ name # "none"  BY <1>4 DEF Refused, RequestError, SelectModel, ErrorNames
  <2>2. received' = <<m>> /\ UNCHANGED <<attached, adapter, deniedModels, refused>>  BY <1>4 DEF Refused
  <2> HIDE DEF name
  <2>3. m \in Messages /\ m.type = "error"  BY <2>1 DEF Failure, Messages
  <2> HIDE DEF m
  <2>4. RefusalInv'  BY <1>3, <2>2 DEF RefusalInv, ToolsAreRefusedOnce
  <2> QED BY <1>2, <1>3, <2>2, <2>3, <2>4, StoppedRequestKeepsTheInvariant
<1>5. ASSUME NEW error \in RainyErrors, NotStreamed(request, error) PROVE RainyInv'
  <2> DEFINE m == MapRainyError(error, request.continuation # "none")
  <2>1. received' = <<m>> /\ UNCHANGED <<attached, adapter>> /\ RequestError(request) = "none"
    BY <1>5 DEF NotStreamed
  <2>2. m \in Messages /\ m.type = "error"  BY ErrorsAreMapped
  <2> HIDE DEF m
  <2>3. CASE request.tools /\ IsToolsNotAllowed(error)
    <3>1. request.model \in ModelIds /\ request.model \notin deniedModels
      BY <2>1, <2>3 DEF RequestError, SelectModel, Requests
    <3>2. deniedModels' = deniedModels \cup {request.model} /\ refused' = Append(refused, request.model)
      BY <1>5, <2>3 DEF NotStreamed, MarkToolsDenied
    <3> DEFINE model == request.model
               n == Len(refused)
    <3>3. /\ n \in Nat /\ DOMAIN refused = 1 .. n /\ refused' \in Seq(ModelIds)
          /\ DOMAIN refused' = 1 .. (n + 1) /\ Len(refused') = n + 1
          /\ refused'[n + 1] = model /\ \A i \in 1 .. n : refused'[i] = refused[i]
      BY <1>3, <3>1, <3>2, AppendProperties
    <3>4. \A i : i \in 1 .. (n + 1) <=> i \in 1 .. n \/ i = n + 1  BY <3>3
    <3>5. \A i \in 1 .. n : refused[i] \in deniedModels  BY <1>3, <3>3 DEF RefusalInv
    <3>6. deniedModels' = deniedModels \cup {model} /\ model \notin deniedModels  BY <3>1, <3>2
    <3>7. \A i, j \in 1 .. n : refused[i] = refused[j] => i = j
      BY <1>3 DEF RefusalInv, ToolsAreRefusedOnce
    <3> HIDE DEF model, n
    <3>8. \A i \in 1 .. (n + 1) : refused'[i] \in deniedModels'  BY <3>3, <3>4, <3>5, <3>6
    <3>9. \A i, j \in 1 .. (n + 1) : refused'[i] = refused'[j] => i = j
      BY <3>3, <3>4, <3>5, <3>6, <3>7
    <3>10. RefusalInv'  BY <3>3, <3>8, <3>9 DEF RefusalInv, ToolsAreRefusedOnce
    <3>11. deniedModels' \subseteq ModelIds  BY <1>3, <3>1, <3>2
    <3> QED BY <1>2, <2>1, <2>2, <3>3, <3>10, <3>11, StoppedRequestKeepsTheInvariant
  <2>4. CASE ~(request.tools /\ IsToolsNotAllowed(error))
    <3>1. UNCHANGED <<deniedModels, refused>>  BY <1>5, <2>4 DEF NotStreamed
    <3>2. RefusalInv'  BY <1>3, <3>1 DEF RefusalInv, ToolsAreRefusedOnce
    <3> QED BY <1>2, <1>3, <2>1, <2>2, <3>1, <3>2, StoppedRequestKeepsTheInvariant
  <2> QED BY <2>3, <2>4
<1>6. CASE Streamed(request)
  <2> DEFINE pc == ProtocolForModelId(request.model)
             a == [NoRequest EXCEPT !.pc = pc]
  <2>1. /\ adapter' = a /\ received' = <<>> /\ UNCHANGED <<deniedModels, refused>>
        /\ pc \in {"responses", "chat"}
    BY <1>6 DEF Streamed, ProtocolForModelId
  <2>2. AdapterOK(NoRequest)  BY RainyBounds DEF AdapterOK, NoRequest
  <2>3. /\ NoRequest.outbox = <<>> /\ NoRequest.closing = FALSE /\ NoRequest.completed = {}
        /\ NoRequest.terminal = FALSE /\ NoRequest.usage = FALSE /\ NoRequest.calls = <<>>
        /\ NoRequest.chat = <<>> /\ NoRequest.events = 0
    BY DEF NoRequest
  <2> HIDE DEF pc
  <2>4. /\ a.pc = pc /\ a.outbox = <<>> /\ a.closing = FALSE /\ a.completed = {}
        /\ a.terminal = FALSE /\ a.usage = FALSE /\ a.calls = NoRequest.calls
        /\ a.chat = NoRequest.chat /\ a.events = NoRequest.events /\ DOMAIN a = DOMAIN NoRequest
    BY <2>3, AdapterFields
  <2> HIDE DEF a
  <2>5. AdapterOK(a)
    BY <2>1, <2>2, <2>3, <2>4 DEF AdapterOK
  <2>6. channel'.queue = <<>> /\ channel' \in [queue : Seq(Messages), open : BOOLEAN]
    BY <1>2 DEF EmptyChannel
  <2>7. <<>> \in Seq(Messages) /\ <<>> \o <<>> \o <<>> = <<>>  OBVIOUS
  <2>8. Said' = <<>>  BY <2>1, <2>4, <2>6, <2>7 DEF Said
  <2>9. RainyTypeOK'
    BY <1>2, <1>3, <2>1, <2>5, <2>6, <2>7, RainyBounds DEF RainyTypeOK
  <2>10. opened' \subseteq a.completed  BY <1>2
  <2>11. StillOpen(<<>>, a, opened')
    BY <1>2, <2>1, <2>4, NothingSaid DEF StillOpen
  <2>12. ApartIn(<<>>) /\ DoneLast(<<>>, opened')  BY NothingSaid DEF Proper
  <2>15. GivenIn(Said)'  BY <2>8, NothingSaid DEF GivenIn
  <2>16. ChatGiven(a.chat, named')  BY <2>4, NoChat
  <2>13. StreamInv'  BY <2>1, <2>4, <2>8, <2>11, <2>12, <2>15, <2>16 DEF StreamInv, Running
  <2>14. RefusalInv'  BY <1>3, <2>1 DEF RefusalInv, ToolsAreRefusedOnce
  <2> QED BY <2>9, <2>13, <2>14 DEF RainyInv
<1> QED BY <1>1, <1>4, <1>5, <1>6

\* Send and Receive move a message; what the stream has said stays what it was.
LEMMA MessagesKeepTheInvariant ==
    ASSUME RainyInv, Said' = Said, RainyTypeOK', adapter'.closing = adapter.closing,
           adapter'.pc = adapter.pc, adapter'.completed = adapter.completed,
           adapter'.calls = adapter.calls, adapter'.chat = adapter.chat,
           Running \/ adapter'.outbox = adapter.outbox,
           UNCHANGED <<deniedModels, streamHistory, refused>>
    PROVE  RainyInv'
<1>3. opened' = opened /\ named' = named  BY DEF streamHistory
<1>1. StreamInv'  BY <1>3 DEF RainyInv, StreamInv, Running, StillOpen, GivenIn
<1>2. RefusalInv'  BY DEF RainyInv, RefusalInv, ToolsAreRefusedOnce
<1> QED BY <1>1, <1>2 DEF RainyInv

\* The adapter reports a call under the identifiers that the stream gave to it and once under each,
\* never ends a response that failed or that leaves a call open, and never asks a model again for what
\* it was refused (adapt_stream, map_event, adapt_chat_stream, emit_chat_tool_calls, mark_tools_denied):
\* the invariant from which the two properties follow.
THEOREM RainyInvHolds == RainySpec => []RainyInv
<1>1. RainyInit => RainyInv
  <2> SUFFICES ASSUME RainyInit PROVE RainyInv
    OBVIOUS
  <2>1. AdapterOK(NoRequest)  BY RainyBounds DEF AdapterOK, NoRequest
  <2>2. adapter = NoRequest /\ NoRequest.outbox = <<>> /\ NoRequest.pc = "idle"
    BY DEF RainyInit, NoRequest
  <2>3. channel.queue = <<>> /\ channel \in [queue : Seq(Messages), open : BOOLEAN]
    BY DEF RainyInit, EmptyChannel
  <2>4. <<>> \in Seq(Messages) /\ <<>> \o <<>> \o <<>> = <<>>  OBVIOUS
  <2>5. Said = <<>>  BY <2>2, <2>3, <2>4 DEF RainyInit, Said
  <2>6. RainyTypeOK  BY <2>1, <2>2, <2>3, RainyBounds DEF RainyInit, RainyTypeOK
  <2>9. GivenIn(Said) /\ ChatGiven(adapter.chat, named) /\ adapter.chat = <<>>
    BY <2>2, <2>5, NothingSaid, NoChat DEF GivenIn
  <2>7. StreamInv  BY <2>2, <2>5, <2>9, NothingSaid DEF StreamInv, Proper, Running
  <2>8. RefusalInv  BY DEF RainyInit, RefusalInv, ToolsAreRefusedOnce
  <2> QED BY <2>6, <2>7, <2>8 DEF RainyInv
<1>2. RainyInv /\ [RainyNext]_rainyVars => RainyInv'
  <2> SUFFICES ASSUME RainyInv, [RainyNext]_rainyVars PROVE RainyInv'
    OBVIOUS
  <2>1. /\ AdapterOK(adapter) /\ received \in Seq(Messages) /\ channel.queue \in Seq(Messages)
        /\ adapter.outbox \in Seq(Messages) /\ rainySteps \in 0 .. MaxSteps
        /\ DOMAIN adapter = DOMAIN NoRequest /\ channel \in [queue : Seq(Messages), open : BOOLEAN]
        /\ Len(channel.queue) <= ChannelCapacity
    BY DEF RainyInv, RainyTypeOK, AdapterOK
  <2>2. ASSUME DiscoverCached PROVE RainyInv'
    <3>1. rainySteps' \in 0 .. MaxSteps  BY <2>1, <2>2, RainyBounds DEF DiscoverCached
    <3> QED BY <2>2, <3>1, CatalogKeepsTheInvariant DEF DiscoverCached
  <2>3. ASSUME DiscoverRefreshed PROVE RainyInv'
    <3>1. rainySteps' \in 0 .. MaxSteps  BY <2>1, <2>3, RainyBounds DEF DiscoverRefreshed
    <3> QED BY <2>3, <3>1, CatalogKeepsTheInvariant DEF DiscoverRefreshed
  <2>4. ASSUME CatalogExpires PROVE RainyInv'
    BY <2>1, <2>4, CatalogKeepsTheInvariant DEF CatalogExpires
  <2>5. ASSUME StreamStep PROVE RainyInv'
    BY <2>5, RequestsKeepTheInvariant
  <2>6. ASSUME AdaptStream PROVE RainyInv'
    <3> DEFINE a == [adapter EXCEPT !.events = @ + 1]
               said == received \o channel.queue
    <3>1. PICK e \in ResponsesEvents : /\ adapter' = AdaptEvent(a, e)
                                    /\ opened' = opened \cup Begins(e) /\ named' = named \cup Names(e)
      BY <2>6 DEF AdaptStream, NextItem
    <3>2. /\ adapter.outbox = <<>> /\ ~adapter.closing /\ adapter.events < MaxEvents
          /\ adapter.pc = "responses"
          /\ UNCHANGED <<catalogCache, deniedModels, offered, attached, channel, received, refused, rainySteps>>
      BY <2>6 DEF AdaptStream, NextItem
    <3>3. Reading(a, said, opened) /\ a.pc = "responses" /\ a.chat = adapter.chat  BY <3>2, TaskReads
    <3>5. ChatGiven(adapter.chat, named)  BY DEF RainyInv, StreamInv
    <3> HIDE DEF a, said
    <3>4. Adapted(adapter', said, opened')  BY <3>1, <3>3, EventsAreProper
    <3>6. ReportsTheCallOf(adapter', a, e)  BY <3>1, <3>3, EventsReportTheirCalls DEF Reading, AdapterOK
    <3>7. /\ named \subseteq named' /\ ChatGiven(adapter'.chat, named')
          /\ \A c \in CallsOf(adapter'.outbox) : <<c.of, c.id>> \in named'
      BY <3>1, <3>3, <3>5, <3>6 DEF ReportsTheCallOf, ChatGiven
    <3> QED BY <3>2, <3>4, <3>7, ItemsKeepTheInvariant DEF said
  <2>7. ASSUME AdaptChatStream PROVE RainyInv'
    <3> DEFINE a == [adapter EXCEPT !.events = @ + 1]
               said == received \o channel.queue
    <3>1. PICK c \in ChatChunks : /\ adapter' = AdaptChunk(a, c)
                                    /\ opened' = opened \cup Begins(c) /\ named' = named \cup Names(c)
      BY <2>7 DEF AdaptChatStream, NextItem
    <3>2. /\ adapter.outbox = <<>> /\ ~adapter.closing /\ adapter.events < MaxEvents
          /\ adapter.pc = "chat"
          /\ UNCHANGED <<catalogCache, deniedModels, offered, attached, channel, received, refused, rainySteps>>
      BY <2>7 DEF AdaptChatStream, NextItem
    <3>3. /\ Reading(a, said, opened) /\ a.pc = "chat" /\ a.terminal = adapter.terminal
          /\ a.chat = adapter.chat
      BY <3>2, TaskReads
    <3>5. ChatGiven(a.chat, named)  BY <3>3 DEF RainyInv, StreamInv
    <3> HIDE DEF a, said
    <3>4. Adapted(adapter', said, opened')  BY <3>1, <3>3, ChunksAreProper
    <3>6. /\ ChatGiven(adapter'.chat, named') /\ named \subseteq named'
          /\ \A m \in CallsOf(adapter'.outbox) : <<m.of, m.id>> \in named
      BY <3>1, <3>3, <3>5, ChunksReportTheirCalls DEF Reading
    <3>7. \A m \in CallsOf(adapter'.outbox) : <<m.of, m.id>> \in named'  BY <3>6
    <3> QED BY <3>2, <3>4, <3>6, <3>7, ItemsKeepTheInvariant DEF said
  <2>8. ASSUME SenderClosed PROVE RainyInv'
    BY <2>8, EndingKeepsTheInvariant DEF SenderClosed, Ended
  <2>9. ASSUME AdapterReturns PROVE RainyInv'
    BY <2>9, EndingKeepsTheInvariant DEF AdapterReturns, Ended
  <2>10. ASSUME Send PROVE RainyInv'
    <3>1. CASE ~channel.open /\ adapter' = Ended /\ UNCHANGED channel
      BY <2>10, <3>1, EndingKeepsTheInvariant DEF Send, Ended
    <3>2. CASE /\ channel.open /\ Len(channel.queue) < ChannelCapacity
               /\ channel' = [channel EXCEPT !.queue = Append(@, Head(adapter.outbox))]
               /\ adapter' = [adapter EXCEPT !.outbox = Tail(@)]
      <4>0. /\ Running /\ adapter.outbox # <<>>
            /\ UNCHANGED <<catalogCache, deniedModels, offered, attached, received, streamHistory, refused, rainySteps>>
        BY <2>10 DEF Send
      <4> DEFINE q == Append(channel.queue, Head(adapter.outbox))
                 o == Tail(adapter.outbox)
      <4>1. /\ q \in Seq(Messages) /\ o \in Seq(Messages) /\ q \o o = channel.queue \o adapter.outbox
            /\ Len(q) = Len(channel.queue) + 1
        BY <2>1, <4>0, MovingHead
      <4>2. /\ channel'.queue = q /\ channel'.open = channel.open
            /\ channel' \in [queue : Seq(Messages), open : BOOLEAN]
        BY <2>1, <3>2, <4>1
      <4>3. /\ adapter'.outbox = o /\ adapter'.pc = adapter.pc /\ adapter'.closing = adapter.closing
            /\ adapter'.completed = adapter.completed /\ adapter'.calls = adapter.calls
            /\ adapter'.chat = adapter.chat /\ adapter'.terminal = adapter.terminal
            /\ adapter'.usage = adapter.usage /\ adapter'.events = adapter.events
            /\ DOMAIN adapter' = DOMAIN NoRequest
        BY <2>1, <3>2, AdapterFields
      <4> HIDE DEF q, o
      <4>4. received \o q \o o = received \o channel.queue \o adapter.outbox
        <5>1. (received \o q) \o o = received \o (q \o o)  BY <2>1, <4>1, Regrouped
        <5>2. (received \o channel.queue) \o adapter.outbox = received \o (channel.queue \o adapter.outbox)
          BY <2>1, Regrouped
        <5> QED BY <4>1, <5>1, <5>2
      <4>5. Said' = Said  BY <4>0, <4>2, <4>3, <4>4 DEF Said
      <4>6. AdapterOK(adapter')  BY <2>1, <4>1, <4>3 DEF AdapterOK
      <4>7. Len(channel'.queue) <= ChannelCapacity
        BY <2>1, <3>2, <4>1, <4>2, RainyBounds
      <4>8. RainyTypeOK'  BY <4>0, <4>2, <4>6, <4>7 DEF RainyInv, RainyTypeOK
      <4> QED BY <4>0, <4>3, <4>5, <4>8, MessagesKeepTheInvariant
    <3> QED BY <2>10, <3>1, <3>2 DEF Send
  <2>11. ASSUME Receive PROVE RainyInv'
    <3>0. /\ channel.queue # <<>> /\ received' = Append(received, Head(channel.queue))
          /\ channel' = [channel EXCEPT !.queue = Tail(@)]
          /\ UNCHANGED <<catalogCache, deniedModels, offered, attached, adapter, streamHistory, refused, rainySteps>>
      BY <2>11 DEF Receive
    <3> DEFINE r == Append(received, Head(channel.queue))
               q == Tail(channel.queue)
    <3>1. /\ r \in Seq(Messages) /\ q \in Seq(Messages) /\ r \o q = received \o channel.queue
          /\ Len(q) = Len(channel.queue) - 1
      BY <2>1, <3>0, MovingHead
    <3>2. /\ channel'.queue = q /\ channel'.open = channel.open
          /\ channel' \in [queue : Seq(Messages), open : BOOLEAN]
      BY <2>1, <3>0, <3>1
    <3>3. received' = r  BY <3>0
    <3> HIDE DEF r, q
    <3>4. Said' = Said  BY <3>0, <3>1, <3>2, <3>3 DEF Said
    <3>5. Len(channel.queue) \in Nat  BY <2>1
    <3>6. Len(channel'.queue) <= ChannelCapacity  BY <2>1, <3>1, <3>2, <3>5, RainyBounds
    <3>7. RainyTypeOK'  BY <3>0, <3>1, <3>2, <3>3, <3>6 DEF RainyInv, RainyTypeOK
    <3> QED BY <3>0, <3>4, <3>7, MessagesKeepTheInvariant
  <2>12. ASSUME DropReceiver PROVE RainyInv'
    <3>0. /\ channel' = [channel EXCEPT !.open = FALSE]
          /\ UNCHANGED <<catalogCache, deniedModels, offered, attached, adapter, received, streamHistory, refused,
                         rainySteps>>
      BY <2>12 DEF DropReceiver
    <3>1. channel'.queue = channel.queue /\ channel' \in [queue : Seq(Messages), open : BOOLEAN]
      BY <2>1, <3>0
    <3>2. Said' = Said  BY <3>0, <3>1 DEF Said
    <3>3. RainyTypeOK'  BY <2>1, <3>0, <3>1 DEF RainyInv, RainyTypeOK
    <3> QED BY <3>0, <3>2, <3>3, MessagesKeepTheInvariant
  <2>13. ASSUME UNCHANGED rainyVars PROVE RainyInv'
    BY <2>1, <2>13, CatalogKeepsTheInvariant DEF rainyVars, streamHistory
  <2> QED BY <2>2, <2>3, <2>4, <2>5, <2>6, <2>7, <2>8, <2>9, <2>10, <2>11, <2>12, <2>13 DEF RainyNext
<1> QED BY <1>1, <1>2, PTL DEF RainySpec

\* What the agent has received is the beginning of what the stream has said.
LEMMA ReceivedIsABeginning ==
    ASSUME RainyInv
    PROVE  /\ Proper(received, opened) /\ GivenIn(received)
           /\ \A i \in DOMAIN received : received[i].type = "done" =>
                 channel.queue = <<>> /\ ~Has(received, "error")
<1> DEFINE s == received \o channel.queue
           r == Len(received)
           q == Len(channel.queue)
           o == Len(adapter.outbox)
<1>1. /\ received \in Seq(Messages) /\ channel.queue \in Seq(Messages) /\ adapter.outbox \in Seq(Messages)
  BY DEF RainyInv, RainyTypeOK, AdapterOK
<1>2. s \in Seq(Messages) /\ Said = s \o adapter.outbox /\ Said \in Seq(Messages)
  BY <1>1, ConcatAssoc DEF Said
<1>3. /\ r \in Nat /\ q \in Nat /\ o \in Nat /\ DOMAIN received = 1 .. r /\ DOMAIN s = 1 .. (r + q)
      /\ \A i \in 1 .. r : s[i] = received[i]
      /\ channel.queue = <<>> <=> q = 0
  BY <1>1, ConcatProperties
<1> HIDE DEF s
<1>4. /\ Len(s) = r + q /\ DOMAIN Said = 1 .. (r + q + o) /\ Len(Said) = r + q + o
      /\ \A i \in 1 .. (r + q) : Said[i] = s[i]
  <2> DEFINE all == s \o adapter.outbox
             k == r + q
  <2>1. Len(s) = k /\ k \in Nat  BY <1>2, <1>3
  <2> HIDE DEF k, all
  <2>2. /\ DOMAIN all = 1 .. (k + o) /\ Len(all) = k + o /\ \A i \in 1 .. k : all[i] = s[i]
    <3>1. /\ DOMAIN all = 1 .. (Len(s) + o) /\ Len(all) = Len(s) + o
          /\ \A i \in 1 .. Len(s) : all[i] = s[i]
      BY <1>1, <1>2, ConcatProperties DEF all
    <3> QED BY <2>1, <3>1
  <2> QED BY <1>2, <2>1, <2>2 DEF k, all
<1>5. Proper(Said, opened)  BY <1>2 DEF RainyInv, StreamInv, Proper
<1>6. Proper(s, opened)  BY <1>1, <1>2, <1>5, CuttingIsProper
<1>7. Proper(received, opened)  BY <1>1, <1>6, CuttingIsProper DEF s
<1>9. GivenIn(received)
  <2>1. CallsOf(received) \subseteq CallsOf(s)  BY <1>1, JoinedCalls DEF s
  <2>2. CallsOf(s) \subseteq CallsOf(Said)  BY <1>1, <1>2, JoinedCalls
  <2> QED BY <2>1, <2>2 DEF RainyInv, StreamInv, GivenIn
<1> HIDE DEF r, q, o
<1>8. ASSUME NEW i \in DOMAIN received, received[i].type = "done"
      PROVE  channel.queue = <<>> /\ ~Has(received, "error")
  <2>1. i \in 1 .. r /\ i \in 1 .. (r + q + o) /\ i \in 1 .. (r + q) /\ Said[i].type = "done"
    BY <1>3, <1>4, <1>8
  <2>2. i = r + q + o  BY <1>4, <1>5, <2>1 DEF Proper, DoneLast
  <2>3. q = 0  BY <1>3, <2>1, <2>2
  <2>4. ~Has(received, "error")  BY <1>7, <1>8 DEF Proper, DoneLast
  <2> QED BY <1>3, <2>3, <2>4
<1> QED BY <1>7, <1>8, <1>9

\* A response that the agent sees as done is whole: no error before it, nothing after it, every call
\* that its stream began reported; a call is reported under identifiers that the stream gave to it, and
\* twice only when it was given two; two calls share one only on Chat, when two indices were given it.
\* For any identifiers, channel capacity and bounds, and any items in any order (adapt_stream,
\* map_event, adapt_chat_stream, emit_chat_tool_calls).
THEOREM DoneMeansWhole == RainySpec => []DoneIsTheWholeResponse
<1>1. RainyInv => DoneIsTheWholeResponse
  <2> SUFFICES ASSUME RainyInv PROVE DoneIsTheWholeResponse
    OBVIOUS
  <2>1. ApartIn(received) /\ GivenIn(received) /\ DoneLast(received, opened) /\ received \in Seq(Messages)
    BY ReceivedIsABeginning DEF Proper
  <2>2. DOMAIN received = 1 .. Len(received) /\ Len(received) \in Nat  BY <2>1
  <2>3. ASSUME NEW i \in DOMAIN received, received[i].type = "done"
        PROVE  /\ i = Len(received) /\ channel.queue = <<>>
               /\ \A j \in 1 .. i : received[j].type # "error"
               /\ \A key \in opened : \E j \in 1 .. i :
                     IsCall(received[j]) /\ key \in {received[j].id, received[j].of}
    <3>1. i = Len(received) /\ opened \subseteq KeysIn(received)  BY <2>1, <2>3 DEF DoneLast
    <3>2. channel.queue = <<>> /\ ~Has(received, "error")  BY <2>3, ReceivedIsABeginning
    <3>3. \A j \in 1 .. i : received[j].type # "error"  BY <2>2, <3>1, <3>2 DEF Has
    <3>4. ASSUME NEW key \in opened
          PROVE  \E j \in 1 .. i : IsCall(received[j]) /\ key \in {received[j].id, received[j].of}
      <4>1. PICK c \in CallsOf(received) : key \in {c.id, c.of}
        BY <3>1 DEF KeysIn, ReportedIn, ReportedOf
      <4>2. PICK j \in DOMAIN received : IsCall(received[j]) /\ c = received[j]
        BY DEF CallsOf
      <4> QED BY <2>2, <3>1, <4>1, <4>2
    <3> QED BY <3>1, <3>2, <3>3, <3>4
  <2> QED BY <2>1, <2>3 DEF DoneIsTheWholeResponse
<1> QED BY <1>1, RainyInvHolds, PTL

\* A model whose tools the provider refused is not asked with tools again, whatever the catalogue
\* says of it later and whenever its cache expires (denied_tool_models, stream_step).
THEOREM RefusalsAreRemembered == RainySpec => []ToolsAreRefusedOnce
BY RainyInvHolds, PTL DEF RainyInv, RefusalInv

(***************************************************************************)
(* The coding policy.  What is recommended can be done because of how the  *)
(* phase, the verification, what was looked at and the candidates hang     *)
(* together (AdviceOK); each part of a result's observation keeps that,    *)
(* and most parts do not touch it at all (Steady).                         *)
(***************************************************************************)

PolicyFields == {"wf", "phase", "recovering", "forStale", "director", "completed", "order", "progress",
                 "files", "modified", "changed", "dec", "guard", "key", "stalled"}

WorkflowFields == {"relevant", "inspected", "revision", "verification", "steps", "checks", "failures"}

DecisionFields == {"evidence", "questions", "candidates", "scope", "confidence", "next", "target", "lowValue"}

PolicyPhases == {"Discover", "Inspect", "Modify", "Verify", "Complete"}

Candidates == [path : PolicyPaths, score : Nat, inspected : BOOLEAN, stale : BOOLEAN]

Formed(s) ==
    /\ DOMAIN s = PolicyFields /\ DOMAIN s.wf = WorkflowFields /\ DOMAIN s.dec = DecisionFields
    /\ DOMAIN s.guard = {"observations", "failures", "last", "noProgress"}
    /\ s.wf.revision \in Nat /\ s.phase \in PolicyPhases
    /\ s.files \in [PolicyPaths -> {"none", "fresh", "stale"}] /\ s.modified \subseteq PolicyPaths
    /\ s.order \in Seq(PolicyPaths) /\ s.dec.candidates \in Seq(Candidates)

Touched(s) == \E p \in PolicyPaths : s.files[p] # "none"

\* What is known of the files, the candidates and the verification; b says that
\* verifying is what was carried over.
Known(s, b) ==
    /\ AnyStale(s) => s.changed
    /\ s.changed => Touched(s) \/ s.key = <<>> \/ s.key[2] = <<>>
    /\ s.modified # {} => Touched(s)
    /\ s.phase = "Inspect" => Touched(s) \/ s.order # <<>>
    /\ Touched(s) \/ s.key = <<>> \/ s.key[2] = <<>> \/ s.dec.candidates # <<>>
    /\ (\E i \in DOMAIN s.dec.candidates : s.dec.candidates[i].inspected) => Touched(s)
    /\ s.wf.verification = "Failed" => s.phase = "Verify" \/ b

\* Discovery begins again on top of changes while a file is stale and nothing is
\* relevant, or else is carried over.
Rediscovers(s, b) ==
    s.phase = "Discover" /\ VerificationOpen(s) => b \/ (AnyStale(s) /\ s.order = <<>>)

AdviceOK(s, b) == Known(s, b) /\ Rediscovers(s, b)

Advised(s, b) == Formed(s) /\ AdviceOK(s, b)

\* t differs from s in what neither the advice nor the circuit depends on.
Steady(s, t) ==
    /\ Formed(t)
    /\ t.wf.revision = s.wf.revision /\ t.wf.verification = s.wf.verification
    /\ t.phase = s.phase /\ t.order = s.order /\ t.files = s.files /\ t.modified = s.modified
    /\ t.changed = s.changed /\ t.key = s.key /\ t.guard = s.guard
    /\ t.dec.candidates = s.dec.candidates

LEMMA SteadyAdvice ==
    ASSUME NEW s, NEW t, NEW b, Steady(s, t), AdviceOK(s, b)
    PROVE  Advised(t, b)
<1>1. Formed(t)  BY DEF Steady
<1>2. (Touched(t) <=> Touched(s)) /\ (AnyStale(t) <=> AnyStale(s)) /\ (VerificationOpen(t) <=> VerificationOpen(s))
  BY DEF Steady, Touched, AnyStale, VerificationOpen
<1>3. AdviceOK(t, b)
  BY <1>2 DEF Steady, AdviceOK, Known, Rediscovers
<1> QED BY <1>1, <1>3 DEF Advised

LEMMA DirectorIsSteady ==
    ASSUME NEW s, Formed(s), NEW m, NEW x
    PROVE  Steady(s, SyncDirector(s, m, x)) /\ SyncDirector(s, m, x).wf = s.wf
<1> DEFINE t == SyncDirector(s, m, x)
<1>1. DOMAIN t = DOMAIN s /\ t.wf = s.wf /\ t.dec = s.dec /\ t.guard = s.guard /\ t.phase = s.phase
      /\ t.order = s.order /\ t.files = s.files /\ t.modified = s.modified /\ t.changed = s.changed /\ t.key = s.key
  BY DEF SyncDirector, Formed, PolicyFields
<1> HIDE DEF t
<1>2. Formed(t)  BY <1>1 DEF Formed
<1>3. Steady(s, t)  BY <1>1, <1>2 DEF Steady
<1> QED BY <1>1, <1>3 DEF t

LEMMA SteadyTwice ==
    ASSUME NEW s, NEW t, NEW u, Steady(s, t), Steady(t, u)
    PROVE  Steady(s, u)
BY DEF Steady

LEMMA LastOfType ==
    ASSUME NEW A, NEW q \in Seq(A), NEW n \in Nat
    PROVE  LastOf(q, n) \in Seq(A) /\ (q # <<>> /\ n # 0 => LastOf(q, n) # <<>>)
<1>1. Len(q) \in Nat /\ (q # <<>> => Len(q) # 0)  OBVIOUS
<1>2. CASE Len(q) > n
  <2>1. LastOf(q, n) = SubSeq(q, Len(q) - n + 1, Len(q))  BY <1>2 DEF LastOf
  <2>2. Len(q) - n + 1 \in 1 .. (Len(q) + 1) /\ Len(q) \in (Len(q) - n) .. Len(q)  BY <1>1, <1>2
  <2>3. SubSeq(q, Len(q) - n + 1, Len(q)) \in Seq(A) /\ Len(SubSeq(q, Len(q) - n + 1, Len(q))) = n
    BY <1>1, <1>2, <2>2, SubSeqProperties
  <2>4. Len(<<>>) = 0  OBVIOUS
  <2> QED BY <2>1, <2>3, <2>4
<1>3. CASE ~(Len(q) > n)  BY <1>3 DEF LastOf
<1> QED BY <1>2, <1>3

\* The files of one kind of call: what a listing, a read or a write makes relevant.
Noted(s, t, b) ==
    /\ Advised(t, b) /\ t.files = s.files /\ t.changed = s.changed /\ t.guard = s.guard
    /\ t.modified = s.modified /\ t.key = s.key /\ t.dec.candidates = s.dec.candidates
    /\ t.wf.revision = s.wf.revision /\ t.wf.verification = s.wf.verification
    /\ s.order # <<>> => t.order # <<>>

LEMMA NotingAFile ==
    ASSUME NEW s, NEW b, Formed(s), Known(s, b), NEW p \in PolicyPaths,
           p \in Range(s.order) => Rediscovers(s, b)
    PROVE  Noted(s, NoteRelevantFile(s, p), b) /\ NoteRelevantFile(s, p).order # <<>>
<1> DEFINE t == NoteRelevantFile(s, p)
           w == [s.wf EXCEPT !.relevant = @ \cup {p}]
           e == RecordEvidence(s.dec, "discovery", p, <<"relevant">>, 24, s.wf.revision)
           q == LastOf(Append(s.order, p), MaxRelevant)
           u == [s EXCEPT !.order = q, !.wf = w, !.progress = s.progress + 1, !.dec = e,
                          !.phase = IF s.phase \in {"Discover", "Complete"} THEN "Inspect" ELSE s.phase]
<1>1. CASE p \in Range(s.order)
  <2>1. t = s  BY <1>1 DEF NoteRelevantFile
  <2>2. s.order # <<>>  BY <1>1 DEF Range
  <2> QED BY <1>1, <2>1, <2>2 DEF Noted, Advised, AdviceOK
<1>2. CASE p \notin Range(s.order)
  <2>1. t = SyncDirector(u, {}, FALSE)  BY <1>2 DEF NoteRelevantFile, RecordRelevant
  <2>2. q \in Seq(PolicyPaths) /\ q # <<>>
    <3>1. Append(s.order, p) \in Seq(PolicyPaths) /\ Append(s.order, p) # <<>>
      BY DEF Formed
    <3> QED BY <3>1, LastOfType, PolicyAssumption
  <2>3. DOMAIN e = DecisionFields /\ e.candidates = s.dec.candidates
    BY DEF RecordEvidence, Formed, DecisionFields
  <2>4. DOMAIN w = WorkflowFields /\ w.revision = s.wf.revision /\ w.verification = s.wf.verification
    BY DEF Formed, WorkflowFields
  <2>5. Formed(s) /\ Known(s, b)  OBVIOUS
  <2> HIDE DEF q, e, w
  <2>6. /\ DOMAIN u = DOMAIN s /\ u.wf = w /\ u.dec = e /\ u.order = q /\ u.files = s.files
        /\ u.changed = s.changed /\ u.guard = s.guard /\ u.modified = s.modified /\ u.key = s.key
        /\ u.phase = IF s.phase \in {"Discover", "Complete"} THEN "Inspect" ELSE s.phase
    BY <2>5 DEF Formed, PolicyFields
  <2> HIDE DEF u
  <2>7. Formed(u)  BY <2>2, <2>3, <2>4, <2>5, <2>6 DEF Formed, PolicyPhases
  <2>8. AdviceOK(u, b)
    <3>1. (Touched(u) <=> Touched(s)) /\ (AnyStale(u) <=> AnyStale(s)) /\ (VerificationOpen(u) <=> VerificationOpen(s))
      BY <2>6, <2>4 DEF Touched, AnyStale, VerificationOpen
    <3> QED BY <3>1, <2>2, <2>3, <2>4, <2>5, <2>6 DEF AdviceOK, Known, Rediscovers
  <2>9. Steady(u, t) BY <2>7, <2>1, DirectorIsSteady
  <2>10. Advised(t, b)  BY <2>8, <2>9, SteadyAdvice
  <2> HIDE DEF t
  <2>11. Noted(s, t, b) /\ t.order # <<>>
    BY <2>2, <2>3, <2>4, <2>6, <2>9, <2>10 DEF Noted, Steady
  <2> QED BY <2>11 DEF t
<1> QED BY <1>1, <1>2

LEMMA NotedTwice ==
    ASSUME NEW s, NEW t, NEW u, NEW b, Noted(s, t, b), Noted(t, u, b)
    PROVE  Noted(s, u, b)
BY DEF Noted

\* The files of a listing are noted one after the other.
FilesInOrder(after, s, hits) ==
    /\ after[0] = s /\ after[PathCount] = NoteRelevantFiles(s, hits)
    /\ \A n \in 1 .. PathCount :
          after[n] = IF n \in hits THEN NoteRelevantFile(after[n - 1], n) ELSE after[n - 1]

LEMMA ListedInOrder ==
    ASSUME NEW s, NEW hits
    PROVE  \E after : FilesInOrder(after, s, hits)
<1> DEFINE PathStep(t, n) == IF n \in hits THEN NoteRelevantFile(t, n) ELSE t
           Goes(f, m) == f = [n \in 0 .. m |-> IF n = 0 THEN s ELSE PathStep(f[n - 1], n)]
           S == {m \in Nat : \E f : Goes(f, m)}
           after == CHOOSE f : Goes(f, PathCount)
<1>0. NoteRelevantFiles(s, hits) = after[PathCount]  BY DEF NoteRelevantFiles
<1>e. \A t, n : PathStep(t, n) = IF n \in hits THEN NoteRelevantFile(t, n) ELSE t  OBVIOUS
<1> HIDE DEF PathStep
<1>1. 0 \in S
  <2> DEFINE f == [n \in 0 .. 0 |-> s]
  <2>1. f = [n \in 0 .. 0 |-> IF n = 0 THEN s ELSE PathStep(f[n - 1], n)]  OBVIOUS
  <2> HIDE DEF f
  <2>2. Goes(f, 0)  BY <2>1
  <2> QED BY <2>2
<1>2. ASSUME NEW m \in Nat, m \in S PROVE m + 1 \in S
  <2>1. PICK f : Goes(f, m)  BY <1>2
  <2> DEFINE step == PathStep(f[m], m + 1)
             g == [n \in 0 .. (m + 1) |-> IF n <= m THEN f[n] ELSE step]
  <2>2. \A n \in 0 .. m : f[n] = IF n = 0 THEN s ELSE PathStep(f[n - 1], n)  BY <2>1
  <2>3. \A n \in 0 .. m : g[n] = f[n]  OBVIOUS
  <2>4. g[m + 1] = step  OBVIOUS
  <2>5. \A n \in 0 .. (m + 1) : g[n] = IF n = 0 THEN s ELSE PathStep(g[n - 1], n)
    <3> TAKE n \in 0 .. (m + 1)
    <3>1. CASE n = m + 1
      <4>1. n # 0 /\ n - 1 = m /\ m \in 0 .. m  BY <3>1
      <4>2. g[m] = f[m]  BY <2>3, <4>1
      <4> HIDE DEF g
      <4> QED BY <3>1, <4>1, <4>2, <2>4
    <3>2. CASE n \in 0 .. m
      <4>1. n = 0 \/ n - 1 \in 0 .. m  BY <3>2
      <4>2. g[n] = f[n] /\ (n # 0 => g[n - 1] = f[n - 1])  BY <2>3, <3>2, <4>1
      <4> HIDE DEF g
      <4> QED BY <4>2, <3>2, <2>2
    <3> QED BY <3>1, <3>2
  <2>6. DOMAIN g = 0 .. (m + 1) /\ g = [n \in 0 .. (m + 1) |-> g[n]]  OBVIOUS
  <2> HIDE DEF g
  <2>7. Goes(g, m + 1)  BY <2>5, <2>6
  <2> QED BY <2>7
<1>3. PathCount \in S
  <2> HIDE DEF S
  <2> QED BY <1>1, <1>2, Induction, PolicyAssumption
<1>4. \E f : Goes(f, PathCount)  BY <1>3
<1>5. Goes(after, PathCount)  BY <1>4
<1> HIDE DEF after
<1>7. \A n \in 0 .. PathCount : after[n] = IF n = 0 THEN s ELSE PathStep(after[n - 1], n)  BY <1>5
<1>8. after[0] = s  BY <1>7, PolicyAssumption
<1>9. \A n \in 1 .. PathCount : after[n] = PathStep(after[n - 1], n)  BY <1>7, PolicyAssumption
<1> QED BY <1>0, <1>8, <1>9, <1>e DEF FilesInOrder

LEMMA NotingFiles ==
    ASSUME NEW s, NEW b, Advised(s, b), NEW hits
    PROVE  Noted(s, NoteRelevantFiles(s, hits), b)
<1>1. PICK after : FilesInOrder(after, s, hits)  BY ListedInOrder
<1> DEFINE T == {n \in Nat : n <= PathCount => Noted(s, after[n], b)}
<1>2. after[0] = s /\ after[PathCount] = NoteRelevantFiles(s, hits)
      /\ \A n \in 1 .. PathCount :
            after[n] = IF n \in hits THEN NoteRelevantFile(after[n - 1], n) ELSE after[n - 1]
  BY <1>1 DEF FilesInOrder
<1>3. 0 \in T
  <2>1. Noted(s, s, b)  BY DEF Noted
  <2> QED BY <1>2, <2>1
<1>4. ASSUME NEW n \in Nat, n \in T PROVE n + 1 \in T
  <2> SUFFICES ASSUME n + 1 <= PathCount
               PROVE  Noted(s, after[n + 1], b)
    OBVIOUS
  <2>1. n <= PathCount /\ n + 1 \in 1 .. PathCount /\ (n + 1) - 1 = n /\ n + 1 \in PolicyPaths
    BY PolicyAssumption DEF PolicyPaths
  <2>2. Noted(s, after[n], b)  BY <1>4, <2>1
  <2>3. CASE n + 1 \in hits
    <3>1. after[n + 1] = NoteRelevantFile(after[n], n + 1)  BY <1>2, <2>1, <2>3
    <3>2. Formed(after[n]) /\ Known(after[n], b) /\ Rediscovers(after[n], b)
      BY <2>2 DEF Noted, Advised, AdviceOK
    <3>3. Noted(after[n], after[n + 1], b)  BY <2>1, <3>1, <3>2, NotingAFile
    <3> QED BY <2>2, <3>3, NotedTwice
  <2>4. CASE n + 1 \notin hits
    BY <1>2, <2>1, <2>2, <2>4
  <2> QED BY <2>3, <2>4
<1>5. PathCount \in T
  <2> HIDE DEF T
  <2> QED BY <1>3, <1>4, Induction, PolicyAssumption
<1> QED BY <1>2, <1>5, PolicyAssumption

LEMMA NotingInspection ==
    ASSUME NEW s, NEW b, Advised(s, b), Touched(s) \/ s.order # <<>>
    PROVE  Noted(s, NoteInspection(s), b) /\ NoteInspection(s).order = s.order
<1> DEFINE t == NoteInspection(s)
           w == [s.wf EXCEPT !.inspected = TRUE]
           e == RecordEvidence(s.dec, "inspection", 0, <<"targeted">>, 36, s.wf.revision)
           u == [s EXCEPT !.wf = w, !.progress = s.progress + 1, !.dec = e,
                          !.phase = IF s.phase = "Verify" THEN s.phase ELSE "Inspect"]
<1>1. t = SyncDirector(u, {}, FALSE)  BY DEF NoteInspection, RecordInspection
<1>2. DOMAIN e = DecisionFields /\ e.candidates = s.dec.candidates
  BY DEF RecordEvidence, Advised, Formed, DecisionFields
<1>3. DOMAIN w = WorkflowFields /\ w.revision = s.wf.revision /\ w.verification = s.wf.verification
  BY DEF Advised, Formed, WorkflowFields
<1>4. Formed(s) /\ AdviceOK(s, b)  BY DEF Advised
<1> HIDE DEF e, w
<1>5. /\ DOMAIN u = DOMAIN s /\ u.wf = w /\ u.dec = e /\ u.order = s.order /\ u.files = s.files
      /\ u.changed = s.changed /\ u.guard = s.guard /\ u.modified = s.modified /\ u.key = s.key
      /\ u.phase = IF s.phase = "Verify" THEN s.phase ELSE "Inspect"
  BY <1>4 DEF Formed, PolicyFields
<1> HIDE DEF u
<1>6. Formed(u)  BY <1>2, <1>3, <1>4, <1>5 DEF Formed, PolicyPhases
<1>7. (Touched(u) <=> Touched(s)) /\ (AnyStale(u) <=> AnyStale(s)) /\ (VerificationOpen(u) <=> VerificationOpen(s))
  BY <1>5, <1>3 DEF Touched, AnyStale, VerificationOpen
<1>8. AdviceOK(u, b)  BY <1>2, <1>3, <1>4, <1>5, <1>7 DEF AdviceOK, Known, Rediscovers
<1>9. Steady(u, t)  BY <1>1, <1>6, DirectorIsSteady
<1>10. Advised(t, b)  BY <1>8, <1>9, SteadyAdvice
<1> HIDE DEF t
<1>11. Noted(s, t, b) /\ t.order = s.order
  BY <1>2, <1>3, <1>5, <1>9, <1>10 DEF Noted, Steady
<1> QED BY <1>11 DEF t

LEMMA BeginningModification ==
    ASSUME NEW s, NEW b, Advised(s, b)
    PROVE  Noted(s, BeginModification(s), b) /\ BeginModification(s).order = s.order
<1> DEFINE t == BeginModification(s)
           u == [s EXCEPT !.phase = IF s.phase = "Verify" THEN s.phase ELSE "Modify"]
<1>1. t = SyncDirector(u, {}, FALSE)  BY DEF BeginModification
<1>2. Formed(s) /\ AdviceOK(s, b)  BY DEF Advised
<1>3. /\ DOMAIN u = DOMAIN s /\ u.wf = s.wf /\ u.dec = s.dec /\ u.order = s.order /\ u.files = s.files
      /\ u.changed = s.changed /\ u.guard = s.guard /\ u.modified = s.modified /\ u.key = s.key
      /\ u.phase = IF s.phase = "Verify" THEN s.phase ELSE "Modify"
  BY <1>2 DEF Formed, PolicyFields
<1> HIDE DEF u
<1>4. Formed(u)  BY <1>2, <1>3 DEF Formed, PolicyPhases
<1>5. (Touched(u) <=> Touched(s)) /\ (AnyStale(u) <=> AnyStale(s)) /\ (VerificationOpen(u) <=> VerificationOpen(s))
  BY <1>3 DEF Touched, AnyStale, VerificationOpen
<1>6. AdviceOK(u, b)  BY <1>2, <1>3, <1>5 DEF AdviceOK, Known, Rediscovers
<1>7. Steady(u, t)  BY <1>1, <1>4, DirectorIsSteady
<1>8. Advised(t, b)  BY <1>6, <1>7, SteadyAdvice
<1> HIDE DEF t
<1>9. Noted(s, t, b) /\ t.order = s.order
  BY <1>3, <1>7, <1>8 DEF Noted, Steady
<1> QED BY <1>9 DEF t

\* A mutation, and what it lets be planned, is a new revision to be verified.
LEMMA NotingMutation ==
    ASSUME NEW s, NEW b, Advised(s, b), NEW p
    PROVE  LET t == NoteMutation(s, p)
           IN  /\ Advised(t, b) /\ t.wf.revision = s.wf.revision + 1 /\ t.phase = "Verify"
               /\ t.files = s.files /\ t.changed = s.changed /\ t.guard = s.guard /\ t.order = s.order
               /\ t.modified = s.modified /\ t.key = s.key /\ t.dec.candidates = s.dec.candidates
<1> DEFINE t == NoteMutation(s, p)
           w == RecordMutation(s.wf)
           u == [s EXCEPT !.progress = @ + 1, !.wf = w, !.phase = "Verify",
                          !.completed = FALSE, !.dec.confidence = Min({@, 80})]
<1>1. t = SyncDirector(u, {p}, FALSE)  BY DEF NoteMutation
<1>2. DOMAIN w = WorkflowFields /\ w.revision = s.wf.revision + 1 /\ w.verification = "Pending"
  BY DEF RecordMutation, Advised, Formed, WorkflowFields
<1>3. Formed(s) /\ AdviceOK(s, b)  BY DEF Advised
<1> HIDE DEF w
<1>4. /\ DOMAIN u = DOMAIN s /\ u.wf = w /\ u.order = s.order /\ u.files = s.files
      /\ u.changed = s.changed /\ u.guard = s.guard /\ u.modified = s.modified /\ u.key = s.key
      /\ u.phase = "Verify" /\ DOMAIN u.dec = DOMAIN s.dec /\ u.dec.candidates = s.dec.candidates
  BY <1>3 DEF Formed, PolicyFields, DecisionFields
<1> HIDE DEF u
<1>5. s.wf.revision + 1 \in Nat  BY <1>3 DEF Formed
<1>6. Formed(u)  BY <1>2, <1>3, <1>4, <1>5 DEF Formed, PolicyPhases
<1>7. (Touched(u) <=> Touched(s)) /\ (AnyStale(u) <=> AnyStale(s))
  BY <1>4 DEF Touched, AnyStale
<1>8. AdviceOK(u, b)  BY <1>2, <1>3, <1>4, <1>7 DEF AdviceOK, Known, Rediscovers
<1>9. Steady(u, t)  BY <1>1, <1>6, DirectorIsSteady
<1>10. Advised(t, b)  BY <1>8, <1>9, SteadyAdvice
<1> HIDE DEF t
<1>11. /\ Advised(t, b) /\ t.wf.revision = s.wf.revision + 1 /\ t.phase = "Verify"
       /\ t.files = s.files /\ t.changed = s.changed /\ t.guard = s.guard /\ t.order = s.order
       /\ t.modified = s.modified /\ t.key = s.key /\ t.dec.candidates = s.dec.candidates
  BY <1>2, <1>4, <1>9, <1>10 DEF Steady
<1> QED BY <1>11 DEF t

LEMMA PlanningIsSteady ==
    ASSUME NEW s, Formed(s), NEW plan
    PROVE  Steady(s, [s EXCEPT !.wf = SetVerificationPlan(s.wf, plan)])
<1> DEFINE w == SetVerificationPlan(s.wf, plan)
           t == [s EXCEPT !.wf = w]
<1>1. DOMAIN w = WorkflowFields /\ w.revision = s.wf.revision /\ w.verification = s.wf.verification
  BY DEF SetVerificationPlan, Formed, WorkflowFields
<1> HIDE DEF w
<1>2. DOMAIN t = DOMAIN s /\ t.wf = w /\ t.dec = s.dec /\ t.guard = s.guard /\ t.phase = s.phase
      /\ t.order = s.order /\ t.files = s.files /\ t.modified = s.modified /\ t.changed = s.changed /\ t.key = s.key
  BY DEF Formed, PolicyFields
<1> HIDE DEF t
<1>3. Formed(t)  BY <1>1, <1>2 DEF Formed
<1>4. Steady(s, t)  BY <1>1, <1>2, <1>3 DEF Steady
<1> QED BY <1>4 DEF t, w

\* A failure while the task was complete goes back to what is left to do.
LEMMA NotingFailure ==
    ASSUME NEW s, NEW b, Advised(s, b), NEW key, NEW forStale
    PROVE  Noted(s, NoteFailure(s, key, forStale), b) /\ NoteFailure(s, key, forStale).order = s.order
<1> DEFINE t == NoteFailure(s, key, forStale)
           w == RecordFailure(s.wf, key)
           d == RecordQuestion(s.dec, <<"failure", key>>)
           v == [s EXCEPT !.wf = w, !.dec = d, !.recovering = TRUE, !.forStale = forStale]
           u == [v EXCEPT !.phase = IF v.phase = "Complete" THEN PhaseWhenIncomplete(v) ELSE v.phase]
<1>1. t = SyncDirector(u, {}, FALSE)  BY DEF NoteFailure
<1>2. DOMAIN w = WorkflowFields /\ w.revision = s.wf.revision /\ w.verification = s.wf.verification
  BY DEF RecordFailure, Advised, Formed, WorkflowFields
<1>3. DOMAIN d = DecisionFields /\ d.candidates = s.dec.candidates
  BY DEF RecordQuestion, Advised, Formed, DecisionFields
<1>4. Formed(s) /\ AdviceOK(s, b)  BY DEF Advised
<1> HIDE DEF w, d
<1>5. /\ DOMAIN v = DOMAIN s /\ v.wf = w /\ v.dec = d /\ v.order = s.order /\ v.files = s.files
      /\ v.changed = s.changed /\ v.guard = s.guard /\ v.modified = s.modified /\ v.key = s.key
      /\ v.phase = s.phase
  BY <1>4 DEF Formed, PolicyFields
<1> HIDE DEF v
<1>6. /\ DOMAIN u = DOMAIN s /\ u.wf = w /\ u.dec = d /\ u.order = s.order /\ u.files = s.files
      /\ u.changed = s.changed /\ u.guard = s.guard /\ u.modified = s.modified /\ u.key = s.key
      /\ u.phase = IF s.phase = "Complete" THEN PhaseWhenIncomplete(v) ELSE s.phase
  BY <1>4, <1>5 DEF Formed, PolicyFields
<1> HIDE DEF u
<1>p. PhaseWhenIncomplete(v) \in PolicyPhases  BY DEF PhaseWhenIncomplete, PolicyPhases
<1>7. Formed(u)  BY <1>2, <1>3, <1>4, <1>6, <1>p DEF Formed
<1>8. (Touched(u) <=> Touched(s)) /\ (AnyStale(u) <=> AnyStale(s)) /\ (VerificationOpen(u) <=> VerificationOpen(s))
  BY <1>6, <1>2 DEF Touched, AnyStale, VerificationOpen
<1>9. s.phase = "Complete" =>
         u.phase = IF VerificationOpen(s) THEN "Verify" ELSE IF s.order = <<>> THEN "Discover" ELSE "Inspect"
  BY <1>2, <1>5, <1>6 DEF PhaseWhenIncomplete, VerificationOpen
<1>10. s.phase # "Complete" => u.phase = s.phase  BY <1>6
<1>11. AdviceOK(u, b)  BY <1>2, <1>3, <1>4, <1>6, <1>8, <1>9, <1>10 DEF AdviceOK, Known, Rediscovers, VerificationOpen
<1>12. Steady(u, t)  BY <1>1, <1>7, DirectorIsSteady
<1>13. Advised(t, b)  BY <1>11, <1>12, SteadyAdvice
<1> HIDE DEF t
<1>14. Noted(s, t, b) /\ t.order = s.order
  BY <1>2, <1>3, <1>6, <1>12, <1>13 DEF Noted, Steady
<1> QED BY <1>14 DEF t

LEMMA ForgettingIsSteady ==
    ASSUME NEW s, Formed(s), NEW key
    PROVE  Steady(s, ForgetFailure(s, key))
<1> DEFINE t == ForgetFailure(s, key)
           w == ClearFailure(s.wf, key)
           d == ClearQuestion(s.dec, <<"failure", key>>)
           u == [s EXCEPT !.wf = w, !.dec = d, !.recovering = @ /\ w.failures # {}]
<1>1. t = SyncDirector(u, {}, FALSE)  BY DEF ForgetFailure
<1>2. DOMAIN w = WorkflowFields /\ w.revision = s.wf.revision /\ w.verification = s.wf.verification
  BY DEF ClearFailure, Formed, WorkflowFields
<1>3. DOMAIN d = DecisionFields /\ d.candidates = s.dec.candidates
  BY DEF ClearQuestion, Formed, DecisionFields
<1> HIDE DEF w, d
<1>4. /\ DOMAIN u = DOMAIN s /\ u.wf = w /\ u.dec = d /\ u.order = s.order /\ u.files = s.files
      /\ u.changed = s.changed /\ u.guard = s.guard /\ u.modified = s.modified /\ u.key = s.key
      /\ u.phase = s.phase
  BY DEF Formed, PolicyFields
<1> HIDE DEF u
<1>5. Formed(u)  BY <1>2, <1>3, <1>4 DEF Formed
<1>6. Steady(s, u)  BY <1>2, <1>3, <1>4, <1>5 DEF Steady
<1>7. Steady(u, t)  BY <1>1, <1>5, DirectorIsSteady
<1> QED BY <1>6, <1>7, SteadyTwice

LEMMA EndingRecoveryIsSteady ==
    ASSUME NEW s, Formed(s)
    PROVE  Steady(s, EndRecovery(s))
<1> DEFINE u == [s EXCEPT !.recovering = FALSE]
<1>1. /\ DOMAIN u = DOMAIN s /\ u.wf = s.wf /\ u.dec = s.dec /\ u.order = s.order /\ u.files = s.files
      /\ u.changed = s.changed /\ u.guard = s.guard /\ u.modified = s.modified /\ u.key = s.key
      /\ u.phase = s.phase
  BY DEF Formed, PolicyFields
<1>2. EndRecovery(s) = IF u.wf.failures = {} THEN SyncDirector(u, {}, FALSE) ELSE u
  BY DEF EndRecovery
<1> HIDE DEF u
<1>3. Formed(u)  BY <1>1 DEF Formed
<1>4. Steady(s, u)  BY <1>1, <1>3 DEF Steady
<1>5. Steady(u, SyncDirector(u, {}, FALSE))  BY <1>3, DirectorIsSteady
<1> QED BY <1>2, <1>4, <1>5, SteadyTwice

\* A result of a check either counts, and what is left is to verify, or changes nothing of this.
LEMMA NotingVerification ==
    ASSUME NEW s, NEW b, Advised(s, b), NEW command, NEW passed
    PROVE  LET t == NoteVerification(s, command, passed)
           IN  /\ Advised(t, b) /\ t.wf.revision = s.wf.revision
               /\ t.files = s.files /\ t.changed = s.changed /\ t.guard = s.guard /\ t.order = s.order
               /\ t.modified = s.modified /\ t.key = s.key /\ t.dec.candidates = s.dec.candidates
<1> DEFINE t == NoteVerification(s, command, passed)
           planned == Awaiting(s.wf, command) # {}
           counted == planned \/ s.wf.steps = <<>>
           w == IF planned THEN RecordVerificationCommand(s.wf, command, passed)
                ELSE IF s.wf.steps = <<>> THEN RecordVerification(s.wf, passed)
                ELSE s.wf
           x == RecordWorkVerification(w, command, passed)
           u == [s EXCEPT !.wf = x, !.phase = IF counted THEN "Verify" ELSE s.phase,
                          !.progress = IF counted /\ w.verification = "Passed" THEN s.progress + 1 ELSE s.progress]
<1>1. t = SyncDirector(u, s.modified, FALSE)  BY DEF NoteVerification
<1>2. DOMAIN w = WorkflowFields /\ w.revision = s.wf.revision
      /\ (~counted => w.verification = s.wf.verification)
  <2>1. CASE planned
    BY <2>1 DEF RecordVerificationCommand, Advised, Formed, WorkflowFields
  <2>2. CASE ~planned /\ s.wf.steps = <<>>
    BY <2>2 DEF RecordVerification, RecordWorkVerification, Advised, Formed, WorkflowFields
  <2>3. CASE ~planned /\ s.wf.steps # <<>>
    BY <2>3 DEF Advised, Formed, WorkflowFields
  <2> QED BY <2>1, <2>2, <2>3
<1> HIDE DEF w, planned
<1>3. DOMAIN x = WorkflowFields /\ x.revision = s.wf.revision /\ x.verification = w.verification
  BY <1>2 DEF RecordWorkVerification, WorkflowFields
<1>4. Formed(s) /\ AdviceOK(s, b)  BY DEF Advised
<1> HIDE DEF x, counted
<1>5. /\ DOMAIN u = DOMAIN s /\ u.wf = x /\ u.dec = s.dec /\ u.order = s.order /\ u.files = s.files
      /\ u.changed = s.changed /\ u.guard = s.guard /\ u.modified = s.modified /\ u.key = s.key
      /\ u.phase = IF counted THEN "Verify" ELSE s.phase
  BY <1>4 DEF Formed, PolicyFields
<1> HIDE DEF u
<1>6. Formed(u)  BY <1>3, <1>4, <1>5 DEF Formed, PolicyPhases
<1>7. (Touched(u) <=> Touched(s)) /\ (AnyStale(u) <=> AnyStale(s))
  BY <1>5 DEF Touched, AnyStale
<1>8. ~counted => (VerificationOpen(u) <=> VerificationOpen(s))
  BY <1>2, <1>3, <1>5 DEF VerificationOpen
<1>9. AdviceOK(u, b)  BY <1>2, <1>3, <1>4, <1>5, <1>7, <1>8 DEF AdviceOK, Known, Rediscovers
<1>10. Steady(u, t)  BY <1>1, <1>6, DirectorIsSteady
<1>11. Advised(t, b)  BY <1>9, <1>10, SteadyAdvice
<1> HIDE DEF t
<1>12. /\ Advised(t, b) /\ t.wf.revision = s.wf.revision
       /\ t.files = s.files /\ t.changed = s.changed /\ t.guard = s.guard /\ t.order = s.order
       /\ t.modified = s.modified /\ t.key = s.key /\ t.dec.candidates = s.dec.candidates
  BY <1>3, <1>5, <1>10, <1>11 DEF Steady
<1> QED BY <1>12 DEF t

\* One call's result leads from s to t, apart from the revision.
Follows(s, t, b) ==
    /\ Advised(t, b) /\ t.guard = s.guard /\ t.key = s.key /\ t.dec.candidates = s.dec.candidates
    /\ s.order # <<>> => t.order # <<>>
    /\ Touched(s) => Touched(t)
    /\ t.changed => s.changed

LEMMA FollowsTwice ==
    ASSUME NEW s, NEW t, NEW u, NEW b, Follows(s, t, b), Follows(t, u, b)
    PROVE  Follows(s, u, b)
BY DEF Follows

LEMMA NotedFollows ==
    ASSUME NEW s, NEW t, NEW b, Noted(s, t, b)
    PROVE  Follows(s, t, b) /\ t.wf.revision = s.wf.revision
BY DEF Noted, Follows, Touched

LEMMA SteadyFollows ==
    ASSUME NEW s, NEW t, NEW b, Advised(s, b), Steady(s, t)
    PROVE  Follows(s, t, b) /\ t.wf.revision = s.wf.revision
<1>1. Advised(t, b)  BY SteadyAdvice DEF Advised
<1> QED BY <1>1 DEF Steady, Follows, Touched

\* A file that is current is evidence; it is not stale.
LEMMA FreshFile ==
    ASSUME NEW s, NEW b, Advised(s, b), NEW p \in PolicyPaths, NEW u,
           DOMAIN u = DOMAIN s, u.files = [s.files EXCEPT ![p] = "fresh"], u.modified \subseteq PolicyPaths,
           u.wf = s.wf, u.dec = s.dec, u.guard = s.guard, u.phase = s.phase, u.order = s.order,
           u.changed = s.changed, u.key = s.key
    PROVE  LET t == NoteRelevantFile(u, p)
           IN  Follows(s, t, b) /\ t.wf.revision = s.wf.revision /\ Touched(t) /\ t.order # <<>>
<1> DEFINE t == NoteRelevantFile(u, p)
<1>1. Formed(s) /\ Known(s, b) /\ Rediscovers(s, b)  BY DEF Advised, AdviceOK
<1>2. u.files \in [PolicyPaths -> {"none", "fresh", "stale"}] /\ u.files[p] = "fresh"
      /\ \A q \in PolicyPaths : q # p => u.files[q] = s.files[q]
  BY <1>1 DEF Formed
<1>3. Formed(u)  BY <1>1, <1>2 DEF Formed
<1>4. Touched(u) /\ (AnyStale(u) => AnyStale(s)) /\ (VerificationOpen(u) <=> VerificationOpen(s))
  BY <1>2 DEF Touched, AnyStale, VerificationOpen
<1>5. Known(u, b)  BY <1>1, <1>4 DEF Known
<1>6. p \in Range(u.order) => u.order # <<>>  BY DEF Range
<1>7. p \in Range(u.order) => Rediscovers(u, b)  BY <1>1, <1>4, <1>6 DEF Rediscovers
<1>8. Noted(u, t, b) /\ t.order # <<>>  BY <1>3, <1>5, <1>7, NotingAFile
<1> HIDE DEF t
<1>9. Touched(t)  BY <1>4, <1>8 DEF Noted, Touched
<1>10. Follows(s, t, b) /\ t.wf.revision = s.wf.revision  BY <1>8, <1>9 DEF Noted, Follows
<1> QED BY <1>8, <1>9, <1>10 DEF t

LEMMA CallForms ==
    ASSUME NEW call \in PolicyCalls
    PROVE  /\ call.tool \in {"read", "write", "list", "search", "git", "check"}
           /\ call.tool \in {"read", "write"} => call.path \in PolicyPaths
BY CallsAssumption

LEMMA EffectsFollow ==
    ASSUME NEW s, NEW b, Advised(s, b), NEW call \in PolicyCalls, NEW r
    PROVE  LET t == ObserveEffects(s, call, r)
           IN  /\ Follows(s, t, b) /\ t.wf.revision = s.wf.revision
               /\ r.ok /\ (call.tool = "write" \/ (call.tool = "read" /\ r.hits # {})) => Touched(t)
               /\ ~r.ok \/ call.tool = "check" => t = s
<1> DEFINE t == ObserveEffects(s, call, r)
           p == call.path
           u == [s EXCEPT !.files[p] = "fresh"]
           v == [s EXCEPT !.files[p] = "fresh", !.modified = @ \cup {p}]
<1>1. Formed(s)  BY DEF Advised
<1>2. CASE ~r.ok \/ call.tool \in {"check", "git"} \/ (call.tool = "read" /\ r.hits = {})
  <2>1. t = s  BY <1>2 DEF ObserveEffects
  <2> QED BY <1>2, <2>1 DEF Follows
<1>3. CASE r.ok /\ call.tool \in {"list", "search"}
  <2>1. t = NoteRelevantFiles(s, r.hits)  BY <1>3 DEF ObserveEffects
  <2> QED BY <1>3, <2>1, NotingFiles, NotedFollows
<1>4. CASE r.ok /\ call.tool = "read" /\ r.hits # {}
  <2>1. t = NoteRelevantFile(u, p) /\ p \in PolicyPaths  BY <1>4, CallForms DEF ObserveEffects
  <2>2. DOMAIN u = DOMAIN s /\ u.files = [s.files EXCEPT ![p] = "fresh"] /\ u.modified \subseteq PolicyPaths
        /\ u.wf = s.wf /\ u.dec = s.dec /\ u.guard = s.guard /\ u.phase = s.phase /\ u.order = s.order
        /\ u.changed = s.changed /\ u.key = s.key
    BY <1>1 DEF Formed, PolicyFields
  <2> HIDE DEF u, t
  <2>3. Follows(s, t, b) /\ t.wf.revision = s.wf.revision /\ Touched(t)
    BY <2>1, <2>2, FreshFile
  <2> QED BY <1>4, <2>3 DEF t
<1>5. CASE r.ok /\ call.tool = "write"
  <2>1. t = NoteRelevantFile(v, p) /\ p \in PolicyPaths  BY <1>5, CallForms DEF ObserveEffects
  <2>2. DOMAIN v = DOMAIN s /\ v.files = [s.files EXCEPT ![p] = "fresh"] /\ v.modified = s.modified \cup {p}
        /\ v.wf = s.wf /\ v.dec = s.dec /\ v.guard = s.guard /\ v.phase = s.phase /\ v.order = s.order
        /\ v.changed = s.changed /\ v.key = s.key
    BY <1>1 DEF Formed, PolicyFields
  <2>a. v.modified \subseteq PolicyPaths  BY <1>1, <2>1, <2>2 DEF Formed
  <2> HIDE DEF v, t
  <2>3. Follows(s, t, b) /\ t.wf.revision = s.wf.revision /\ Touched(t)
    BY <2>1, <2>2, <2>a, FreshFile
  <2> QED BY <1>5, <2>3 DEF t
<1> QED BY <1>2, <1>3, <1>4, <1>5, CallForms

LEMMA SettlingFollows ==
    ASSUME NEW s, NEW b, Advised(s, b), NEW call, NEW r, NEW keyed
    PROVE  LET t == SettleFailure(s, call, r, keyed)
           IN  Follows(s, t, b) /\ t.wf.revision = s.wf.revision /\ t.order = s.order
<1>1. CASE ~r.ok
  <2>1. SettleFailure(s, call, r, keyed) = NoteFailure(s, CallKey(call), r.code = "insufficient_evidence")
    BY <1>1 DEF SettleFailure
  <2> QED BY <2>1, NotingFailure, NotedFollows
<1>2. CASE r.ok /\ keyed
  <2>1. SettleFailure(s, call, r, keyed) = ForgetFailure(s, CallKey(call))
    BY <1>2 DEF SettleFailure
  <2>2. Steady(s, ForgetFailure(s, CallKey(call)))  BY ForgettingIsSteady DEF Advised
  <2> QED BY <2>1, <2>2, SteadyFollows DEF Steady
<1>3. CASE r.ok /\ ~keyed
  <2>1. SettleFailure(s, call, r, keyed) = s
    BY <1>3 DEF SettleFailure
  <2> QED BY <2>1 DEF Follows
<1> QED BY <1>1, <1>2, <1>3

LEMMA MutationsFollow ==
    ASSUME NEW s, NEW b, Advised(s, b), NEW call, NEW r,
           r.ok /\ call.tool = "write" => Touched(s)
    PROVE  LET t == ObserveMutation(s, call, r)
           IN  /\ Follows(s, t, b)
               /\ t.wf.revision = s.wf.revision + IF r.ok /\ call.tool = "write" THEN 1 ELSE 0
<1>1. CASE ~(r.ok /\ call.tool = "write")
  <2>1. ObserveMutation(s, call, r) = s  BY <1>1 DEF ObserveMutation
  <2>2. s.wf.revision + 0 = s.wf.revision  BY DEF Advised, Formed
  <2> QED BY <1>1, <2>1, <2>2 DEF Follows
<1>2. CASE r.ok /\ call.tool = "write"
  <2> DEFINE m == NoteMutation(s, call.path)
             t == NoteInspection(m)
             u == [t EXCEPT !.wf = SetVerificationPlan(t.wf, CheckPlan)]
  <2>1. ObserveMutation(s, call, r) = u  BY <1>2 DEF ObserveMutation
  <2>2. /\ Advised(m, b) /\ m.wf.revision = s.wf.revision + 1
        /\ m.files = s.files /\ m.changed = s.changed /\ m.guard = s.guard /\ m.order = s.order
        /\ m.key = s.key /\ m.dec.candidates = s.dec.candidates
    BY NotingMutation
  <2> HIDE DEF m
  <2>3. Touched(m)  BY <1>2, <2>2 DEF Touched
  <2>4. Follows(s, m, b)  BY <2>2, <2>3 DEF Follows
  <2>5. Noted(m, t, b)  BY <2>2, <2>3, NotingInspection
  <2>6. Follows(m, t, b) /\ t.wf.revision = m.wf.revision  BY <2>5, NotedFollows
  <2> HIDE DEF t
  <2>7. Steady(t, u)  BY <2>6, PlanningIsSteady DEF Follows, Advised
  <2>8. Follows(t, u, b) /\ u.wf.revision = t.wf.revision  BY <2>6, <2>7, SteadyFollows DEF Follows
  <2> HIDE DEF u
  <2>9. Follows(s, u, b) /\ u.wf.revision = s.wf.revision + 1
    BY <2>2, <2>4, <2>6, <2>8, FollowsTwice
  <2> QED BY <1>2, <2>1, <2>9
<1> QED BY <1>1, <1>2

LEMMA VerificationsFollow ==
    ASSUME NEW s, NEW b, Advised(s, b), NEW call, NEW r
    PROVE  LET t == ObserveVerification(s, call, r)
           IN  Follows(s, t, b) /\ t.wf.revision = s.wf.revision /\ t.order = s.order
<1> DEFINE passed == r.ok /\ (IF Verifies(call) THEN r.success ELSE r.hits # {})
           v == NoteVerification(s, IF call.tool = "check" THEN call.command ELSE call.tool, passed)
<1>1. ObserveVerification(s, call, r) = IF passed THEN ForgetFailure(v, CallKey(call))
                                        ELSE NoteFailure(v, CallKey(call), FALSE)
  BY DEF ObserveVerification
<1>2. /\ Advised(v, b) /\ v.wf.revision = s.wf.revision
      /\ v.files = s.files /\ v.changed = s.changed /\ v.guard = s.guard /\ v.order = s.order
      /\ v.key = s.key /\ v.dec.candidates = s.dec.candidates
  BY NotingVerification
<1> HIDE DEF v, passed
<1>3. Follows(s, v, b)  BY <1>2 DEF Follows, Touched
<1>4. CASE passed
  <2>1. Steady(v, ForgetFailure(v, CallKey(call)))  BY <1>2, ForgettingIsSteady DEF Advised
  <2> QED BY <1>1, <1>2, <1>3, <1>4, <2>1, SteadyFollows, FollowsTwice DEF Steady
<1>5. CASE ~passed
  <2>1. Noted(v, NoteFailure(v, CallKey(call), FALSE), b)
        /\ NoteFailure(v, CallKey(call), FALSE).order = v.order
    BY <1>2, NotingFailure
  <2> QED BY <1>1, <1>2, <1>3, <1>5, <2>1, NotedFollows, FollowsTwice
<1> QED BY <1>4, <1>5

\* With nothing stale, what is still to be discovered is carried over.
LEMMA ChangesSettle ==
    ASSUME NEW s, NEW b, Advised(s, b), NEW call, NEW r
    PROVE  LET t == SettleChange(s, call, r)
           IN  /\ Follows(s, t, b) /\ t.wf.revision = s.wf.revision
               /\ IF ~r.ok \/ call.tool = "check" THEN t = s ELSE t.changed => AnyStale(t)
<1> DEFINE t == [s EXCEPT !.changed = FALSE]
<1>1. SettleChange(s, call, r) = IF ~r.ok \/ call.tool = "check" \/ AnyStale(s) THEN s
                                 ELSE IF s.forStale THEN EndRecovery(t) ELSE t
  BY DEF SettleChange
<1>2. Formed(s) /\ AdviceOK(s, b)  BY DEF Advised
<1>3. CASE ~r.ok \/ call.tool = "check" \/ AnyStale(s)
  BY <1>1, <1>3 DEF Follows
<1>4. CASE ~(~r.ok \/ call.tool = "check" \/ AnyStale(s))
  <2>1. /\ DOMAIN t = DOMAIN s /\ t.wf = s.wf /\ t.dec = s.dec /\ t.order = s.order /\ t.files = s.files
        /\ t.changed = FALSE /\ t.guard = s.guard /\ t.modified = s.modified /\ t.key = s.key
        /\ t.phase = s.phase
    BY <1>2 DEF Formed, PolicyFields
  <2> HIDE DEF t
  <2>2. Formed(t)  BY <1>2, <2>1 DEF Formed
  <2>3. (Touched(t) <=> Touched(s)) /\ ~AnyStale(t) /\ (VerificationOpen(t) <=> VerificationOpen(s))
    BY <1>4, <2>1 DEF Touched, AnyStale, VerificationOpen
  <2>4. AdviceOK(t, b)  BY <1>2, <1>4, <2>1, <2>3 DEF AdviceOK, Known, Rediscovers
  <2>5. Follows(s, t, b) /\ t.wf.revision = s.wf.revision  BY <2>1, <2>2, <2>3, <2>4 DEF Follows, Advised
  <2>6. Steady(t, EndRecovery(t))  BY <2>2, EndingRecoveryIsSteady
  <2>7. Follows(t, EndRecovery(t), b) /\ EndRecovery(t).wf.revision = t.wf.revision
    BY <2>5, <2>6, SteadyFollows DEF Follows
  <2>8. ~EndRecovery(t).changed  BY <2>1, <2>6 DEF Steady
  <2> QED BY <1>1, <1>4, <2>1, <2>5, <2>7, <2>8, FollowsTwice
<1> QED BY <1>3, <1>4

\* While a change is not settled something was looked at, or nothing is relevant.
Unseen(s) == s.changed => Touched(s) \/ s.order = <<>>

LEMMA CallsFollow ==
    ASSUME NEW s, NEW b, Advised(s, b), NEW call \in PolicyCalls, NEW r
    PROVE  LET t == ObserveCall(s, call, r)
           IN  /\ Follows(s, t, b) /\ (Unseen(s) => Unseen(t))
               /\ t.wf.revision = s.wf.revision + IF r.ok /\ call.tool = "write" THEN 1 ELSE 0
<1> DEFINE focused  == IsFocused(s, call)
           keyed    == focused \/ Verifies(call) \/ ~r.ok \/ s.wf.failures # {}
           begun    == IF call.tool = "write" THEN BeginModification(s) ELSE s
           effects  == ObserveEffects(begun, call, r)
           settled  == SettleFailure(effects, call, r, keyed)
           mutated  == ObserveMutation(settled, call, r)
           verified == IF focused THEN ObserveVerification(mutated, call, r) ELSE mutated
           seen     == IF call.tool = "read" /\ r.ok /\ r.hits # {} THEN NoteInspection(verified) ELSE verified
<1>1. ObserveCall(s, call, r) = SettleChange(seen, call, r)  BY DEF ObserveCall
<1>2. Follows(s, begun, b) /\ begun.wf.revision = s.wf.revision /\ begun.order = s.order
  <2>1. Noted(s, BeginModification(s), b) /\ BeginModification(s).order = s.order  BY BeginningModification
  <2>2. Follows(s, s, b)  BY DEF Follows
  <2> QED BY <2>1, <2>2, NotedFollows
<1> HIDE DEF begun
<1>3. /\ Follows(begun, effects, b) /\ effects.wf.revision = begun.wf.revision
      /\ r.ok /\ (call.tool = "write" \/ (call.tool = "read" /\ r.hits # {})) => Touched(effects)
      /\ ~r.ok \/ call.tool = "check" => effects = begun
  BY <1>2, EffectsFollow DEF Follows
<1> HIDE DEF effects, keyed
<1>4. Follows(effects, settled, b) /\ settled.wf.revision = effects.wf.revision /\ settled.order = effects.order
  BY <1>3, SettlingFollows DEF Follows
<1> HIDE DEF settled
<1>5. r.ok /\ call.tool = "write" => Touched(settled)  BY <1>3, <1>4 DEF Follows
<1>6. /\ Follows(settled, mutated, b)
      /\ mutated.wf.revision = settled.wf.revision + IF r.ok /\ call.tool = "write" THEN 1 ELSE 0
      /\ ~r.ok \/ call.tool = "check" => mutated = settled
  <2>1. ~r.ok \/ call.tool = "check" => mutated = settled  BY DEF ObserveMutation
  <2> HIDE DEF mutated
  <2>2. /\ Follows(settled, mutated, b)
        /\ mutated.wf.revision = settled.wf.revision + IF r.ok /\ call.tool = "write" THEN 1 ELSE 0
    BY <1>4, <1>5, MutationsFollow DEF Follows, mutated
  <2> QED BY <2>1, <2>2
<1> HIDE DEF mutated
<1>7. Follows(mutated, verified, b) /\ verified.wf.revision = mutated.wf.revision
      /\ verified.order = mutated.order
  <2>1. Advised(mutated, b)  BY <1>6 DEF Follows
  <2>2. Follows(mutated, mutated, b)  BY <2>1 DEF Follows
  <2> QED BY <2>1, <2>2, VerificationsFollow
<1> HIDE DEF verified
<1>8. call.tool = "read" /\ r.ok /\ r.hits # {} => Touched(verified)  BY <1>3, <1>4, <1>6, <1>7 DEF Follows
<1>9. /\ Follows(verified, seen, b) /\ seen.wf.revision = verified.wf.revision
      /\ ~r.ok \/ call.tool = "check" => seen = verified
  <2>1. Advised(verified, b)  BY <1>7 DEF Follows
  <2>2. Follows(verified, verified, b)  BY <2>1 DEF Follows
  <2>3. CASE call.tool = "read" /\ r.ok /\ r.hits # {}
    BY <1>8, <2>1, <2>3, NotingInspection, NotedFollows
  <2>4. CASE ~(call.tool = "read" /\ r.ok /\ r.hits # {})
    BY <2>2, <2>4
  <2> QED BY <2>3, <2>4
<1> HIDE DEF seen
<1> DEFINE t == SettleChange(seen, call, r)
<1>11. /\ Follows(seen, t, b) /\ t.wf.revision = seen.wf.revision
       /\ IF ~r.ok \/ call.tool = "check" THEN t = seen ELSE t.changed => AnyStale(t)
  BY <1>9, ChangesSettle DEF Follows
<1> HIDE DEF t
<1>12. Follows(s, effects, b)  BY <1>2, <1>3, FollowsTwice
<1>13. Follows(s, mutated, b)  BY <1>4, <1>6, <1>12, FollowsTwice
<1>14. Follows(s, t, b)  BY <1>7, <1>9, <1>11, <1>13, FollowsTwice
<1>15. t.wf.revision = s.wf.revision + IF r.ok /\ call.tool = "write" THEN 1 ELSE 0
  BY <1>2, <1>3, <1>4, <1>6, <1>7, <1>9, <1>11
<1>16. Unseen(s) => Unseen(t)
  <2>1. CASE ~r.ok \/ call.tool = "check"
    <3>1. t.order = s.order  BY <1>2, <1>3, <1>4, <1>6, <1>7, <1>9, <1>11, <2>1
    <3> QED BY <1>14, <3>1 DEF Follows, Unseen
  <2>2. CASE ~(~r.ok \/ call.tool = "check")
    BY <1>11, <2>2 DEF Unseen, AnyStale, Touched
  <2> QED BY <2>1, <2>2
<1> QED BY <1>1, <1>14, <1>15, <1>16 DEF t

(***************************************************************************)
(* The policy's candidates: ranked, selected, put in and refreshed.        *)
(***************************************************************************)

\* Sets that are ranked by score and path.
Rankable(S) == IsFiniteSet(S) /\ \A a \in S : a.score \in Nat /\ a.path \in Nat

LEMMA ImageIsFinite ==
    ASSUME NEW S, IsFiniteSet(S), NEW f, DOMAIN f = S
    PROVE  IsFiniteSet({f[x] : x \in S})
<1> DEFINE T == {f[x] : x \in S}
           g == [x \in S |-> f[x]]
<1>1. g \in Surjection(S, T)  BY DEF Surjection
<1> HIDE DEF g, T
<1>2. IsFiniteSet(T)  BY <1>1, FS_Surjection
<1> QED BY <1>2 DEF T

\* None is ahead of the one that the fewest are ahead of.
LEMMA ForemostExists ==
    ASSUME NEW S, Rankable(S), S # {}
    PROVE  Foremost(S) \in S
<1> DEFINE Before(a) == {x \in S : Ahead(x, a)}
           T == {Cardinality(Before(a)) : a \in S}
<1>1. IsFiniteSet(S) /\ \A a \in S : a.score \in Nat /\ a.path \in Nat  BY DEF Rankable
<1>2. \A a \in S : IsFiniteSet(Before(a)) /\ Cardinality(Before(a)) \in Nat
  <2> TAKE a \in S
  <2>1. Before(a) \in SUBSET S  OBVIOUS
  <2> HIDE DEF Before
  <2>2. IsFiniteSet(Before(a))  BY <1>1, <2>1, FS_Subset
  <2> QED BY <2>2, FS_CardinalityType
<1>3. PICK a \in S : \A b \in S : Cardinality(Before(a)) <= Cardinality(Before(b))
  <2>1. T \subseteq Nat  BY <1>2
  <2>2. T # {}  OBVIOUS
  <2>3. \A t \in T : \E a \in S : t = Cardinality(Before(a))  OBVIOUS
  <2>4. \A a \in S : Cardinality(Before(a)) \in T  OBVIOUS
  <2> HIDE DEF T, Before
  <2>5. PICK t \in T : \A u \in T : t <= u  BY <2>1, <2>2, NatLeast
  <2>6. PICK a \in S : t = Cardinality(Before(a))  BY <2>3, <2>5
  <2> QED BY <2>4, <2>5, <2>6
<1>4. \A b \in S : ~Ahead(b, a)
  <2> SUFFICES ASSUME NEW b \in S, Ahead(b, a) PROVE FALSE
    OBVIOUS
  <2>1. \A x \in S : Ahead(x, b) => Ahead(x, a)  BY <1>1 DEF Ahead
  <2>2. ~Ahead(b, b)  BY <1>1 DEF Ahead
  <2>3. Before(b) \in SUBSET Before(a) /\ b \in Before(a) /\ b \notin Before(b)  BY <2>1, <2>2
  <2> HIDE DEF Before
  <2>4. Cardinality(Before(b)) <= Cardinality(Before(a))
        /\ (Cardinality(Before(a)) = Cardinality(Before(b)) => Before(a) = Before(b))
    BY <1>2, <2>3, FS_Subset
  <2>5. Cardinality(Before(a)) # Cardinality(Before(b))  BY <2>3, <2>4
  <2> QED BY <1>2, <1>3, <2>4, <2>5
<1> QED BY <1>4 DEF Foremost

\* What is left of the members when the first are taken.
RankedInOrder(rest, S) ==
    /\ rest[0] = S
    /\ \A i \in 1 .. Cardinality(S) : rest[i] = rest[i - 1] \ {Foremost(rest[i - 1])}
    /\ Ranked(S) = [i \in 1 .. Cardinality(S) |-> Foremost(rest[i - 1])]

LEMMA TakenInOrder ==
    ASSUME NEW A, Cardinality(A) \in Nat
    PROVE  \E rest : RankedInOrder(rest, A)
<1> DEFINE Goes(f, m) == f = [i \in 0 .. m |-> IF i = 0 THEN A ELSE f[i - 1] \ {Foremost(f[i - 1])}]
           S == {m \in Nat : \E f : Goes(f, m)}
<1>1. 0 \in S
  <2> DEFINE f == [i \in 0 .. 0 |-> A]
  <2>1. f = [i \in 0 .. 0 |-> IF i = 0 THEN A ELSE f[i - 1] \ {Foremost(f[i - 1])}]  OBVIOUS
  <2> HIDE DEF f
  <2>2. Goes(f, 0)  BY <2>1
  <2> QED BY <2>2
<1>2. ASSUME NEW m \in Nat, m \in S PROVE m + 1 \in S
  <2>1. PICK f : Goes(f, m)  BY <1>2
  <2> DEFINE step == f[m] \ {Foremost(f[m])}
             g == [i \in 0 .. (m + 1) |-> IF i <= m THEN f[i] ELSE step]
  <2>2. \A i \in 0 .. m : f[i] = IF i = 0 THEN A ELSE f[i - 1] \ {Foremost(f[i - 1])}  BY <2>1
  <2>3. \A i \in 0 .. m : g[i] = f[i]  OBVIOUS
  <2>4. g[m + 1] = step  OBVIOUS
  <2>5. \A i \in 0 .. (m + 1) : g[i] = IF i = 0 THEN A ELSE g[i - 1] \ {Foremost(g[i - 1])}
    <3> TAKE i \in 0 .. (m + 1)
    <3>1. CASE i = m + 1
      <4>1. i # 0 /\ i - 1 = m /\ m \in 0 .. m  BY <3>1
      <4>2. g[m] = f[m]  BY <2>3, <4>1
      <4> HIDE DEF g
      <4> QED BY <3>1, <4>1, <4>2, <2>4
    <3>2. CASE i \in 0 .. m
      <4>1. i = 0 \/ i - 1 \in 0 .. m  BY <3>2
      <4>2. g[i] = f[i] /\ (i # 0 => g[i - 1] = f[i - 1])  BY <2>3, <3>2, <4>1
      <4> HIDE DEF g
      <4> QED BY <4>2, <3>2, <2>2
    <3> QED BY <3>1, <3>2
  <2>6. DOMAIN g = 0 .. (m + 1) /\ g = [i \in 0 .. (m + 1) |-> g[i]]  OBVIOUS
  <2> HIDE DEF g
  <2>7. Goes(g, m + 1)  BY <2>5, <2>6
  <2> QED BY <2>7
<1> DEFINE N == Cardinality(A)
<1>3. N \in S
  <2> HIDE DEF S
  <2> QED BY <1>1, <1>2, Induction
<1>4. \E f : Goes(f, N)  BY <1>3
<1> DEFINE rest == CHOOSE f : Goes(f, N)
<1>5. Goes(rest, N)  BY <1>4
<1>6. Ranked(A) = [i \in 1 .. N |-> Foremost(rest[i - 1])]  BY DEF Ranked
<1>n. N \in Nat  OBVIOUS
<1> HIDE DEF rest, N
<1>7. \A i \in 0 .. N : rest[i] = IF i = 0 THEN A ELSE rest[i - 1] \ {Foremost(rest[i - 1])}  BY <1>5
<1>m. 0 \in 0 .. N /\ \A i \in 1 .. N : i \in 0 .. N /\ i # 0  BY <1>n
<1>8. rest[0] = A  BY <1>7, <1>m
<1>9. \A i \in 1 .. N : rest[i] = rest[i - 1] \ {Foremost(rest[i - 1])}  BY <1>7, <1>m
<1> QED BY <1>6, <1>8, <1>9 DEF RankedInOrder, N

LEMMA RankedType ==
    ASSUME NEW S, Rankable(S)
    PROVE  Ranked(S) \in Seq(S) /\ (S # {} => Ranked(S) # <<>>)
<1> DEFINE N == Cardinality(S)
<1>1. IsFiniteSet(S) /\ N \in Nat  BY FS_CardinalityType DEF Rankable
<1>2. PICK rest : RankedInOrder(rest, S)  BY <1>1, TakenInOrder
<1>3. /\ rest[0] = S
      /\ \A i \in 1 .. N : rest[i] = rest[i - 1] \ {Foremost(rest[i - 1])}
      /\ Ranked(S) = [i \in 1 .. N |-> Foremost(rest[i - 1])]
  BY <1>2 DEF RankedInOrder
<1> HIDE DEF N
<1> DEFINE T == {i \in Nat : i <= N => rest[i] \subseteq S /\ IsFiniteSet(rest[i]) /\ Cardinality(rest[i]) = N - i}
<1>4. 0 \in T  BY <1>1, <1>3 DEF N
<1>5. ASSUME NEW i \in Nat, rest[i] \subseteq S, IsFiniteSet(rest[i]), Cardinality(rest[i]) = N - i, i + 1 <= N
      PROVE  Foremost(rest[i]) \in rest[i]
  <2>1. Cardinality(rest[i]) # 0  BY <1>1, <1>5
  <2>2. rest[i] # {}  BY <2>1, FS_EmptySet
  <2>3. Rankable(rest[i])  BY <1>5 DEF Rankable
  <2> QED BY <2>2, <2>3, ForemostExists
<1>6. ASSUME NEW i \in Nat, i \in T PROVE i + 1 \in T
  <2> SUFFICES ASSUME i + 1 <= N
               PROVE  rest[i + 1] \subseteq S /\ IsFiniteSet(rest[i + 1]) /\ Cardinality(rest[i + 1]) = N - (i + 1)
    OBVIOUS
  <2>1. i <= N /\ i + 1 \in 1 .. N /\ (i + 1) - 1 = i  BY <1>1
  <2>2. rest[i] \subseteq S /\ IsFiniteSet(rest[i]) /\ Cardinality(rest[i]) = N - i  BY <1>6, <2>1
  <2>3. Foremost(rest[i]) \in rest[i]  BY <1>5, <2>2
  <2>4. rest[i + 1] = rest[i] \ {Foremost(rest[i])}  BY <1>3, <2>1
  <2>5. IsFiniteSet(rest[i + 1]) /\ Cardinality(rest[i + 1]) = Cardinality(rest[i]) - 1
    BY <2>2, <2>3, <2>4, FS_RemoveElement
  <2>6. (N - i) - 1 = N - (i + 1)  BY <1>1
  <2> QED BY <2>2, <2>4, <2>5, <2>6
<1>7. Nat \subseteq T
  <2> HIDE DEF T
  <2> QED BY <1>4, <1>6, Induction
<1>8. \A i \in 1 .. N : Foremost(rest[i - 1]) \in S
  <2> TAKE i \in 1 .. N
  <2>1. i - 1 \in Nat /\ i - 1 <= N /\ (i - 1) + 1 <= N  BY <1>1
  <2>2. i - 1 \in T  BY <1>7, <2>1
  <2>3. rest[i - 1] \subseteq S /\ IsFiniteSet(rest[i - 1]) /\ Cardinality(rest[i - 1]) = N - (i - 1)
    BY <2>1, <2>2
  <2>4. Foremost(rest[i - 1]) \in rest[i - 1]  BY <1>5, <2>1, <2>3
  <2> QED BY <2>3, <2>4
<1>9. Ranked(S) \in Seq(S) /\ Len(Ranked(S)) = N  BY <1>1, <1>3, <1>8
<1>10. S # {} => N # 0  BY <1>1, FS_EmptySet DEF N
<1> QED BY <1>9, <1>10

\* The best of a set, as many as there is room for.
LEMMA BestType ==
    ASSUME NEW S, Rankable(S), NEW n \in Nat \ {0}
    PROVE  Oldest(Ranked(S), n) \in Seq(S) /\ (S # {} => Oldest(Ranked(S), n) # <<>>)
<1> DEFINE q == Ranked(S)
<1>1. q \in Seq(S) /\ (S # {} => q # <<>>)  BY RankedType
<1> HIDE DEF q
<1>2. Oldest(q, n) \in Seq(S)  BY <1>1, OldestType
<1>3. CASE Len(q) > n
  <2>1. Oldest(q, n) = SubSeq(q, 1, n)  BY <1>3 DEF Oldest
  <2>2. Len(SubSeq(q, 1, n)) = n  BY <1>1, <1>3
  <2>3. Len(<<>>) = 0 /\ n # 0  OBVIOUS
  <2>4. Oldest(q, n) # <<>>  BY <2>1, <2>2, <2>3
  <2> QED BY <1>2, <2>4 DEF q
<1>4. CASE ~(Len(q) > n)
  <2>1. Oldest(q, n) = q  BY <1>4 DEF Oldest
  <2> QED BY <1>1, <2>1 DEF q
<1> QED BY <1>3, <1>4

LEMMA PathsAreNumbers ==
    PathCount \in Nat /\ IsFiniteSet(PolicyPaths) /\ PolicyPaths \subseteq Nat \ {0}
<1>1. PathCount \in Nat  BY PolicyAssumption
<1>2. IsFiniteSet(1 .. PathCount)  BY <1>1, FS_Interval
<1> QED BY <1>1, <1>2 DEF PolicyPaths

LEMMA LargerOfTwo ==
    ASSUME NEW a \in Nat, NEW b \in Nat
    PROVE  Max({a, b}) \in Nat
<1>1. \E x \in {a, b} : \A y \in {a, b} : x >= y
  <2>1. CASE a >= b
    <3>1. \A y \in {a, b} : a >= y  BY <2>1
    <3> QED BY <3>1
  <2>2. CASE ~(a >= b)
    <3>1. \A y \in {a, b} : b >= y  BY <2>2
    <3> QED BY <3>1
  <2> QED BY <2>1, <2>2
<1>2. Max({a, b}) \in {a, b}  BY <1>1 DEF Max
<1> QED BY <1>2

LEMMA ListIsFinite ==
    ASSUME NEW A, NEW q \in Seq(A)
    PROVE  IsFiniteSet(Range(q)) /\ Range(q) \subseteq A /\ (q # <<>> => Range(q) # {})
<1>1. DOMAIN q = 1 .. Len(q) /\ Len(q) \in Nat  OBVIOUS
<1>2. IsFiniteSet(1 .. Len(q))  BY <1>1, FS_Interval
<1>3. IsFiniteSet({q[i] : i \in 1 .. Len(q)})  BY <1>1, <1>2, ImageIsFinite
<1>4. Range(q) = {q[i] : i \in 1 .. Len(q)}  BY <1>1 DEF Range
<1>5. {q[i] : i \in 1 .. Len(q)} \subseteq A  OBVIOUS
<1>6. q # <<>> => 1 \in 1 .. Len(q)  OBVIOUS
<1> QED BY <1>3, <1>4, <1>5, <1>6

LEMMA CandidatesSorted ==
    ASSUME NEW S, IsFiniteSet(S), S \subseteq Candidates
    PROVE  SortCandidates(S) \in Seq(S) /\ (S # {} => SortCandidates(S) # <<>>)
<1>1. Rankable(S)  BY PathsAreNumbers DEF Rankable, Candidates
<1> QED BY <1>1, BestType, PolicyAssumption DEF SortCandidates

\* Some of the candidates are known to have been inspected.
SomeInspected(cands) == \E i \in DOMAIN cands : cands[i].inspected

LEMMA MembersOf ==
    ASSUME NEW S, NEW q \in Seq(S)
    PROVE  \A i \in DOMAIN q : q[i] \in S
OBVIOUS

LEMMA UpsertedCandidates ==
    ASSUME NEW cands \in Seq(Candidates), NEW path \in PolicyPaths, NEW score \in Nat,
           NEW inspected \in BOOLEAN, NEW stale \in BOOLEAN
    PROVE  LET out == UpsertCandidate(cands, path, score, inspected, stale)
           IN  /\ out \in Seq(Candidates) /\ out # <<>>
               /\ SomeInspected(out) => inspected \/ SomeInspected(cands)
<1> DEFINE known == {c \in Range(cands) : c.path = path}
           old == CHOOSE c \in known : TRUE
           new == [path |-> path, score |-> score, inspected |-> inspected, stale |-> stale]
           most == [new EXCEPT !.score = IF old.score > score THEN old.score ELSE score,
                               !.inspected = inspected \/ old.inspected]
           S == IF known = {} THEN Range(cands) \cup {new} ELSE (Range(cands) \ {old}) \cup {most}
           out == UpsertCandidate(cands, path, score, inspected, stale)
<1>1. out = SortCandidates(S)  BY DEF UpsertCandidate
<1>2. IsFiniteSet(Range(cands)) /\ Range(cands) \subseteq Candidates  BY ListIsFinite
<1>3. new \in Candidates /\ new.inspected = inspected  BY DEF Candidates
<1>4. known # {} => old \in Range(cands)  OBVIOUS
<1>5. known # {} => most \in Candidates /\ most.inspected = (inspected \/ old.inspected)
  <2> HIDE DEF known, old
  <2>1. known # {} => old.score \in Nat /\ old.inspected \in BOOLEAN  BY <1>2, <1>4 DEF Candidates
  <2> QED BY <2>1 DEF Candidates
<1> HIDE DEF known, old, new, most, out
<1>6. IsFiniteSet(S) /\ S \subseteq Candidates /\ S # {}
  <2>1. CASE known = {}
    <3>1. IsFiniteSet(Range(cands) \cup {new})  BY <1>2, FS_AddElement
    <3> QED BY <1>2, <1>3, <2>1, <3>1
  <2>2. CASE known # {}
    <3>1. IsFiniteSet(Range(cands) \ {old})  BY <1>2, FS_RemoveElement
    <3>2. IsFiniteSet((Range(cands) \ {old}) \cup {most})  BY <3>1, FS_AddElement
    <3> QED BY <1>2, <1>5, <2>2, <3>2
  <2> QED BY <2>1, <2>2
<1>7. \A c \in S : c.inspected => inspected \/ \E d \in Range(cands) : d.inspected
  BY <1>3, <1>4, <1>5
<1> HIDE DEF S
<1>8. out \in Seq(S) /\ out # <<>>  BY <1>1, <1>6, CandidatesSorted
<1>9. \A i \in DOMAIN out : out[i] \in S  BY <1>8, MembersOf
<1>10. \A d \in Range(cands) : d.inspected => SomeInspected(cands)  BY DEF Range, SomeInspected
<1>11. SomeInspected(out) => inspected \/ SomeInspected(cands)
  BY <1>7, <1>9, <1>10 DEF SomeInspected
<1>12. out \in Seq(Candidates)  BY <1>6, <1>8
<1> QED BY <1>8, <1>11, <1>12 DEF out

\* The selections are upserted one after the other.
UpsertedInOrder(after, cands, looked, found, N) ==
    /\ after[0] = cands /\ after[N] = UpsertSelections(cands, looked, found)
    /\ \A i \in 1 .. N :
          after[i] = UpsertCandidate(after[i - 1], found[i].path, found[i].score,
                                     looked[found[i].path] = "fresh", looked[found[i].path] = "stale")

LEMMA SelectionsInOrder ==
    ASSUME NEW cands, NEW looked, NEW found, NEW N \in Nat, Len(found) = N
    PROVE  \E after : UpsertedInOrder(after, cands, looked, found, N)
<1> DEFINE Enter(c, i) == UpsertCandidate(c, found[i].path, found[i].score,
                                        looked[found[i].path] = "fresh", looked[found[i].path] = "stale")
           Goes(f, m) == f = [i \in 0 .. m |-> IF i = 0 THEN cands ELSE Enter(f[i - 1], i)]
           S == {m \in Nat : \E f : Goes(f, m)}
<1>1. 0 \in S
  <2> DEFINE f == [i \in 0 .. 0 |-> cands]
  <2>1. f = [i \in 0 .. 0 |-> IF i = 0 THEN cands ELSE Enter(f[i - 1], i)]
    <3> HIDE DEF Enter
    <3> QED OBVIOUS
  <2> HIDE DEF f
  <2>2. Goes(f, 0)  BY <2>1
  <2> QED BY <2>2
<1>2. ASSUME NEW m \in Nat, m \in S PROVE m + 1 \in S
  <2> HIDE DEF Enter
  <2>1. PICK f : Goes(f, m)  BY <1>2
  <2> DEFINE step == Enter(f[m], m + 1)
             g == [i \in 0 .. (m + 1) |-> IF i <= m THEN f[i] ELSE step]
  <2>2. \A i \in 0 .. m : f[i] = IF i = 0 THEN cands ELSE Enter(f[i - 1], i)  BY <2>1
  <2>3. \A i \in 0 .. m : g[i] = f[i]  OBVIOUS
  <2>4. g[m + 1] = step  OBVIOUS
  <2>5. \A i \in 0 .. (m + 1) : g[i] = IF i = 0 THEN cands ELSE Enter(g[i - 1], i)
    <3> TAKE i \in 0 .. (m + 1)
    <3>1. CASE i = m + 1
      <4>1. i # 0 /\ i - 1 = m /\ m \in 0 .. m  BY <3>1
      <4>2. g[m] = f[m]  BY <2>3, <4>1
      <4> HIDE DEF g
      <4> QED BY <3>1, <4>1, <4>2, <2>4
    <3>2. CASE i \in 0 .. m
      <4>1. i = 0 \/ i - 1 \in 0 .. m  BY <3>2
      <4>2. g[i] = f[i] /\ (i # 0 => g[i - 1] = f[i - 1])  BY <2>3, <3>2, <4>1
      <4> HIDE DEF g
      <4> QED BY <4>2, <3>2, <2>2
    <3> QED BY <3>1, <3>2
  <2>6. DOMAIN g = 0 .. (m + 1) /\ g = [i \in 0 .. (m + 1) |-> g[i]]  OBVIOUS
  <2> HIDE DEF g
  <2>7. Goes(g, m + 1)  BY <2>5, <2>6
  <2> QED BY <2>7
<1>3. N \in S
  <2> HIDE DEF S
  <2> QED BY <1>1, <1>2, Induction
<1>4. \E f : Goes(f, N)  BY <1>3
<1> DEFINE after == CHOOSE f : Goes(f, N)
<1>5. Goes(after, N)  BY <1>4
<1>6. UpsertSelections(cands, looked, found) = after[N]  BY DEF UpsertSelections
<1> HIDE DEF after, Enter
<1>7. \A i \in 0 .. N : after[i] = IF i = 0 THEN cands ELSE Enter(after[i - 1], i)  BY <1>5
<1>8. after[0] = cands  BY <1>7
<1>9. \A i \in 1 .. N : after[i] = Enter(after[i - 1], i)  BY <1>7
<1> QED BY <1>6, <1>8, <1>9 DEF UpsertedInOrder, Enter

Selected == [path : PolicyPaths, score : Nat, symbol : BOOLEAN, kind : {"symbol", "relationship"}]

LEMMA UpsertedSelections ==
    ASSUME NEW cands \in Seq(Candidates), NEW looked \in [PolicyPaths -> {"none", "fresh", "stale"}],
           NEW found \in Seq(Selected)
    PROVE  LET out == UpsertSelections(cands, looked, found)
           IN  /\ out \in Seq(Candidates) /\ (found # <<>> => out # <<>>)
               /\ SomeInspected(out) => SomeInspected(cands) \/ \E p \in PolicyPaths : looked[p] # "none"
<1> DEFINE N == Len(found)
           seen == \E p \in PolicyPaths : looked[p] # "none"
<1>1. N \in Nat /\ (found # <<>> => N # 0)  OBVIOUS
<1>2. PICK after : UpsertedInOrder(after, cands, looked, found, N)  BY <1>1, SelectionsInOrder
<1>3. \A i \in 1 .. N : found[i] \in Selected  OBVIOUS
<1> HIDE DEF N
<1> DEFINE T == {i \in Nat : i <= N => /\ after[i] \in Seq(Candidates)
                                       /\ i # 0 => after[i] # <<>>
                                       /\ SomeInspected(after[i]) => SomeInspected(cands) \/ seen}
<1>4. /\ after[0] = cands /\ after[N] = UpsertSelections(cands, looked, found)
      /\ \A i \in 1 .. N :
          after[i] = UpsertCandidate(after[i - 1], found[i].path, found[i].score,
                                     looked[found[i].path] = "fresh", looked[found[i].path] = "stale")
  BY <1>2 DEF UpsertedInOrder
<1>5. 0 \in T  BY <1>4
<1> HIDE DEF seen
<1>6. ASSUME NEW i \in Nat, i \in T PROVE i + 1 \in T
  <2> SUFFICES ASSUME i + 1 <= N
               PROVE  /\ after[i + 1] \in Seq(Candidates) /\ after[i + 1] # <<>>
                      /\ SomeInspected(after[i + 1]) => SomeInspected(cands) \/ seen
    OBVIOUS
  <2>1. i <= N /\ i + 1 \in 1 .. N /\ (i + 1) - 1 = i  BY <1>1
  <2>2. after[i] \in Seq(Candidates) /\ (SomeInspected(after[i]) => SomeInspected(cands) \/ seen)
    BY <1>6, <2>1
  <2> DEFINE p == found[i + 1].path
             x == found[i + 1].score
  <2>3. p \in PolicyPaths /\ x \in Nat  BY <1>3, <2>1 DEF Selected
  <2> DEFINE fresh == looked[p] = "fresh"
             stale == looked[p] = "stale"
  <2>4. after[i + 1] = UpsertCandidate(after[i], p, x, fresh, stale)
    BY <1>4, <2>1
  <2>5. fresh => seen  BY <2>3 DEF seen
  <2>6. fresh \in BOOLEAN /\ stale \in BOOLEAN  OBVIOUS
  <2> HIDE DEF p, x, fresh, stale, T
  <2>7. /\ after[i + 1] \in Seq(Candidates) /\ after[i + 1] # <<>>
        /\ SomeInspected(after[i + 1]) => fresh \/ SomeInspected(after[i])
    BY <2>2, <2>3, <2>4, <2>6, UpsertedCandidates
  <2> QED BY <2>2, <2>5, <2>7
<1>7. N \in T
  <2> HIDE DEF T
  <2> QED BY <1>1, <1>5, <1>6, Induction
<1>8. /\ after[N] \in Seq(Candidates) /\ (N # 0 => after[N] # <<>>)
      /\ SomeInspected(after[N]) => SomeInspected(cands) \/ seen
  BY <1>1, <1>7
<1> QED BY <1>1, <1>4, <1>8 DEF seen

LEMMA ScoresOfPaths ==
    /\ \A p \in PolicyPaths : SymbolMatchScore[p] \in Nat /\ RelatedScore[p] \in Nat
    /\ \A p \in PolicyPaths : Max({32, RelatedScore[p]}) \in Nat
<1>1. \A p \in PolicyPaths : SymbolMatchScore[p] \in Nat /\ RelatedScore[p] \in Nat
  BY PolicyAssumption
<1>2. \A p \in PolicyPaths : Max({32, RelatedScore[p]}) \in Nat
  BY <1>1, LargerOfTwo
<1> QED BY <1>1, <1>2

LEMMA SelectionsOfPaths ==
    ASSUME NEW paths, paths \subseteq PolicyPaths
    PROVE  TargetedSelections(paths) \in Seq(Selected) /\ (paths # {} => TargetedSelections(paths) # <<>>)
<1> DEFINE File(p) == [path |-> p, score |-> Max({32, RelatedScore[p]}), symbol |-> RelatedScore[p] > 0,
                       kind |-> "symbol"]
           Sym(p)  == [path |-> p, score |-> SymbolMatchScore[p], symbol |-> TRUE, kind |-> "symbol"]
           Test(p) == [path |-> p, score |-> RelatedScore[p], symbol |-> TRUE, kind |-> "relationship"]
           symPaths  == {q \in paths : SymbolMatchScore[q] > 0}
           testPaths == {q \in PolicyPaths \ paths : paths # {} /\ RelatedScore[q] > 0}
           whole == {File(p) : p \in paths}
           syms  == {Sym(p) : p \in symPaths}
           tests == {Test(p) : p \in testPaths}
           all   == whole \cup syms \cup tests
<1>1. TargetedSelections(paths) = Oldest(Ranked(all), MaxSelections)  BY DEF TargetedSelections
<1>2. IsFiniteSet(paths) /\ IsFiniteSet(symPaths) /\ IsFiniteSet(testPaths)
  <2>1. paths \in SUBSET PolicyPaths /\ symPaths \in SUBSET PolicyPaths /\ testPaths \in SUBSET PolicyPaths
    OBVIOUS
  <2> HIDE DEF symPaths, testPaths
  <2> QED BY <2>1, PathsAreNumbers, FS_Subset
<1>3. /\ \A p \in PolicyPaths : File(p) \in Selected /\ Sym(p) \in Selected /\ Test(p) \in Selected
  BY ScoresOfPaths DEF Selected
<1>4. symPaths \subseteq PolicyPaths /\ testPaths \subseteq PolicyPaths  OBVIOUS
<1> HIDE DEF File, Sym, Test, symPaths, testPaths
<1>5. IsFiniteSet(whole) /\ IsFiniteSet(syms) /\ IsFiniteSet(tests)
  <2> DEFINE f == [p \in paths |-> File(p)]
             g == [p \in symPaths |-> Sym(p)]
             h == [p \in testPaths |-> Test(p)]
  <2>1. whole = {f[p] : p \in paths} /\ syms = {g[p] : p \in symPaths} /\ tests = {h[p] : p \in testPaths}
    OBVIOUS
  <2>2. DOMAIN f = paths /\ DOMAIN g = symPaths /\ DOMAIN h = testPaths  OBVIOUS
  <2> HIDE DEF f, g, h, whole, syms, tests
  <2>3. /\ IsFiniteSet({f[p] : p \in paths}) /\ IsFiniteSet({g[p] : p \in symPaths})
        /\ IsFiniteSet({h[p] : p \in testPaths})
    BY <1>2, <2>2, ImageIsFinite
  <2> QED BY <2>1, <2>3
<1>6. whole \subseteq Selected /\ syms \subseteq Selected /\ tests \subseteq Selected
      /\ (paths # {} => whole # {})
  BY <1>3, <1>4
<1> HIDE DEF whole, syms, tests
<1>7. IsFiniteSet(all) /\ all \subseteq Selected /\ (paths # {} => all # {})
  <2>1. IsFiniteSet(whole \cup syms)  BY <1>5, FS_Union
  <2>2. IsFiniteSet((whole \cup syms) \cup tests)  BY <1>5, <2>1, FS_Union
  <2> QED BY <1>6, <2>2
<1> HIDE DEF all
<1>8. Rankable(all)  BY <1>7, PathsAreNumbers DEF Rankable, Selected
<1>9. MaxSelections \in Nat \ {0}  BY PolicyAssumption
<1>10. Oldest(Ranked(all), MaxSelections) \in Seq(all) /\ (all # {} => Oldest(Ranked(all), MaxSelections) # <<>>)
  BY <1>8, <1>9, BestType
<1> DEFINE q == Oldest(Ranked(all), MaxSelections)
<1>11. q \in Seq(all) /\ (all # {} => q # <<>>)  BY <1>10
<1> HIDE DEF q
<1>12. q \in Seq(Selected)  BY <1>7, <1>11
<1> QED BY <1>1, <1>7, <1>11, <1>12 DEF q

LEMMA TaskPathsType ==
    ASSUME NEW s, Formed(s)
    PROVE  /\ TaskPaths(s) \in Seq(PolicyPaths) /\ (s.order # <<>> => TaskPaths(s) # <<>>)
           /\ s.order = <<>> /\ s.modified = {} /\ ~Touched(s) => TaskPaths(s) = <<>>
<1> DEFINE all == [p \in PolicyPaths |-> p]
           others == (s.modified \cup {p \in PolicyPaths : s.files[p] # "none"}) \ Range(s.order)
           rest == Sift(all, others)
<1>1. all \in Seq(PolicyPaths)  BY PathsAreNumbers DEF PolicyPaths
<1> HIDE DEF others, all
<1>2. /\ rest \in Seq(PolicyPaths)
      /\ \A i \in DOMAIN rest : rest[i] \in others
  BY <1>1, SiftMembers
<1>e. s.modified = {} /\ ~Touched(s) => rest = <<>>
  <2> SUFFICES ASSUME s.modified = {}, ~Touched(s) PROVE rest = <<>>
    OBVIOUS
  <2>1. others = {}  BY DEF others, Touched
  <2>2. DOMAIN rest = {}  BY <1>2, <2>1
  <2>3. DOMAIN rest = 1 .. Len(rest) /\ Len(rest) \in Nat  BY <1>2
  <2>4. Len(rest) = 0  BY <2>2, <2>3
  <2> QED BY <1>2, <2>4
<1>3. TaskPaths(s) = s.order \o rest  BY DEF TaskPaths, others, all
<1> HIDE DEF rest
<1>4. s.order \in Seq(PolicyPaths)  BY DEF Formed
<1>5. s.order \o rest \in Seq(PolicyPaths) /\ Len(s.order \o rest) = Len(s.order) + Len(rest)
  BY <1>2, <1>4
<1>6. s.order # <<>> => Len(s.order) # 0 /\ Len(s.order) \in Nat /\ Len(rest) \in Nat  BY <1>2, <1>4
<1>7. Len(<<>>) = 0 /\ <<>> \o <<>> = <<>>  OBVIOUS
<1> QED BY <1>3, <1>5, <1>6, <1>7, <1>e

LEMMA SelectionsOfTheMap ==
    ASSUME NEW s, Formed(s)
    PROVE  MapSelections(s) \in Seq(Selected) /\ (TaskPaths(s) # <<>> => MapSelections(s) # <<>>)
<1> DEFINE paths == TaskPaths(s)
           matching == {p \in PolicyPaths : SymbolMatchScore[p] > 0}
<1>1. paths \in Seq(PolicyPaths)  BY TaskPathsType
<1>2. MapSelections(s) = IF paths = <<>> THEN TargetedSelections(matching) ELSE TargetedSelections(Range(paths))
  BY DEF MapSelections
<1>3. matching \subseteq PolicyPaths  OBVIOUS
<1> HIDE DEF paths, matching
<1>4. Range(paths) \subseteq PolicyPaths /\ (paths # <<>> => Range(paths) # {})  BY <1>1, ListIsFinite
<1> QED BY <1>2, <1>3, <1>4, SelectionsOfPaths DEF paths

LEMMA NextActionIsSteady ==
    ASSUME NEW s, Formed(s)
    PROVE  Steady(s, UpdateNextAction(s))
<1> DEFINE ranked == RankNextActions(s)
           best == CHOOSE a \in ranked : \A b \in ranked : b.score <= a.score
           d == [s.dec EXCEPT !.next = best.action, !.target = best.target]
           t == [s EXCEPT !.dec = d]
<1>1. UpdateNextAction(s) = t  BY DEF UpdateNextAction
<1>2. DOMAIN d = DecisionFields /\ d.candidates = s.dec.candidates  BY DEF Formed, DecisionFields
<1> HIDE DEF d
<1>3. DOMAIN t = DOMAIN s /\ t.wf = s.wf /\ t.dec = d /\ t.guard = s.guard /\ t.phase = s.phase
      /\ t.order = s.order /\ t.files = s.files /\ t.modified = s.modified /\ t.changed = s.changed /\ t.key = s.key
  BY DEF Formed, PolicyFields
<1> HIDE DEF t
<1>4. Formed(t)  BY <1>2, <1>3 DEF Formed
<1>5. Steady(s, t)  BY <1>2, <1>3, <1>4 DEF Steady
<1> QED BY <1>1, <1>5

\* What is relevant, and not looked at, is a candidate.
Ready(s) == Touched(s) \/ s.order = <<>> \/ s.dec.candidates # <<>>

(***************************************************************************)
(* The policy's evidence, guardrails and tools, and its recommendation.    *)
(***************************************************************************)

LEMMA SameButDecision ==
    ASSUME NEW s, Formed(s), NEW d, DOMAIN d = DecisionFields, d.candidates = s.dec.candidates
    PROVE  Steady(s, [s EXCEPT !.dec = d]) /\ [s EXCEPT !.dec = d].dec = d
<1> DEFINE t == [s EXCEPT !.dec = d]
<1>1. DOMAIN t = DOMAIN s /\ t.wf = s.wf /\ t.dec = d /\ t.guard = s.guard /\ t.phase = s.phase
      /\ t.order = s.order /\ t.files = s.files /\ t.modified = s.modified /\ t.changed = s.changed /\ t.key = s.key
  BY DEF Formed, PolicyFields
<1> HIDE DEF t
<1>2. Formed(t)  BY <1>1 DEF Formed
<1>3. Steady(s, t)  BY <1>1, <1>2 DEF Steady
<1> QED BY <1>1, <1>3 DEF t

LEMMA EvidenceIsSteady ==
    ASSUME NEW s, Formed(s), NEW call, NEW r
    PROVE  Steady(s, RecordToolEvidence(s, call, r))
<1> DEFINE detail == IF r.executed THEN <<call.tool, "completed">> ELSE <<call.tool, "reused">>
           note(d, p) == RecordEvidence(d, EvidenceKind(call), p, detail, IF p = 0 THEN 20 ELSE 24, s.wf.revision)
           noted == FoldLeft(note, s.dec, SetToSortSeq(ResultPaths(call, r), <))
           dec == [s.dec EXCEPT !.evidence = noted.evidence, !.confidence = noted.confidence]
           scope == FoldLeft(RecordModifiedScope, s.dec, SetToSortSeq(s.modified, <)).scope
           wide == [dec EXCEPT !.scope = scope]
<1>1. RecordToolEvidence(s, call, r) = IF ~r.ok THEN s
                                       ELSE IF call.tool # "write" THEN [s EXCEPT !.dec = dec]
                                       ELSE [s EXCEPT !.dec = wide]
  BY DEF RecordToolEvidence
<1> HIDE DEF noted, scope
<1>2. DOMAIN dec = DecisionFields /\ dec.candidates = s.dec.candidates  BY DEF Formed, DecisionFields
<1> HIDE DEF dec
<1>3. DOMAIN wide = DecisionFields /\ wide.candidates = s.dec.candidates  BY <1>2 DEF DecisionFields
<1> HIDE DEF wide
<1>4. Steady(s, [s EXCEPT !.dec = dec]) /\ Steady(s, [s EXCEPT !.dec = wide])  BY <1>2, <1>3, SameButDecision
<1>5. Steady(s, s)  BY DEF Steady
<1> QED BY <1>1, <1>4, <1>5

GuardFields == {"observations", "failures", "last", "noProgress"}

\* Only a failure of a watched call changes the list of failures.
LEMMA GuardForm ==
    ASSUME NEW g, DOMAIN g = GuardFields, NEW call, NEW r, NEW before, NEW after
    PROVE  LET h == GuardrailsObserve(g, call, r, before, after)
           IN  /\ DOMAIN h = GuardFields
               /\ h.failures = IF Watched(call) /\ ~r.ok THEN CountFailure(g, call, after.revision).failures
                               ELSE g.failures
<1> DEFINE counted == IF ~Watched(call) THEN g
                      ELSE IF r.ok THEN RememberSuccess(g, call, after.revision)
                      ELSE CountFailure(g, call, after.revision)
           h == GuardrailsObserve(g, call, r, before, after)
<1>1. DOMAIN counted = GuardFields
      /\ counted.failures = IF Watched(call) /\ ~r.ok THEN CountFailure(g, call, after.revision).failures
                            ELSE g.failures
  <2>1. DOMAIN RememberSuccess(g, call, after.revision) = GuardFields
        /\ RememberSuccess(g, call, after.revision).failures = g.failures
    BY DEF RememberSuccess, GuardFields
  <2>2. DOMAIN CountFailure(g, call, after.revision) = GuardFields
    BY DEF CountFailure, CountFailureAnew, GuardFields
  <2> QED BY <2>1, <2>2
<1> HIDE DEF counted
<1> DEFINE print == <<after.revision, after.progress, call>>
           advanced == \/ before.revision # after.revision \/ before.progress # after.progress
                       \/ before.failures # after.failures \/ before.phase # after.phase
           idle == IF advanced \/ g.last # print THEN 0 ELSE g.noProgress + 1
           n == IF idle >= NoProgressLimit THEN 0 ELSE idle
<1>2. h = IF ~r.ok
            THEN IF Watched(call) /\ PreflightFailure(counted, call, after.revision) THEN counted
                 ELSE [counted EXCEPT !.noProgress = @ + 1]
            ELSE [counted EXCEPT !.last = print, !.noProgress = n]
  BY DEF GuardrailsObserve, counted
<1> HIDE DEF print, n
<1>3. DOMAIN h = GuardFields /\ h.failures = counted.failures
  BY <1>1, <1>2 DEF GuardFields
<1> QED BY <1>1, <1>3

\* Whatever is offered when the model is to recover or to change its approach.
Everything == {"read", "list", "search", "write", "shell", "git"}

Calm(s) == s.wf.failures = {} /\ ~s.recovering /\ ~s.changed /\ ~(s.stalled >= 2)

LEMMA SurfaceForm ==
    ASSUME NEW s, Formed(s)
    PROVE  /\ ~Calm(s) => ToolSurface(s) = Everything
           /\ "read" \in ToolSurface(s)
           /\ s.phase # "Complete" => ToolSurface(s) \cap {"search", "list"} # {}
           /\ s.phase = "Inspect" /\ Touched(s) => "write" \in ToolSurface(s)
           /\ \/ s.phase \in {"Modify", "Verify", "Complete"}
              \/ s.phase = "Inspect" /\ s.wf.verification = "Pending"
              => "shell" \in ToolSurface(s)
<1> DEFINE touched == \E p \in PolicyPaths : s.files[p] # "none"
           discover == {"read", "list", "search", "git"}
                          \cup (IF TaskNamesTools \/ (~touched /\ s.modified = {}) THEN {"shell"} ELSE {})
           inspect == {"read", "list", "search"}
                          \cup (IF touched \/ s.modified # {} THEN {"write"} ELSE {})
                          \cup (IF s.wf.verification = "Pending" THEN {"shell"} ELSE {})
           modify == {"read", "search", "write", "shell"}
           verify == {"read", "search", "shell", "git"}
           complete == {"read", "shell", "git"}
           byPhase == [Discover |-> discover, Inspect |-> inspect, Modify |-> modify, Verify |-> verify,
                       Complete |-> complete][s.phase]
           tools == IF s.wf.failures # {} \/ s.recovering \/ s.changed THEN Everything
                    ELSE byPhase \cup (IF s.modified # {} THEN {"git"} ELSE {})
<1>1. ToolSurface(s) = IF s.stalled >= 2 THEN Everything ELSE tools
  BY DEF ToolSurface, DetermineActiveTools, Everything
<1>2. touched <=> Touched(s)  BY DEF Touched
<1>3. s.phase \in PolicyPhases  BY DEF Formed
<1> HIDE DEF discover, inspect, modify, verify, complete
<1>4. byPhase = CASE s.phase = "Discover" -> discover [] s.phase = "Inspect" -> inspect
                  [] s.phase = "Modify" -> modify [] s.phase = "Verify" -> verify
                  [] s.phase = "Complete" -> complete
  BY <1>3 DEF PolicyPhases
<1> HIDE DEF byPhase
<1>5. byPhase \subseteq ToolSurface(s) \/ ToolSurface(s) = Everything
  BY <1>1
<1>6. "read" \in byPhase
  BY <1>3, <1>4 DEF PolicyPhases, discover, inspect, modify, verify, complete
<1>7. s.phase # "Complete" => "search" \in byPhase
  BY <1>3, <1>4 DEF PolicyPhases, discover, inspect, modify, verify, complete
<1>8. s.phase = "Inspect" =>
        (Touched(s) => "write" \in byPhase) /\ (s.wf.verification = "Pending" => "shell" \in byPhase)
  BY <1>2, <1>4 DEF inspect
<1>9. s.phase \in {"Modify", "Verify", "Complete"} => "shell" \in byPhase
  BY <1>4 DEF modify, verify, complete
<1>10. Everything = {"read", "list", "search", "write", "shell", "git"}  BY DEF Everything
<1>11. ~Calm(s) => ToolSurface(s) = Everything  BY <1>1 DEF Calm
<1> HIDE DEF tools, touched
<1> QED BY <1>5, <1>6, <1>7, <1>8, <1>9, <1>10, <1>11

LEMMA BestOfRanks ==
    ASSUME NEW R, R # {}, \A a \in R : a.score \in 0 .. 102
    PROVE  LET best == CHOOSE a \in R : \A b \in R : b.score <= a.score
           IN  best \in R /\ \A b \in R : b.score <= best.score
<1> DEFINE T == {102 - a.score : a \in R}
<1>1. T \subseteq Nat /\ T # {}  OBVIOUS
<1>2. \A t \in T : \E a \in R : t = 102 - a.score  OBVIOUS
<1>3. \A a \in R : 102 - a.score \in T  OBVIOUS
<1> HIDE DEF T
<1>4. PICK t \in T : \A u \in T : t <= u  BY <1>1, NatLeast
<1>5. PICK a \in R : t = 102 - a.score  BY <1>2
<1>6. \A b \in R : b.score <= a.score  BY <1>3, <1>4, <1>5
<1> QED BY <1>6

\* What may be recommended, and when.
LEMMA RanksForm ==
    ASSUME NEW s
    PROVE  LET R == RankNextActions(s)
           IN  /\ R # {}
               /\ \A a \in R :
                    /\ a.score \in 0 .. 102
                    /\ a.action \in {"Finish", "Escalate", "VerifyFocused", "VerifyBroader", "InspectCandidate",
                                     "ResolveQuestion", "DiscoverTarget", "MutateMinimal"}
                    /\ a.action \in {"VerifyFocused", "VerifyBroader"} => VerificationOpen(s)
                    /\ a.action = "DiscoverTarget" => s.phase # "Complete" \/ s.wf.failures # {}
                    /\ a.action = "MutateMinimal" => s.phase = "Inspect" /\ a.score = 74
               /\ s.phase = "Inspect" /\ (\E i \in DOMAIN s.dec.candidates : ~s.dec.candidates[i].inspected)
                    => \E a \in R : a.score = 90
<1> DEFINE steps   == SelectSeq(s.wf.steps, LAMBDA t : t.revision = s.wf.revision)
           open    == {i \in DOMAIN steps : steps[i].status \in {"Pending", "Failed"}}
           cands   == s.dec.candidates
           unseen  == {i \in DOMAIN cands : ~cands[i].inspected \/ cands[i].stale}
           first   == IF cands = <<>> THEN 0 ELSE cands[1].path
           recover == IF s.director = "Recover" THEN {Rank("Escalate", 102, 0)} ELSE {}
           low     == IF s.dec.lowValue >= 3 THEN {Rank("Escalate", 98, 0)} ELSE {}
           verify  == IF s.wf.verification \notin {"Pending", "Failed"} THEN {}
                      ELSE IF open = {} THEN {Rank("VerifyBroader", 76, 0)}
                      ELSE IF Min(open) = 1 THEN {Rank("VerifyFocused", 96, 0)}
                      ELSE {Rank("VerifyBroader", 82, 0)}
           inspect == IF unseen = {} THEN {} ELSE {Rank("InspectCandidate", 90, cands[Min(unseen)].path)}
           ask     == IF s.dec.questions = <<>> THEN {} ELSE {Rank("ResolveQuestion", 88, 0)}
           mutate  == IF s.dec.confidence < MinConfidence THEN {Rank("DiscoverTarget", 84, first)}
                      ELSE IF s.phase = "Inspect" /\ s.modified = {} THEN {Rank("MutateMinimal", 74, first)}
                      ELSE {}
           all     == recover \cup low \cup verify \cup inspect \cup ask \cup mutate
           done    == s.phase = "Complete" /\ s.wf.failures = {}
           R       == RankNextActions(s)
           OK(a)   == /\ a.score \in 0 .. 102
                      /\ a.action \in {"Finish", "Escalate", "VerifyFocused", "VerifyBroader", "InspectCandidate",
                                       "ResolveQuestion", "DiscoverTarget", "MutateMinimal"}
                      /\ a.action \in {"VerifyFocused", "VerifyBroader"} => VerificationOpen(s)
                      /\ a.action = "DiscoverTarget" => ~done
                      /\ a.action = "MutateMinimal" => s.phase = "Inspect" /\ a.score = 74
<1>1. R = IF done THEN {Rank("Finish", 100, 0)}
          ELSE IF all = {} THEN {Rank("DiscoverTarget", 60, 0)} ELSE all
  BY DEF RankNextActions
<1>2. (\A a \in recover : OK(a)) /\ (\A a \in low : OK(a)) /\ (\A a \in ask : OK(a))
  BY DEF Rank
<1>3. \A a \in verify : OK(a)
  <2> HIDE DEF open
  <2> QED BY DEF Rank, VerificationOpen
<1>4. \A a \in inspect : OK(a) /\ a.score = 90
  <2> HIDE DEF unseen, cands
  <2> QED BY DEF Rank
<1>5. ~done => \A a \in mutate : OK(a)
  <2> HIDE DEF first
  <2>1. CASE s.dec.confidence < MinConfidence  BY <2>1 DEF Rank
  <2>2. CASE ~(s.dec.confidence < MinConfidence)  BY <2>2 DEF Rank
  <2> QED BY <2>1, <2>2
<1>6. OK(Rank("Finish", 100, 0)) /\ (~done => OK(Rank("DiscoverTarget", 60, 0)))  BY DEF Rank
<1>7. (\E i \in DOMAIN cands : ~cands[i].inspected) => inspect # {}  OBVIOUS
<1>8. s.phase = "Inspect" => ~done  OBVIOUS
<1>9. ~done <=> s.phase # "Complete" \/ s.wf.failures # {}  OBVIOUS
<1> HIDE DEF recover, low, verify, inspect, ask, mutate, R, done
<1>10. \A a \in R : OK(a)
  <2>1. CASE done  BY <1>1, <1>6, <2>1
  <2>2. CASE ~done /\ all = {}  BY <1>1, <1>6, <2>2
  <2>3. CASE ~done /\ all # {}
    <3>1. R = recover \cup low \cup verify \cup inspect \cup ask \cup mutate  BY <1>1, <2>3
    <3> HIDE DEF OK
    <3> QED BY <1>2, <1>3, <1>4, <1>5, <2>3, <3>1
  <2> QED BY <2>1, <2>2, <2>3
<1>11. R # {}
  <2> HIDE DEF all
  <2> QED BY <1>1
<1>12. ~done /\ inspect # {} => \E a \in R : a.score = 90
  <2>1. ~done /\ inspect # {} => inspect \subseteq R  BY <1>1
  <2> QED BY <1>4, <2>1
<1>13. s.phase = "Inspect" /\ (\E i \in DOMAIN s.dec.candidates : ~s.dec.candidates[i].inspected)
         => \E a \in R : a.score = 90
  BY <1>7, <1>8, <1>12
<1> QED BY <1>9, <1>10, <1>11, <1>13 DEF R

\* A tool for what is recommended is offered, unless verifying is what was carried over.
Offered(s, b) ==
    \/ Serves[s.dec.next] \cap ToolSurface(s) # {}
    \/ b /\ VerificationOpen(s) /\ s.phase # "Verify"

LEMMA SteadySurface ==
    ASSUME NEW s, NEW t, t.stalled = s.stalled, t.wf = s.wf, t.recovering = s.recovering,
           t.changed = s.changed, t.phase = s.phase, t.files = s.files, t.modified = s.modified
    PROVE  ToolSurface(t) = ToolSurface(s)
<1>1. DetermineActiveTools(t) = DetermineActiveTools(s)  BY DEF DetermineActiveTools
<1> QED BY <1>1 DEF ToolSurface

LEMMA NextActionIsOffered ==
    ASSUME NEW s, NEW b, Advised(s, b), Ready(s)
    PROVE  Offered(UpdateNextAction(s), b)
<1> DEFINE R == RankNextActions(s)
           best == CHOOSE a \in R : \A c \in R : c.score <= a.score
           d == [s.dec EXCEPT !.next = best.action, !.target = best.target]
           t == [s EXCEPT !.dec = d]
<1>1. UpdateNextAction(s) = t  BY DEF UpdateNextAction
<1>2. Formed(s) /\ AdviceOK(s, b)  BY DEF Advised
<1>3. /\ R # {}
      /\ \A a \in R :
           /\ a.score \in 0 .. 102
           /\ a.action \in {"Finish", "Escalate", "VerifyFocused", "VerifyBroader", "InspectCandidate",
                            "ResolveQuestion", "DiscoverTarget", "MutateMinimal"}
           /\ a.action \in {"VerifyFocused", "VerifyBroader"} => VerificationOpen(s)
           /\ a.action = "DiscoverTarget" => s.phase # "Complete" \/ s.wf.failures # {}
           /\ a.action = "MutateMinimal" => s.phase = "Inspect" /\ a.score = 74
      /\ s.phase = "Inspect" /\ (\E i \in DOMAIN s.dec.candidates : ~s.dec.candidates[i].inspected)
           => \E a \in R : a.score = 90
  BY RanksForm
<1> HIDE DEF R
<1>4. best \in R /\ \A c \in R : c.score <= best.score  BY <1>3, BestOfRanks
<1> HIDE DEF best
<1>5. DOMAIN d = DecisionFields /\ d.next = best.action  BY <1>2 DEF Formed, DecisionFields
<1> HIDE DEF d
<1>6. t.stalled = s.stalled /\ t.wf = s.wf /\ t.recovering = s.recovering /\ t.changed = s.changed
      /\ t.phase = s.phase /\ t.files = s.files /\ t.modified = s.modified /\ t.dec = d
  BY <1>2 DEF Formed, PolicyFields
<1> HIDE DEF t
<1>7. ToolSurface(t) = ToolSurface(s)  BY <1>6, SteadySurface
<1>8. /\ ~Calm(s) => ToolSurface(s) = Everything
      /\ "read" \in ToolSurface(s)
      /\ s.phase # "Complete" => ToolSurface(s) \cap {"search", "list"} # {}
      /\ s.phase = "Inspect" /\ Touched(s) => "write" \in ToolSurface(s)
      /\ \/ s.phase \in {"Modify", "Verify", "Complete"}
         \/ s.phase = "Inspect" /\ s.wf.verification = "Pending"
         => "shell" \in ToolSurface(s)
  BY <1>2, SurfaceForm
<1> DEFINE surface == ToolSurface(s)
           served == Serves[best.action] \cap surface # {}
           excused == b /\ VerificationOpen(s) /\ s.phase # "Verify"
<1>9. ASSUME best.action \in {"Finish", "Escalate", "InspectCandidate", "ResolveQuestion"}
      PROVE  served \/ excused
  <2>1. "read" \in Serves[best.action]  BY <1>9 DEF Serves
  <2> QED BY <1>8, <2>1
<1>10. ASSUME best.action = "DiscoverTarget"
       PROVE  served \/ excused
  <2>1. Serves[best.action] = {"search", "list"}  BY <1>10 DEF Serves
  <2>2. s.phase # "Complete" \/ ~Calm(s)  BY <1>3, <1>4, <1>10 DEF Calm
  <2> HIDE DEF surface
  <2>3. surface \cap {"search", "list"} # {}  BY <1>8, <2>2 DEF Everything, surface
  <2> QED BY <2>1, <2>3
<1>11. ASSUME best.action \in {"VerifyFocused", "VerifyBroader"}
       PROVE  served \/ excused
  <2>1. Serves[best.action] = {"shell"}  BY <1>11 DEF Serves
  <2>2. VerificationOpen(s)  BY <1>3, <1>4, <1>11
  <2>3. "shell" \in surface \/ excused
    <3>1. CASE ~Calm(s)  BY <1>8, <3>1 DEF Everything
    <3>2. CASE s.phase \in {"Modify", "Verify", "Complete"}  BY <1>8, <3>2
    <3>3. CASE Calm(s) /\ s.phase = "Inspect"
      <4>1. s.wf.verification \in {"Pending", "Failed"}  BY <2>2 DEF VerificationOpen
      <4>2. CASE s.wf.verification = "Pending"  BY <1>8, <3>3, <4>2
      <4>3. CASE s.wf.verification = "Failed"  BY <1>2, <2>2, <3>3, <4>3 DEF AdviceOK, Known, Rediscovers
      <4> QED BY <4>1, <4>2, <4>3
    <3>4. CASE Calm(s) /\ s.phase = "Discover"
      BY <1>2, <2>2, <3>4 DEF AdviceOK, Known, Rediscovers, Calm
    <3>5. s.phase \in PolicyPhases  BY <1>2 DEF Formed
    <3> QED BY <3>1, <3>2, <3>3, <3>4, <3>5 DEF PolicyPhases
  <2> QED BY <2>1, <2>3
<1>12. ASSUME best.action = "MutateMinimal"
       PROVE  served \/ excused
  <2>1. Serves[best.action] = {"write"}  BY <1>12 DEF Serves
  <2>2. s.phase = "Inspect" /\ best.score = 74  BY <1>3, <1>4, <1>12
  <2>3. Touched(s)
    <3> SUFFICES ASSUME ~Touched(s) PROVE FALSE
      OBVIOUS
    <3>1. s.order # <<>>  BY <1>2, <2>2 DEF AdviceOK, Known, Rediscovers
    <3>2. s.dec.candidates # <<>>  BY <3>1 DEF Ready
    <3>3. \A i \in DOMAIN s.dec.candidates : ~s.dec.candidates[i].inspected  BY <1>2 DEF AdviceOK, Known, Rediscovers
    <3>4. s.dec.candidates \in Seq(Candidates)  BY <1>2 DEF Formed
    <3>5. 1 \in DOMAIN s.dec.candidates  BY <3>2, <3>4
    <3>6. PICK a \in R : a.score = 90  BY <1>3, <2>2, <3>3, <3>5
    <3>7. 90 <= 74  BY <1>4, <2>2, <3>6
    <3> QED BY <3>7
  <2> QED BY <1>8, <2>1, <2>2, <2>3
<1>13. served \/ excused
  BY <1>3, <1>4, <1>9, <1>10, <1>11, <1>12
<1>14. t.dec.next = best.action /\ (VerificationOpen(t) <=> VerificationOpen(s))
  BY <1>5, <1>6 DEF VerificationOpen
<1> QED BY <1>1, <1>6, <1>7, <1>13, <1>14 DEF Offered

\* The candidates are as new as what they are chosen from.
LEMMA CandidatesAreRefreshed ==
    ASSUME NEW s, NEW b, Advised(s, b), Unseen(s)
    PROVE  LET t == RefreshCandidates(s)
           IN  /\ Advised(t, b) /\ Ready(t) /\ Unseen(t) /\ t.guard = s.guard
               /\ t.wf.revision = s.wf.revision /\ t.wf.verification = s.wf.verification
               /\ t.phase = s.phase /\ t.files = s.files
               /\ s.key = <<>> => Offered(t, b)
<1> DEFINE found == MapSelections(s)
           cands == UpsertSelections(s.dec.candidates, s.files, found)
           paths == TaskPaths(s)
<1>1. Formed(s) /\ AdviceOK(s, b)  BY DEF Advised
<1>2. /\ paths \in Seq(PolicyPaths) /\ (s.order # <<>> => paths # <<>>)
      /\ s.order = <<>> /\ s.modified = {} /\ ~Touched(s) => paths = <<>>
      /\ found \in Seq(Selected) /\ (paths # <<>> => found # <<>>)
  BY <1>1, TaskPathsType, SelectionsOfTheMap
<1> HIDE DEF found
<1>3. /\ cands \in Seq(Candidates) /\ (found # <<>> => cands # <<>>)
      /\ SomeInspected(cands) => SomeInspected(s.dec.candidates) \/ Touched(s)
  BY <1>1, <1>2, UpsertedSelections DEF Formed, Touched
<1>4. CandidateKey(s) = <<s.wf.revision, paths>>  BY DEF CandidateKey
<1>5. CASE s.key = CandidateKey(s)
  <2>1. RefreshCandidates(s) = s  BY <1>5 DEF RefreshCandidates
  <2>2. s.key # <<>> /\ s.key[2] = paths  BY <1>4, <1>5
  <2>3. Ready(s)  BY <1>1, <1>2, <2>2 DEF Ready, AdviceOK, Known, Rediscovers
  <2> QED BY <1>1, <2>1, <2>2, <2>3 DEF Advised
<1>6. CASE s.key # CandidateKey(s)
  <2> DEFINE note(d, c) == IF ~c.symbol THEN d
                           ELSE RecordEvidence(d, c.kind, c.path, <<"symbol">>, Min({c.score, 96}), s.wf.revision)
             noted == FoldLeft(note, s.dec, found)
             asked == IF cands = <<>> THEN RecordQuestion(s.dec, <<"target">>) ELSE ClearQuestion(s.dec, <<"target">>)
             dec   == [s.dec EXCEPT !.evidence = noted.evidence, !.confidence = noted.confidence,
                                    !.candidates = cands, !.questions = asked.questions]
             u == [s EXCEPT !.key = CandidateKey(s), !.dec = dec]
  <2>1. RefreshCandidates(s) = UpdateNextAction(u)
    BY <1>6 DEF RefreshCandidates, found
  <2> HIDE DEF noted, asked
  <2>2. DOMAIN dec = DecisionFields /\ dec.candidates = cands  BY <1>1 DEF Formed, DecisionFields
  <2> HIDE DEF dec, cands
  <2>3. DOMAIN u = DOMAIN s /\ u.wf = s.wf /\ u.dec = dec /\ u.guard = s.guard /\ u.phase = s.phase
        /\ u.order = s.order /\ u.files = s.files /\ u.modified = s.modified /\ u.changed = s.changed
        /\ u.key = <<s.wf.revision, paths>>
    BY <1>1, <1>4 DEF Formed, PolicyFields
  <2> HIDE DEF u, paths
  <2>4. Formed(u)  BY <1>1, <1>3, <2>2, <2>3 DEF Formed
  <2>5. (Touched(u) <=> Touched(s)) /\ (AnyStale(u) <=> AnyStale(s)) /\ (VerificationOpen(u) <=> VerificationOpen(s))
    BY <2>3 DEF Touched, AnyStale, VerificationOpen
  <2>6. u.key[2] = paths  BY <2>3
  <2>c. u.changed => Touched(u) \/ u.key[2] = <<>>
    BY <1>1, <1>2, <2>3, <2>5, <2>6 DEF AdviceOK, Known, Unseen
  <2>7. Touched(u) \/ u.key = <<>> \/ u.key[2] = <<>> \/ u.dec.candidates # <<>>
    BY <1>2, <1>3, <2>2, <2>3, <2>6
  <2>8. (\E i \in DOMAIN u.dec.candidates : u.dec.candidates[i].inspected) => Touched(u)
    BY <1>1, <1>3, <2>2, <2>3, <2>5 DEF SomeInspected, AdviceOK, Known, Rediscovers
  <2>9. AdviceOK(u, b)  BY <1>1, <2>3, <2>5, <2>7, <2>8, <2>c DEF AdviceOK, Known, Rediscovers
  <2>15. Unseen(u)  BY <2>3, <2>5 DEF Unseen
  <2>10. Ready(u)  BY <1>2, <1>3, <2>2, <2>3 DEF Ready
  <2> DEFINE t == UpdateNextAction(u)
  <2>14. Offered(t, b)  BY <1>1, <2>4, <2>9, <2>10, NextActionIsOffered DEF Advised
  <2>11. Steady(u, t)  BY <2>4, NextActionIsSteady
  <2> HIDE DEF t
  <2>12. Advised(t, b)  BY <2>9, <2>11, SteadyAdvice
  <2>13. Ready(t) /\ Unseen(t)  BY <2>10, <2>11, <2>15 DEF Ready, Unseen, Touched, Steady
  <2> QED BY <2>1, <2>3, <2>11, <2>12, <2>13, <2>14 DEF t, Steady
<1> QED BY <1>5, <1>6


\* A result is accounted for in what the advice does not depend on.
LEMMA AccountsAreKept ==
    ASSUME NEW s, NEW b, Advised(s, b), Ready(s), Unseen(s), NEW t, DOMAIN t = DOMAIN s,
           t.wf = s.wf, t.phase = s.phase, t.order = s.order, t.files = s.files, t.modified = s.modified,
           t.changed = s.changed, t.key = s.key, DOMAIN t.guard = GuardFields,
           DOMAIN t.dec = DecisionFields, t.dec.candidates = s.dec.candidates
    PROVE  Advised(t, b) /\ Ready(t) /\ Unseen(t)
<1>1. Formed(s) /\ AdviceOK(s, b)  BY DEF Advised
<1>3. Formed(t)  BY <1>1 DEF Formed, GuardFields
<1>4. (Touched(t) <=> Touched(s)) /\ (AnyStale(t) <=> AnyStale(s)) /\ (VerificationOpen(t) <=> VerificationOpen(s))
  BY DEF Touched, AnyStale, VerificationOpen
<1>5. AdviceOK(t, b)  BY <1>1, <1>4 DEF AdviceOK, Known, Rediscovers
<1>6. Ready(t) /\ Unseen(t)  BY <1>4 DEF Ready, Unseen
<1>7. Advised(t, b)  BY <1>3, <1>5 DEF Advised
<1> QED BY <1>6, <1>7

\* What is advised after a result.
LEMMA AdviceIsOffered ==
    ASSUME NEW s, NEW b, Advised(s, b), Ready(s), Unseen(s)
    PROVE  LET t == Advise(s)
           IN  /\ Advised(t, b) /\ Ready(t) /\ Unseen(t) /\ Offered(t, b)
               /\ t.guard = s.guard /\ t.wf.revision = s.wf.revision
<1>1. CASE s.dec.lowValue >= 3
  <2> DEFINE d == [s.dec EXCEPT !.next = "Escalate", !.target = 0]
             t == [s EXCEPT !.dec = d]
  <2>1. Advise(s) = t  BY <1>1 DEF Advise
  <2>2. Formed(s)  BY DEF Advised
  <2>3. DOMAIN d = DecisionFields /\ d.candidates = s.dec.candidates /\ d.next = "Escalate"
    BY <2>2 DEF Formed, DecisionFields
  <2> HIDE DEF d
  <2>4. Steady(s, t) /\ t.dec = d  BY <2>2, <2>3, SameButDecision
  <2> HIDE DEF t
  <2>5. Advised(t, b)  BY <2>4, SteadyAdvice DEF Advised
  <2>6. Ready(t) /\ Unseen(t)  BY <2>4 DEF Ready, Unseen, Touched, Steady
  <2>7. "read" \in ToolSurface(t)  BY <2>5, SurfaceForm DEF Advised
  <2>8. Serves["Escalate"] = {"read"}  BY DEF Serves
  <2>9. Offered(t, b)  BY <2>3, <2>4, <2>7, <2>8 DEF Offered
  <2>10. t.guard = s.guard /\ t.wf.revision = s.wf.revision  BY <2>4 DEF Steady
  <2> QED BY <2>1, <2>5, <2>6, <2>9, <2>10
<1>2. CASE ~(s.dec.lowValue >= 3)
  <2> DEFINE t == UpdateNextAction(s)
  <2>1. Advise(s) = t  BY <1>2 DEF Advise
  <2>2. Offered(t, b)  BY NextActionIsOffered
  <2>3. Steady(s, t)  BY NextActionIsSteady DEF Advised
  <2> HIDE DEF t
  <2>4. Advised(t, b)  BY <2>3, SteadyAdvice DEF Advised
  <2>5. Ready(t) /\ Unseen(t)  BY <2>3 DEF Ready, Unseen, Touched, Steady
  <2>6. t.guard = s.guard /\ t.wf.revision = s.wf.revision  BY <2>3 DEF Steady
  <2> QED BY <2>1, <2>2, <2>4, <2>5, <2>6
<1> QED BY <1>1, <1>2

LEMMA ResultsAreAdvised ==
    ASSUME NEW s, NEW b, Advised(s, b), Unseen(s), NEW call \in PolicyCalls, NEW r
    PROVE  LET t == FoldResult(s, call, r)
           IN  /\ Advised(t, b) /\ Ready(t) /\ Unseen(t) /\ Offered(t, b)
               /\ t.wf.revision = s.wf.revision + IF r.ok /\ call.tool = "write" THEN 1 ELSE 0
               /\ t.guard.failures =
                    IF Watched(call) /\ ~r.ok THEN CountFailure(s.guard, call, s.wf.revision).failures
                    ELSE s.guard.failures
<1> DEFINE before == WorkflowObservation(s)
           o == ObserveCall(s, call, r)
           e == RecordToolEvidence(o, call, r)
           t == RefreshCandidates(e)
           after == WorkflowObservation(t)
           g == GuardrailsObserve(t.guard, call, r, before, after)
           n == IF MeaningfulProgress(call, r) THEN 0 ELSE t.stalled + 1
           d == NoteObservationValue(t.dec, before # after /\ r.executed)
           u == [t EXCEPT !.guard = g, !.stalled = n, !.dec = d]
<1>1. FoldResult(s, call, r) = Advise(u)  BY DEF FoldResult, Guarded
<1>2. Follows(s, o, b) /\ Unseen(o) /\ o.wf.revision = s.wf.revision + IF r.ok /\ call.tool = "write" THEN 1 ELSE 0
  BY CallsFollow
<1> HIDE DEF o
<1>3. Steady(o, e)  BY <1>2, EvidenceIsSteady DEF Follows, Advised
<1> HIDE DEF e
<1>4. Follows(o, e, b) /\ e.wf.revision = o.wf.revision  BY <1>2, <1>3, SteadyFollows DEF Follows
<1>5. Advised(e, b) /\ Unseen(e) /\ e.guard = s.guard
  BY <1>2, <1>3, <1>4 DEF Follows, Steady, Unseen, Touched
<1>6. Advised(t, b) /\ Ready(t) /\ Unseen(t) /\ t.guard = e.guard /\ t.wf.revision = e.wf.revision
  BY <1>5, CandidatesAreRefreshed
<1> HIDE DEF t
<1>7. after.revision = t.wf.revision  BY DEF WorkflowObservation
<1>8. DOMAIN t.guard = GuardFields /\ DOMAIN t.dec = DecisionFields
  BY <1>6 DEF Advised, Formed, GuardFields
<1> HIDE DEF after, before
<1>9. /\ DOMAIN g = GuardFields
      /\ g.failures = IF Watched(call) /\ ~r.ok THEN CountFailure(t.guard, call, t.wf.revision).failures
                      ELSE t.guard.failures
  BY <1>7, <1>8, GuardForm
<1> HIDE DEF g
<1>10. DOMAIN d = DecisionFields /\ d.candidates = t.dec.candidates
  BY <1>8 DEF NoteObservationValue, DecisionFields
<1> HIDE DEF d, n
<1>u. DOMAIN u = DOMAIN t /\ u.wf = t.wf /\ u.dec = d /\ u.guard = g /\ u.phase = t.phase
      /\ u.order = t.order /\ u.files = t.files /\ u.modified = t.modified /\ u.changed = t.changed /\ u.key = t.key
  BY <1>6 DEF Advised, Formed, PolicyFields
<1> HIDE DEF u
<1>11. Advised(u, b) /\ Ready(u) /\ Unseen(u) /\ u.guard = g /\ u.wf = t.wf
  BY <1>6, <1>9, <1>10, <1>u, AccountsAreKept
<1> DEFINE v == Advise(u)
<1>12. /\ Advised(v, b) /\ Ready(v) /\ Unseen(v) /\ Offered(v, b)
       /\ v.guard = u.guard /\ v.wf.revision = u.wf.revision
  BY <1>11, AdviceIsOffered
<1> HIDE DEF v
<1>13. v.wf.revision = s.wf.revision + IF r.ok /\ call.tool = "write" THEN 1 ELSE 0
  BY <1>2, <1>4, <1>6, <1>11, <1>12
<1>14. ~r.ok => t.wf.revision = s.wf.revision
  BY <1>2, <1>4, <1>6, <1>13, <1>11, <1>12 DEF Follows, Advised, Formed
<1>15. v.guard.failures = IF Watched(call) /\ ~r.ok THEN CountFailure(s.guard, call, s.wf.revision).failures
                          ELSE s.guard.failures
  <2>1. t.guard = s.guard  BY <1>5, <1>6
  <2>2. CASE Watched(call) /\ ~r.ok
    <3>1. t.wf.revision = s.wf.revision  BY <1>14, <2>2
    <3> QED BY <1>9, <1>11, <1>12, <2>1, <2>2, <3>1
  <2>3. CASE ~(Watched(call) /\ ~r.ok)
    BY <1>9, <1>11, <1>12, <2>1, <2>3
  <2> QED BY <2>2, <2>3
<1> QED BY <1>1, <1>12, <1>13, <1>15 DEF v

(***************************************************************************)
(* A batch of results, and what else the policy does.                      *)
(***************************************************************************)

LEMMA FoldedParts ==
    ASSUME NEW was, NEW call, NEW r
    PROVE  LET t == WithResult(was, call, r)
               now == FoldResult(was.pst, call, r)
           IN  /\ t.pst = now
               /\ t.failed = FailedWith(was.pst, now, was.failed, call, r)
               /\ t.failing = FailingWith(was.pst, now, was.failing, call, r)
BY DEF WithResult, WithHistory

FoldedInOrder(after, batch, results) ==
    /\ after[0] = [pst |-> pst, failed |-> failed, failing |-> failing]
    /\ \A i \in 1 .. Len(batch) : after[i] = WithResult(after[i - 1], batch[i], results[i])
    /\ Folded(batch, results) = after[Len(batch)]

LEMMA BatchInOrder ==
    ASSUME NEW batch, Len(batch) \in Nat, NEW results
    PROVE  \E after : FoldedInOrder(after, batch, results)
<1> DEFINE first == [pst |-> pst, failed |-> failed, failing |-> failing]
           Goes(f, m) == f = [i \in 0 .. m |-> IF i = 0 THEN first ELSE WithResult(f[i - 1], batch[i], results[i])]
           S == {m \in Nat : \E f : Goes(f, m)}
           N == Len(batch)
           after == CHOOSE f : Goes(f, N)
<1>6. Folded(batch, results) = after[N]
  BY DEF Folded
<1>n. N \in Nat  OBVIOUS
<1> HIDE DEF first, N
<1>1. 0 \in S
  <2> DEFINE f == [i \in 0 .. 0 |-> first]
  <2>1. f = [i \in 0 .. 0 |-> IF i = 0 THEN first ELSE WithResult(f[i - 1], batch[i], results[i])]  OBVIOUS
  <2> HIDE DEF f
  <2>2. Goes(f, 0)  BY <2>1
  <2> QED BY <2>2
<1>2. ASSUME NEW m \in Nat, m \in S PROVE m + 1 \in S
  <2>1. PICK f : Goes(f, m)  BY <1>2
  <2> DEFINE step == WithResult(f[m], batch[m + 1], results[m + 1])
             g == [i \in 0 .. (m + 1) |-> IF i <= m THEN f[i] ELSE step]
  <2>2. \A i \in 0 .. m : f[i] = IF i = 0 THEN first ELSE WithResult(f[i - 1], batch[i], results[i])  BY <2>1
  <2>3. \A i \in 0 .. m : g[i] = f[i]  OBVIOUS
  <2>4. g[m + 1] = step  OBVIOUS
  <2>5. \A i \in 0 .. (m + 1) : g[i] = IF i = 0 THEN first ELSE WithResult(g[i - 1], batch[i], results[i])
    <3> TAKE i \in 0 .. (m + 1)
    <3>1. CASE i = m + 1
      <4>1. i # 0 /\ i - 1 = m /\ m \in 0 .. m  BY <3>1
      <4>2. g[m] = f[m]  BY <2>3, <4>1
      <4> HIDE DEF g
      <4> QED BY <3>1, <4>1, <4>2, <2>4
    <3>2. CASE i \in 0 .. m
      <4>1. i = 0 \/ i - 1 \in 0 .. m  BY <3>2
      <4>2. g[i] = f[i] /\ (i # 0 => g[i - 1] = f[i - 1])  BY <2>3, <3>2, <4>1
      <4> HIDE DEF g
      <4> QED BY <4>2, <3>2, <2>2
    <3> QED BY <3>1, <3>2
  <2>6. DOMAIN g = 0 .. (m + 1) /\ g = [i \in 0 .. (m + 1) |-> g[i]]  OBVIOUS
  <2> HIDE DEF g
  <2>7. Goes(g, m + 1)  BY <2>5, <2>6
  <2> QED BY <2>7
<1>3. N \in S
  <2> HIDE DEF S
  <2> QED BY <1>1, <1>2, <1>n, Induction
<1>4. \E f : Goes(f, N)  BY <1>3
<1>5. Goes(after, N)  BY <1>4
<1> HIDE DEF after
<1>7. \A i \in 0 .. N : after[i] = IF i = 0 THEN first ELSE WithResult(after[i - 1], batch[i], results[i])  BY <1>5
<1>m. 0 \in 0 .. N /\ \A i \in 1 .. N : i \in 0 .. N /\ i # 0  BY <1>n
<1>8. after[0] = first  BY <1>7, <1>m
<1>9. \A i \in 1 .. N : after[i] = WithResult(after[i - 1], batch[i], results[i])  BY <1>7, <1>m
<1> QED BY <1>6, <1>8, <1>9 DEF FoldedInOrder, N, first

\* The advice after every result of a batch.
LEMMA BatchesAreAdvised ==
    ASSUME NEW b, Advised(pst, b), Ready(pst), Unseen(pst), Offered(pst, b),
           NEW batch \in ToolBatches, NEW results
    PROVE  LET t == Folded(batch, results).pst
           IN  Advised(t, b) /\ Ready(t) /\ Unseen(t) /\ Offered(t, b)
<1>1. Len(batch) \in Nat /\ \A i \in 1 .. Len(batch) : batch[i] \in PolicyCalls
  BY CallsAssumption DEF PolicyCalls, Range
<1> DEFINE N == Len(batch)
<1>2. PICK after : FoldedInOrder(after, batch, results)  BY <1>1, BatchInOrder
<1>3. /\ after[0] = [pst |-> pst, failed |-> failed, failing |-> failing]
      /\ \A i \in 1 .. N : after[i] = WithResult(after[i - 1], batch[i], results[i])
      /\ Folded(batch, results) = after[N]
  BY <1>2 DEF FoldedInOrder
<1> HIDE DEF N
<1> DEFINE OK(t) == Advised(t, b) /\ Ready(t) /\ Unseen(t) /\ Offered(t, b)
           T == {i \in Nat : i <= N => OK(after[i].pst)}
<1>4. after[0].pst = pst  BY <1>3
<1>5. OK(pst)  OBVIOUS
<1>6. ASSUME NEW i \in 1 .. N, OK(after[i - 1].pst) PROVE OK(after[i].pst)
  <2>1. after[i].pst = FoldResult(after[i - 1].pst, batch[i], results[i])
    <3>1. after[i] = WithResult(after[i - 1], batch[i], results[i])  BY <1>3
    <3> QED BY <3>1, FoldedParts
  <2>2. batch[i] \in PolicyCalls  BY <1>1 DEF N
  <2> DEFINE s == after[i - 1].pst
             t == FoldResult(s, batch[i], results[i])
  <2>3. Advised(s, b) /\ Unseen(s)  BY <1>6
  <2> HIDE DEF s
  <2>4. Advised(t, b) /\ Ready(t) /\ Unseen(t) /\ Offered(t, b)  BY <2>2, <2>3, ResultsAreAdvised
  <2> HIDE DEF t
  <2>5. after[i].pst = t  BY <2>1 DEF t, s
  <2> QED BY <2>4, <2>5
<1> HIDE DEF OK
<1>7. 0 \in T  BY <1>4, <1>5
<1>8. ASSUME NEW i \in Nat, i \in T PROVE i + 1 \in T
  <2> SUFFICES ASSUME i + 1 <= N PROVE OK(after[i + 1].pst)
    OBVIOUS
  <2>1. i <= N /\ i + 1 \in 1 .. N /\ (i + 1) - 1 = i  BY <1>1 DEF N
  <2>2. OK(after[i].pst)  BY <1>8, <2>1
  <2> QED BY <1>6, <2>1, <2>2
<1>9. N \in T
  <2> HIDE DEF T
  <2> QED BY <1>1, <1>7, <1>8, Induction DEF N
<1>10. OK(after[N].pst)  BY <1>1, <1>9 DEF N
<1> DEFINE u == Folded(batch, results).pst
<1>11. OK(u)  BY <1>3, <1>10
<1> HIDE DEF u
<1>12. Advised(u, b) /\ Ready(u) /\ Unseen(u) /\ Offered(u, b)  BY <1>11 DEF OK
<1> QED BY <1>12 DEF u

\* A drift starts the discovery again.
Reset(t) ==
    /\ Formed(t) /\ t.changed /\ t.phase = "Discover" /\ t.order = <<>>
    /\ t.dec.candidates = <<>> /\ t.wf.verification # "Failed"

LEMMA DriftResets ==
    ASSUME NEW s, Formed(s), s.changed
    PROVE  LET t == ResetForDrift(s)
           IN  /\ Reset(t) /\ t.files = s.files /\ t.modified = s.modified
               /\ t.guard = s.guard /\ t.key = s.key /\ t.wf.revision = s.wf.revision
<1> DEFINE w == ResetForWorkspaceChange(s.wf, s.modified)
           u == [s EXCEPT !.wf = w, !.phase = "Discover", !.order = <<>>, !.dec = FreshDecision,
                          !.recovering = TRUE, !.forStale = TRUE]
           t == ResetForDrift(s)
<1>1. t = SyncDirector(u, {}, TRUE)  BY DEF ResetForDrift
<1>2. DOMAIN w = WorkflowFields /\ w.revision = s.wf.revision /\ w.verification # "Failed"
  BY DEF ResetForWorkspaceChange, Formed, WorkflowFields
<1>3. DOMAIN FreshDecision = DecisionFields /\ FreshDecision.candidates = <<>>
  BY DEF FreshDecision, DecisionFields
<1> HIDE DEF w
<1>4. /\ DOMAIN u = DOMAIN s /\ u.wf = w /\ u.phase = "Discover" /\ u.order = <<>> /\ u.dec = FreshDecision
      /\ u.files = s.files /\ u.modified = s.modified /\ u.changed = s.changed /\ u.guard = s.guard /\ u.key = s.key
  BY DEF Formed, PolicyFields
<1> HIDE DEF u
<1>5. <<>> \in Seq(PolicyPaths) /\ <<>> \in Seq(Candidates)  OBVIOUS
<1>6. Formed(u)  BY <1>2, <1>3, <1>4, <1>5 DEF Formed, PolicyPhases
<1>7. Steady(u, t)  BY <1>1, <1>6, DirectorIsSteady
<1> HIDE DEF t
<1>8. Reset(t)  BY <1>2, <1>3, <1>4, <1>7 DEF Steady, Reset
<1> QED BY <1>2, <1>4, <1>7, <1>8 DEF t, Steady

LEMMA ResetIsAdvised ==
    ASSUME NEW t, NEW b, Reset(t), t.modified # {} => Touched(t),
           Touched(t) \/ t.key = <<>> \/ t.key[2] = <<>>, Restarted(t) => b
    PROVE  Advised(t, b) /\ Ready(t) /\ Unseen(t)
<1>1. ~\E i \in DOMAIN t.dec.candidates : t.dec.candidates[i].inspected  BY DEF Reset
<1>2. Known(t, b)  BY <1>1 DEF Reset, Known
<1>3. Rediscovers(t, b)  BY DEF Reset, Restarted, Rediscovers
<1>4. Ready(t) /\ Unseen(t)  BY DEF Reset, Ready, Unseen
<1> QED BY <1>2, <1>3, <1>4 DEF Reset, Advised, AdviceOK

LEMMA DriftedResets ==
    ASSUME NEW s, Formed(s), NEW drift \in Drifts(s)
    PROVE  LET t == Drifted(s, drift)
           IN  /\ Reset(t) /\ (Touched(t) <=> Touched(s)) /\ t.modified = s.modified
               /\ drift # {} => Touched(t) /\ AnyStale(t)
               /\ t.guard = s.guard /\ t.key = s.key /\ t.wf.revision = s.wf.revision
<1> DEFINE f == [p \in PolicyPaths |-> IF p \in drift THEN "stale" ELSE s.files[p]]
           u == [s EXCEPT !.files = f, !.changed = TRUE]
           t == ResetForDrift(u)
<1>1. Drifted(s, drift) = t  BY DEF Drifted
<1>2. drift \subseteq PolicyPaths /\ \A p \in drift : s.files[p] # "none"  BY DEF Drifts
<1>3. f \in [PolicyPaths -> {"none", "fresh", "stale"}]
      /\ (\A p \in PolicyPaths : f[p] = IF p \in drift THEN "stale" ELSE s.files[p])
  BY DEF Formed
<1> HIDE DEF f
<1>4. DOMAIN u = DOMAIN s /\ u.wf = s.wf /\ u.phase = s.phase /\ u.order = s.order /\ u.dec = s.dec
      /\ u.files = f /\ u.modified = s.modified /\ u.changed = TRUE /\ u.guard = s.guard /\ u.key = s.key
  BY DEF Formed, PolicyFields
<1> HIDE DEF u
<1>5. Formed(u)  BY <1>3, <1>4 DEF Formed
<1>6. /\ Reset(t) /\ t.files = u.files /\ t.modified = u.modified
      /\ t.guard = u.guard /\ t.key = u.key /\ t.wf.revision = u.wf.revision
  BY <1>4, <1>5, DriftResets
<1> HIDE DEF t
<1>7. Touched(t) <=> Touched(s)  BY <1>2, <1>3, <1>4, <1>6 DEF Touched
<1>8. drift # {} => Touched(t) /\ AnyStale(t)  BY <1>2, <1>3, <1>4, <1>6 DEF Touched, AnyStale
<1>9. t.modified = s.modified /\ t.guard = s.guard /\ t.key = s.key /\ t.wf.revision = s.wf.revision
  BY <1>4, <1>6
<1> QED BY <1>1, <1>6, <1>7, <1>8, <1>9

LEMMA WeakerAdvice ==
    ASSUME NEW s, NEW b, NEW c, Advised(s, b), b => c
    PROVE  Advised(s, c)
BY DEF Advised, AdviceOK, Known, Rediscovers

\* A look that finds the workspace as it was changes nothing; one that does not
\* needs nothing to be carried over.
LEMMA LookingIsAdvised ==
    ASSUME NEW s, NEW b, Advised(s, b), Unseen(s), NEW t \in Looked(s), NEW c, t = s /\ b => c
    PROVE  /\ Advised(t, c) /\ (Ready(s) => Ready(t)) /\ Unseen(t) /\ t.guard = s.guard /\ t.key = s.key
           /\ t.wf.revision = s.wf.revision
<1>1. CASE t = s
  <2>1. Advised(s, c)  BY <1>1, WeakerAdvice
  <2> QED BY <1>1, <2>1
<1>2. CASE t # s
  <2>1. PICK drift \in Drifts(s) \ {{}} : t = Drifted(s, drift)  BY <1>2 DEF Looked
  <2>2. Formed(s)  BY DEF Advised
  <2>3. /\ Reset(t) /\ Touched(t) /\ AnyStale(t)
        /\ t.guard = s.guard /\ t.key = s.key /\ t.wf.revision = s.wf.revision
    BY <2>1, <2>2, DriftedResets
  <2>4. ~Restarted(t)  BY <2>3 DEF Restarted
  <2>5. Advised(t, c) /\ Ready(t) /\ Unseen(t)  BY <2>3, <2>4, ResetIsAdvised
  <2> QED BY <2>3, <2>5
<1> QED BY <1>1, <1>2

LEMMA AdviceOrElse ==
    ASSUME NEW s, NEW b, NEW c, Advised(s, b)
    PROVE  Advised(s, b \/ c)
<1> DEFINE d == b \/ c
<1>1. b => d  OBVIOUS
<1> HIDE DEF d
<1>2. Advised(s, d)  BY <1>1, WeakerAdvice
<1> QED BY <1>2 DEF d

LEMMA ReviewIsAdvised ==
    ASSUME NEW s, NEW b, Advised(s, b), Ready(s), Unseen(s)
    PROVE  LET t == Reviewed(s)
           IN  /\ Advised(t, b \/ Restarted(t)) /\ Ready(t) /\ Unseen(t)
               /\ t.guard = s.guard /\ t.wf.revision = s.wf.revision
<1>1. Formed(s) /\ AdviceOK(s, b)  BY DEF Advised
<1>2. CASE s.changed \/ AnyStale(s)
  <2>1. Reviewed(s) = ResetForDrift(s)  BY <1>2 DEF Reviewed
  <2> DEFINE t == ResetForDrift(s)
             c == b \/ Restarted(t)
  <2>2. s.changed  BY <1>1, <1>2 DEF AdviceOK, Known
  <2>3. /\ Reset(t) /\ t.files = s.files /\ t.modified = s.modified
        /\ t.guard = s.guard /\ t.key = s.key /\ t.wf.revision = s.wf.revision
    BY <1>1, <2>2, DriftResets
  <2> HIDE DEF t
  <2>4. Touched(t) <=> Touched(s)  BY <2>3 DEF Touched
  <2>5. (t.modified # {} => Touched(t)) /\ (Touched(t) \/ t.key = <<>> \/ t.key[2] = <<>>)
    BY <1>1, <2>2, <2>3, <2>4 DEF AdviceOK, Known
  <2>6. Restarted(t) => c  OBVIOUS
  <2> HIDE DEF c
  <2>7. Advised(t, c) /\ Ready(t) /\ Unseen(t)  BY <2>3, <2>5, <2>6, ResetIsAdvised
  <2> QED BY <2>1, <2>3, <2>7 DEF t, c
<1>3. CASE ~(s.changed \/ AnyStale(s)) /\ CompleteIfReady(s.wf, s.modified, TRUE)
  <2> DEFINE t == [s EXCEPT !.phase = "Complete", !.completed = TRUE, !.director = "Done"]
  <2>1. Reviewed(s) = t  BY <1>3 DEF Reviewed
  <2>2. /\ DOMAIN t = DOMAIN s /\ t.wf = s.wf /\ t.phase = "Complete" /\ t.order = s.order /\ t.dec = s.dec
        /\ t.files = s.files /\ t.modified = s.modified /\ t.changed = s.changed /\ t.guard = s.guard /\ t.key = s.key
    BY <1>1 DEF Formed, PolicyFields
  <2> HIDE DEF t
  <2>3. s.wf.verification # "Failed"  BY <1>3 DEF CompleteIfReady, VerificationCurrent
  <2>4. Formed(t)  BY <1>1, <2>2 DEF Formed, PolicyPhases
  <2>5. (Touched(t) <=> Touched(s)) /\ (AnyStale(t) <=> AnyStale(s))  BY <2>2 DEF Touched, AnyStale
  <2>6. AdviceOK(t, b)  BY <1>1, <2>2, <2>3, <2>5 DEF AdviceOK, Known, Rediscovers
  <2>7. Ready(t)  BY <2>2, <2>5 DEF Ready
  <2>8. Unseen(t)  BY <1>3, <2>2 DEF Unseen
  <2>9. Advised(t, b \/ Restarted(t))  BY <2>4, <2>6, AdviceOrElse DEF Advised
  <2> QED BY <2>1, <2>2, <2>7, <2>8, <2>9
<1>4. CASE ~(s.changed \/ AnyStale(s)) /\ ~CompleteIfReady(s.wf, s.modified, TRUE) /\ s.phase = "Complete"
  <2> DEFINE u == [s EXCEPT !.phase = PhaseWhenIncomplete(s), !.completed = FALSE]
             t == SyncDirector(u, s.modified, FALSE)
  <2>1. Reviewed(s) = t  BY <1>4 DEF Reviewed
  <2>2. /\ DOMAIN u = DOMAIN s /\ u.wf = s.wf /\ u.phase = PhaseWhenIncomplete(s) /\ u.order = s.order
        /\ u.dec = s.dec /\ u.files = s.files /\ u.modified = s.modified /\ u.changed = s.changed
        /\ u.guard = s.guard /\ u.key = s.key
    BY <1>1 DEF Formed, PolicyFields
  <2> HIDE DEF u
  <2>3. PhaseWhenIncomplete(s) \in PolicyPhases  BY DEF PhaseWhenIncomplete, PolicyPhases
  <2>4. Formed(u)  BY <1>1, <2>2, <2>3 DEF Formed
  <2>5. (Touched(u) <=> Touched(s)) /\ (AnyStale(u) <=> AnyStale(s)) /\ (VerificationOpen(u) <=> VerificationOpen(s))
    BY <2>2 DEF Touched, AnyStale, VerificationOpen
  <2>6. u.phase = IF VerificationOpen(s) THEN "Verify" ELSE IF s.order = <<>> THEN "Discover" ELSE "Inspect"
    BY <2>2 DEF PhaseWhenIncomplete, VerificationOpen
  <2>7. AdviceOK(u, b)  BY <1>1, <2>2, <2>5, <2>6 DEF AdviceOK, Known, Rediscovers, VerificationOpen
  <2>8. Steady(u, t)  BY <2>4, DirectorIsSteady
  <2> HIDE DEF t
  <2>9. Advised(t, b)  BY <2>7, <2>8, SteadyAdvice
  <2>10. Ready(t) /\ Unseen(t)  BY <1>4, <2>2, <2>8 DEF Ready, Unseen, Touched, Steady
  <2>11. t.guard = s.guard /\ t.wf.revision = s.wf.revision  BY <2>2, <2>8 DEF Steady
  <2>12. Advised(t, b \/ Restarted(t))  BY <2>9, AdviceOrElse
  <2> QED BY <2>1, <2>10, <2>11, <2>12
<1>5. CASE ~(s.changed \/ AnyStale(s)) /\ ~CompleteIfReady(s.wf, s.modified, TRUE) /\ s.phase # "Complete"
  <2> DEFINE t == [s EXCEPT !.director = "Review"]
  <2>1. Reviewed(s) = t  BY <1>5 DEF Reviewed
  <2>2. /\ DOMAIN t = DOMAIN s /\ t.wf = s.wf /\ t.phase = s.phase /\ t.order = s.order /\ t.dec = s.dec
        /\ t.files = s.files /\ t.modified = s.modified /\ t.changed = s.changed /\ t.guard = s.guard /\ t.key = s.key
    BY <1>1 DEF Formed, PolicyFields
  <2> HIDE DEF t
  <2>3. Formed(t)  BY <1>1, <2>2 DEF Formed
  <2>4. Steady(s, t)  BY <2>2, <2>3 DEF Steady
  <2>5. Advised(t, b)  BY <1>1, <2>4, SteadyAdvice
  <2>6. Ready(t) /\ Unseen(t)  BY <1>5, <2>2 DEF Ready, Unseen, Touched
  <2>7. Advised(t, b \/ Restarted(t))  BY <2>5, AdviceOrElse
  <2> QED BY <2>1, <2>2, <2>6, <2>7
<1> QED BY <1>2, <1>3, <1>4, <1>5

AdviceInv == Advised(pst, carried) /\ Ready(pst) /\ Unseen(pst) /\ Offered(pst, carried)

\* Verifying ends what was carried over.
LEMMA CarriedUntilVerified ==
    ASSUME NEW s, NEW b, NEW c, b => c \/ s.phase = "Verify"
    PROVE  (Advised(s, b) => Advised(s, c)) /\ (Offered(s, b) => Offered(s, c))
BY DEF Advised, AdviceOK, Known, Rediscovers, Offered

LEMMA FreshIsAdvised ==
    ASSUME NEW b PROVE Advised(FreshPolicy, b)
<1> DEFINE s == FreshPolicy
<1>1. /\ DOMAIN s = PolicyFields /\ s.wf = FreshWorkflow /\ s.phase = "Discover" /\ s.order = <<>>
      /\ s.files = [p \in PolicyPaths |-> "none"] /\ s.modified = {} /\ s.changed = FALSE
      /\ s.dec = FreshDecision /\ s.guard = FreshGuardrails /\ s.key = <<>>
  BY DEF FreshPolicy, PolicyFields
<1>2. DOMAIN FreshWorkflow = WorkflowFields /\ FreshWorkflow.revision = 0
      /\ FreshWorkflow.verification = "NotRequired"
  BY DEF FreshWorkflow, WorkflowFields
<1>3. DOMAIN FreshDecision = DecisionFields /\ FreshDecision.candidates = <<>>
  BY DEF FreshDecision, DecisionFields
<1>4. DOMAIN FreshGuardrails = {"observations", "failures", "last", "noProgress"}
  BY DEF FreshGuardrails
<1>5. <<>> \in Seq(PolicyPaths) /\ <<>> \in Seq(Candidates)  OBVIOUS
<1> HIDE DEF s
<1>6. Formed(s)  BY <1>1, <1>2, <1>3, <1>4, <1>5 DEF Formed, PolicyPhases
<1>7. AdviceOK(s, b)  BY <1>1, <1>2, <1>3 DEF AdviceOK, Known, Rediscovers, AnyStale, VerificationOpen
<1> QED BY <1>6, <1>7 DEF Advised, s

LEMMA BeginningIsAdvised == PolicyInit => AdviceInv
<1> SUFFICES ASSUME PolicyInit PROVE AdviceInv
  OBVIOUS
<1>1. pst = RefreshCandidates(FreshPolicy)  BY DEF PolicyInit
<1> DEFINE s == FreshPolicy
           t == RefreshCandidates(s)
<1>2. s.key = <<>> /\ Unseen(s)  BY DEF FreshPolicy, Unseen
<1> DEFINE b == carried
<1>3. Advised(s, b)  BY FreshIsAdvised
<1> HIDE DEF s, b
<1>4. Advised(t, b) /\ Ready(t) /\ Unseen(t) /\ Offered(t, b)  BY <1>2, <1>3, CandidatesAreRefreshed
<1> HIDE DEF t
<1> QED BY <1>1, <1>4 DEF AdviceInv, t, s, b

LEMMA StepIsAdvised == AdviceInv /\ ModelStep => AdviceInv'
<1> SUFFICES ASSUME AdviceInv, ModelStep PROVE AdviceInv'
  OBVIOUS
<1>b. PICK batch \in ToolBatches : \E r : pst' = Folded(batch, r).pst  BY DEF ModelStep
<1>1. PICK r : pst' = Folded(batch, r).pst  BY <1>b
<1>2. carried' = (carried /\ pst'.phase # "Verify")  BY DEF ModelStep
<1> DEFINE t == Folded(batch, r).pst
           b == carried
           c == carried /\ t.phase # "Verify"
<1>3. Advised(pst, b) /\ Ready(pst) /\ Unseen(pst) /\ Offered(pst, b)  BY DEF AdviceInv
<1> HIDE DEF b
<1>4. Advised(t, b) /\ Ready(t) /\ Unseen(t) /\ Offered(t, b)  BY <1>3, BatchesAreAdvised
<1>5. b => c \/ t.phase = "Verify"  BY DEF b
<1> HIDE DEF t, c
<1>6. Advised(t, c) /\ Offered(t, c)  BY <1>4, <1>5, CarriedUntilVerified
<1>7. pst' = t  BY <1>1 DEF t
<1>8. carried' = c  BY <1>2, <1>7 DEF c
<1> QED BY <1>4, <1>6, <1>7, <1>8 DEF AdviceInv

LEMMA ClaimIsAdvised == AdviceInv /\ ClaimDone => AdviceInv'
<1> SUFFICES ASSUME AdviceInv, ClaimDone PROVE AdviceInv'
  OBVIOUS
<1>1. PICK s \in Looked(pst) : pst' = UpdateNextAction(Reviewed(s))  BY DEF ClaimDone
<1>2. carried' = (carried \/ Restarted(pst'))  BY DEF ClaimDone
<1> DEFINE b == carried
           u == Reviewed(s)
           t == UpdateNextAction(u)
           c == b \/ Restarted(t)
           d == b \/ Restarted(u)
<1>3. Advised(pst, b) /\ Ready(pst) /\ Unseen(pst)  BY DEF AdviceInv
<1>10. pst' = t /\ carried' = c  BY <1>1, <1>2
<1> HIDE DEF b
<1>4. Advised(s, b) /\ Ready(s) /\ Unseen(s)  BY <1>3, LookingIsAdvised
<1>5. Advised(u, d) /\ Ready(u) /\ Unseen(u)  BY <1>4, ReviewIsAdvised
<1> HIDE DEF u
<1>6. Steady(u, t)  BY <1>5, NextActionIsSteady DEF Advised
<1>o. Offered(t, d)  BY <1>5, NextActionIsOffered
<1> HIDE DEF t
<1>7. Restarted(t) <=> Restarted(u)  BY <1>6 DEF Steady, Restarted, VerificationOpen, AnyStale
<1>8. Advised(t, c) /\ Offered(t, c)
  <2>1. Advised(t, d)  BY <1>5, <1>6, SteadyAdvice DEF Advised
  <2>2. d => c \/ t.phase = "Verify"  BY <1>7
  <2> HIDE DEF c, d
  <2> QED BY <1>o, <2>1, <2>2, CarriedUntilVerified
<1>9. Ready(t) /\ Unseen(t)  BY <1>5, <1>6 DEF Ready, Unseen, Touched, Steady
<1> HIDE DEF c
<1> QED BY <1>8, <1>9, <1>10 DEF AdviceInv

\* What a turn begins with, whether or not the workspace is what it was.
LEMMA BegunIsAdvised ==
    ASSUME NEW p, NEW b, Advised(p, b), Unseen(p), NEW s \in Resumed(p), NEW newTask \in BOOLEAN,
           NEW c, c = (b \/ (newTask /\ VerificationOpen(s)) \/ Restarted(Begun(s, newTask)))
    PROVE  LET t == Begun(s, newTask)
           IN  Advised(t, c) /\ Unseen(t) /\ t.key = <<>> /\ t.guard = FreshGuardrails
<1> DEFINE v == [s EXCEPT !.guard = FreshGuardrails, !.key = <<>>, !.stalled = 0,
                          !.phase = IF newTask THEN "Discover" ELSE s.phase,
                          !.completed = s.completed /\ ~newTask,
                          !.recovering = s.recovering /\ ~newTask]
           t == SyncDirector(v, s.modified, FALSE)
<1>1. Begun(s, newTask) = t  BY DEF Begun
<1>2. s = p \/ (Reset(s) /\ (s.modified # {} => Touched(s)))
  <2>1. Formed(p) /\ Known(p, b)  BY DEF Advised, AdviceOK
  <2>2. ASSUME NEW drift \in Drifts(p), s = Drifted(p, drift)
        PROVE  Reset(s) /\ (s.modified # {} => Touched(s))
    <3>1. Reset(s) /\ (Touched(s) <=> Touched(p)) /\ s.modified = p.modified
      BY <2>1, <2>2, DriftedResets
    <3> QED BY <2>1, <3>1 DEF Known
  <2> QED BY <2>2 DEF Resumed
<1>3. Formed(s)  BY <1>2 DEF Advised, Reset
<1>4. /\ DOMAIN v = DOMAIN s /\ v.wf = s.wf /\ v.order = s.order /\ v.dec = s.dec
      /\ v.files = s.files /\ v.modified = s.modified /\ v.changed = s.changed
      /\ v.guard = FreshGuardrails /\ v.key = <<>>
      /\ v.phase = IF newTask THEN "Discover" ELSE s.phase
  BY <1>3 DEF Formed, PolicyFields
<1> HIDE DEF v
<1>5. DOMAIN FreshGuardrails = {"observations", "failures", "last", "noProgress"}
  BY DEF FreshGuardrails
<1>6. Formed(v)  BY <1>3, <1>4, <1>5 DEF Formed, PolicyPhases
<1>7. Steady(v, t)  BY <1>6, DirectorIsSteady
<1> HIDE DEF t
<1>8. (Touched(v) <=> Touched(s)) /\ (AnyStale(v) <=> AnyStale(s))
      /\ (VerificationOpen(v) <=> VerificationOpen(s))
  BY <1>4 DEF Touched, AnyStale, VerificationOpen
<1>9. c <=> b \/ (newTask /\ VerificationOpen(v)) \/ Restarted(v)
  BY <1>1, <1>7, <1>8 DEF Steady, Restarted, VerificationOpen, AnyStale
<1>10. Advised(v, c) /\ Unseen(v)
  <2>1. CASE s = p
    <3>1. Known(p, b) /\ Rediscovers(p, b)  BY DEF Advised, AdviceOK
    <3>2. v.wf.verification = "Failed" => v.phase = "Verify" \/ c
      BY <1>4, <1>9, <2>1, <3>1 DEF Known, VerificationOpen
    <3>3. Known(v, c)  BY <1>4, <1>8, <2>1, <3>1, <3>2 DEF Known
    <3>4. Rediscovers(v, c)  BY <1>4, <1>8, <1>9, <2>1, <3>1 DEF Rediscovers
    <3>5. Unseen(v)  BY <1>4, <1>8, <2>1 DEF Unseen
    <3> QED BY <1>6, <3>3, <3>4, <3>5 DEF Advised, AdviceOK
  <2>2. CASE Reset(s) /\ (s.modified # {} => Touched(s))
    <3>1. Reset(v) /\ (v.modified # {} => Touched(v))  BY <1>4, <1>6, <1>8, <2>2 DEF Reset
    <3>2. Restarted(v) => c  BY <1>9
    <3> QED BY <1>4, <3>1, <3>2, ResetIsAdvised
  <2> QED BY <1>2, <2>1, <2>2
<1>11. Advised(t, c)  BY <1>7, <1>10, SteadyAdvice DEF Advised
<1>12. Unseen(t) /\ t.key = <<>> /\ t.guard = FreshGuardrails
  BY <1>4, <1>7, <1>10 DEF Steady, Unseen, Touched
<1> QED BY <1>1, <1>11, <1>12

LEMMA TurnIsAdvised == AdviceInv /\ NextTurn => AdviceInv' /\ pst'.guard = FreshGuardrails
<1> SUFFICES ASSUME AdviceInv, NextTurn PROVE AdviceInv' /\ pst'.guard = FreshGuardrails
  OBVIOUS
<1>1. PICK newTask \in BOOLEAN, s \in Resumed(pst) :
         /\ pst' \in {RefreshCandidates(t) : t \in Looked(Begun(s, newTask))}
         /\ carried' = (carried \/ (newTask /\ VerificationOpen(s)) \/ Restarted(pst'))
  BY DEF NextTurn
<1>2. PICK t \in Looked(Begun(s, newTask)) : pst' = RefreshCandidates(t)  BY <1>1
<1> DEFINE v == Begun(s, newTask)
           a == carried
           g == newTask /\ VerificationOpen(s)
           b == a \/ g \/ Restarted(v)
           u == RefreshCandidates(t)
           c == a \/ g \/ Restarted(u)
           d == a \/ g \/ Restarted(t)
<1>3. Advised(pst, a) /\ Unseen(pst)  BY DEF AdviceInv
<1>e. pst' = u /\ carried' = c  BY <1>1, <1>2
<1> HIDE DEF a
<1>4. Advised(v, b) /\ Unseen(v) /\ v.key = <<>> /\ v.guard = FreshGuardrails
  BY <1>3, BegunIsAdvised
<1>5. t \in Looked(v)  BY <1>2
<1>6. t = v /\ b => d  OBVIOUS
<1> HIDE DEF b, d, v
<1>7. Advised(t, d) /\ Unseen(t) /\ t.key = <<>> /\ t.guard = FreshGuardrails
  BY <1>4, <1>5, <1>6, LookingIsAdvised
<1>8. /\ Advised(u, d) /\ Ready(u) /\ Unseen(u) /\ Offered(u, d) /\ u.guard = FreshGuardrails
      /\ u.phase = t.phase /\ u.files = t.files /\ u.wf.verification = t.wf.verification
  BY <1>7, CandidatesAreRefreshed
<1> HIDE DEF u, g
<1>9. d => c  BY <1>8 DEF c, d, Restarted, VerificationOpen, AnyStale
<1> HIDE DEF c
<1>10. Advised(u, c) /\ Offered(u, c)  BY <1>8, <1>9, CarriedUntilVerified
<1> QED BY <1>8, <1>10, <1>e DEF AdviceInv

\* What the advice rests on is kept by every result, review and turn: the phase, the
\* verification, the candidates and the files looked at (ContextEngine, prepare_turn, finish_turn).
THEOREM AdviceInvHolds == PolicySpec => []AdviceInv
<1>1. PolicyInit => AdviceInv  BY BeginningIsAdvised
<1>2. AdviceInv /\ [PolicyNext]_policyVars => AdviceInv'
  <2> SUFFICES ASSUME AdviceInv, [PolicyNext]_policyVars PROVE AdviceInv'
    OBVIOUS
  <2>1. CASE ModelStep  BY <2>1, StepIsAdvised
  <2>2. CASE ClaimDone  BY <2>2, ClaimIsAdvised
  <2>3. CASE NextTurn  BY <2>3, TurnIsAdvised
  <2>4. CASE UNCHANGED policyVars
    <3>1. pst' = pst /\ carried' = carried  BY <2>4 DEF policyVars
    <3> QED BY <3>1 DEF AdviceInv
  <2> QED BY <2>1, <2>2, <2>3, <2>4 DEF PolicyNext
<1> QED BY <1>1, <1>2, PTL DEF PolicySpec

\* A tool for what the runtime recommends is among those it offers, but for a turn that goes back
\* to discovery on top of unverified changes, for a new task or in a workspace whose root is not
\* the same (rank_next_actions, determine_active_tool_names, refresh_against_workspace).
THEOREM AdviceCanBeFollowed == PolicySpec => []RecommendedIsOffered
<1>1. AdviceInv => RecommendedIsOffered
  BY DEF AdviceInv, Offered, RecommendedIsOffered
<1> QED BY <1>1, AdviceInvHolds, PTL

(***************************************************************************)
(* The circuit that ends repetition.  The list of failures remembers how   *)
(* often each call failed at the current revision as long as there is room *)
(* for them (Counts), so a batch starts only with calls that failed less   *)
(* often than the limit (Within).                                          *)
(***************************************************************************)

FailureEntries == [call : PolicyCalls, revision : Nat, attempts : 1 .. 255]

WatchedCalls == {c \in PolicyCalls : Watched(c)}

\* What the failures q that are remembered say of the executions fd that failed,
\* and of the calls fg that failed or were refused, since the last mutation.
Counts(q, revision, fd, fg) ==
    /\ q \in Seq(FailureEntries) /\ Len(q) <= MaxFailureObservations
    /\ \A i, j \in DOMAIN q : i < j =>
          q[i].revision <= q[j].revision /\ (q[i].call = q[j].call => q[i].revision # q[j].revision)
    /\ \A i \in DOMAIN q : q[i].revision <= revision /\ (q[i].revision = revision => q[i].call \in fg)
    /\ fg \subseteq WatchedCalls /\ IsFiniteSet(fg)
    /\ fd \in [PolicyCalls -> Nat]
    /\ \A c \in WatchedCalls : c \notin fg => fd[c] = 0
    /\ Cardinality(fg) <= MaxFailureObservations =>
         \A c \in fg : \E i \in DOMAIN q :
            q[i].call = c /\ q[i].revision = revision /\ (q[i].attempts = 255 \/ fd[c] <= q[i].attempts)

LEMMA SmallerOfTwo ==
    ASSUME NEW a \in Nat, NEW b \in Nat
    PROVE  Min({a, b}) = IF a <= b THEN a ELSE b
<1>1. \E x \in {a, b} : \A y \in {a, b} : x <= y
  <2>1. CASE a <= b
    <3>1. \A y \in {a, b} : a <= y  BY <2>1
    <3> QED BY <3>1
  <2>2. CASE ~(a <= b)
    <3>1. \A y \in {a, b} : b <= y  BY <2>2
    <3> QED BY <3>1
  <2> QED BY <2>1, <2>2
<1>2. Min({a, b}) \in {a, b} /\ \A y \in {a, b} : Min({a, b}) <= y  BY <1>1 DEF Min
<1> QED BY <1>2

LEMMA LeastIndex ==
    ASSUME NEW S, S \subseteq Nat, S # {}
    PROVE  Min(S) \in S
BY NatLeast DEF Min

\* A failure that is known is counted once more.
LEMMA KnownFailureIsCounted ==
    ASSUME NEW q, NEW revision \in Nat, NEW fd, NEW fg, Counts(q, revision, fd, fg),
           NEW call, NEW m \in DOMAIN q, q[m].call = call, q[m].revision = revision,
           NEW fe, fe \in [PolicyCalls -> Nat], fe[call] <= fd[call] + 1,
           \A c \in PolicyCalls : c # call => fe[c] = fd[c],
           NEW e, e = [q[m] EXCEPT !.attempts = Min({q[m].attempts + 1, 255})]
    PROVE  Counts([q EXCEPT ![m] = e], revision, fe, fg \cup {call})
<1> DEFINE n == q[m].attempts
           k == Min({n + 1, 255})
           p == [q EXCEPT ![m] = e]
<1>1. /\ q \in Seq(FailureEntries) /\ Len(q) <= MaxFailureObservations
      /\ \A i, j \in DOMAIN q : i < j =>
            q[i].revision <= q[j].revision /\ (q[i].call = q[j].call => q[i].revision # q[j].revision)
      /\ \A i \in DOMAIN q : q[i].revision <= revision /\ (q[i].revision = revision => q[i].call \in fg)
      /\ fg \subseteq WatchedCalls /\ IsFiniteSet(fg)
      /\ fd \in [PolicyCalls -> Nat]
      /\ \A c \in WatchedCalls : c \notin fg => fd[c] = 0
      /\ Cardinality(fg) <= MaxFailureObservations =>
           \A c \in fg : \E i \in DOMAIN q :
              q[i].call = c /\ q[i].revision = revision /\ (q[i].attempts = 255 \/ fd[c] <= q[i].attempts)
  BY DEF Counts
<1>2. call \in fg /\ fg \cup {call} = fg /\ call \in PolicyCalls  BY <1>1 DEF WatchedCalls
<1>3. q[m] \in FailureEntries /\ n \in 1 .. 255
  <2>1. q[m] \in FailureEntries  BY <1>1
  <2>2. \A x \in FailureEntries : x.attempts \in 1 .. 255  BY DEF FailureEntries
  <2> QED BY <2>1, <2>2
<1>4. k = IF n + 1 <= 255 THEN n + 1 ELSE 255
  <2>1. n + 1 \in Nat /\ 255 \in Nat  BY <1>3
  <2> HIDE DEF n
  <2> QED BY <2>1, SmallerOfTwo
<1>5. k \in 1 .. 255  BY <1>3, <1>4
<1>7. e = [q[m] EXCEPT !.attempts = k]  OBVIOUS
<1> HIDE DEF k
<1>6. e \in FailureEntries /\ e.call = call /\ e.revision = revision /\ e.attempts = k
  BY <1>3, <1>5, <1>7 DEF FailureEntries
<1>8. p \in Seq(FailureEntries) /\ DOMAIN p = DOMAIN q /\ Len(p) = Len(q) /\ p[m] = e
      /\ \A i \in DOMAIN q : i # m => p[i] = q[i]
  BY <1>1, <1>6
<1> HIDE DEF p
<1>9. \A i \in DOMAIN q : p[i].call = q[i].call /\ p[i].revision = q[i].revision
  BY <1>6, <1>8
<1>10. \A i, j \in DOMAIN p : i < j =>
          p[i].revision <= p[j].revision /\ (p[i].call = p[j].call => p[i].revision # p[j].revision)
  BY <1>1, <1>8, <1>9
<1>11. \A i \in DOMAIN p : p[i].revision <= revision /\ (p[i].revision = revision => p[i].call \in fg)
  BY <1>1, <1>8, <1>9
<1>12. \A c \in WatchedCalls : c \notin fg => fe[c] = 0
  BY <1>1, <1>2 DEF WatchedCalls
<1>13. ASSUME Cardinality(fg) <= MaxFailureObservations, NEW c \in fg
       PROVE  \E i \in DOMAIN p :
                 p[i].call = c /\ p[i].revision = revision /\ (p[i].attempts = 255 \/ fe[c] <= p[i].attempts)
  <2>1. PICK i \in DOMAIN q :
           q[i].call = c /\ q[i].revision = revision /\ (q[i].attempts = 255 \/ fd[c] <= q[i].attempts)
    BY <1>1, <1>13
  <2>2. CASE c = call
    <3>1. i = m
      <4>1. i \in Nat /\ m \in Nat  BY <1>1
      <4>2. ~(i < m) /\ ~(m < i)  BY <1>1, <2>1, <2>2
      <4> QED BY <4>1, <4>2
    <3>2. n = 255 \/ fd[call] <= n  BY <2>1, <2>2, <3>1
    <3>3. fe[call] \in Nat /\ fd[call] \in Nat  BY <1>1, <1>2
    <3>4. k = 255 \/ fe[call] <= k  BY <1>3, <1>4, <3>2, <3>3
    <3>5. m \in DOMAIN p /\ p[m].call = c /\ p[m].revision = revision /\ p[m].attempts = k
      BY <1>6, <1>8, <2>2
    <3> HIDE DEF k, n
    <3> QED BY <2>2, <3>4, <3>5
  <2>3. CASE c # call
    <3>1. i # m  BY <2>1, <2>3
    <3>2. p[i] = q[i] /\ i \in DOMAIN p  BY <1>8, <3>1
    <3>3. fe[c] = fd[c]  BY <1>1, <2>3 DEF WatchedCalls
    <3> QED BY <2>1, <3>2, <3>3
  <2> QED BY <2>2, <2>3
<1>14. Counts(p, revision, fe, fg)
  BY <1>1, <1>8, <1>10, <1>11, <1>12, <1>13 DEF Counts
<1> QED BY <1>2, <1>14 DEF p

\* What is pushed out of a full list is its first entry.
LEMMA LastOfPushed ==
    ASSUME NEW A, NEW q \in Seq(A), NEW e \in A, NEW n \in Nat \ {0}, Len(q) <= n
    PROVE  LET p == LastOf(Append(q, e), n)
               d == IF Len(q) = n THEN 1 ELSE 0
           IN  /\ p \in Seq(A) /\ Len(p) = Len(q) + 1 - d
               /\ p[Len(p)] = e
               /\ \A i \in 1 .. (Len(p) - 1) : i + d \in DOMAIN q /\ p[i] = q[i + d]
<1> DEFINE a == Append(q, e)
           p == LastOf(a, n)
           L == Len(q)
<1>1. a \in Seq(A) /\ Len(a) = L + 1 /\ L \in Nat /\ a[L + 1] = e /\ \A i \in 1 .. L : a[i] = q[i]
      /\ DOMAIN q = 1 .. L
  OBVIOUS
<1>2. p = IF Len(a) > n THEN SubSeq(a, Len(a) - n + 1, Len(a)) ELSE a  BY DEF LastOf
<1> HIDE DEF a, p
<1>3. CASE L = n
  <2>1. p = SubSeq(a, 2, n + 1)  BY <1>1, <1>2, <1>3
  <2>2. p \in Seq(A) /\ Len(p) = n /\ \A i \in 1 .. n : p[i] = a[i + 1]
    <3>1. 2 \in 1 .. (Len(a) + 1) /\ n + 1 \in 1 .. Len(a)  BY <1>1, <1>3
    <3>2. /\ SubSeq(a, 2, n + 1) \in Seq(A)
          /\ Len(SubSeq(a, 2, n + 1)) = (n + 1) - 2 + 1
          /\ \A i \in 1 .. ((n + 1) - 2 + 1) : SubSeq(a, 2, n + 1)[i] = a[2 + i - 1]
      BY <1>1, <1>3
    <3>3. (n + 1) - 2 + 1 = n /\ \A i \in 1 .. n : 2 + i - 1 = i + 1  OBVIOUS
    <3> QED BY <2>1, <3>2, <3>3
  <2>3. p[n] = e  BY <1>1, <1>3, <2>2
  <2>4. \A i \in 1 .. (n - 1) : i + 1 \in DOMAIN q /\ p[i] = q[i + 1]  BY <1>1, <1>3, <2>2
  <2> HIDE DEF L
  <2>5. Len(p) = L + 1 - 1  BY <1>3, <2>2, <1>1
  <2> QED BY <1>3, <2>2, <2>3, <2>4, <2>5 DEF p, a, L
<1>4. CASE L # n
  <2>1. p = a  BY <1>1, <1>2, <1>4
  <2>2. Len(p) = L + 1 - 0 /\ Len(p) - 1 = L  BY <1>1, <2>1
  <2>3. \A i \in 1 .. L : i + 0 \in DOMAIN q /\ p[i] = q[i + 0]  BY <1>1, <2>1
  <2> HIDE DEF L
  <2> QED BY <1>1, <1>4, <2>1, <2>2, <2>3 DEF p, a, L
<1> QED BY <1>3, <1>4

\* When the failures of this revision fill the list, there are more of them than there is room for.
LEMMA NoRoomIsTooMany ==
    ASSUME NEW q, NEW revision \in Nat, NEW fd, NEW fg, Counts(q, revision, fd, fg),
           NEW call, call \notin {q[i].call : i \in DOMAIN q}, Len(q) = MaxFailureObservations,
           q[1].revision = revision
    PROVE  ~(Cardinality(fg \cup {call}) <= MaxFailureObservations)
<1> DEFINE N == MaxFailureObservations
           f == [i \in 1 .. N |-> q[i].call]
           calls == {f[i] : i \in 1 .. N}
<1>1. /\ q \in Seq(FailureEntries)
      /\ \A i, j \in DOMAIN q : i < j =>
            q[i].revision <= q[j].revision /\ (q[i].call = q[j].call => q[i].revision # q[j].revision)
      /\ \A i \in DOMAIN q : q[i].revision <= revision /\ (q[i].revision = revision => q[i].call \in fg)
      /\ IsFiniteSet(fg)
  BY DEF Counts
<1>2. N \in Nat \ {0} /\ DOMAIN q = 1 .. N /\ 1 \in DOMAIN q  BY <1>1, PolicyAssumption
<1>3. \A i \in DOMAIN q : q[i].revision \in Nat
  <2>1. \A i \in DOMAIN q : q[i] \in FailureEntries  BY <1>1
  <2> QED BY <2>1 DEF FailureEntries
<1> HIDE DEF N
<1>4. \A i \in 1 .. N : q[i].revision = revision
  <2> TAKE i \in 1 .. N
  <2>1. i \in DOMAIN q /\ (i = 1 \/ 1 < i)  BY <1>2
  <2>2. q[1].revision <= q[i].revision  BY <1>1, <1>2, <1>3, <2>1
  <2> QED BY <1>1, <1>3, <2>1, <2>2
<1>5. \A i, j \in 1 .. N : f[i] = f[j] => i = j
  <2> SUFFICES ASSUME NEW i \in 1 .. N, NEW j \in 1 .. N, q[i].call = q[j].call PROVE i = j
    OBVIOUS
  <2>1. ~(i < j) /\ ~(j < i)  BY <1>1, <1>2, <1>4
  <2> QED BY <2>1
<1>6. calls \subseteq fg /\ call \notin calls /\ call \in fg \cup {call}
  BY <1>1, <1>2, <1>4
<1>7. f \in [1 .. N -> calls] /\ DOMAIN f = 1 .. N  OBVIOUS
<1>8. \A x \in calls : \E i \in 1 .. N : f[i] = x  OBVIOUS
<1> HIDE DEF f, calls
<1>9. f \in Injection(1 .. N, calls) /\ f \in Surjection(1 .. N, calls)
  BY <1>5, <1>7, <1>8 DEF Injection, Surjection, IsInjective
<1>10. IsFiniteSet(calls)  BY <1>1, <1>6, FS_Subset
<1>11. IsFiniteSet(1 .. N) /\ Cardinality(1 .. N) = N  BY <1>2, FS_Interval
<1>12. Cardinality(1 .. N) = Cardinality(calls)  BY <1>9, <1>10, FS_Injection
<1>13. IsFiniteSet(calls \cup {call}) /\ Cardinality(calls \cup {call}) = N + 1
  BY <1>6, <1>10, <1>11, <1>12, FS_AddElement
<1>14. IsFiniteSet(fg \cup {call}) /\ Cardinality(fg \cup {call}) \in Nat
  BY <1>1, FS_AddElement, FS_CardinalityType
<1>15. Cardinality(calls \cup {call}) <= Cardinality(fg \cup {call})
  BY <1>6, <1>14, FS_Subset
<1> QED BY <1>2, <1>13, <1>14, <1>15 DEF N

\* A failure that was not met at this revision is counted for the first time.
LEMMA NewFailureIsCounted ==
    ASSUME NEW q, NEW revision \in Nat, NEW fd, NEW fg, Counts(q, revision, fd, fg),
           NEW call \in WatchedCalls,
           ~\E i \in DOMAIN q : q[i].call = call /\ q[i].revision = revision,
           NEW fe, fe \in [PolicyCalls -> Nat], fe[call] <= fd[call] + 1,
           \A c \in PolicyCalls : c # call => fe[c] = fd[c]
    PROVE  Counts(LastOf(Append(q, [call |-> call, revision |-> revision, attempts |-> 1]), MaxFailureObservations),
                  revision, fe, fg \cup {call})
<1> DEFINE e == [call |-> call, revision |-> revision, attempts |-> 1]
           N == MaxFailureObservations
           p == LastOf(Append(q, e), N)
           d == IF Len(q) = N THEN 1 ELSE 0
           fh == fg \cup {call}
<1>1. /\ q \in Seq(FailureEntries) /\ Len(q) <= N
      /\ \A i, j \in DOMAIN q : i < j =>
            q[i].revision <= q[j].revision /\ (q[i].call = q[j].call => q[i].revision # q[j].revision)
      /\ \A i \in DOMAIN q : q[i].revision <= revision /\ (q[i].revision = revision => q[i].call \in fg)
      /\ fg \subseteq WatchedCalls /\ IsFiniteSet(fg)
      /\ fd \in [PolicyCalls -> Nat]
      /\ \A c \in WatchedCalls : c \notin fg => fd[c] = 0
      /\ Cardinality(fg) <= N =>
           \A c \in fg : \E i \in DOMAIN q :
              q[i].call = c /\ q[i].revision = revision /\ (q[i].attempts = 255 \/ fd[c] <= q[i].attempts)
  BY DEF Counts
<1>2. N \in Nat \ {0} /\ call \in PolicyCalls  BY PolicyAssumption DEF WatchedCalls
<1>3. e \in FailureEntries /\ e.call = call /\ e.revision = revision /\ e.attempts = 1
  BY <1>2 DEF FailureEntries
<1> HIDE DEF e, N
<1>4. /\ p \in Seq(FailureEntries) /\ Len(p) = Len(q) + 1 - d
      /\ p[Len(p)] = e
      /\ \A i \in 1 .. (Len(p) - 1) : i + d \in DOMAIN q /\ p[i] = q[i + d]
  BY <1>1, <1>2, <1>3, LastOfPushed
<1> HIDE DEF p
<1>5. d \in {0, 1} /\ Len(q) \in Nat /\ DOMAIN q = 1 .. Len(q)  BY <1>1
<1>6. Len(p) <= N /\ Len(p) \in Nat \ {0} /\ DOMAIN p = 1 .. Len(p)
  <2>1. Len(p) \in Nat /\ DOMAIN p = 1 .. Len(p)  BY <1>4
  <2> DEFINE k == Len(q)
  <2>2. k \in Nat /\ k <= N /\ d = IF k = N THEN 1 ELSE 0  BY <1>1, <1>5
  <2>3. Len(p) = k + 1 - d  BY <1>4
  <2> HIDE DEF k, d
  <2> QED BY <1>2, <2>1, <2>2, <2>3
<1> HIDE DEF d
<1>7. \A i \in DOMAIN q : q[i].revision \in Nat
  <2>1. \A i \in DOMAIN q : q[i] \in FailureEntries  BY <1>1
  <2> QED BY <2>1 DEF FailureEntries
<1>8. \A i \in DOMAIN p : i = Len(p) \/ i \in 1 .. (Len(p) - 1)  BY <1>6
<1>9. \A i, j \in DOMAIN p : i < j =>
         p[i].revision <= p[j].revision /\ (p[i].call = p[j].call => p[i].revision # p[j].revision)
  <2> SUFFICES ASSUME NEW i \in DOMAIN p, NEW j \in DOMAIN p, i < j
               PROVE  p[i].revision <= p[j].revision /\ (p[i].call = p[j].call => p[i].revision # p[j].revision)
    OBVIOUS
  <2>1. i \in 1 .. (Len(p) - 1)  BY <1>6
  <2>2. i + d \in DOMAIN q /\ p[i] = q[i + d]  BY <1>4, <2>1
  <2>3. CASE j = Len(p)
    <3>1. p[j] = e  BY <1>4, <2>3
    <3>2. q[i + d].revision <= revision /\ ~(q[i + d].call = call /\ q[i + d].revision = revision)
      BY <1>1, <2>2
    <3> QED BY <1>3, <2>2, <3>1, <3>2
  <2>4. CASE j \in 1 .. (Len(p) - 1)
    <3>1. j + d \in DOMAIN q /\ p[j] = q[j + d]  BY <1>4, <2>4
    <3>2. i + d < j + d  BY <1>5, <1>6
    <3>3. q[i + d].revision <= q[j + d].revision
          /\ (q[i + d].call = q[j + d].call => q[i + d].revision # q[j + d].revision)
      BY <1>1, <2>2, <3>1, <3>2
    <3> QED BY <2>2, <3>1, <3>3
  <2> QED BY <1>8, <2>3, <2>4
<1>10. \A i \in DOMAIN p : p[i].revision <= revision /\ (p[i].revision = revision => p[i].call \in fh)
  <2> TAKE i \in DOMAIN p
  <2>1. CASE i = Len(p)  BY <1>3, <1>4, <2>1
  <2>2. CASE i \in 1 .. (Len(p) - 1)
    <3>1. i + d \in DOMAIN q /\ p[i] = q[i + d]  BY <1>4, <2>2
    <3> QED BY <1>1, <3>1
  <2> QED BY <1>8, <2>1, <2>2
<1>11. fh \subseteq WatchedCalls /\ IsFiniteSet(fh)  BY <1>1, FS_AddElement
<1>12. \A c \in WatchedCalls : c \notin fh => fe[c] = 0  BY <1>1 DEF WatchedCalls
<1>13. ASSUME Cardinality(fh) <= N, NEW c \in fh
       PROVE  \E i \in DOMAIN p :
                 p[i].call = c /\ p[i].revision = revision /\ (p[i].attempts = 255 \/ fe[c] <= p[i].attempts)
  <2>1. Cardinality(fg) <= N
    <3>1. Cardinality(fg) <= Cardinality(fh)  BY <1>11, FS_Subset
    <3>2. Cardinality(fg) \in Nat /\ Cardinality(fh) \in Nat  BY <1>1, <1>11, FS_CardinalityType
    <3> QED BY <1>2, <1>13, <3>1, <3>2
  <2>2. call \notin fg  BY <1>1, <2>1
  <2>3. CASE c = call
    <3>1. fd[call] = 0 /\ fe[call] \in Nat  BY <1>1, <1>2, <2>2
    <3>2. fe[call] <= 1  BY <3>1
    <3>3. Len(p) \in DOMAIN p  BY <1>6
    <3> QED BY <1>3, <1>4, <2>3, <3>2, <3>3
  <2>4. CASE c # call
    <3>1. c \in fg /\ fe[c] = fd[c]  BY <1>1, <2>4 DEF WatchedCalls
    <3>2. PICK j \in DOMAIN q :
             q[j].call = c /\ q[j].revision = revision /\ (q[j].attempts = 255 \/ fd[c] <= q[j].attempts)
      BY <1>1, <2>1, <3>1
    <3>3. j - d \in 1 .. (Len(p) - 1)
      <4>1. CASE d = 0  BY <1>4, <1>5, <4>1
      <4>2. CASE d = 1
        <5>1. Len(q) = N  BY <4>2 DEF d
        <5>2. j # 1
          <6> SUFFICES ASSUME j = 1 PROVE FALSE
            OBVIOUS
          <6>1. q[1].revision = revision  BY <3>2
          <6>2. \A i \in DOMAIN q : q[i].revision = revision
            <7> TAKE i \in DOMAIN q
            <7>1. 1 \in DOMAIN q /\ (i = 1 \/ 1 < i)  BY <1>5
            <7>2. q[1].revision <= q[i].revision  BY <1>1, <1>7, <7>1
            <7> QED BY <1>1, <1>7, <6>1, <7>2
          <6>3. call \notin {q[i].call : i \in DOMAIN q}  BY <6>2
          <6> QED BY <1>13, <5>1, <6>1, <6>3, NoRoomIsTooMany DEF N
        <5> QED BY <1>4, <1>5, <4>2, <5>2
      <4> QED BY <1>5, <4>1, <4>2
    <3>4. p[j - d] = q[j] /\ j - d \in DOMAIN p
      <4>1. (j - d) + d = j  BY <1>5
      <4> QED BY <1>4, <1>6, <3>3, <4>1
    <3> QED BY <3>1, <3>2, <3>4
  <2> QED BY <2>3, <2>4
<1> HIDE DEF fh
<1>14. Counts(p, revision, fe, fh)
  BY <1>1, <1>4, <1>6, <1>9, <1>10, <1>11, <1>12, <1>13 DEF Counts, N
<1> QED BY <1>14 DEF p, e, fh, N

\* What is counted of a failure, whether it was met at this revision or not.
LEMMA FailuresAreCounted ==
    ASSUME NEW g, DOMAIN g = GuardFields, NEW revision \in Nat, NEW fd, NEW fg,
           Counts(g.failures, revision, fd, fg), NEW call \in WatchedCalls,
           NEW fe, fe \in [PolicyCalls -> Nat], fe[call] <= fd[call] + 1,
           \A c \in PolicyCalls : c # call => fe[c] = fd[c]
    PROVE  Counts(CountFailure(g, call, revision).failures, revision, fe, fg \cup {call})
<1> DEFINE known == {i \in DOMAIN g.failures : g.failures[i].call = call /\ g.failures[i].revision = revision}
           m == Min(known)
           q == g.failures
<1>1. "failures" \in DOMAIN g  BY DEF GuardFields
<1>2. q \in Seq(FailureEntries)  BY DEF Counts
<1>3. CASE known # {}
  <2>1. known \subseteq Nat  BY <1>2
  <2> DEFINE j == m
  <2>2. j \in known  BY <1>3, <2>1, LeastIndex
  <2> HIDE DEF j
  <2>3. j \in DOMAIN q /\ q[j].call = call /\ q[j].revision = revision  BY <2>2
  <2> DEFINE e == [q[j] EXCEPT !.attempts = Min({q[j].attempts + 1, 255})]
             p == [q EXCEPT ![j] = e]
  <2>4. CountFailure(g, call, revision) = [g EXCEPT !.failures = p]
    BY <1>3 DEF CountFailure, j
  <2>5. e = [q[j] EXCEPT !.attempts = Min({q[j].attempts + 1, 255})]  OBVIOUS
  <2>6. Counts(q, revision, fd, fg)  OBVIOUS
  <2> HIDE DEF e
  <2>7. Counts(p, revision, fe, fg \cup {call})
    <3> HIDE DEF q
    <3> QED BY <2>3, <2>5, <2>6, KnownFailureIsCounted
  <2> HIDE DEF p
  <2>8. CountFailure(g, call, revision).failures = p  BY <1>1, <2>4
  <2> QED BY <2>7, <2>8
<1>4. CASE known = {}
  <2> DEFINE p == LastOf(Append(q, [call |-> call, revision |-> revision, attempts |-> 1]), MaxFailureObservations)
  <2>1. CountFailure(g, call, revision) = CountFailureAnew(g, call, revision)  BY <1>4 DEF CountFailure
  <2>2. CountFailureAnew(g, call, revision).failures = p  BY <1>1 DEF CountFailureAnew
  <2>3. ~\E i \in DOMAIN q : q[i].call = call /\ q[i].revision = revision  BY <1>4
  <2>4. Counts(p, revision, fe, fg \cup {call})  BY <2>3, NewFailureIsCounted
  <2> QED BY <2>1, <2>2, <2>4
<1> QED BY <1>3, <1>4

\* A call that was executed and failed is counted, or all begin again.
CountsOn(fd, fe, fg, fh, call, r) ==
    \/ \A c \in PolicyCalls : fe[c] = 0
    \/ /\ fg \subseteq fh
       /\ \A c \in PolicyCalls : fe[c] = fd[c] + IF c = call /\ r.executed /\ ~r.ok THEN 1 ELSE 0

\* What one result more leaves counted.
LEMMA ResultsAreCounted ==
    ASSUME NEW s, NEW b, Advised(s, b), Unseen(s), NEW fd, NEW fg,
           Counts(s.guard.failures, s.wf.revision, fd, fg), NEW call \in PolicyCalls, NEW r,
           NEW t, t = FoldResult(s, call, r),
           NEW fe, fe = FailedWith(s, t, fd, call, r), NEW fh, fh = FailingWith(s, t, fg, call, r)
    PROVE  Counts(t.guard.failures, t.wf.revision, fe, fh) /\ CountsOn(fd, fe, fg, fh, call, r)
<1> DEFINE q == s.guard.failures
           n == s.wf.revision
<1>1. /\ t.wf.revision = n + IF r.ok /\ call.tool = "write" THEN 1 ELSE 0
      /\ t.guard.failures = IF Watched(call) /\ ~r.ok THEN CountFailure(s.guard, call, n).failures ELSE q
      /\ Advised(t, b) /\ Unseen(t)
  BY ResultsAreAdvised
<1>2. n \in Nat /\ DOMAIN s.guard = GuardFields  BY DEF Advised, Formed, GuardFields
<1>3. /\ q \in Seq(FailureEntries) /\ Len(q) <= MaxFailureObservations
      /\ \A i, j \in DOMAIN q : i < j =>
            q[i].revision <= q[j].revision /\ (q[i].call = q[j].call => q[i].revision # q[j].revision)
      /\ \A i \in DOMAIN q : q[i].revision <= n /\ (q[i].revision = n => q[i].call \in fg)
      /\ fg \subseteq WatchedCalls /\ IsFiniteSet(fg)
      /\ fd \in [PolicyCalls -> Nat]
      /\ \A c \in WatchedCalls : c \notin fg => fd[c] = 0
      /\ Cardinality(fg) <= MaxFailureObservations =>
           \A c \in fg : \E i \in DOMAIN q :
              q[i].call = c /\ q[i].revision = n /\ (q[i].attempts = 255 \/ fd[c] <= q[i].attempts)
  BY DEF Counts
<1>4. fe = [c \in PolicyCalls |-> (IF t.wf.revision = n THEN fd[c] ELSE 0)
                                    + (IF c = call /\ r.executed /\ ~r.ok THEN 1 ELSE 0)]
  BY DEF FailedWith
<1>5. fh = (IF t.wf.revision = n THEN fg ELSE {}) \cup (IF Watched(call) /\ ~r.ok THEN {call} ELSE {})
  BY DEF FailingWith
<1> HIDE DEF q, n
<1>6. fe \in [PolicyCalls -> Nat]  BY <1>3, <1>4
<1>7. CASE r.ok /\ call.tool = "write"
  <2>1. t.wf.revision = n + 1 /\ t.wf.revision # n /\ t.guard.failures = q  BY <1>1, <1>2, <1>7
  <2>2. fe = [c \in PolicyCalls |-> 0] /\ fh = {}  BY <1>4, <1>5, <1>7, <2>1
  <2>3. \A i \in DOMAIN q : q[i].revision <= n + 1 /\ q[i].revision # n + 1
    <3>1. \A i \in DOMAIN q : q[i] \in FailureEntries  BY <1>3
    <3>2. \A i \in DOMAIN q : q[i].revision \in Nat  BY <3>1 DEF FailureEntries
    <3> QED BY <1>2, <1>3, <3>2
  <2>4. IsFiniteSet({}) /\ {} \subseteq WatchedCalls  BY FS_EmptySet
  <2>5. Counts(q, n + 1, fe, {})  BY <1>3, <1>6, <2>2, <2>3, <2>4 DEF Counts, WatchedCalls
  <2>6. \A c \in PolicyCalls : fe[c] = 0  BY <2>2
  <2> QED BY <2>1, <2>2, <2>5, <2>6 DEF CountsOn
<1>8. CASE ~(r.ok /\ call.tool = "write")
  <2>1. t.wf.revision = n  BY <1>1, <1>2, <1>8
  <2>2. \A c \in PolicyCalls : fe[c] = fd[c] + IF c = call /\ r.executed /\ ~r.ok THEN 1 ELSE 0
    BY <1>4, <2>1
  <2>3. fg \subseteq fh  BY <1>5, <2>1
  <2>4. \A c \in PolicyCalls : fd[c] \in Nat /\ fe[c] \in Nat /\ fd[c] + 0 = fd[c]  BY <1>3, <1>6
  <2>5. CASE Watched(call) /\ ~r.ok
    <3>1. call \in WatchedCalls  BY <2>5 DEF WatchedCalls
    <3>2. fe[call] <= fd[call] + 1 /\ \A c \in PolicyCalls : c # call => fe[c] = fd[c]
      BY <2>2, <2>4
    <3>3. fh = fg \cup {call}  BY <1>5, <2>1, <2>5
    <3>4. Counts(CountFailure(s.guard, call, n).failures, n, fe, fg \cup {call})
      BY <1>2, <1>6, <3>1, <3>2, FailuresAreCounted DEF q, n
    <3>5. Counts(t.guard.failures, t.wf.revision, fe, fh)  BY <1>1, <2>1, <2>5, <3>3, <3>4
    <3> QED BY <2>2, <2>3, <3>5 DEF CountsOn
  <2>6. CASE ~(Watched(call) /\ ~r.ok)
    <3>1. fh = fg  BY <1>5, <2>1, <2>6
    <3>2. \A c \in WatchedCalls : fe[c] = fd[c]
      BY <2>2, <2>4, <2>6 DEF WatchedCalls
    <3>3. t.guard.failures = q  BY <1>1, <2>6
    <3>4. Counts(q, n, fe, fg)  BY <1>3, <1>6, <3>2 DEF Counts
    <3>5. Counts(t.guard.failures, t.wf.revision, fe, fh)  BY <2>1, <3>1, <3>3, <3>4
    <3> QED BY <2>2, <2>3, <3>5 DEF CountsOn
  <2> QED BY <2>5, <2>6
<1> QED BY <1>7, <1>8

\* A watched call is executed only while the circuit lets it.
LEMMA ExecutedWasAllowed ==
    ASSUME NEW s, NEW call, Watched(call), NEW r \in PolicyAnswers(s, call), r.executed, ~r.ok
    PROVE  ~PreflightFailure(s.guard, call, s.wf.revision)
<1> SUFFICES ASSUME PreflightFailure(s.guard, call, s.wf.revision) PROVE FALSE
  OBVIOUS
<1>1. PolicyAnswers(s, call) = (IF CachedRead(s, call) THEN {PolicyReuse(call)} ELSE {})
                               \cup {PolicyRefusal("repeated_failure")}
  BY DEF PolicyAnswers
<1>2. r = PolicyReuse(call) \/ r = PolicyRefusal("repeated_failure")  BY <1>1
<1>3. PolicyReuse(call).ok /\ ~PolicyRefusal("repeated_failure").executed  BY DEF PolicyReuse, PolicyRefusal
<1> QED BY <1>2, <1>3

LEMMA AllowedIsBounded ==
    ASSUME NEW g, NEW revision \in Nat, NEW fd, NEW fg, Counts(g.failures, revision, fd, fg),
           Cardinality(fg) <= MaxFailureObservations,
           NEW c \in WatchedCalls, ~PreflightFailure(g, c, revision)
    PROVE  fd[c] <= NoProgressLimit - 1
<1>1. NoProgressLimit \in 1 .. 255  BY PolicyAssumption
<1> DEFINE q == g.failures
<1>2. /\ q \in Seq(FailureEntries)
      /\ fd \in [PolicyCalls -> Nat]
      /\ \A x \in WatchedCalls : x \notin fg => fd[x] = 0
      /\ \A x \in fg : \E i \in DOMAIN q :
            q[i].call = x /\ q[i].revision = revision /\ (q[i].attempts = 255 \/ fd[x] <= q[i].attempts)
  BY DEF Counts
<1>3. CASE c \notin fg
  <2>1. fd[c] = 0  BY <1>2, <1>3
  <2>2. 0 <= NoProgressLimit - 1  BY <1>1
  <2> QED BY <2>1, <2>2
<1>4. CASE c \in fg
  <2>1. PICK i \in DOMAIN q :
           q[i].call = c /\ q[i].revision = revision /\ (q[i].attempts = 255 \/ fd[c] <= q[i].attempts)
    BY <1>2, <1>4
  <2>2. ~(q[i].attempts >= NoProgressLimit)  BY <2>1 DEF PreflightFailure
  <2>3. q[i].attempts \in 1 .. 255
    <3>1. q[i] \in FailureEntries  BY <1>2
    <3> QED BY <3>1 DEF FailureEntries
  <2>4. fd[c] \in Nat  BY <1>2 DEF WatchedCalls
  <2> HIDE DEF q
  <2> QED BY <1>1, <2>1, <2>2, <2>3, <2>4
<1> QED BY <1>3, <1>4

Counted(x) == Counts(x.pst.guard.failures, x.pst.wf.revision, x.failed, x.failing)

\* After i results a call failed as often as before the batch, or about as often
\* as the circuit lets it.
Within(x, i) ==
    Cardinality(x.failing) <= MaxFailureObservations =>
        \A c \in WatchedCalls :
           \/ x.failed[c] <= NoProgressLimit - 1 + i
           \/ x.failed[c] <= failed[c] /\ Cardinality(failing) <= MaxFailureObservations

LEMMA ResultsAreWithin ==
    ASSUME NEW b, Advised(pst, b), Unseen(pst), Counts(pst.guard.failures, pst.wf.revision, failed, failing),
           NEW x, Advised(x.pst, b), Unseen(x.pst), Counted(x), NEW i \in Nat, Within(x, i),
           NEW call \in PolicyCalls, NEW r \in PolicyAnswers(pst, call)
    PROVE  LET y == WithResult(x, call, r)
           IN  Advised(y.pst, b) /\ Unseen(y.pst) /\ Counted(y) /\ Within(y, i + 1)
<1> DEFINE y == WithResult(x, call, r)
           s == x.pst
           t == FoldResult(s, call, r)
           fe == FailedWith(s, t, x.failed, call, r)
           fh == FailingWith(s, t, x.failing, call, r)
<1>1. y.pst = t /\ y.failed = fe /\ y.failing = fh  BY FoldedParts
<1>s. Advised(s, b) /\ Unseen(s) /\ Counts(s.guard.failures, s.wf.revision, x.failed, x.failing)  BY DEF Counted
<1> HIDE DEF s
<1>2. Advised(t, b) /\ Unseen(t)  BY <1>s, ResultsAreAdvised
<1>t. /\ t = FoldResult(s, call, r) /\ fe = FailedWith(s, t, x.failed, call, r)
      /\ fh = FailingWith(s, t, x.failing, call, r)
  OBVIOUS
<1> HIDE DEF t, fe, fh, y
<1>3. /\ Counts(t.guard.failures, t.wf.revision, fe, fh)
      /\ \/ \A c \in PolicyCalls : fe[c] = 0
         \/ /\ x.failing \subseteq fh
            /\ \A c \in PolicyCalls :
                 fe[c] = x.failed[c] + IF c = call /\ r.executed /\ ~r.ok THEN 1 ELSE 0
  <2> DEFINE fd == x.failed
             fg == x.failing
  <2>1. Advised(s, b) /\ Unseen(s) /\ Counts(s.guard.failures, s.wf.revision, fd, fg)  BY <1>s
  <2>2. t = FoldResult(s, call, r) /\ fe = FailedWith(s, t, fd, call, r) /\ fh = FailingWith(s, t, fg, call, r)
    BY <1>t
  <2> HIDE DEF fd, fg
  <2>3. Counts(t.guard.failures, t.wf.revision, fe, fh) /\ CountsOn(fd, fe, fg, fh, call, r)
    BY <2>1, <2>2, ResultsAreCounted
  <2> QED BY <2>3 DEF CountsOn, fd, fg
<1>4. Counted(y)  BY <1>1, <1>3 DEF Counted
<1>5. NoProgressLimit \in Nat \ {0}  BY PolicyAssumption
<1>6. /\ \A c \in WatchedCalls : c \in PolicyCalls /\ Watched(c)
      /\ x.failed \in [PolicyCalls -> Nat] /\ failed \in [PolicyCalls -> Nat] /\ fe \in [PolicyCalls -> Nat]
      /\ IsFiniteSet(fh)
  BY <1>3 DEF WatchedCalls, Counted, Counts
<1>7. ASSUME Cardinality(fh) <= MaxFailureObservations, NEW c \in WatchedCalls
      PROVE  \/ fe[c] <= NoProgressLimit - 1 + (i + 1)
             \/ fe[c] <= failed[c] /\ Cardinality(failing) <= MaxFailureObservations
  <2>1. CASE \A k \in PolicyCalls : fe[k] = 0
    <3>1. fe[c] = 0  BY <1>6, <2>1
    <3> QED BY <1>5, <3>1
  <2>2. CASE /\ x.failing \subseteq fh
             /\ \A k \in PolicyCalls :
                  fe[k] = x.failed[k] + IF k = call /\ r.executed /\ ~r.ok THEN 1 ELSE 0
    <3>1. Cardinality(x.failing) <= MaxFailureObservations
      <4>1. Cardinality(x.failing) <= Cardinality(fh) /\ IsFiniteSet(x.failing)
        BY <1>6, <2>2, FS_Subset
      <4>2. Cardinality(x.failing) \in Nat /\ Cardinality(fh) \in Nat  BY <1>6, <4>1, FS_CardinalityType
      <4>3. MaxFailureObservations \in Nat  BY PolicyAssumption
      <4> QED BY <1>7, <4>1, <4>2, <4>3
    <3>2. \/ x.failed[c] <= NoProgressLimit - 1 + i
          \/ x.failed[c] <= failed[c] /\ Cardinality(failing) <= MaxFailureObservations
      BY <3>1 DEF Within
    <3>3. x.failed[c] \in Nat /\ failed[c] \in Nat  BY <1>6
    <3>4. CASE c = call /\ r.executed /\ ~r.ok
      <4>1. fe[c] = x.failed[c] + 1  BY <1>6, <2>2, <3>4
      <4>2. x.failed[c] <= NoProgressLimit - 1 + i
        <5>1. ~PreflightFailure(pst.guard, c, pst.wf.revision)  BY <1>6, <3>4, ExecutedWasAllowed
        <5>2. pst.wf.revision \in Nat  BY DEF Advised, Formed
        <5>3. Cardinality(failing) <= MaxFailureObservations => failed[c] <= NoProgressLimit - 1
          BY <5>1, <5>2, AllowedIsBounded
        <5> QED BY <1>5, <3>2, <3>3, <5>3
      <4> QED BY <1>5, <3>3, <4>1, <4>2
    <3>5. CASE ~(c = call /\ r.executed /\ ~r.ok)
      <4>1. fe[c] = x.failed[c]
        <5>1. fe[c] = x.failed[c] + 0  BY <1>6, <2>2, <3>5
        <5> QED BY <3>3, <5>1
      <4> QED BY <1>5, <3>2, <3>3, <4>1
    <3> QED BY <3>4, <3>5
  <2> QED BY <1>3, <2>1, <2>2
<1>8. Within(y, i + 1)  BY <1>1, <1>7 DEF Within
<1>9. Advised(y.pst, b) /\ Unseen(y.pst)  BY <1>1, <1>2
<1> QED BY <1>4, <1>8, <1>9 DEF y

LEMMA BatchesAreCounted ==
    ASSUME NEW b, Advised(pst, b), Unseen(pst), Counts(pst.guard.failures, pst.wf.revision, failed, failing),
           NEW batch \in ToolBatches, NEW results,
           \A i \in DOMAIN batch : results[i] \in PolicyAnswers(pst, batch[i])
    PROVE  LET x == Folded(batch, results)
           IN  Counted(x) /\ Within(x, Len(batch))
<1>1. Len(batch) \in Nat /\ DOMAIN batch = 1 .. Len(batch)
      /\ \A i \in 1 .. Len(batch) : batch[i] \in PolicyCalls
  BY CallsAssumption DEF PolicyCalls, Range
<1> DEFINE N == Len(batch)
<1>2. PICK after : FoldedInOrder(after, batch, results)  BY <1>1, BatchInOrder
<1>3. /\ after[0] = [pst |-> pst, failed |-> failed, failing |-> failing]
      /\ \A i \in 1 .. N : after[i] = WithResult(after[i - 1], batch[i], results[i])
      /\ Folded(batch, results) = after[N]
  BY <1>2 DEF FoldedInOrder
<1>4. N \in Nat /\ \A i \in 1 .. N : batch[i] \in PolicyCalls /\ results[i] \in PolicyAnswers(pst, batch[i])
  BY <1>1
<1> HIDE DEF N
<1> DEFINE OK(i) == Advised(after[i].pst, b) /\ Unseen(after[i].pst) /\ Counted(after[i]) /\ Within(after[i], i)
           T == {i \in Nat : i <= N => OK(i)}
<1>5. OK(0)
  <2>1. after[0].pst = pst /\ after[0].failed = failed /\ after[0].failing = failing  BY <1>3
  <2>2. Advised(after[0].pst, b) /\ Unseen(after[0].pst)  BY <2>1
  <2>3. Counted(after[0])  BY <2>1 DEF Counted
  <2>4. Within(after[0], 0)
    <3>1. failed \in [PolicyCalls -> Nat] /\ \A c \in WatchedCalls : c \in PolicyCalls
      BY DEF Counts, WatchedCalls
    <3>2. \A c \in WatchedCalls : failed[c] <= failed[c]  BY <3>1
    <3> QED BY <2>1, <3>2 DEF Within
  <2> QED BY <2>2, <2>3, <2>4
<1>6. ASSUME NEW i \in Nat, i + 1 \in 1 .. N, OK(i) PROVE OK(i + 1)
  <2> DEFINE x == after[i]
             y == WithResult(x, batch[i + 1], results[i + 1])
  <2>1. after[i + 1] = y
    <3>1. (i + 1) - 1 = i  OBVIOUS
    <3> QED BY <1>3, <1>6, <3>1
  <2>2. Advised(x.pst, b) /\ Unseen(x.pst) /\ Counted(x) /\ Within(x, i)  BY <1>6
  <2>3. batch[i + 1] \in PolicyCalls /\ results[i + 1] \in PolicyAnswers(pst, batch[i + 1])  BY <1>4, <1>6
  <2> HIDE DEF x
  <2>4. Advised(y.pst, b) /\ Unseen(y.pst) /\ Counted(y) /\ Within(y, i + 1)  BY <2>2, <2>3, ResultsAreWithin
  <2> HIDE DEF y
  <2> QED BY <2>1, <2>4
<1> HIDE DEF OK
<1>7. 0 \in T  BY <1>5
<1>8. ASSUME NEW i \in Nat, i \in T PROVE i + 1 \in T
  <2> SUFFICES ASSUME i + 1 <= N PROVE OK(i + 1)
    OBVIOUS
  <2>1. i <= N /\ i + 1 \in 1 .. N  BY <1>4
  <2> QED BY <1>6, <1>8, <2>1
<1>9. N \in T
  <2> HIDE DEF T
  <2> QED BY <1>4, <1>7, <1>8, Induction
<1>10. OK(N)  BY <1>4, <1>9
<1>11. Counted(after[N]) /\ Within(after[N], N)  BY <1>10 DEF OK
<1> DEFINE u == Folded(batch, results)
<1>12. u = after[N]  BY <1>3
<1> HIDE DEF u
<1>13. Counted(u) /\ Within(u, N)  BY <1>11, <1>12
<1> QED BY <1>13 DEF u, N

CutOffInv == Counts(pst.guard.failures, pst.wf.revision, failed, failing) /\ FailuresAreCutOff

LEMMA BatchLengths ==
    NoProgressLimit \in Nat /\ \A b \in ToolBatches : Len(b) \in Nat \ {0}
<1>1. NoProgressLimit \in 1 .. 255  BY PolicyAssumption
<1>2. NoProgressLimit \in Nat  BY <1>1
<1>3. \A b \in ToolBatches : Len(b) \in Nat \ {0}  BY CallsAssumption
<1> QED BY <1>2, <1>3

\* Nothing has failed since the last mutation or the start of the turn.
LEMMA NothingFailed ==
    ASSUME NEW revision \in Nat, NEW fd, fd = [c \in PolicyCalls |-> 0]
    PROVE  /\ Counts(<<>>, revision, fd, {})
           /\ \A c \in PolicyCalls : \E b \in ToolBatches : fd[c] < NoProgressLimit + Len(b)
<1>1. <<>> \in Seq(FailureEntries) /\ Len(<<>>) = 0 /\ DOMAIN <<>> = {}  OBVIOUS
<1>2. IsFiniteSet({})  BY FS_EmptySet
<1>3. fd \in [PolicyCalls -> Nat] /\ \A c \in PolicyCalls : fd[c] = 0  OBVIOUS
<1>4. Counts(<<>>, revision, fd, {})
  BY <1>1, <1>2, <1>3, PolicyAssumption DEF Counts, WatchedCalls
<1>5. ASSUME NEW c \in PolicyCalls PROVE \E b \in ToolBatches : fd[c] < NoProgressLimit + Len(b)
  <2>1. PICK b \in ToolBatches : TRUE  BY DEF PolicyCalls
  <2>2. Len(b) \in Nat \ {0} /\ NoProgressLimit \in Nat  BY BatchLengths
  <2>3. 0 < NoProgressLimit + Len(b)  BY <2>2
  <2> QED BY <1>3, <2>3
<1> QED BY <1>4, <1>5

LEMMA BeginningIsCounted == PolicyInit => CutOffInv
<1> SUFFICES ASSUME PolicyInit PROVE CutOffInv
  OBVIOUS
<1>1. pst = RefreshCandidates(FreshPolicy) /\ failed = [c \in PolicyCalls |-> 0] /\ failing = {}
  BY DEF PolicyInit
<1> DEFINE s == FreshPolicy
           t == RefreshCandidates(s)
<1>2. s.guard.failures = <<>> /\ s.wf.revision = 0
  BY DEF FreshPolicy, FreshGuardrails, FreshWorkflow
<1>3. Advised(s, FALSE) /\ Unseen(s)  BY FreshIsAdvised DEF FreshPolicy, Unseen
<1> HIDE DEF s
<1>4. t.guard = s.guard /\ t.wf.revision = s.wf.revision  BY <1>3, CandidatesAreRefreshed
<1> HIDE DEF t
<1>5. pst = t  BY <1>1 DEF t, s
<1>6. 0 \in Nat  OBVIOUS
<1>7. Counts(<<>>, 0, failed, {})
      /\ \A c \in PolicyCalls : \E b \in ToolBatches : failed[c] < NoProgressLimit + Len(b)
  BY <1>1, <1>6, NothingFailed
<1> QED BY <1>1, <1>2, <1>4, <1>5, <1>7 DEF CutOffInv, FailuresAreCutOff

LEMMA StepIsCounted == AdviceInv /\ CutOffInv /\ ModelStep => CutOffInv'
<1> SUFFICES ASSUME AdviceInv, CutOffInv, ModelStep PROVE CutOffInv'
  OBVIOUS
<1> DEFINE Leads(batch, r) ==
             /\ \A i \in DOMAIN batch : r[i] \in PolicyAnswers(pst, batch[i])
             /\ pst' = Folded(batch, r).pst /\ failed' = Folded(batch, r).failed
             /\ failing' = Folded(batch, r).failing
<1>0. \E batch \in ToolBatches : \E r : Leads(batch, r)  BY DEF ModelStep
<1>b. PICK batch \in ToolBatches : \E r : Leads(batch, r)  BY <1>0
<1>1. PICK r : Leads(batch, r)  BY <1>b
<1> DEFINE x == Folded(batch, r)
           b == carried
<1>2. Advised(pst, b) /\ Unseen(pst) /\ Counts(pst.guard.failures, pst.wf.revision, failed, failing)
  BY DEF AdviceInv, CutOffInv
<1> HIDE DEF b
<1>3. Counted(x) /\ Within(x, Len(batch))  BY <1>1, <1>2, BatchesAreCounted
<1> HIDE DEF x
<1>4. pst' = x.pst /\ failed' = x.failed /\ failing' = x.failing  BY <1>1 DEF x
<1>5. Counts(x.pst.guard.failures, x.pst.wf.revision, x.failed, x.failing)  BY <1>3 DEF Counted
<1>6. Counts(pst.guard.failures, pst.wf.revision, failed, failing)'  BY <1>4, <1>5
<1>7. ASSUME Cardinality(x.failing) <= MaxFailureObservations, NEW c \in PolicyCalls, Watched(c)
      PROVE  \E y \in ToolBatches : x.failed[c] < NoProgressLimit + Len(y)
  <2>1. c \in WatchedCalls  BY <1>7 DEF WatchedCalls
  <2>2. \/ x.failed[c] <= NoProgressLimit - 1 + Len(batch)
        \/ x.failed[c] <= failed[c] /\ Cardinality(failing) <= MaxFailureObservations
    BY <1>3, <1>7, <2>1 DEF Within
  <2>3. x.failed[c] \in Nat /\ failed[c] \in Nat  BY <1>2, <1>5 DEF Counts
  <2>4. NoProgressLimit \in Nat /\ \A y \in ToolBatches : Len(y) \in Nat
    BY BatchLengths
  <2>5. CASE x.failed[c] <= NoProgressLimit - 1 + Len(batch)
    <3>1. x.failed[c] < NoProgressLimit + Len(batch)  BY <2>3, <2>4, <2>5
    <3> QED BY <3>1
  <2>6. CASE x.failed[c] <= failed[c] /\ Cardinality(failing) <= MaxFailureObservations
    <3>1. PICK y \in ToolBatches : failed[c] < NoProgressLimit + Len(y)
      BY <1>7, <2>6 DEF CutOffInv, FailuresAreCutOff
    <3>2. x.failed[c] < NoProgressLimit + Len(y)  BY <2>3, <2>4, <2>6, <3>1
    <3> QED BY <3>2
  <2> QED BY <2>2, <2>5, <2>6
<1>8. FailuresAreCutOff'  BY <1>4, <1>7 DEF FailuresAreCutOff
<1> QED BY <1>6, <1>8 DEF CutOffInv

LEMMA ClaimIsCounted == AdviceInv /\ CutOffInv /\ ClaimDone => CutOffInv'
<1> SUFFICES ASSUME AdviceInv, CutOffInv, ClaimDone PROVE CutOffInv'
  OBVIOUS
<1>1. PICK s \in Looked(pst) : pst' = UpdateNextAction(Reviewed(s))  BY DEF ClaimDone
<1>2. failed' = failed /\ failing' = failing  BY DEF ClaimDone
<1> DEFINE b == carried
           u == Reviewed(s)
           t == UpdateNextAction(u)
<1>3. Advised(pst, b) /\ Ready(pst) /\ Unseen(pst)  BY DEF AdviceInv
<1> HIDE DEF b
<1>4. Advised(s, b) /\ Ready(s) /\ Unseen(s) /\ s.guard = pst.guard /\ s.wf.revision = pst.wf.revision
  BY <1>3, LookingIsAdvised
<1>5. Advised(u, b \/ Restarted(u)) /\ u.guard = s.guard /\ u.wf.revision = s.wf.revision  BY <1>4, ReviewIsAdvised
<1> HIDE DEF u
<1>6. Steady(u, t)  BY <1>5, NextActionIsSteady DEF Advised
<1> HIDE DEF t
<1>7. t.guard = pst.guard /\ t.wf.revision = pst.wf.revision  BY <1>4, <1>5, <1>6 DEF Steady
<1>8. pst' = t  BY <1>1 DEF t, u
<1> QED BY <1>2, <1>7, <1>8 DEF CutOffInv, FailuresAreCutOff

LEMMA TurnIsCounted == AdviceInv /\ NextTurn => CutOffInv'
<1> SUFFICES ASSUME AdviceInv, NextTurn PROVE CutOffInv'
  OBVIOUS
<1>1. AdviceInv' /\ pst'.guard = FreshGuardrails  BY TurnIsAdvised
<1>2. failed' = [c \in PolicyCalls |-> 0] /\ failing' = {}  BY DEF NextTurn
<1>3. pst'.guard.failures = <<>>  BY <1>1 DEF FreshGuardrails
<1>4. pst'.wf.revision \in Nat  BY <1>1 DEF AdviceInv, Advised, Formed
<1>5. /\ Counts(<<>>, pst'.wf.revision, failed', {})
      /\ \A c \in PolicyCalls : \E b \in ToolBatches : failed'[c] < NoProgressLimit + Len(b)
  BY <1>2, <1>4, NothingFailed
<1> QED BY <1>2, <1>3, <1>5 DEF CutOffInv, FailuresAreCutOff

\* The failures that are remembered say how often each call failed at the current revision, as
\* long as there is room for them (observe_impl_with_fingerprint).
THEOREM CutOffInvHolds == PolicySpec => []CutOffInv
<1>1. PolicyInit => CutOffInv  BY BeginningIsCounted
<1>2. AdviceInv /\ CutOffInv /\ [PolicyNext]_policyVars => CutOffInv'
  <2> SUFFICES ASSUME AdviceInv, CutOffInv, [PolicyNext]_policyVars PROVE CutOffInv'
    OBVIOUS
  <2>1. CASE ModelStep  BY <2>1, StepIsCounted
  <2>2. CASE ClaimDone  BY <2>2, ClaimIsCounted
  <2>3. CASE NextTurn  BY <2>3, TurnIsCounted
  <2>4. CASE UNCHANGED policyVars
    BY <2>4 DEF policyVars, CutOffInv, FailuresAreCutOff
  <2> QED BY <2>1, <2>2, <2>3, <2>4 DEF PolicyNext
<1> QED BY <1>1, <1>2, AdviceInvHolds, PTL DEF PolicySpec

\* A read or a check that fails is executed less often than the limit and a batch more at one
\* revision, as long as there is room for its failures (preflight_failure_prepared).
THEOREM RepetitionIsCutOff == PolicySpec => []FailuresAreCutOff
<1>1. CutOffInv => FailuresAreCutOff  BY DEF CutOffInv
<1> QED BY <1>1, CutOffInvHolds, PTL
=============================================================================
