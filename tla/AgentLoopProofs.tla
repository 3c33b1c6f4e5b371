-------------------------- MODULE AgentLoopProofs ---------------------------
(***************************************************************************)
(* What a turn may do to the files of its user, for any files, contents,   *)
(* plans, answers of the model and edits of the user.                      *)
(*                                                                         *)
(* A write replaces only what the agent was shown, because whatever makes  *)
(* an entry of the context current also shows it to the agent (Observed),  *)
(* and everything else leaves the entry alone or makes it stale.  A file   *)
(* the agent has changed is in the context by the time a claim to be done  *)
(* is reviewed, since only folding the results leads there (OwnerInv).     *)
(*                                                                         *)
(* A command that counts as passed succeeded after the last change,        *)
(* because folding a change makes every check of the workflow stale, and a *)
(* check in the same answer runs after the writes before it and is folded  *)
(* before the changes after it (CheckInv).                                 *)
(*                                                                         *)
(* A turn ends because each of its steps uses up something: an answer of   *)
(* the budget, or a stage of the round, or work of the stage.  A check of  *)
(* the automatic verification uses up work only if its result is recorded, *)
(* which takes a workflow whose verification is still open (BoundInv).     *)
(***************************************************************************)
EXTENDS AgentLoop, FiniteSetTheorems, TLAPS

-----------------------------------------------------------------------------
(* The operators of the context.                                            *)

LEMMA CallFields ==
    ASSUME NEW call \in Call
    PROVE  /\ call.tool \in {"read", "write", "create", "shell", "verify", "start", "list", "git"}
           /\ call.tool \in {"read", "write", "create", "shell"} => call.file \in Files
           /\ call.tool = "write" => call.expected \in Contents
           /\ call.tool \in {"write", "create", "shell"} => call.content \in Live
  BY DEF Call, ReadCall, WriteCall, CreateCall, ShellCall, CheckCall, LookCall, Live

(* What happens to the workflow concerns nothing else.                      *)
LEMMA OnlyWorkflow ==
    ASSUME NEW c, ContextOK(c), NEW w
    PROVE  LET n == [c EXCEPT !.wf = w]
           IN  ContextOK(n) /\ n.inspected = c.inspected /\ n.modified = c.modified /\ n.userModified = c.userModified
  BY DEF ContextOK

LEMMA OnlyChanged ==
    ASSUME NEW c, ContextOK(c), NEW b
    PROVE  LET n == [c EXCEPT !.changed = b]
           IN  ContextOK(n) /\ n.inspected = c.inspected /\ n.modified = c.modified /\ n.userModified = c.userModified
  BY DEF ContextOK

LEMMA OnlyModified ==
    ASSUME NEW c, ContextOK(c), NEW m \in SUBSET Files
    PROVE  LET n == [c EXCEPT !.modified = m]
           IN  ContextOK(n) /\ n.inspected = c.inspected /\ n.modified = m /\ n.userModified = c.userModified
  BY DEF ContextOK

LEMMA OnlyInspected ==
    ASSUME NEW c, ContextOK(c), NEW entries \in [Files -> Entry]
    PROVE  LET n == [c EXCEPT !.inspected = entries]
           IN  ContextOK(n) /\ n.inspected = entries /\ n.modified = c.modified /\ n.userModified = c.userModified
  BY DEF ContextOK

LEMMA Current ==
    ASSUME NEW h \in Live
    PROVE  [hash |-> h, stale |-> FALSE, present |-> TRUE] \in Entry
  BY DEF Entry

LEMMA Promoted ==
    ASSUME NEW c, ContextOK(c), fs \in [Files -> Live], NEW files \in SUBSET Files
    PROVE  LET n == Promote(c, files)
           IN  /\ ContextOK(n) /\ n.modified = c.modified /\ n.userModified = c.userModified
               /\ \A f \in Files : n.inspected[f] =
                     IF f \in files /\ fs[f] # NoFile THEN [hash |-> fs[f], stale |-> FALSE, present |-> TRUE]
                     ELSE c.inspected[f]
<1> DEFINE there == {f \in files : fs[f] # NoFile}
           seenNow == [f \in Files |-> IF f \in there THEN [hash |-> fs[f], stale |-> FALSE, present |-> TRUE]
                                       ELSE c.inspected[f]]
           w == RecordInspection(RecordRelevant(c.wf, there))
           d == [c EXCEPT !.inspected = seenNow, !.wf = w]
<1>1. CASE there = {}
  <2>1. Promote(c, files) = c
    BY <1>1 DEF Promote
  <2> QED
    BY <1>1, <2>1
<1>2. CASE there # {}
  <2>1. Promote(c, files) = d
    BY <1>2 DEF Promote
  <2>2. seenNow \in [Files -> Entry]
    BY Current DEF ContextOK
  <2> HIDE DEF w, seenNow
  <2>3. ContextOK(d) /\ d.modified = c.modified /\ d.userModified = c.userModified /\ d.inspected = seenNow
    <3> DEFINE a == [c EXCEPT !.inspected = seenNow]
    <3>1. ContextOK(a) /\ a.modified = c.modified /\ a.userModified = c.userModified /\ a.inspected = seenNow
      BY <2>2, OnlyInspected
    <3>2. d = [a EXCEPT !.wf = w]
      OBVIOUS
    <3> HIDE DEF a, d
    <3> QED
      BY <3>1, <3>2, OnlyWorkflow
  <2> QED
    BY <2>1, <2>3 DEF seenNow
<1> QED
  BY <1>1, <1>2

(* What a result says about files.                                          *)
LEMMA FilesObserved ==
    ASSUME NEW c, ContextOK(c), NEW call, NEW r \in Result,
           call.tool \in {"read", "write", "create", "shell"} => call.file \in Files
    PROVE  LET n == ObserveFiles(c, call, r)
           IN  /\ ContextOK(n) /\ c.modified \subseteq n.modified /\ c.userModified \subseteq n.userModified
               /\ r.ok /\ call.tool \in {"write", "create"} => call.file \in n.modified
               /\ \A f \in Files : n.inspected[f] =
                     IF r.ok /\ call.tool \in {"read", "write", "create"} /\ call.file = f
                       THEN [hash |-> r.hash, stale |-> FALSE, present |-> TRUE] ELSE c.inspected[f]
<1>1. r.hash \in Live /\ r.files \subseteq Files
  BY DEF Result
<1>2. CASE r.ok /\ call.tool \in {"read", "write", "create"}
  <2> DEFINE w == RecordRelevant(c.wf, {call.file})
             e == [hash |-> r.hash, stale |-> FALSE, present |-> TRUE]
             d == [c EXCEPT !.inspected[call.file] = e, !.wf = w]
  <2>1. d = Inspect(c, call.file, r.hash) /\ e \in Entry /\ call.file \in Files
    BY <1>1, <1>2, Current DEF Inspect, ContextOK
  <2> HIDE DEF w, e
  <2>2. /\ ContextOK(d) /\ d.modified = c.modified /\ d.userModified = c.userModified
        /\ \A f \in Files : d.inspected[f] = IF call.file = f THEN e ELSE c.inspected[f]
    BY <2>1 DEF ContextOK
  <2>3. CASE call.tool = "read"
    <3>1. ObserveFiles(c, call, r) = d
      BY <1>2, <2>1, <2>3 DEF ObserveFiles
    <3> QED
      BY <1>2, <2>2, <2>3, <3>1 DEF e
  <2>4. CASE call.tool \in {"write", "create"}
    <3> HIDE DEF d
    <3> DEFINE n == [d EXCEPT !.modified = d.modified \cup {call.file}]
    <3>1. ObserveFiles(c, call, r) = n
      BY <1>2, <2>1, <2>4 DEF ObserveFiles
    <3>2. d.modified \cup {call.file} \in SUBSET Files
      BY <2>1, <2>2 DEF ContextOK
    <3>3. /\ ContextOK(n) /\ n.modified = d.modified \cup {call.file} /\ n.userModified = d.userModified
          /\ n.inspected = d.inspected
      BY <2>2, <3>2, OnlyModified
    <3> HIDE DEF n
    <3>4. \A f \in Files : n.inspected[f] = IF call.file = f THEN e ELSE c.inspected[f]
      BY <2>2, <3>3
    <3>5. ContextOK(n) /\ c.modified \subseteq n.modified /\ c.userModified \subseteq n.userModified /\ call.file \in n.modified
      BY <2>2, <3>3
    <3> QED
      BY <1>2, <2>4, <3>1, <3>4, <3>5 DEF e
  <2> QED
    BY <1>2, <2>3, <2>4
<1>3. CASE call.tool = "list" /\ r.ok
  <2>1. ObserveFiles(c, call, r) = [c EXCEPT !.wf = RecordRelevant(c.wf, r.files)]
    BY <1>3 DEF ObserveFiles, ContextOK
  <2> QED
    BY <1>3, <2>1, OnlyWorkflow
<1>4. CASE call.tool = "git"
  <2>1. ObserveFiles(c, call, r) = [c EXCEPT !.userModified = c.userModified \cup (r.files \ c.modified)]
    BY <1>4 DEF ObserveFiles, RecordUserModified, ContextOK
  <2> QED
    BY <1>1, <1>4, <2>1 DEF ContextOK
<1>5. CASE ~(r.ok /\ call.tool \in {"read", "write", "create", "list"}) /\ call.tool # "git"
  <2>1. ObserveFiles(c, call, r) = c
    BY <1>5 DEF ObserveFiles
  <2> QED
    BY <1>5, <2>1
<1> QED
  BY <1>2, <1>3, <1>4, <1>5

(* What a mutation does to the entry of its target: it is looked at again,  *)
(* or, after a command, stale.                                              *)
LEMMA MutationObserved ==
    ASSUME NEW c, ContextOK(c), fs \in [Files -> Live], NEW call, Mutates(call), call.file \in Files
    PROVE  LET n == ObserveMutation(c, call)
           IN  /\ ContextOK(n) /\ c.modified \subseteq n.modified /\ c.userModified \subseteq n.userModified
               /\ call.tool = "shell" => call.file \in n.modified
               /\ \A f \in Files :
                     IF f = call.file /\ fs[f] # NoFile
                       THEN n.inspected[f] = [hash |-> fs[f], stale |-> FALSE, present |-> TRUE]
                       ELSE \/ n.inspected[f] = c.inspected[f]
                            \/ call.tool = "shell" /\ (n.inspected[f] = Unseen \/ n.inspected[f].stale)
<1> DEFINE entries == [c.inspected EXCEPT ![call.file] = IF @ = Unseen THEN @ ELSE [@ EXCEPT !.stale = TRUE]]
           files == c.modified \cup {call.file}
           told == IF call.tool # "shell" THEN c
                   ELSE [c EXCEPT !.modified = files, !.inspected = entries,
                                  !.changed = TRUE, !.wf = RecordRelevant(c.wf, {call.file})]
           marked == [told EXCEPT !.wf = RecordMutation(told.wf)]
           again == Promote(marked, {call.file})
           n == [again EXCEPT !.wf = SetVerificationPlan(again.wf, PlanFor[again.modified])]
<1>1. ObserveMutation(c, call) = n
  <2>1. [c EXCEPT !.modified = @ \cup {call.file},
                  !.inspected[call.file] = IF @ = Unseen THEN @ ELSE [@ EXCEPT !.stale = TRUE],
                  !.changed = TRUE,
                  !.wf = RecordRelevant(@, {call.file})]
        = [c EXCEPT !.modified = files, !.inspected = entries,
                    !.changed = TRUE, !.wf = RecordRelevant(c.wf, {call.file})]
    BY DEF ContextOK
  <2> QED
    BY <2>1 DEF ObserveMutation
<1>2. entries \in [Files -> Entry] /\ \A f \in Files : \/ entries[f] = c.inspected[f]
                                                       \/ entries[f] = Unseen \/ entries[f].stale
  <2>1. \A e \in Entry : [e EXCEPT !.stale = TRUE] \in Entry /\ [e EXCEPT !.stale = TRUE].stale
    BY DEF Entry
  <2>2. c.inspected \in [Files -> Entry]
    BY DEF ContextOK
  <2> QED
    BY <2>1, <2>2
<1> HIDE DEF entries
<1>3. /\ ContextOK(told) /\ c.modified \subseteq told.modified /\ told.userModified = c.userModified
      /\ call.tool = "shell" => call.file \in told.modified
      /\ \A f \in Files : \/ told.inspected[f] = c.inspected[f]
                          \/ call.tool = "shell" /\ (told.inspected[f] = Unseen \/ told.inspected[f].stale)
  <2>1. CASE call.tool # "shell"
    BY <2>1
  <2>2. CASE call.tool = "shell"
    <3> DEFINE a == [c EXCEPT !.modified = files]
               b == [a EXCEPT !.inspected = entries]
               d == [b EXCEPT !.changed = TRUE]
    <3>1. files \in SUBSET Files /\ c.modified \subseteq files /\ call.file \in files
      BY DEF ContextOK
    <3>2. told = [d EXCEPT !.wf = RecordRelevant(c.wf, {call.file})]
      BY <2>2
    <3> HIDE DEF files, told
    <3>3. ContextOK(a) /\ a.modified = files /\ a.userModified = c.userModified
      BY <3>1, OnlyModified
    <3> HIDE DEF a
    <3>4. ContextOK(b) /\ b.modified = files /\ b.userModified = c.userModified /\ b.inspected = entries
      BY <1>2, <3>3, OnlyInspected
    <3> HIDE DEF b
    <3>5. ContextOK(d) /\ d.modified = files /\ d.userModified = c.userModified /\ d.inspected = entries
      BY <3>4, OnlyChanged
    <3> HIDE DEF d
    <3>6. ContextOK(told) /\ told.modified = files /\ told.userModified = c.userModified /\ told.inspected = entries
      BY <3>2, <3>5, OnlyWorkflow
    <3> QED
      BY <1>2, <2>2, <3>1, <3>6
  <2> QED
    BY <2>1, <2>2
<1> HIDE DEF told
<1>4. /\ ContextOK(marked) /\ marked.modified = told.modified /\ marked.userModified = told.userModified
      /\ marked.inspected = told.inspected
  BY <1>3, OnlyWorkflow
<1> HIDE DEF marked
<1>5. /\ ContextOK(again) /\ again.modified = marked.modified /\ again.userModified = marked.userModified
      /\ \A f \in Files : again.inspected[f] =
            IF f \in {call.file} /\ fs[f] # NoFile THEN [hash |-> fs[f], stale |-> FALSE, present |-> TRUE]
            ELSE marked.inspected[f]
  BY <1>4, Promoted
<1> HIDE DEF again
<1>6. ContextOK(n) /\ n.modified = again.modified /\ n.userModified = again.userModified /\ n.inspected = again.inspected
  BY <1>5, OnlyWorkflow
<1> HIDE DEF n
<1> QED
  BY <1>1, <1>3, <1>4, <1>5, <1>6

(* A verification that fails has the files at fault looked at again.        *)
LEMMA VerificationObserved ==
    ASSUME NEW c, ContextOK(c), fs \in [Files -> Live], NEW call, NEW r \in Result
    PROVE  LET n == ObserveVerification(c, call, r)
           IN  /\ ContextOK(n) /\ n.modified = c.modified /\ n.userModified = c.userModified
               /\ \A f \in Files : n.inspected[f] =
                     IF ~VerificationPassed(call, r) /\ f \in r.files /\ fs[f] # NoFile
                       THEN [hash |-> fs[f], stale |-> FALSE, present |-> TRUE] ELSE c.inspected[f]
<1>1. r.files \in SUBSET Files
  BY DEF Result
<1>2. CASE VerificationPassed(call, r)
  <2>1. PICK w : ObserveVerification(c, call, r) = [c EXCEPT !.wf = w]
    BY <1>2 DEF ObserveVerification
  <2> QED
    BY <1>2, <2>1, OnlyWorkflow
<1>3. CASE ~VerificationPassed(call, r)
  <2>1. PICK w : ObserveVerification(c, call, r) = Promote([c EXCEPT !.wf = w], r.files)
    BY <1>3 DEF ObserveVerification
  <2> DEFINE d == [c EXCEPT !.wf = w]
  <2>2. ContextOK(d) /\ d.modified = c.modified /\ d.userModified = c.userModified /\ d.inspected = c.inspected
    BY OnlyWorkflow
  <2> HIDE DEF d
  <2>3. LET n == Promote(d, r.files)
        IN  /\ ContextOK(n) /\ n.modified = d.modified /\ n.userModified = d.userModified
            /\ \A f \in Files : n.inspected[f] =
                  IF f \in r.files /\ fs[f] # NoFile THEN [hash |-> fs[f], stale |-> FALSE, present |-> TRUE]
                  ELSE d.inspected[f]
    BY <1>1, <2>2, Promoted
  <2>4. ObserveVerification(c, call, r) = Promote(d, r.files)
    BY <2>1 DEF d
  <2> QED
    BY <1>3, <2>2, <2>3, <2>4
<1> QED
  BY <1>2, <1>3

(* Whatever a result makes current, the agent is shown; what it has changed *)
(* is known to be modified.                                                 *)
LEMMA Observed ==
    ASSUME ContextOK(ctx), fs \in [Files -> Live], seen \in [Files -> Live],
           NEW call, NEW r \in Result,
           call.tool \in {"read", "write", "create", "shell"} => call.file \in Files,
           \A f \in Files : Evidence(ctx.inspected[f], seen[f])
    PROVE  LET n == Observe(ctx, call, r)
           IN  /\ ContextOK(n) /\ ctx.modified \subseteq n.modified /\ ctx.userModified \subseteq n.userModified
               /\ r.ok /\ Mutates(call) => call.file \in n.modified
               /\ Shown(call, r) \in [Files -> Live]
               /\ \A f \in Files : Evidence(n.inspected[f], Shown(call, r)[f])
<1> DEFINE found   == ObserveFiles(ctx, call, r)
           settled == [found EXCEPT !.wf = IF r.ok THEN ClearFailure(found.wf, FailureKey(call))
                                           ELSE RecordFailure(found.wf, FailureKey(call))]
           applied == IF r.ok /\ Mutates(call) THEN ObserveMutation(settled, call) ELSE settled
           checked == IF Focused(ctx, call) THEN ObserveVerification(applied, call, r) ELSE applied
           read    == IF call.tool = "read" /\ r.ok THEN [checked EXCEPT !.wf = RecordInspection(checked.wf)]
                      ELSE checked
           again   == call.tool = "shell" /\ fs[call.file] # NoFile
           n       == IF r.ok /\ (Observes(call) \/ call.tool \in {"write", "create"} \/ again) /\ ~IsStale(read)
                        THEN [read EXCEPT !.changed = FALSE] ELSE read
           now(f)  == [hash |-> fs[f], stale |-> FALSE, present |-> TRUE]
<1>1. Observe(ctx, call, r) = n
  BY DEF Observe
<1>2. /\ ContextOK(found) /\ ctx.modified \subseteq found.modified /\ ctx.userModified \subseteq found.userModified
      /\ r.ok /\ call.tool \in {"write", "create"} => call.file \in found.modified
      /\ \A f \in Files : found.inspected[f] =
            IF r.ok /\ call.tool \in {"read", "write", "create"} /\ call.file = f
              THEN [hash |-> r.hash, stale |-> FALSE, present |-> TRUE] ELSE ctx.inspected[f]
  BY FilesObserved
<1> HIDE DEF found
<1>3. /\ ContextOK(settled) /\ settled.modified = found.modified /\ settled.userModified = found.userModified
      /\ settled.inspected = found.inspected
  BY <1>2, OnlyWorkflow
<1> HIDE DEF settled
<1>4. /\ ContextOK(applied) /\ settled.modified \subseteq applied.modified /\ settled.userModified \subseteq applied.userModified
      /\ r.ok /\ call.tool = "shell" => call.file \in applied.modified
      /\ \A f \in Files :
            IF r.ok /\ Mutates(call) /\ f = call.file /\ fs[f] # NoFile
              THEN applied.inspected[f] = now(f)
              ELSE \/ applied.inspected[f] = settled.inspected[f]
                   \/ call.tool = "shell" /\ (applied.inspected[f] = Unseen \/ applied.inspected[f].stale)
  <2>1. CASE r.ok /\ Mutates(call)
    <3>1. call.file \in Files /\ call.tool \in {"write", "create", "shell"} /\ applied = ObserveMutation(settled, call)
      BY <2>1 DEF Mutates
    <3> HIDE DEF applied
    <3> QED
      BY <1>3, <2>1, <3>1, MutationObserved
  <2>2. CASE ~(r.ok /\ Mutates(call))
    BY <1>3, <2>2 DEF Mutates
  <2> QED
    BY <2>1, <2>2
<1> HIDE DEF applied
<1>5. /\ ContextOK(checked) /\ checked.modified = applied.modified /\ checked.userModified = applied.userModified
      /\ \A f \in Files : checked.inspected[f] =
            IF Focused(ctx, call) /\ ~VerificationPassed(call, r) /\ f \in r.files /\ fs[f] # NoFile
              THEN now(f) ELSE applied.inspected[f]
  <2>1. CASE Focused(ctx, call)
    <3>1. checked = ObserveVerification(applied, call, r)
      BY <2>1
    <3> HIDE DEF checked
    <3> QED
      BY <1>4, <2>1, <3>1, VerificationObserved
  <2>2. CASE ~Focused(ctx, call)
    BY <1>4, <2>2
  <2> QED
    BY <2>1, <2>2
<1> HIDE DEF checked
<1>6. /\ ContextOK(read) /\ read.modified = checked.modified /\ read.userModified = checked.userModified
      /\ read.inspected = checked.inspected
  BY <1>5, OnlyWorkflow
<1> HIDE DEF read
<1>7. ContextOK(n) /\ n.modified = read.modified /\ n.userModified = read.userModified /\ n.inspected = read.inspected
  BY <1>6, OnlyChanged
<1> HIDE DEF n
<1>8. r.ok /\ Mutates(call) => call.file \in n.modified
  BY <1>2, <1>3, <1>4, <1>5, <1>6, <1>7 DEF Mutates
<1>9. r.hash \in Live
  BY DEF Result
<1> DEFINE looks == (IF r.ok /\ Mutates(call) THEN {call.file} ELSE {})
                      \cup (IF Focused(ctx, call) /\ ~VerificationPassed(call, r) THEN r.files ELSE {})
<1>10. Shown(call, r) = [f \in Files |-> IF f \in looks /\ fs[f] # NoFile THEN fs[f]
                                         ELSE IF r.ok /\ call.tool \in {"read", "write", "create"} /\ call.file = f
                                                THEN r.hash
                                         ELSE seen[f]]
  BY DEF Shown
<1>11. Shown(call, r) \in [Files -> Live]
  BY <1>9, <1>10
<1>12. ASSUME NEW f \in Files PROVE Evidence(n.inspected[f], Shown(call, r)[f])
  <2>1. n.inspected[f] = checked.inspected[f]
    BY <1>6, <1>7
  <2>2. CASE f \in looks /\ fs[f] # NoFile
    <3>1. n.inspected[f] = now(f)
      BY <1>4, <1>5, <2>1, <2>2
    <3> QED
      BY <1>10, <2>2, <3>1 DEF Evidence
  <2>3. CASE ~(f \in looks /\ fs[f] # NoFile)
    <3>1. n.inspected[f] = applied.inspected[f]
      BY <1>5, <2>1, <2>3
    <3>2. n.inspected[f] = settled.inspected[f] \/ n.inspected[f] = Unseen \/ n.inspected[f].stale
      BY <1>4, <2>3, <3>1
    <3>3. CASE r.ok /\ call.tool \in {"read", "write", "create"} /\ call.file = f
      <4>1. settled.inspected[f] = [hash |-> r.hash, stale |-> FALSE, present |-> TRUE]
        BY <1>2, <1>3, <3>3
      <4> QED
        BY <1>10, <2>3, <3>2, <3>3, <4>1 DEF Evidence
    <3>4. CASE ~(r.ok /\ call.tool \in {"read", "write", "create"} /\ call.file = f)
      <4>1. settled.inspected[f] = ctx.inspected[f]
        BY <1>2, <1>3, <3>4
      <4>2. Shown(call, r)[f] = seen[f]
        BY <1>10, <2>3, <3>4
      <4> QED
        BY <3>2, <4>1, <4>2 DEF Evidence
    <3> QED
      BY <3>3, <3>4
  <2> QED
    BY <2>2, <2>3
<1> QED
  BY <1>1, <1>2, <1>3, <1>4, <1>5, <1>6, <1>7, <1>8, <1>11, <1>12

(* A look at the workspace makes nothing current that was not.              *)
LEMMA Refreshed ==
    ASSUME ContextOK(ctx), fs \in [Files -> Live],
           \A f \in Files : Evidence(ctx.inspected[f], seen[f])
    PROVE  LET n == RefreshAgainstWorkspace(ctx)
           IN  /\ ContextOK(n) /\ n.modified = ctx.modified /\ n.userModified = ctx.userModified
               /\ \A f \in Files : Evidence(n.inspected[f], seen[f])
<1> DEFINE entries == [f \in Files |-> Rehash(ctx.inspected[f], fs[f])]
           now == [ctx EXCEPT !.inspected = entries]
           changed == [now EXCEPT !.changed = TRUE]
           reset == [changed EXCEPT !.wf = ResetForWorkspaceChange(now.wf, ctx.modified)]
<1>1. ASSUME NEW e \in Entry, NEW live \in Live
      PROVE  Rehash(e, live) \in Entry /\ \A s : Evidence(e, s) => Evidence(Rehash(e, live), s)
  <2>1. [e EXCEPT !.stale = TRUE, !.present = FALSE] \in Entry /\ [e EXCEPT !.stale = TRUE, !.present = FALSE].stale
    BY DEF Entry
  <2>2. [e EXCEPT !.stale = TRUE, !.hash = live] \in Entry /\ [e EXCEPT !.stale = TRUE, !.hash = live].stale
    BY DEF Entry
  <2>3. LET d == [e EXCEPT !.present = TRUE] IN d \in Entry /\ d.present /\ d.hash = e.hash /\ d.stale = e.stale
    BY DEF Entry
  <2> QED
    BY <2>1, <2>2, <2>3 DEF Rehash, Evidence
<1>2. ctx.inspected \in [Files -> Entry]
  BY DEF ContextOK
<1>3. entries \in [Files -> Entry] /\ \A f \in Files : Evidence(entries[f], seen[f])
  BY <1>1, <1>2
<1>4. RefreshAgainstWorkspace(ctx) = IF Drifted(ctx) = {} THEN now ELSE reset
  <2>1. now = [ctx EXCEPT !.inspected = [f \in Files |-> Rehash(@[f], fs[f])]]
    BY DEF ContextOK
  <2>2. reset = [now EXCEPT !.changed = TRUE, !.wf = ResetForWorkspaceChange(@, ctx.modified)]
    <3> HIDE DEF now
    <3>1. changed.wf = now.wf
      <4>1. ContextOK(now)
        BY <1>3, OnlyInspected DEF now
      <4> QED
        BY <4>1 DEF ContextOK
    <3> QED
      BY <3>1
  <2> QED
    BY <2>1, <2>2 DEF RefreshAgainstWorkspace
<1> HIDE DEF entries
<1>5. ContextOK(now) /\ now.inspected = entries /\ now.modified = ctx.modified /\ now.userModified = ctx.userModified
  BY <1>3, OnlyInspected
<1> HIDE DEF now
<1>6. ContextOK(changed) /\ changed.inspected = entries /\ changed.modified = ctx.modified /\ changed.userModified = ctx.userModified
  BY <1>5, OnlyChanged
<1> HIDE DEF changed
<1>7. ContextOK(reset) /\ reset.inspected = entries /\ reset.modified = ctx.modified /\ reset.userModified = ctx.userModified
  BY <1>6, OnlyWorkflow
<1> HIDE DEF reset
<1> QED
  BY <1>3, <1>4, <1>5, <1>7

LEMMA Asked ==
    ASSUME ContextOK(ctx)
    PROVE  LET n == RecordUserModified(ctx, Dirty)
           IN  /\ ContextOK(n) /\ n.modified = ctx.modified /\ n.inspected = ctx.inspected
               /\ n.userModified = ctx.userModified \cup (Dirty \ ctx.modified)
  BY DEF ContextOK, RecordUserModified, Dirty

-----------------------------------------------------------------------------
(* The calls of a step.                                                     *)

LEMMA Results == Refusal \in Result /\ NotYet \notin Result
<1>1. Refusal \in Result
  BY DEF Refusal, Result, Live
<1>2. NotYet \notin Result
  BY DEF NotYet, Result
<1> QED
  BY <1>1, <1>2

(* A call that is to be executed was admitted.                              *)
LEMMA Answered ==
    ASSUME fs \in [Files -> Live], NEW call \in Call, NEW r \in Preflight(ctx, call)
    PROVE  r \in Result \cup {NotYet} /\ (r = NotYet => Admitted(ctx, call))
<1>1. CASE ~Admitted(ctx, call)
  BY <1>1, Results DEF Preflight
<1>2. CASE Admitted(ctx, call)
  <2>1. MayReuse(ctx, call) => [Refusal EXCEPT !.ok = TRUE, !.hash = fs[call.file]] \in Result
    BY CallFields DEF MayReuse, Refusal, Result
  <2> QED
    BY <1>2, <2>1, Results DEF Preflight
<1> QED
  BY <1>1, <1>2

(* What executing a call may come to: only a call that says so changes the  *)
(* workspace, and a write only what it was admitted on.                     *)
LEMMA Executed ==
    ASSUME fs \in [Files -> Live], NEW call, NEW o \in Outcomes(call),
           call.tool \in {"read", "write", "create", "shell", "verify", "start", "list", "git"},
           call.tool \in {"read", "write", "create", "shell"} => call.file \in Files,
           call.tool \in {"write", "create", "shell"} => call.content \in Live
    PROVE  /\ o.result \in Result /\ o.fs \in [Files -> Live]
           /\ o.fs # fs => o.result.executed /\ o.result.ok /\ Mutates(call)
           /\ call.tool = "write" /\ o.result.ok => fs[call.file] = call.expected
<1>1. Refusal \in Result /\ ~Refusal.ok
  BY Results DEF Refusal
<1>2. Failure \in Result /\ Failure.executed /\ ~Failure.ok
  BY <1>1 DEF Failure, Result
<1>3. /\ [Failure EXCEPT !.retry = TRUE] \in Result /\ ~[Failure EXCEPT !.retry = TRUE].ok
      /\ Done \in Result /\ Done.executed /\ Done.ok
  BY <1>2 DEF Done, Result
<1>4. ASSUME NEW h \in Live
      PROVE  LET d == [Done EXCEPT !.hash = h] IN d \in Result /\ d.executed /\ d.ok
  BY <1>3, <1>4 DEF Result
<1>5. ASSUME NEW d \in SUBSET Files
      PROVE  [Done EXCEPT !.files = d] \in Result /\ [Done EXCEPT !.success = TRUE, !.files = d] \in Result
  BY <1>3 DEF Result
<1>6. [Done EXCEPT !.success = TRUE] \in Result
  BY <1>3 DEF Result
<1> HIDE DEF Failure, Done
<1>8. CASE call.tool = "read"
  <2> DEFINE done == [Done EXCEPT !.hash = fs[call.file]]
  <2>1. o = Outcome(Failure, fs) \/ o = Outcome(done, fs)
    BY <1>8 DEF Outcomes
  <2>2. done \in Result
    BY <1>4, <1>8
  <2> HIDE DEF done
  <2>3. o.result \in {Failure, done} /\ o.fs = fs
    BY <2>1 DEF Outcome
  <2> QED
    BY <1>2, <1>8, <2>2, <2>3
<1>9. CASE call.tool = "write"
  <2> DEFINE done == [Done EXCEPT !.hash = call.content]
             put == [fs EXCEPT ![call.file] = call.content]
             retry == [Failure EXCEPT !.retry = TRUE]
  <2>1. \/ o = Outcome(retry, fs) \/ o = Outcome(Failure, fs)
        \/ fs[call.file] = call.expected /\ o = Outcome(done, put)
    BY <1>9 DEF Outcomes
  <2>2. put \in [Files -> Live] /\ done \in Result /\ done.executed /\ done.ok
    BY <1>4, <1>9
  <2>3. retry \in Result /\ ~retry.ok
    BY <1>3
  <2> HIDE DEF done, put, retry
  <2>4. \/ o.result \in {Failure, retry} /\ o.fs = fs
        \/ fs[call.file] = call.expected /\ o.result = done /\ o.fs = put
    BY <2>1 DEF Outcome
  <2> QED
    BY <1>2, <1>9, <2>2, <2>3, <2>4 DEF Mutates
<1>10. CASE call.tool = "create"
  <2> DEFINE done == [Done EXCEPT !.hash = call.content]
             put == [fs EXCEPT ![call.file] = call.content]
  <2>1. o = Outcome(Failure, fs) \/ o = Outcome(done, put)
    BY <1>10 DEF Outcomes
  <2>2. put \in [Files -> Live] /\ done \in Result /\ done.executed /\ done.ok
    BY <1>4, <1>10
  <2> HIDE DEF done, put
  <2>3. (o.result = Failure /\ o.fs = fs) \/ (o.result = done /\ o.fs = put)
    BY <2>1 DEF Outcome
  <2> QED
    BY <1>2, <1>10, <2>2, <2>3 DEF Mutates
<1>11. CASE call.tool = "shell"
  <2> DEFINE put(v) == [fs EXCEPT ![call.file] = v]
  <2>1. \/ o = Outcome(Failure, fs)
        \/ \E v \in {call.content, fs[call.file]} : o = Outcome(Done, put(v))
    BY <1>11 DEF Outcomes
  <2>2. \A v \in {call.content, fs[call.file]} : put(v) \in [Files -> Live]
    BY <1>11
  <2> HIDE DEF put
  <2>3. CASE o = Outcome(Failure, fs)
    <3>1. o.result = Failure /\ o.fs = fs
      BY <2>3 DEF Outcome
    <3> QED
      BY <1>2, <1>11, <3>1
  <2>4. ASSUME NEW v \in {call.content, fs[call.file]}, o = Outcome(Done, put(v))
        PROVE  o.result = Done /\ o.fs \in [Files -> Live]
    <3>1. o.result = Done /\ o.fs = put(v)
      BY <2>4 DEF Outcome
    <3> QED
      BY <2>2, <3>1
  <2> QED
    BY <1>3, <1>11, <2>1, <2>3, <2>4 DEF Mutates
<1>12. CASE call.tool = "verify"
  <2>1. \/ o = Outcome(Failure, fs) \/ o = Outcome([Done EXCEPT !.success = TRUE], fs)
        \/ \E d \in {{}} \cup {{f} : f \in Files} : o = Outcome([Done EXCEPT !.files = d], fs)
    BY <1>12 DEF Outcomes
  <2>2. \A d \in Result : o = Outcome(d, fs) => o.result \in Result /\ o.fs = fs
    BY DEF Outcome
  <2>3. \A d \in {{}} \cup {{f} : f \in Files} : [Done EXCEPT !.files = d] \in Result
    BY <1>5
  <2>4. o.result \in Result /\ o.fs = fs
    BY <1>2, <1>6, <2>1, <2>2, <2>3
  <2> QED
    BY <1>12, <2>4
<1>13. CASE call.tool = "start"
  <2>1. o = Outcome(Failure, fs) \/ o = Outcome(Done, fs)
    BY <1>13 DEF Outcomes
  <2>2. o.result \in {Failure, Done} /\ o.fs = fs
    BY <2>1 DEF Outcome
  <2> QED
    BY <1>2, <1>3, <1>13, <2>2
<1>14. CASE call.tool = "list"
  <2> DEFINE done == [Done EXCEPT !.files = {f \in Files : fs[f] # NoFile}]
  <2>1. o = Outcome(Failure, fs) \/ o = Outcome(done, fs)
    BY <1>14 DEF Outcomes
  <2>2. done \in Result
    BY <1>5
  <2> HIDE DEF done
  <2>3. o.result \in {Failure, done} /\ o.fs = fs
    BY <2>1 DEF Outcome
  <2> QED
    BY <1>2, <1>14, <2>2, <2>3
<1>15. CASE call.tool = "git"
  <2> DEFINE done == [Done EXCEPT !.success = TRUE, !.files = Dirty]
  <2>1. o = Outcome(Failure, fs) \/ o = Outcome(done, fs)
    BY <1>15 DEF Outcomes
  <2>2. done \in Result
    BY <1>5 DEF Dirty
  <2> HIDE DEF done
  <2>3. o.result \in {Failure, done} /\ o.fs = fs
    BY <2>1 DEF Outcome
  <2> QED
    BY <1>2, <1>15, <2>2, <2>3
<1> QED
  BY <1>8, <1>9, <1>10, <1>11, <1>12, <1>13, <1>14, <1>15

-----------------------------------------------------------------------------
(* The invariant.                                                           *)

LEMMA NothingToFold == calls = <<>> => Unfolded = {}
  BY DEF Unfolded, Changes

(* A step that leaves no call behind.                                       *)
LEMMA BetweenCalls ==
    ASSUME calls' = <<>>, results' = <<>>, fs' \in [Files -> Live], ContextOK(ctx'), seen' \in [Files -> Live],
           \A f \in Files : Evidence(ctx'.inspected[f], seen'[f]),
           pc' \in {"idle", "start", "top", "backend", "auto", "judge", "refresh", "git", "finish"},
           pc' # "idle" => outcome' = "none",
           wrote' \subseteq Files, outcome' # "Cancelled" => wrote' \subseteq ctx'.modified,
           owned' \subseteq ctx'.userModified,
           outcome' = "Completed" => wrote' \cap owned' = {}
    PROVE  LoopInv'
<1>1. LoopTypeOK'
  BY DEF LoopTypeOK, ContextOK
<1>2. StageInv'
  BY DEF StageInv
<1>3. EvidenceInv'
  BY DEF EvidenceInv
<1>4. OwnerInv'
  BY DEF OwnerInv, UserOwnedFilesSurvive
<1> QED
  BY <1>1, <1>2, <1>3, <1>4 DEF LoopInv

(* The same, for a step that concerns the turn and its context only.        *)
LEMMA ContextStep ==
    ASSUME LoopInv, calls = <<>>, UNCHANGED <<fs, calls, results, seen, wrote, owned, outcome>>,
           ContextOK(ctx'), \A f \in Files : Evidence(ctx'.inspected[f], seen[f]),
           ctx'.modified = ctx.modified, ctx.userModified \subseteq ctx'.userModified,
           pc \in {"start", "top", "backend", "auto", "judge", "refresh", "git", "finish"},
           pc' \in {"start", "top", "backend", "auto", "judge", "refresh", "git", "finish"}
    PROVE  LoopInv'
<1>1. calls' = <<>> /\ results' = <<>>
  BY DEF LoopInv, LoopTypeOK
<1>2. outcome' = "none" /\ outcome = "none"
  BY DEF LoopInv, StageInv
<1>3. wrote' \subseteq ctx'.modified /\ owned' \subseteq ctx'.userModified /\ wrote' \subseteq Files
  BY <1>2, NothingToFold DEF LoopInv, OwnerInv, LoopTypeOK
<1> QED
  BY <1>1, <1>2, <1>3, BetweenCalls DEF LoopInv, LoopTypeOK

(* And for the end of a turn.                                               *)
LEMMA TurnEnds ==
    ASSUME LoopInv, pc # "idle", NEW how, EndTurn(how), ContextOK(ctx'),
           ctx'.inspected = ctx.inspected, ctx'.modified = ctx.modified, ctx'.userModified = ctx.userModified,
           how = "Cancelled" \/ calls = <<>>,
           how = "Completed" => ctx.userModified \cap ctx.modified = {}
    PROVE  LoopInv'
<1>1. /\ calls' = <<>> /\ results' = <<>> /\ pc' = "idle" /\ outcome' = how
      /\ UNCHANGED <<fs, seen, wrote, owned>>
  BY DEF EndTurn, historyVars
<1>2. outcome = "none"
  BY DEF LoopInv, StageInv
<1>3. owned \subseteq ctx.userModified /\ wrote \subseteq Files
  BY DEF LoopInv, OwnerInv, LoopTypeOK
<1>4. how # "Cancelled" => wrote \subseteq ctx.modified
  BY <1>2, NothingToFold DEF LoopInv, OwnerInv
<1>5. how = "Completed" => wrote \cap owned = {}
  BY <1>3, <1>4
<1>6. /\ fs \in [Files -> Live] /\ seen \in [Files -> Live]
      /\ \A f \in Files : Evidence(ctx.inspected[f], seen[f])
  BY DEF LoopInv, LoopTypeOK, EvidenceInv
<1> QED
  BY <1>1, <1>3, <1>4, <1>5, <1>6, BetweenCalls

LEMMA Begun == Init => LoopInv
<1> SUFFICES ASSUME Init PROVE LoopInv
  OBVIOUS
<1>1. Unseen \in Entry
  BY DEF Unseen, Entry, Live
<1>2. LoopTypeOK
  <2>1. ContextOK(ctx)
    BY <1>1 DEF Init, ContextOK
  <2> QED
    BY <2>1, LoopAssumption DEF Init, LoopTypeOK, Live
<1>3. StageInv
  BY DEF Init, StageInv
<1>4. EvidenceInv
  BY DEF Init, EvidenceInv, Evidence
<1>5. OwnerInv
  BY DEF Init, OwnerInv, UserOwnedFilesSurvive
<1> QED
  BY <1>2, <1>3, <1>4, <1>5 DEF LoopInv

LEMMA StartKeeps == LoopInv /\ StartTurn => LoopInv'
<1> SUFFICES ASSUME LoopInv, StartTurn PROVE LoopInv'
  OBVIOUS
<1>1. calls = <<>> /\ results = <<>> /\ UNCHANGED <<fs, calls, results, seen>>
  <2>1. pc = "idle" /\ UNCHANGED <<fs, calls, results, seen>>
    BY DEF StartTurn
  <2>2. calls = <<>>
    BY <2>1 DEF LoopInv, StageInv
  <2>3. results = <<>>
    BY <2>2 DEF LoopInv, LoopTypeOK
  <2> QED
    BY <2>1, <2>2, <2>3
<1>2. /\ ContextOK(ctx') /\ ctx'.modified = ctx.modified /\ ctx'.inspected = ctx.inspected
      /\ ctx'.userModified = ctx.userModified \cup (Dirty \ ctx.modified)
  BY Asked DEF StartTurn, LoopInv, LoopTypeOK
<1>3. owned' \subseteq ctx'.userModified
  BY <1>2 DEF StartTurn, LoopInv, OwnerInv
<1>4. wrote' \subseteq Files /\ wrote' \subseteq ctx'.modified
  BY <1>1, <1>2, NothingToFold DEF StartTurn, LoopInv, OwnerInv, LoopTypeOK
<1>5. pc' = "start" /\ outcome' = "none"
  BY DEF StartTurn
<1>6. fs \in [Files -> Live] /\ seen \in [Files -> Live]
      /\ \A f \in Files : Evidence(ctx.inspected[f], seen[f])
  BY DEF LoopInv, LoopTypeOK, EvidenceInv
<1> QED
  BY <1>1, <1>2, <1>3, <1>4, <1>5, <1>6, BetweenCalls

(* The steps that only move the turn on, or look at the workspace.          *)
LEMMA LookKeeps ==
    LoopInv /\ (RefreshTurn \/ RefreshBeforeCompletion \/ CaptureGit \/ InvalidContinuation) => LoopInv'
<1> SUFFICES ASSUME LoopInv, RefreshTurn \/ RefreshBeforeCompletion \/ CaptureGit \/ InvalidContinuation
             PROVE  LoopInv'
  OBVIOUS
<1>1. calls = <<>> /\ UNCHANGED <<fs, calls, results, seen, wrote, owned, outcome>>
  BY DEF RefreshTurn, RefreshBeforeCompletion, CaptureGit, InvalidContinuation, historyVars, LoopInv, StageInv
<1>2. /\ ContextOK(ctx) /\ fs \in [Files -> Live]
      /\ \A f \in Files : Evidence(ctx.inspected[f], seen[f])
  BY DEF LoopInv, LoopTypeOK, EvidenceInv
<1>3. CASE RefreshTurn \/ RefreshBeforeCompletion
  <2>1. ctx' = RefreshAgainstWorkspace(ctx)
    BY <1>3 DEF RefreshTurn, RefreshBeforeCompletion
  <2>2. /\ ContextOK(ctx') /\ ctx'.modified = ctx.modified /\ ctx'.userModified = ctx.userModified
        /\ \A f \in Files : Evidence(ctx'.inspected[f], seen[f])
    BY <1>2, <2>1, Refreshed
  <2>3. pc \in {"start", "refresh"} /\ pc' \in {"top", "git"}
    BY <1>3 DEF RefreshTurn, RefreshBeforeCompletion
  <2> QED
    BY <1>1, <2>2, <2>3, ContextStep
<1>4. CASE CaptureGit
  <2>1. pc = "git" /\ pc' = "finish" /\ ctx' = RecordUserModified(ctx, Dirty)
    BY <1>4 DEF CaptureGit
  <2>2. /\ ContextOK(ctx') /\ ctx'.modified = ctx.modified /\ ctx'.inspected = ctx.inspected
        /\ ctx.userModified \subseteq ctx'.userModified
    BY <1>2, <2>1, Asked
  <2> QED
    BY <1>1, <1>2, <2>1, <2>2, ContextStep
<1>5. CASE InvalidContinuation
  <2>1. pc = "backend" /\ pc' = "top" /\ ctx' = ctx
    BY <1>5 DEF InvalidContinuation
  <2> QED
    BY <1>1, <1>2, <2>1, ContextStep
<1> QED
  BY <1>3, <1>4, <1>5

LEMMA TurnKeeps == LoopInv /\ (Top \/ BackendError \/ EndStep) => LoopInv'
<1> SUFFICES ASSUME LoopInv, Top \/ BackendError \/ EndStep PROVE LoopInv'
  OBVIOUS
<1>1. pc \in {"top", "backend", "judge"} /\ ctx' = ctx /\ calls = <<>>
  BY DEF Top, BackendError, EndStep, LoopInv, StageInv
<1>2. ContextOK(ctx) /\ \A f \in Files : Evidence(ctx.inspected[f], seen[f])
  BY DEF LoopInv, LoopTypeOK, EvidenceInv
<1>3. CASE EndTurn("StepLimit") \/ EndTurn("Failed")
  BY <1>1, <1>2, <1>3, TurnEnds
<1>4. CASE ~(EndTurn("StepLimit") \/ EndTurn("Failed"))
  <2>1. UNCHANGED <<fs, calls, results, seen, wrote, owned, outcome>> /\ pc' \in {"backend", "top"}
    BY <1>4 DEF Top, BackendError, EndStep, historyVars
  <2> QED
    BY <1>1, <1>2, <2>1, ContextStep
<1> QED
  BY <1>3, <1>4

LEMMA FinishKeeps == LoopInv /\ FinishTurn => LoopInv'
<1> SUFFICES ASSUME LoopInv, FinishTurn PROVE LoopInv'
  OBVIOUS
<1>1. pc = "finish" /\ calls = <<>>
  BY DEF FinishTurn, LoopInv, StageInv
<1>2. ContextOK(ctx) /\ \A f \in Files : Evidence(ctx.inspected[f], seen[f])
  BY DEF LoopInv, LoopTypeOK, EvidenceInv
<1>3. /\ ContextOK(ctx') /\ ctx'.inspected = ctx.inspected /\ ctx'.modified = ctx.modified
      /\ ctx'.userModified = ctx.userModified
  <2> DEFINE w == ResetForWorkspaceChange(ctx.wf, ctx.modified)
  <2>1. ctx' = ctx \/ ctx' = [ctx EXCEPT !.wf = w]
    BY DEF FinishTurn
  <2> HIDE DEF w
  <2>2. CASE ctx' = ctx
    BY <1>2, <2>2
  <2>3. CASE ctx' = [ctx EXCEPT !.wf = w]
    BY <1>2, <2>3, OnlyWorkflow
  <2> QED
    BY <2>1, <2>2, <2>3
<1>4. CASE Accepts(ctx) /\ EndTurn("Completed")
  <2>1. ctx.userModified \cap ctx.modified = {}
    BY <1>4 DEF Accepts, CompleteIfReady
  <2> QED
    BY <1>1, <1>3, <1>4, <2>1, TurnEnds
<1>5. CASE EndTurn("CompletionBlocked")
  BY <1>1, <1>3, <1>5, TurnEnds
<1>6. CASE pc' = "top" /\ UNCHANGED <<fs, calls, results, outcome, historyVars>>
  BY <1>1, <1>2, <1>3, <1>6, ContextStep DEF historyVars
<1> QED
  BY <1>4, <1>5, <1>6 DEF FinishTurn

LEMMA CancelKeeps == LoopInv /\ Cancel => LoopInv'
<1> SUFFICES ASSUME LoopInv, Cancel PROVE LoopInv'
  OBVIOUS
<1>1. pc # "idle" /\ EndTurn("Cancelled") /\ ctx' = ctx
  BY DEF Cancel
<1> QED
  BY <1>1, TurnEnds DEF LoopInv, LoopTypeOK

LEMMA EditKeeps == LoopInv /\ UserEdit => LoopInv'
<1> SUFFICES ASSUME LoopInv, UserEdit PROVE LoopInv'
  OBVIOUS
<1>1. fs' \in [Files -> Live] /\ UNCHANGED <<ctx, pc, calls, results, outcome, seen, wrote, owned>>
  BY DEF UserEdit, LoopInv, LoopTypeOK, loopVars, historyVars
<1> QED
  BY <1>1 DEF LoopInv, LoopTypeOK, StageInv, EvidenceInv, OwnerInv, UserOwnedFilesSurvive, Unfolded, Changes

(* A write that is to be executed was admitted on what the agent was shown. *)
LEMMA AnswerKeeps == LoopInv /\ ModelAnswers => LoopInv'
<1> SUFFICES ASSUME LoopInv, ModelAnswers PROVE LoopInv'
  OBVIOUS
<1>1. /\ pc = "backend" /\ outcome = "none"
      /\ UNCHANGED <<fs, ctx, outcome, seen, wrote, owned>>
  BY DEF ModelAnswers, historyVars, LoopInv, StageInv
<1>2. calls = <<>>
  BY <1>1 DEF LoopInv, StageInv
<1>3. /\ ContextOK(ctx) /\ fs \in [Files -> Live] /\ seen \in [Files -> Live]
      /\ \A f \in Files : Evidence(ctx.inspected[f], seen[f])
  BY DEF LoopInv, LoopTypeOK, EvidenceInv
<1>4. PICK answer \in Answers :
        /\ calls' = answer
        /\ IF answer = <<>> THEN results' = <<>> /\ pc' = "refresh"
           ELSE /\ DOMAIN results' = DOMAIN answer
                /\ \A i \in DOMAIN answer : results'[i] \in Preflight(ctx, answer[i])
                /\ results' = [i \in DOMAIN answer |-> results'[i]]
                /\ pc' = "run"
  BY DEF ModelAnswers
<1>5. answer \in Seq(Call)
  BY LoopAssumption
<1>6. CASE answer = <<>>
  <2>1. calls' = <<>> /\ results' = <<>> /\ results = <<>>
    BY <1>2, <1>4, <1>6 DEF LoopInv, LoopTypeOK
  <2> QED
    BY <1>1, <1>2, <1>3, <1>4, <1>6, <2>1, ContextStep
<1>7. CASE answer # <<>>
  <2>1. ASSUME NEW i \in DOMAIN answer
        PROVE  /\ results'[i] \in Result \cup {NotYet}
               /\ results'[i] = NotYet /\ answer[i].tool = "write" => answer[i].expected = seen[answer[i].file]
    <3>1. answer[i] \in Call /\ results'[i] \in Preflight(ctx, answer[i])
      BY <1>4, <1>5, <1>7
    <3>2. results'[i] \in Result \cup {NotYet} /\ (results'[i] = NotYet => Admitted(ctx, answer[i]))
      BY <1>3, <3>1, Answered
    <3>3. ASSUME Admitted(ctx, answer[i]), answer[i].tool = "write"
          PROVE  answer[i].expected = seen[answer[i].file]
      <4>1. answer[i].file \in Files
        BY <3>1, <3>3, CallFields
      <4>2. LET e == ctx.inspected[answer[i].file] IN e.present /\ ~e.stale /\ e.hash = answer[i].expected
        BY <3>3 DEF Admitted, HasEvidence
      <4>3. Evidence(ctx.inspected[answer[i].file], seen[answer[i].file])
        BY <1>3, <4>1
      <4> QED
        BY <4>2, <4>3 DEF Evidence, Unseen
    <3> QED
      BY <3>2, <3>3
  <2>2. results' \in Seq(Result \cup {NotYet}) /\ Len(results') = Len(answer)
    <3>1. DOMAIN results' = 1..Len(answer) /\ Len(answer) \in Nat
      BY <1>4, <1>5, <1>7
    <3>2. results' \in [1..Len(answer) -> Result \cup {NotYet}]
      BY <1>4, <1>7, <2>1, <3>1
    <3>3. results' \in Seq(Result \cup {NotYet})
      BY <3>1, <3>2
    <3> QED
      BY <3>1, <3>3
  <2>3. LoopTypeOK'
    BY <1>1, <1>3, <1>4, <1>5, <1>7, <2>2 DEF LoopInv, LoopTypeOK
  <2>4. StageInv'
    BY <1>1, <1>4, <1>7 DEF StageInv
  <2>5. EvidenceInv'
    BY <1>1, <1>3, <1>4, <2>1 DEF EvidenceInv
  <2>6. OwnerInv'
    <3>1. wrote \subseteq ctx.modified /\ owned \subseteq ctx.userModified
      BY <1>1, <1>2, NothingToFold DEF LoopInv, OwnerInv
    <3> QED
      BY <1>1, <3>1 DEF OwnerInv, UserOwnedFilesSurvive
  <2> QED
    BY <2>3, <2>4, <2>5, <2>6 DEF LoopInv
<1> QED
  BY <1>6, <1>7

(* What a call changes is in its result until the result is folded.         *)
LEMMA ExecuteKeeps == LoopInv /\ Execute => LoopInv'
<1> SUFFICES ASSUME LoopInv, Execute PROVE LoopInv'
  OBVIOUS
<1>1. PICK i \in DOMAIN calls : /\ results[i] = NotYet
                                /\ \E o \in Outcomes(calls[i]) : /\ Apply(calls[i], o)
                                                                 /\ results' = [results EXCEPT ![i] = o.result]
  BY DEF Execute
<1>2. PICK o \in Outcomes(calls[i]) : Apply(calls[i], o) /\ results' = [results EXCEPT ![i] = o.result]
  BY <1>1
<1>3. pc = "run" /\ UNCHANGED <<ctx, pc, calls, outcome, seen, owned>>
  BY DEF Execute
<1>4. /\ calls \in Seq(Call) /\ results \in Seq(Result \cup {NotYet}) /\ Len(results) = Len(calls)
      /\ fs \in [Files -> Live] /\ wrote \subseteq Files
  BY DEF LoopInv, LoopTypeOK
<1>5. calls[i] \in Call
  BY <1>1, <1>4
<1>6. /\ o.result \in Result /\ o.fs \in [Files -> Live]
      /\ o.fs # fs => o.result.executed /\ o.result.ok /\ Mutates(calls[i])
  BY <1>4, <1>5, CallFields, Executed
<1>7. o.result # NotYet
  BY <1>6, Results
<1>8. /\ results' \in Seq(Result \cup {NotYet}) /\ Len(results') = Len(calls) /\ DOMAIN results = DOMAIN calls
      /\ results'[i] = o.result /\ \A k \in DOMAIN calls : k # i => results'[k] = results[k]
  BY <1>1, <1>2, <1>4, <1>6
<1>9. fs' = o.fs /\ (wrote' = wrote \/ (o.fs # fs /\ wrote' = wrote \cup {calls[i].file}))
  BY <1>2 DEF Apply
<1>10. o.fs # fs => calls[i].file \in Files
  BY <1>5, <1>6, CallFields DEF Mutates
<1>11. LoopTypeOK'
  <2>1. fs' \in [Files -> Live] /\ wrote' \subseteq Files
    BY <1>4, <1>6, <1>9, <1>10
  <2> QED
    BY <1>3, <1>8, <2>1 DEF LoopInv, LoopTypeOK
<1>12. StageInv'
  BY <1>3 DEF LoopInv, StageInv
<1>13. EvidenceInv'
  BY <1>1, <1>3, <1>7, <1>8 DEF LoopInv, EvidenceInv
<1>14. OwnerInv'
  <2>1. Unfolded \subseteq Unfolded'
    <3> SUFFICES ASSUME NEW k \in DOMAIN calls, Mutates(calls[k]), results[k] # NotYet,
                        results[k].executed, results[k].ok
                 PROVE  calls[k].file \in Unfolded'
      BY DEF Unfolded, Changes
    <3>1. k # i /\ results'[k] = results[k]
      BY <1>1, <1>8
    <3> QED
      BY <1>3, <3>1 DEF Unfolded, Changes, Mutates
  <2>2. o.fs # fs => calls[i].file \in Unfolded'
    BY <1>1, <1>3, <1>6, <1>7, <1>8 DEF Unfolded, Changes, Mutates
  <2> QED
    BY <1>3, <1>9, <2>1, <2>2 DEF LoopInv, StageInv, OwnerInv, UserOwnedFilesSurvive
<1> QED
  BY <1>11, <1>12, <1>13, <1>14 DEF LoopInv

\* The check of a command of the plan.
CheckOf(i) == [tool |-> "verify", command |-> PlanFor[ctx.modified][i]]

LEMMA AutoVerifyCases ==
    ASSUME AutoVerify
    PROVE  \/ pc' = "judge" /\ UNCHANGED <<fs, ctx, seen, wrote, passed>>
           \/ \E i \in PendingChecks : \E o \in Outcomes(CheckOf(i)) \cup {Outcome(Refusal, fs)} :
                 /\ Apply(CheckOf(i), o) /\ Consume(CheckOf(i), o.result)
                 /\ pc' = IF o.result.success THEN "auto" ELSE "judge"
  BY DEF AutoVerify, CheckOf

LEMMA AutoVerifyKeeps == LoopInv /\ AutoVerify => LoopInv'
<1> SUFFICES ASSUME LoopInv, AutoVerify PROVE LoopInv'
  OBVIOUS
<1>1. pc = "auto" /\ calls = <<>> /\ UNCHANGED <<calls, results, outcome, owned>> /\ pc' \in {"auto", "judge"}
  BY DEF AutoVerify, LoopInv, StageInv
<1>2. /\ ContextOK(ctx) /\ fs \in [Files -> Live] /\ seen \in [Files -> Live]
      /\ \A f \in Files : Evidence(ctx.inspected[f], seen[f])
  BY DEF LoopInv, LoopTypeOK, EvidenceInv
<1>3. CASE UNCHANGED <<fs, ctx, seen, wrote>>
  BY <1>1, <1>2, <1>3, ContextStep
<1>4. ASSUME NEW i \in PendingChecks, NEW o \in Outcomes(CheckOf(i)) \cup {Outcome(Refusal, fs)},
             Apply(CheckOf(i), o), Consume(CheckOf(i), o.result)
      PROVE  LoopInv'
  <2> DEFINE call == CheckOf(i)
  <2>1. o \in Outcomes(call) \cup {Outcome(Refusal, fs)} /\ Apply(call, o) /\ Consume(call, o.result)
    BY <1>4
  <2>2. call.tool = "verify" /\ ~Mutates(call)
    BY DEF Mutates, CheckOf
  <2> HIDE DEF call
  <2>3. o.result \in Result /\ o.fs = fs
    <3>1. CASE o \in Outcomes(call)
      BY <1>2, <2>2, <3>1, Executed
    <3>2. CASE o = Outcome(Refusal, fs)
      BY <3>2, Results DEF Outcome
    <3> QED
      BY <2>1, <3>1, <3>2
  <2>4. fs' = fs /\ wrote' = wrote
    BY <2>1, <2>3 DEF Apply
  <2>5. ctx' = Observe(ctx, call, o.result) /\ seen' = Shown(call, o.result)
    BY <2>1 DEF Consume
  <2>6. /\ ContextOK(ctx') /\ ctx.modified \subseteq ctx'.modified /\ ctx.userModified \subseteq ctx'.userModified
        /\ seen' \in [Files -> Live] /\ \A f \in Files : Evidence(ctx'.inspected[f], seen'[f])
    BY <1>2, <2>2, <2>3, <2>5, Observed
  <2>7. /\ outcome = "none" /\ wrote \subseteq ctx.modified /\ owned \subseteq ctx.userModified
        /\ wrote \subseteq Files
    BY <1>1, NothingToFold DEF LoopInv, StageInv, OwnerInv, LoopTypeOK
  <2>8. calls' = <<>> /\ results' = <<>>
    BY <1>1 DEF LoopInv, LoopTypeOK
  <2> QED
    BY <1>1, <1>2, <2>4, <2>6, <2>7, <2>8, BetweenCalls
<1> QED
  BY <1>3, <1>4, AutoVerifyCases

(* The first result leaves the step for the context, with what it changed.  *)
LEMMA ConsumeKeeps == LoopInv /\ ConsumeResult => LoopInv'
<1> SUFFICES ASSUME LoopInv, ConsumeResult PROVE LoopInv'
  OBVIOUS
<1> DEFINE call == Head(calls)
           r == Head(results)
<1>1. /\ pc \in {"run", "fold"} /\ calls # <<>> /\ \A i \in DOMAIN results : results[i] # NotYet
      /\ Consume(call, r) /\ calls' = Tail(calls) /\ results' = Tail(results)
      /\ pc' = IF Len(calls) > 1 THEN "fold" ELSE IF Optimize /\ mutated' THEN "auto" ELSE "judge"
      /\ UNCHANGED <<fs, outcome, wrote, owned>>
  BY DEF ConsumeResult
<1>2. /\ calls \in Seq(Call) /\ results \in Seq(Result \cup {NotYet}) /\ Len(results) = Len(calls)
      /\ ContextOK(ctx) /\ fs \in [Files -> Live] /\ seen \in [Files -> Live]
      /\ wrote \subseteq Files /\ owned \subseteq Files
      /\ \A f \in Files : Evidence(ctx.inspected[f], seen[f])
  BY DEF LoopInv, LoopTypeOK, EvidenceInv
<1>3. /\ call = calls[1] /\ r = results[1] /\ 1 \in DOMAIN calls /\ 1 \in DOMAIN results
      /\ DOMAIN results = DOMAIN calls
  BY <1>1, <1>2
<1>4. /\ calls' \in Seq(Call) /\ results' \in Seq(Result \cup {NotYet}) /\ Len(results') = Len(calls')
      /\ DOMAIN calls' = DOMAIN results'
      /\ \A i \in DOMAIN results' : results'[i] # NotYet
  BY <1>1, <1>2
<1>5. \A i \in DOMAIN calls : i # 1 => \E k \in DOMAIN calls' : calls'[k] = calls[i] /\ results'[k] = results[i]
  <2> SUFFICES ASSUME NEW i \in DOMAIN calls, i # 1
               PROVE  i - 1 \in DOMAIN calls' /\ calls'[i - 1] = calls[i] /\ results'[i - 1] = results[i]
    OBVIOUS
  <2> QED
    BY <1>1, <1>2
<1>6. call \in Call /\ r \in Result /\ r # NotYet
  BY <1>1, <1>2, <1>3
<1> HIDE DEF call, r
<1>7. ctx' = Observe(ctx, call, r) /\ seen' = Shown(call, r)
  BY <1>1 DEF Consume
<1>8. /\ ContextOK(ctx') /\ ctx.modified \subseteq ctx'.modified /\ ctx.userModified \subseteq ctx'.userModified
      /\ r.ok /\ Mutates(call) => call.file \in ctx'.modified
      /\ seen' \in [Files -> Live] /\ \A f \in Files : Evidence(ctx'.inspected[f], seen'[f])
  <2>1. call.tool \in {"read", "write", "create", "shell"} => call.file \in Files
    BY <1>6, CallFields
  <2> QED
    BY <1>2, <1>6, <1>7, <2>1, Observed
<1>9. LoopTypeOK'
  BY <1>1, <1>2, <1>4, <1>8 DEF LoopTypeOK
<1>10. StageInv'
  <2>1. Len(calls) <= 1 => calls' = <<>>
    BY <1>1, <1>2
  <2>2. outcome = "none" /\ pc' # "idle"
    BY <1>1 DEF LoopInv, StageInv
  <2>3. Len(calls) \in Nat
    BY <1>2
  <2> QED
    BY <1>1, <1>4, <2>1, <2>2, <2>3 DEF StageInv
<1>11. EvidenceInv'
  BY <1>4, <1>8 DEF EvidenceInv
<1>12. OwnerInv'
  <2>1. Unfolded \subseteq ctx'.modified \cup Unfolded'
    <3> SUFFICES ASSUME NEW i \in DOMAIN calls, Mutates(calls[i]), results[i] # NotYet,
                        results[i].executed, results[i].ok
                 PROVE  calls[i].file \in ctx'.modified \cup Unfolded'
      BY DEF Unfolded, Changes
    <3>1. CASE i = 1
      BY <1>3, <1>8, <3>1
    <3>2. CASE i # 1
      <4>1. PICK k \in DOMAIN calls' : calls'[k] = calls[i] /\ results'[k] = results[i]
        BY <1>5, <3>2
      <4> QED
        BY <4>1 DEF Unfolded, Changes, Mutates
    <3> QED
      BY <3>1, <3>2
  <2>2. outcome = "none" /\ wrote \subseteq ctx.modified \cup Unfolded /\ owned \subseteq ctx.userModified
    BY <1>1 DEF LoopInv, StageInv, OwnerInv
  <2> QED
    BY <1>1, <1>8, <2>1, <2>2 DEF OwnerInv, UserOwnedFilesSurvive
<1> QED
  BY <1>9, <1>10, <1>11, <1>12 DEF LoopInv

LEMMA StutterKeeps == LoopInv /\ UNCHANGED vars => LoopInv'
  BY DEF vars, loopVars, historyVars, LoopInv, LoopTypeOK, StageInv, EvidenceInv, OwnerInv,
         UserOwnedFilesSurvive, Unfolded, Changes

LEMMA LoopInvStep == LoopInv /\ [Next]_vars => LoopInv'
<1> SUFFICES ASSUME LoopInv, [Next]_vars PROVE LoopInv'
  OBVIOUS
<1>1. CASE StartTurn
  BY <1>1, StartKeeps
<1>2. CASE Turn
  BY <1>2, LookKeeps, TurnKeeps, AnswerKeeps, ExecuteKeeps, ConsumeKeeps, AutoVerifyKeeps, FinishKeeps DEF Turn
<1>3. CASE Cancel
  BY <1>3, CancelKeeps
<1>4. CASE UserEdit
  BY <1>4, EditKeeps
<1>5. CASE Stop \/ UNCHANGED vars
  BY <1>5, StutterKeeps DEF Stop
<1> QED
  BY <1>1, <1>2, <1>3, <1>4, <1>5 DEF Next

-----------------------------------------------------------------------------

(* Evidence that is not stale is the hash the agent was given last, a write *)
(* that is to be executed was admitted on it, and what the agent changed is *)
(* in the context or in a result still to be folded, through every turn,    *)
(* refusal, failure, cancellation and edit of the user (context.rs observe, *)
(* policy.rs gate, agent.rs run_with_broker).                               *)
THEOREM LoopInvHolds == Spec => []LoopInv
<1>1. Init => LoopInv
  BY Begun
<1>2. LoopInv /\ [Next]_vars => LoopInv'
  BY LoopInvStep
<1> QED
  BY <1>1, <1>2, PTL DEF Spec

(* A turn that changed a file which was the user's when it began does not   *)
(* complete: by then the file is among those the agent modified, and the    *)
(* review wants no file that is also the user's (finish_turn).              *)
THEOREM UsersFilesAreSafe == Spec => []UserOwnedFilesSurvive
<1>1. LoopInv => UserOwnedFilesSurvive
  BY DEF LoopInv, OwnerInv
<1> QED
  BY <1>1, LoopInvHolds, PTL

(* A native write replaces only content whose hash the agent was given      *)
(* last, whatever the user did to the file before, during or after the      *)
(* check: write compares the hash it was admitted on with the file itself.  *)
THEOREM WritesAreOfGivenContent == Spec => WritesReplaceGivenContent
<1> DEFINE Given == \A i \in DOMAIN calls :
                       /\ calls' = calls /\ calls[i].tool = "write"
                       /\ results[i] = NotYet /\ results'[i] # NotYet /\ results'[i].ok
                       => fs[calls[i].file] = seen[calls[i].file]
<1>1. LoopInv /\ [Next]_vars => [Given]_vars
  <2> SUFFICES ASSUME LoopInv, [Next]_vars, NEW i \in DOMAIN calls,
                      calls' = calls, calls[i].tool = "write",
                      results[i] = NotYet, results'[i] # NotYet, results'[i].ok
               PROVE  fs[calls[i].file] = seen[calls[i].file]
    OBVIOUS
  <2>1. calls # <<>> /\ pc \in {"run", "fold"} /\ results' # results
    BY DEF LoopInv, StageInv
  <2>2. calls \in Seq(Call) /\ results \in Seq(Result \cup {NotYet}) /\ Len(results) = Len(calls)
        /\ fs \in [Files -> Live] /\ DOMAIN results = DOMAIN calls
    BY DEF LoopInv, LoopTypeOK
  <2>3. Execute
    <3>1. \A how : ~EndTurn(how)
      BY <2>1 DEF EndTurn
    <3>2. ~ConsumeResult
      BY <2>2 DEF ConsumeResult
    <3>3. ~Cancel /\ ~UserEdit /\ ~Stop /\ ~StartTurn /\ vars' # vars
      BY <2>1, <3>1 DEF Cancel, UserEdit, Stop, StartTurn, vars, loopVars
    <3>4. /\ ~RefreshTurn /\ ~Top /\ ~InvalidContinuation /\ ~BackendError /\ ~ModelAnswers /\ ~AutoVerify
          /\ ~EndStep /\ ~RefreshBeforeCompletion /\ ~CaptureGit /\ ~FinishTurn
      BY <2>1 DEF RefreshTurn, Top, InvalidContinuation, BackendError, ModelAnswers, AutoVerify,
                  EndStep, RefreshBeforeCompletion, CaptureGit, FinishTurn
    <3> QED
      BY <3>2, <3>3, <3>4 DEF Next, Turn
  <2>4. PICK k \in DOMAIN calls : /\ results[k] = NotYet
                                  /\ \E o \in Outcomes(calls[k]) : results' = [results EXCEPT ![k] = o.result]
    BY <2>3 DEF Execute
  <2>5. PICK o \in Outcomes(calls[k]) : results' = [results EXCEPT ![k] = o.result]
    BY <2>4
  <2>6. k = i
    BY <2>2, <2>5
  <2>7. results'[i] = o.result
    BY <2>2, <2>5, <2>6
  <2>8. calls[i] \in Call
    BY <2>2
  <2>9. fs[calls[i].file] = calls[i].expected
    BY <2>2, <2>5, <2>6, <2>7, <2>8, CallFields, Executed
  <2>10. calls[i].expected = seen[calls[i].file]
    BY DEF LoopInv, EvidenceInv
  <2> QED
    BY <2>9, <2>10
<1> QED
  BY <1>1, LoopInvHolds, PTL DEF Spec, WritesReplaceGivenContent

-----------------------------------------------------------------------------
(* What a completed turn has verified.  First the operators of the          *)
(* workflow: what they do to the verification steps.                        *)

SameSteps(w, n) ==
    WorkflowOK(n) /\ n.steps = w.steps /\ n.revision = w.revision /\ n.verification = w.verification

\* A check that counts for the current revision.
Counts(w, i) == w.steps[i].revision = w.revision /\ w.steps[i].status = "Passed"

\* A workflow has the fields of one.
Whole(w) ==
    w = [relevant |-> w.relevant, inspected |-> w.inspected, revision |-> w.revision,
         verification |-> w.verification, steps |-> w.steps, checks |-> w.checks, failures |-> w.failures]

LEMMA OtherField ==
    ASSUME NEW w, Whole(w), NEW x
    PROVE  /\ LET n == [w EXCEPT !.relevant = x]
              IN  Whole(n) /\ n.steps = w.steps /\ n.revision = w.revision /\ n.verification = w.verification
           /\ LET n == [w EXCEPT !.inspected = x]
              IN  Whole(n) /\ n.steps = w.steps /\ n.revision = w.revision /\ n.verification = w.verification
           /\ LET n == [w EXCEPT !.checks = x]
              IN  Whole(n) /\ n.steps = w.steps /\ n.revision = w.revision /\ n.verification = w.verification
           /\ LET n == [w EXCEPT !.failures = x]
              IN  Whole(n) /\ n.steps = w.steps /\ n.revision = w.revision /\ n.verification = w.verification
  BY DEF Whole

LEMMA CourseField ==
    ASSUME NEW w, Whole(w), NEW x
    PROVE  /\ LET n == [w EXCEPT !.steps = x]
              IN  Whole(n) /\ n.steps = x /\ n.revision = w.revision /\ n.verification = w.verification
           /\ LET n == [w EXCEPT !.revision = x]
              IN  Whole(n) /\ n.steps = w.steps /\ n.revision = x /\ n.verification = w.verification
           /\ LET n == [w EXCEPT !.verification = x]
              IN  Whole(n) /\ n.steps = w.steps /\ n.revision = w.revision /\ n.verification = x
  BY DEF Whole

LEMMA WorkflowForm ==
    ASSUME NEW w
    PROVE  WorkflowOK(w) <=> /\ Whole(w) /\ w.revision \in Nat /\ w.steps \in Seq(Check)
                             /\ \A i \in DOMAIN w.steps : w.steps[i].revision <= w.revision
  BY DEF WorkflowOK, Whole

LEMMA StepsKept ==
    ASSUME NEW w, WorkflowOK(w), NEW x, NEW passed_ \in BOOLEAN
    PROVE  /\ SameSteps(w, RecordRelevant(w, x)) /\ SameSteps(w, RecordInspection(w))
           /\ SameSteps(w, RecordFailure(w, x)) /\ SameSteps(w, ClearFailure(w, x))
           /\ SameSteps(w, RecordWorkVerification(w, x, passed_))
           /\ LET n == RecordVerification(w, passed_)
              IN  WorkflowOK(n) /\ n.steps = w.steps /\ n.revision = w.revision
<1>1. \A n : Whole(n) /\ n.steps = w.steps /\ n.revision = w.revision =>
                WorkflowOK(n) /\ (n.verification = w.verification => SameSteps(w, n))
  BY WorkflowForm DEF SameSteps
<1>2. Whole(w)
  BY WorkflowForm
<1>3. SameSteps(w, RecordRelevant(w, x))
  <2> DEFINE new == w.relevant \cup x
             n == [w EXCEPT !.relevant = new]
  <2>1. RecordRelevant(w, x) = n
    BY <1>2 DEF RecordRelevant, Whole
  <2> HIDE DEF new
  <2>2. Whole(n) /\ n.steps = w.steps /\ n.revision = w.revision /\ n.verification = w.verification
    BY <1>2, OtherField
  <2> HIDE DEF n
  <2> QED
    BY <1>1, <2>1, <2>2
<1>4. SameSteps(w, RecordInspection(w))
  <2> DEFINE n == [w EXCEPT !.inspected = TRUE]
  <2>1. RecordInspection(w) = n
    BY DEF RecordInspection
  <2>2. Whole(n) /\ n.steps = w.steps /\ n.revision = w.revision /\ n.verification = w.verification
    BY <1>2, OtherField
  <2> HIDE DEF n
  <2> QED
    BY <1>1, <2>1, <2>2
<1>5. SameSteps(w, RecordFailure(w, x))
  <2> DEFINE new == w.failures \cup {x}
             n == [w EXCEPT !.failures = new]
  <2>1. RecordFailure(w, x) = n
    BY <1>2 DEF RecordFailure, Whole
  <2> HIDE DEF new
  <2>2. Whole(n) /\ n.steps = w.steps /\ n.revision = w.revision /\ n.verification = w.verification
    BY <1>2, OtherField
  <2> HIDE DEF n
  <2> QED
    BY <1>1, <2>1, <2>2
<1>6. SameSteps(w, ClearFailure(w, x))
  <2> DEFINE new == w.failures \ {x}
             n == [w EXCEPT !.failures = new]
  <2>1. ClearFailure(w, x) = n
    BY <1>2 DEF ClearFailure, Whole
  <2> HIDE DEF new
  <2>2. Whole(n) /\ n.steps = w.steps /\ n.revision = w.revision /\ n.verification = w.verification
    BY <1>2, OtherField
  <2> HIDE DEF n
  <2> QED
    BY <1>1, <2>1, <2>2
<1>7. ASSUME NEW v, Whole(v), NEW c
      PROVE  LET n == RecordWorkVerification(v, c, passed_)
             IN  Whole(n) /\ n.steps = v.steps /\ n.revision = v.revision /\ n.verification = v.verification
  <2> DEFINE kept == {k \in v.checks : k.command # c} \cup {[command |-> c, status |-> IF passed_ THEN "Passed" ELSE "Failed"]}
             n == [v EXCEPT !.checks = kept]
  <2>1. RecordWorkVerification(v, c, passed_) = n
    BY <1>7 DEF RecordWorkVerification, Whole
  <2> HIDE DEF kept
  <2>2. Whole(n) /\ n.steps = v.steps /\ n.revision = v.revision /\ n.verification = v.verification
    BY <1>7, OtherField
  <2> HIDE DEF n
  <2> QED
    BY <2>1, <2>2
<1>8. SameSteps(w, RecordWorkVerification(w, x, passed_))
  BY <1>1, <1>2, <1>7
<1>9. LET n == RecordVerification(w, passed_)
      IN  WorkflowOK(n) /\ n.steps = w.steps /\ n.revision = w.revision
  <2> DEFINE new == IF passed_ THEN "Passed" ELSE "Failed"
             v == [w EXCEPT !.verification = new]
  <2>2. RecordVerification(w, passed_) = RecordWorkVerification(v, "unnamed", passed_)
    BY DEF RecordVerification
  <2> HIDE DEF new
  <2>1. Whole(v) /\ v.steps = w.steps /\ v.revision = w.revision
    BY <1>2, CourseField
  <2> HIDE DEF v
  <2> QED
    BY <1>1, <1>7, <2>1, <2>2
<1> QED
  BY <1>3, <1>4, <1>5, <1>6, <1>8, <1>9

LEMMA StaleSteps ==
    ASSUME NEW steps_ \in Seq(Check)
    PROVE  LET n == MarkStale(steps_)
           IN  /\ n \in Seq(Check) /\ Len(n) = Len(steps_) /\ DOMAIN n = DOMAIN steps_
               /\ \A i \in DOMAIN n : n[i].command = steps_[i].command /\ n[i].revision = steps_[i].revision
                                       /\ n[i].status = "Stale"
<1> DEFINE n == MarkStale(steps_)
<1>1. \A c \in Check : LET d == [c EXCEPT !.status = "Stale"]
                       IN  d \in Check /\ d.command = c.command /\ d.revision = c.revision /\ d.status = "Stale"
  BY DEF Check
<1>2. n = [i \in 1..Len(steps_) |-> [steps_[i] EXCEPT !.status = "Stale"]] /\ Len(steps_) \in Nat
  BY DEF MarkStale
<1>3. \A i \in 1..Len(steps_) : steps_[i] \in Check
  OBVIOUS
<1>4. ASSUME NEW i \in 1..Len(steps_)
      PROVE  n[i] \in Check /\ n[i].command = steps_[i].command
             /\ n[i].revision = steps_[i].revision /\ n[i].status = "Stale"
  <2>1. n[i] = [steps_[i] EXCEPT !.status = "Stale"] /\ steps_[i] \in Check
    BY <1>2, <1>3
  <2> QED
    BY <1>1, <2>1
<1>5. n \in [1..Len(steps_) -> Check]
  BY <1>2, <1>4
<1>6. n \in Seq(Check) /\ Len(n) = Len(steps_)
  BY <1>2, <1>5
<1> QED
  BY <1>4, <1>6

LEMMA MutationSteps ==
    ASSUME NEW w, WorkflowOK(w)
    PROVE  LET n == RecordMutation(w)
           IN  /\ WorkflowOK(n) /\ n.verification = "Pending"
               /\ \A i \in DOMAIN n.steps : n.steps[i].revision < n.revision
<1> DEFINE steps_ == MarkStale(w.steps)
           n == [w EXCEPT !.revision = w.revision + 1, !.steps = steps_, !.verification = "Pending", !.checks = {}]
<1>1. RecordMutation(w) = n
  BY DEF RecordMutation, WorkflowOK
<1>2. /\ steps_ \in Seq(Check) /\ \A i \in DOMAIN steps_ : steps_[i].revision \in Nat /\ steps_[i].revision <= w.revision
  <2>1. w.steps \in Seq(Check) /\ \A i \in DOMAIN w.steps : w.steps[i].revision <= w.revision
    BY DEF WorkflowOK
  <2>2. \A i \in DOMAIN w.steps : w.steps[i] \in Check
    BY <2>1
  <2>3. \A i \in DOMAIN w.steps : w.steps[i].revision \in Nat
    BY <2>2 DEF Check
  <2> QED
    BY <2>1, <2>3, StaleSteps
<1> HIDE DEF steps_
<1>3. /\ n.revision = w.revision + 1 /\ n.steps = steps_ /\ n.verification = "Pending"
      /\ w.revision \in Nat /\ Whole(n)
  <2> DEFINE a == [w EXCEPT !.revision = w.revision + 1]
             b == [a EXCEPT !.steps = steps_]
             c == [b EXCEPT !.verification = "Pending"]
  <2>1. n = [c EXCEPT !.checks = {}] /\ Whole(w) /\ w.revision \in Nat
    BY WorkflowForm
  <2> HIDE DEF n
  <2>2. Whole(a) /\ a.revision = w.revision + 1
    BY <2>1, CourseField
  <2> HIDE DEF a
  <2>3. Whole(b) /\ b.revision = w.revision + 1 /\ b.steps = steps_
    BY <2>2, CourseField
  <2> HIDE DEF b
  <2>4. Whole(c) /\ c.revision = w.revision + 1 /\ c.steps = steps_ /\ c.verification = "Pending"
    BY <2>3, CourseField
  <2> HIDE DEF c
  <2> QED
    BY <2>1, <2>4, OtherField
<1> HIDE DEF n
<1> QED
  BY <1>1, <1>2, <1>3, WorkflowForm

LEMMA ResetSteps ==
    ASSUME NEW w, WorkflowOK(w), NEW modified_
    PROVE  LET n == ResetForWorkspaceChange(w, modified_)
           IN  /\ WorkflowOK(n) /\ DOMAIN n.steps = DOMAIN w.steps
               /\ \A i \in DOMAIN n.steps : n.steps[i].command = w.steps[i].command /\ ~Counts(n, i)
               /\ OpenWhilePending(n)
<1> DEFINE steps_ == MarkStale(w.steps)
           v == IF modified_ = {} THEN "NotRequired" ELSE "Pending"
           k == {[c EXCEPT !.status = "Stale"] : c \in w.checks}
           n == [w EXCEPT !.relevant = {}, !.verification = v, !.steps = steps_, !.checks = k]
<1>1. ResetForWorkspaceChange(w, modified_) = n
  BY DEF ResetForWorkspaceChange, WorkflowOK
<1>2. /\ steps_ \in Seq(Check) /\ DOMAIN steps_ = DOMAIN w.steps
      /\ \A i \in DOMAIN steps_ : /\ steps_[i].revision <= w.revision
                                  /\ steps_[i].command = w.steps[i].command /\ steps_[i].status = "Stale"
  <2>1. w.steps \in Seq(Check) /\ \A i \in DOMAIN w.steps : w.steps[i].revision <= w.revision
    BY DEF WorkflowOK
  <2> QED
    BY <2>1, StaleSteps
<1> HIDE DEF steps_, v, k
<1>3. n.revision = w.revision /\ n.steps = steps_ /\ w.revision \in Nat /\ Whole(n)
  <2> DEFINE a == [w EXCEPT !.relevant = {}]
             b == [a EXCEPT !.verification = v]
             c == [b EXCEPT !.steps = steps_]
  <2>1. n = [c EXCEPT !.checks = k] /\ Whole(w) /\ w.revision \in Nat
    BY WorkflowForm
  <2> HIDE DEF n
  <2>2. Whole(a) /\ a.revision = w.revision
    BY <2>1, OtherField
  <2> HIDE DEF a
  <2>3. Whole(b) /\ b.revision = w.revision
    BY <2>2, CourseField
  <2> HIDE DEF b
  <2>4. Whole(c) /\ c.revision = w.revision /\ c.steps = steps_
    BY <2>3, CourseField
  <2> HIDE DEF c
  <2> DEFINE d == [c EXCEPT !.checks = k]
  <2>5. Whole(d) /\ d.revision = c.revision /\ d.steps = c.steps
    BY <2>4, OtherField
  <2> HIDE DEF d
  <2>6. n = d
    BY <2>1 DEF d
  <2> QED
    BY <2>1, <2>4, <2>5, <2>6
<1> HIDE DEF n
<1> QED
  BY <1>1, <1>2, <1>3, WorkflowForm DEF Counts, OpenWhilePending

LEMMA Joined ==
    ASSUME NEW S, NEW a \in Seq(S), NEW b \in Seq(S)
    PROVE  /\ a \o b \in Seq(S) /\ Len(a \o b) = Len(a) + Len(b)
           /\ \A i \in 1..Len(a) : (a \o b)[i] = a[i]
           /\ \A i \in 1..Len(b) : (a \o b)[Len(a) + i] = b[i]
  OBVIOUS

(* A new revision gets a step for every command of the plan, however many   *)
(* older ones are dropped for it.                                           *)
LEMMA PlanSteps ==
    ASSUME NEW w, WorkflowOK(w), \A i \in DOMAIN w.steps : w.steps[i].revision < w.revision,
           NEW plan \in Seq(Commands), Len(plan) <= MaxVerifications
    PROVE  LET n == SetVerificationPlan(w, plan)
           IN  /\ WorkflowOK(n) /\ n.verification = w.verification
               /\ \A i \in DOMAIN n.steps : ~Counts(n, i)
               /\ \A p \in DOMAIN plan : \E i \in DOMAIN n.steps : n.steps[i].command = plan[p]
<1> DEFINE known == {w.steps[i].command : i \in {j \in DOMAIN w.steps : w.steps[j].revision = w.revision}}
           fresh == [i \in DOMAIN plan |-> Step(plan[i], w.revision, "Pending")]
           all == w.steps \o fresh
           excess == IF Len(all) > MaxVerifications THEN Len(all) - MaxVerifications ELSE 0
           kept == SubSeq(all, excess + 1, Len(all))
           n == [w EXCEPT !.steps = kept]
<1>1. w.revision \in Nat /\ w.steps \in Seq(Check) /\ MaxVerifications \in Nat
  BY MaxVerificationsAssumption DEF WorkflowOK
<1>2. known = {}
  <2>1. \A j \in DOMAIN w.steps : w.steps[j].revision # w.revision
    BY <1>1 DEF Check
  <2> QED
    BY <2>1
<1>3. Planned(w, plan) = all
  BY <1>2 DEF Planned
<1>4. SetVerificationPlan(w, plan) = n
  BY <1>3 DEF SetVerificationPlan
<1>5. fresh \in Seq(Check) /\ Len(fresh) = Len(plan) /\ DOMAIN fresh = DOMAIN plan
  <2>1. \A i \in 1..Len(plan) : Step(plan[i], w.revision, "Pending") \in Check
    BY <1>1 DEF Step, Check
  <2>2. fresh \in [1..Len(plan) -> Check]
    BY <2>1
  <2> QED
    BY <2>2
<1>6. \A i \in DOMAIN plan : fresh[i].command = plan[i] /\ fresh[i].revision = w.revision /\ fresh[i].status = "Pending"
  BY DEF Step
<1> HIDE DEF fresh
<1>7. /\ all \in Seq(Check) /\ Len(all) = Len(w.steps) + Len(plan)
      /\ \A i \in 1..Len(w.steps) : all[i] = w.steps[i]
      /\ \A i \in 1..Len(plan) : all[Len(w.steps) + i] = fresh[i]
  <2> DEFINE old == w.steps
  <2>1. old \in Seq(Check) /\ fresh \in Seq(Check) /\ all = old \o fresh
    BY <1>1, <1>5
  <2> HIDE DEF old, all
  <2>2. /\ all \in Seq(Check) /\ Len(all) = Len(old) + Len(fresh)
        /\ \A i \in 1..Len(old) : all[i] = old[i]
        /\ \A i \in 1..Len(fresh) : all[Len(old) + i] = fresh[i]
    BY <2>1, Joined
  <2> QED
    BY <1>5, <2>2 DEF old
<1>8. /\ \A i \in 1..Len(all) : all[i].revision <= w.revision /\ (all[i].revision = w.revision => all[i].status # "Passed")
      /\ \A p \in DOMAIN plan : all[Len(w.steps) + p].command = plan[p]
  <2>0. \A i \in DOMAIN w.steps : w.steps[i] \in Check
    BY <1>1
  <2>1. \A i \in DOMAIN w.steps : w.steps[i].revision \in Nat /\ w.steps[i].revision < w.revision
    BY <1>1, <2>0 DEF Check
  <2>2. \A i \in 1..Len(w.steps) : w.steps[i].revision <= w.revision /\ w.steps[i].revision # w.revision
    BY <1>1, <2>1
  <2>3. ASSUME NEW i \in 1..Len(all)
        PROVE  all[i].revision <= w.revision /\ (all[i].revision = w.revision => all[i].status # "Passed")
    <3>1. CASE i <= Len(w.steps)
      <4>1. i \in 1..Len(w.steps)
        BY <1>1, <3>1
      <4> QED
        BY <1>7, <2>2, <4>1
    <3>2. CASE i > Len(w.steps)
      <4>1. PICK p \in 1..Len(plan) : i = Len(w.steps) + p
        <5>1. i - Len(w.steps) \in 1..Len(plan) /\ i = Len(w.steps) + (i - Len(w.steps))
          BY <1>1, <1>7, <3>2
        <5> QED
          BY <5>1
      <4>2. all[i].revision = w.revision /\ all[i].status = "Pending"
        BY <1>6, <1>7, <4>1
      <4> QED
        BY <1>1, <4>2
    <3> QED
      BY <1>1, <3>1, <3>2
  <2>4. \A p \in DOMAIN plan : all[Len(w.steps) + p].command = plan[p]
    BY <1>6, <1>7
  <2> QED
    BY <2>3, <2>4
<1> HIDE DEF all
<1>9. excess \in Nat /\ excess <= Len(w.steps) /\ excess <= Len(all) /\ Len(all) \in Nat /\ Len(w.steps) \in Nat
  BY <1>1, <1>7
<1> HIDE DEF excess
<1>10. kept \in Seq(Check) /\ Len(kept) = Len(all) - excess /\ \A i \in 1..Len(kept) : kept[i] = all[i + excess]
  BY <1>7, <1>9
<1> HIDE DEF kept
<1>11. n.steps = kept /\ n.revision = w.revision /\ n.verification = w.verification /\ Whole(n)
  <2>1. Whole(w)
    BY WorkflowForm
  <2> QED
    BY <2>1, CourseField
<1> HIDE DEF n
<1>12. \A i \in DOMAIN kept : kept[i].revision <= w.revision /\ (kept[i].revision = w.revision => kept[i].status # "Passed")
  <2>1. \A i \in DOMAIN kept : i \in 1..Len(kept) /\ i + excess \in 1..Len(all)
    BY <1>9, <1>10
  <2> QED
    BY <1>8, <1>10, <2>1
<1>13. \A p \in DOMAIN plan : \E i \in DOMAIN kept : kept[i].command = plan[p]
  <2> SUFFICES ASSUME NEW p \in DOMAIN plan
               PROVE  kept[Len(w.steps) + p - excess].command = plan[p] /\ Len(w.steps) + p - excess \in DOMAIN kept
    OBVIOUS
  <2>1. p \in 1..Len(plan) /\ Len(plan) \in Nat
    OBVIOUS
  <2>2. Len(w.steps) + p - excess \in 1..Len(kept)
    BY <1>7, <1>9, <1>10, <2>1
  <2>3. kept[Len(w.steps) + p - excess] = all[Len(w.steps) + p]
    <3>1. (Len(w.steps) + p - excess) + excess = Len(w.steps) + p
      BY <1>9, <2>1
    <3> QED
      BY <1>10, <2>2, <3>1
  <2> QED
    BY <1>8, <1>10, <2>2, <2>3
<1> QED
  BY <1>1, <1>4, <1>10, <1>11, <1>12, <1>13, WorkflowForm DEF Counts

(* The outcome of a command counts for the steps of that command only.      *)
LEMMA CommandSteps ==
    ASSUME NEW w, WorkflowOK(w), NEW c, NEW passed_ \in BOOLEAN
    PROVE  LET n == RecordVerificationCommand(w, c, passed_)
           IN  /\ WorkflowOK(n) /\ DOMAIN n.steps = DOMAIN w.steps
               /\ \A i \in DOMAIN n.steps : /\ n.steps[i].command = w.steps[i].command
                                            /\ Counts(n, i) => Counts(w, i) \/ (passed_ /\ w.steps[i].command = c)
               /\ OpenWhilePending(n)
               /\ \A d : Awaiting(n, d) = IF d = c THEN {} ELSE Awaiting(w, d)
<1> DEFINE status_ == IF passed_ THEN "Passed" ELSE "Failed"
           steps_ == [i \in DOMAIN w.steps |-> IF i \in Awaiting(w, c) THEN [w.steps[i] EXCEPT !.status = status_]
                                               ELSE w.steps[i]]
           current == \A i \in DOMAIN steps_ : steps_[i].revision = w.revision => steps_[i].status = "Passed"
           verification_ == IF current THEN "Passed" ELSE IF passed_ THEN "Pending" ELSE "Failed"
           n == [w EXCEPT !.steps = steps_, !.verification = verification_]
<1>1. RecordVerificationCommand(w, c, passed_) = n
  BY DEF RecordVerificationCommand
<1>2. w.revision \in Nat /\ w.steps \in Seq(Check) /\ \A i \in DOMAIN w.steps : w.steps[i].revision <= w.revision
  BY DEF WorkflowOK
<1>3. status_ \in {"Passed", "Failed"} /\ (status_ = "Passed" => passed_)
  OBVIOUS
<1> HIDE DEF status_
<1>4. \A k \in Check : LET d == [k EXCEPT !.status = status_]
                       IN  d \in Check /\ d.command = k.command /\ d.revision = k.revision /\ d.status = status_
  BY <1>3 DEF Check
<1>5. ASSUME NEW i \in 1..Len(w.steps)
      PROVE  /\ steps_[i] \in Check /\ steps_[i].command = w.steps[i].command /\ steps_[i].revision = w.steps[i].revision
             /\ IF i \in Awaiting(w, c) THEN steps_[i].status = status_ /\ w.steps[i].command = c
                                        ELSE steps_[i] = w.steps[i]
  <2>1. w.steps[i] \in Check /\ i \in DOMAIN w.steps
    BY <1>2
  <2>2. i \in Awaiting(w, c) => w.steps[i].command = c
    BY DEF Awaiting
  <2>3. steps_[i] = IF i \in Awaiting(w, c) THEN [w.steps[i] EXCEPT !.status = status_] ELSE w.steps[i]
    BY <2>1
  <2> QED
    BY <1>4, <2>1, <2>2, <2>3
<1>6. steps_ \in Seq(Check) /\ DOMAIN steps_ = 1..Len(w.steps) /\ DOMAIN w.steps = 1..Len(w.steps)
  <2>1. Len(w.steps) \in Nat /\ DOMAIN w.steps = 1..Len(w.steps)
    BY <1>2
  <2>2. DOMAIN steps_ = DOMAIN w.steps /\ steps_ = [i \in DOMAIN steps_ |-> steps_[i]]
    OBVIOUS
  <2> HIDE DEF steps_
  <2>3. steps_ \in [1..Len(w.steps) -> Check]
    BY <1>5, <2>1, <2>2
  <2> QED
    BY <2>1, <2>3
<1> HIDE DEF steps_, verification_
<1>7. n.revision = w.revision /\ n.steps = steps_ /\ n.verification = verification_ /\ Whole(n)
  <2> DEFINE a == [w EXCEPT !.steps = steps_]
             b == [a EXCEPT !.verification = verification_]
  <2>1. n = b /\ Whole(w)
    BY WorkflowForm
  <2> HIDE DEF n, current
  <2>2. Whole(a) /\ a.revision = w.revision /\ a.steps = steps_
    BY <2>1, CourseField
  <2> HIDE DEF a
  <2>3. Whole(b) /\ b.revision = w.revision /\ b.steps = steps_ /\ b.verification = verification_
    <3>1. Whole([a EXCEPT !.verification = verification_])
          /\ [a EXCEPT !.verification = verification_].revision = a.revision
          /\ [a EXCEPT !.verification = verification_].steps = a.steps
          /\ [a EXCEPT !.verification = verification_].verification = verification_
      BY <2>2 DEF Whole
    <3> QED BY <2>2, <3>1
  <2> HIDE DEF b
  <2> QED
    BY <2>1, <2>3
<1> HIDE DEF n
<1>8. \A i \in DOMAIN steps_ : steps_[i].revision <= w.revision
  BY <1>2, <1>5, <1>6
<1>9. OpenWhilePending(n)
  <2>1. current \/ verification_ \in {"Pending", "Failed"}
    BY DEF verification_
  <2>2. current => \A i \in DOMAIN n.steps : n.steps[i].revision = n.revision => n.steps[i].status = "Passed"
    BY <1>7
  <2> HIDE DEF current
  <2> QED
    BY <1>7, <2>1, <2>2 DEF OpenWhilePending
<1> HIDE DEF current
<1>10. ASSUME NEW d PROVE Awaiting(n, d) = IF d = c THEN {} ELSE Awaiting(w, d)
  <2>1. \A i : i \in Awaiting(n, d) <=> /\ i \in DOMAIN w.steps /\ steps_[i].revision = w.revision
                                        /\ steps_[i].status = "Pending" /\ steps_[i].command = d
    BY <1>6, <1>7 DEF Awaiting
  <2>2. ASSUME NEW i, i \in DOMAIN w.steps
        PROVE  i \in Awaiting(n, d) <=> d # c /\ i \in Awaiting(w, d)
    <3>1. CASE i \in Awaiting(w, c)
      <4>1. steps_[i].status # "Pending" /\ w.steps[i].command = c
        BY <1>3, <1>5, <1>6, <2>2, <3>1
      <4> QED
        BY <2>1, <4>1 DEF Awaiting
    <3>2. CASE i \notin Awaiting(w, c)
      <4>1. steps_[i] = w.steps[i]
        BY <1>5, <1>6, <2>2, <3>2
      <4>2. i \in Awaiting(n, d) <=> i \in Awaiting(w, d)
        BY <2>1, <2>2, <4>1 DEF Awaiting
      <4> QED
        BY <3>2, <4>2
    <3> QED
      BY <3>1, <3>2
  <2>3. \A i : i \in Awaiting(n, d) => i \in DOMAIN w.steps
    BY <2>1
  <2>4. \A i : i \in Awaiting(w, d) => i \in DOMAIN w.steps
    BY DEF Awaiting
  <2> HIDE DEF n
  <2> QED
    BY <2>2, <2>3, <2>4
<1>11. WorkflowOK(n)
  BY <1>2, <1>6, <1>7, <1>8, WorkflowForm
<1>12. \A i \in DOMAIN n.steps : /\ n.steps[i].command = w.steps[i].command
                                 /\ Counts(n, i) => Counts(w, i) \/ (passed_ /\ w.steps[i].command = c)
  BY <1>3, <1>5, <1>6, <1>7 DEF Counts
<1> QED
  BY <1>1, <1>6, <1>7, <1>9, <1>10, <1>11, <1>12

(* The context has the workflow it is given, and keeps it otherwise.        *)
LEMMA WorkflowOf ==
    ASSUME NEW c, ContextOK(c), NEW x
    PROVE  /\ [c EXCEPT !.wf = x].wf = x
           /\ [c EXCEPT !.changed = x].wf = c.wf
           /\ [c EXCEPT !.modified = x].wf = c.wf
           /\ [c EXCEPT !.userModified = x].wf = c.wf
           /\ [c EXCEPT !.inspected = x].wf = c.wf
  BY DEF ContextOK

\* Every command planned for the modified files has a step.
Covered(c) ==
    c.modified # {} => \A p \in DOMAIN PlanFor[c.modified] :
       \E i \in DOMAIN c.wf.steps : c.wf.steps[i].command = PlanFor[c.modified][p]

LEMMA RelevantSteps ==
    ASSUME NEW w, WorkflowOK(w), NEW files, NEW w2, WorkflowOK(w2), SameSteps(w, w2)
    PROVE  SameSteps(w, RecordRelevant(w2, files)) /\ SameSteps(w, RecordInspection(w2))
  BY StepsKept DEF SameSteps

LEMMA PromotedSteps ==
    ASSUME NEW c, ContextOK(c), WorkflowOK(c.wf), fs \in [Files -> Live], NEW files \in SUBSET Files
    PROVE  SameSteps(c.wf, Promote(c, files).wf)
<1> DEFINE there == {f \in files : fs[f] # NoFile}
           seenNow == [f \in Files |-> IF f \in there THEN [hash |-> fs[f], stale |-> FALSE, present |-> TRUE]
                                       ELSE c.inspected[f]]
           w == RecordInspection(RecordRelevant(c.wf, there))
           d == [c EXCEPT !.inspected = seenNow]
           n == [d EXCEPT !.wf = w]
<1>1. Promote(c, files) = IF there = {} THEN c ELSE n
  BY DEF Promote, ContextOK
<1>2. SameSteps(c.wf, w) /\ SameSteps(c.wf, c.wf)
  <2> DEFINE v == RecordRelevant(c.wf, there)
  <2>1. SameSteps(c.wf, c.wf)
    BY DEF SameSteps
  <2>2. SameSteps(c.wf, v)
    BY StepsKept
  <2> HIDE DEF v
  <2>3. SameSteps(c.wf, RecordInspection(v))
    BY <2>2, RelevantSteps DEF SameSteps
  <2> QED
    BY <2>1, <2>3 DEF v
<1> HIDE DEF w
<1>3. seenNow \in [Files -> Entry]
  BY Current DEF ContextOK
<1> HIDE DEF seenNow
<1>4. ContextOK(d)
  BY <1>3, OnlyInspected
<1> HIDE DEF d
<1>5. n.wf = w
  BY <1>4, WorkflowOf
<1> HIDE DEF n, there
<1> QED
  BY <1>1, <1>2, <1>5

LEMMA FilesSteps ==
    ASSUME NEW c, ContextOK(c), WorkflowOK(c.wf), NEW call, NEW r \in Result,
           call.tool \in {"read", "write", "create", "shell"} => call.file \in Files
    PROVE  LET n == ObserveFiles(c, call, r)
           IN  /\ SameSteps(c.wf, n.wf)
               /\ ~(r.ok /\ Mutates(call)) => n.modified = c.modified
<1>1. r.hash \in Live /\ r.files \subseteq Files
  BY DEF Result
<1>2. SameSteps(c.wf, c.wf)
  BY DEF SameSteps
<1>3. CASE r.ok /\ call.tool \in {"read", "write", "create"}
  <2> DEFINE w == RecordRelevant(c.wf, {call.file})
             e == [c.inspected EXCEPT ![call.file] = [hash |-> r.hash, stale |-> FALSE, present |-> TRUE]]
             d == [c EXCEPT !.inspected = e]
             k == [d EXCEPT !.wf = w]
  <2>1. k = Inspect(c, call.file, r.hash)
    BY DEF Inspect, ContextOK
  <2>2. SameSteps(c.wf, w)
    BY StepsKept
  <2>3. e \in [Files -> Entry]
    BY <1>1, <1>3, Current DEF ContextOK
  <2> HIDE DEF e, w
  <2>4. ContextOK(d) /\ d.modified = c.modified
    BY <2>3, OnlyInspected
  <2> HIDE DEF d
  <2>5. ContextOK(k) /\ k.wf = w /\ k.modified = c.modified
    BY <2>4, OnlyWorkflow, WorkflowOf
  <2> HIDE DEF k
  <2>6. CASE call.tool = "read"
    <3>1. ObserveFiles(c, call, r) = k
      BY <1>3, <2>1, <2>6 DEF ObserveFiles
    <3> QED
      BY <2>2, <2>5, <3>1
  <2>7. CASE call.tool \in {"write", "create"}
    <3> DEFINE m == k.modified \cup {call.file}
               n == [k EXCEPT !.modified = m]
    <3>1. ObserveFiles(c, call, r) = n
      BY <1>3, <2>1, <2>5, <2>7 DEF ObserveFiles, ContextOK
    <3> HIDE DEF m
    <3>2. n.wf = w
      BY <2>5, WorkflowOf
    <3> HIDE DEF n
    <3> QED
      BY <1>3, <2>2, <2>7, <3>1, <3>2 DEF Mutates
  <2> QED
    BY <1>3, <2>6, <2>7
<1>4. CASE call.tool = "list" /\ r.ok
  <2> DEFINE w == RecordRelevant(c.wf, r.files)
  <2>1. ObserveFiles(c, call, r) = [c EXCEPT !.wf = w]
    BY <1>4 DEF ObserveFiles, ContextOK
  <2>2. SameSteps(c.wf, w)
    BY StepsKept
  <2> HIDE DEF w
  <2> QED
    BY <2>1, <2>2, OnlyWorkflow, WorkflowOf
<1>5. CASE call.tool = "git"
  <2> DEFINE u == c.userModified \cup (r.files \ c.modified)
  <2>1. ObserveFiles(c, call, r) = [c EXCEPT !.userModified = u]
    BY <1>5 DEF ObserveFiles, RecordUserModified, ContextOK
  <2>2. [c EXCEPT !.userModified = u].modified = c.modified
    BY DEF ContextOK
  <2> HIDE DEF u
  <2> QED
    BY <1>2, <2>1, <2>2, WorkflowOf
<1>6. CASE ~(r.ok /\ call.tool \in {"read", "write", "create", "list"}) /\ call.tool # "git"
  <2>1. ObserveFiles(c, call, r) = c
    BY <1>6 DEF ObserveFiles
  <2> QED
    BY <1>2, <2>1
<1> QED
  BY <1>3, <1>4, <1>5, <1>6

(* A mutation: nothing counts any more, and everything is planned.          *)
LEMMA MutationPlanned ==
    ASSUME NEW c, ContextOK(c), WorkflowOK(c.wf), fs \in [Files -> Live],
           NEW call, Mutates(call), call.file \in Files
    PROVE  LET n == ObserveMutation(c, call)
           IN  /\ WorkflowOK(n.wf) /\ OpenWhilePending(n.wf) /\ Covered(n)
               /\ \A i \in DOMAIN n.wf.steps : ~Counts(n.wf, i)
<1> DEFINE entries == [c.inspected EXCEPT ![call.file] = IF @ = Unseen THEN @ ELSE [@ EXCEPT !.stale = TRUE]]
           files == c.modified \cup {call.file}
           w == RecordRelevant(c.wf, {call.file})
           told == IF call.tool # "shell" THEN c
                   ELSE [c EXCEPT !.modified = files, !.inspected = entries, !.changed = TRUE, !.wf = w]
           revised == RecordMutation(told.wf)
           marked == [told EXCEPT !.wf = revised]
           again == Promote(marked, {call.file})
           plan == PlanFor[again.modified]
           new == SetVerificationPlan(again.wf, plan)
           n == [again EXCEPT !.wf = new]
<1>1. ObserveMutation(c, call) = n
  <2>1. [c EXCEPT !.modified = @ \cup {call.file},
                  !.inspected[call.file] = IF @ = Unseen THEN @ ELSE [@ EXCEPT !.stale = TRUE],
                  !.changed = TRUE,
                  !.wf = RecordRelevant(@, {call.file})]
        = [c EXCEPT !.modified = files, !.inspected = entries, !.changed = TRUE, !.wf = w]
    BY DEF ContextOK
  <2> QED
    BY <2>1 DEF ObserveMutation
<1>2. entries \in [Files -> Entry]
  <2>1. \A e \in Entry : [e EXCEPT !.stale = TRUE] \in Entry
    BY DEF Entry
  <2>2. c.inspected \in [Files -> Entry]
    BY DEF ContextOK
  <2> QED
    BY <2>1, <2>2
<1>3. SameSteps(c.wf, w) /\ files \in SUBSET Files
  BY StepsKept DEF ContextOK
<1> HIDE DEF entries, w, files
<1>4. ContextOK(told) /\ WorkflowOK(told.wf)
  <2>1. CASE call.tool # "shell"
    BY <2>1
  <2>2. CASE call.tool = "shell"
    <3> DEFINE a == [c EXCEPT !.modified = files]
               b == [a EXCEPT !.inspected = entries]
               d == [b EXCEPT !.changed = TRUE]
    <3>1. told = [d EXCEPT !.wf = w]
      BY <2>2
    <3> HIDE DEF told
    <3>2. ContextOK(a)
      BY <1>3, OnlyModified
    <3> HIDE DEF a
    <3>3. ContextOK(b)
      BY <1>2, <3>2, OnlyInspected
    <3> HIDE DEF b
    <3>4. ContextOK(d)
      BY <3>3, OnlyChanged
    <3> HIDE DEF d
    <3> QED
      BY <1>3, <3>1, <3>4, OnlyWorkflow, WorkflowOf DEF SameSteps
  <2> QED
    BY <2>1, <2>2
<1> HIDE DEF told
<1>5. /\ WorkflowOK(revised) /\ revised.verification = "Pending"
      /\ \A i \in DOMAIN revised.steps : revised.steps[i].revision < revised.revision
  BY <1>4, MutationSteps
<1> HIDE DEF revised
<1>6. ContextOK(marked) /\ marked.wf = revised
  BY <1>4, OnlyWorkflow, WorkflowOf
<1> HIDE DEF marked
<1>7. /\ ContextOK(again) /\ WorkflowOK(again.wf) /\ again.wf.steps = revised.steps
      /\ again.wf.revision = revised.revision /\ again.wf.verification = "Pending"
  <2>1. {call.file} \in SUBSET Files
    OBVIOUS
  <2> QED
    BY <1>5, <1>6, <2>1, Promoted, PromotedSteps DEF SameSteps
<1> HIDE DEF again
<1>8. plan \in Seq(Commands) /\ Len(plan) <= MaxVerifications
  BY <1>7, LoopAssumption DEF ContextOK
<1> HIDE DEF plan
<1>9. WorkflowOK(new) /\ new.verification = "Pending" /\ (\A i \in DOMAIN new.steps : ~Counts(new, i))
      /\ \A p \in DOMAIN plan : \E i \in DOMAIN new.steps : new.steps[i].command = plan[p]
  BY <1>5, <1>7, <1>8, PlanSteps
<1> HIDE DEF new
<1>10. n.wf = new /\ n.modified = again.modified
  BY <1>7, OnlyWorkflow, WorkflowOf
<1> HIDE DEF n
<1> QED
  BY <1>1, <1>9, <1>10 DEF Covered, plan, OpenWhilePending

\* What a look at a result may make of the steps.
Moves(w, n, ok, c) ==
    /\ WorkflowOK(n) /\ DOMAIN n.steps = DOMAIN w.steps
    /\ \A i \in DOMAIN w.steps : /\ n.steps[i].command = w.steps[i].command
                                 /\ Counts(n, i) => Counts(w, i) \/ (ok /\ w.steps[i].command = c)
    /\ OpenWhilePending(w) => OpenWhilePending(n)

LEMMA VerificationSteps ==
    ASSUME NEW c, ContextOK(c), WorkflowOK(c.wf), fs \in [Files -> Live], NEW call, NEW r \in Result
    PROVE  Moves(c.wf, ObserveVerification(c, call, r).wf, VerificationPassed(call, r), CommandOf(call))
<1> DEFINE ok == VerificationPassed(call, r)
           cmd == CommandOf(call)
           counted == IF Awaiting(c.wf, cmd) # {} THEN RecordVerificationCommand(c.wf, cmd, ok)
                      ELSE IF c.wf.steps = <<>> THEN RecordVerification(c.wf, ok)
                      ELSE c.wf
           noted == RecordWorkVerification(counted, cmd, ok)
           clear == ClearFailure(noted, FailureKey(call))
           found == RecordRelevant(noted, r.files)
           fail == RecordFailure(found, FailureKey(call))
           d == [c EXCEPT !.wf = fail]
<1>1. ObserveVerification(c, call, r) = IF ok THEN [c EXCEPT !.wf = clear] ELSE Promote(d, r.files)
  BY DEF ObserveVerification
<1>2. ok \in BOOLEAN /\ r.files \in SUBSET Files
  BY DEF VerificationPassed, Result
<1> HIDE DEF ok, cmd
<1>3. Moves(c.wf, counted, ok, cmd)
  <2>1. CASE Awaiting(c.wf, cmd) # {}
    BY <1>2, <2>1, CommandSteps DEF Moves
  <2>2. CASE Awaiting(c.wf, cmd) = {} /\ c.wf.steps = <<>>
    BY <1>2, <2>2, StepsKept DEF Moves, Counts, OpenWhilePending
  <2>3. CASE Awaiting(c.wf, cmd) = {} /\ c.wf.steps # <<>>
    BY <2>3 DEF Moves
  <2> QED
    BY <2>1, <2>2, <2>3
<1> HIDE DEF counted
<1>4. ASSUME NEW v, SameSteps(counted, v)
      PROVE  Moves(c.wf, v, ok, cmd)
  BY <1>3, <1>4 DEF Moves, SameSteps, Counts, OpenWhilePending
<1>5. SameSteps(counted, noted)
  BY <1>2, <1>3, StepsKept DEF Moves
<1> HIDE DEF noted
<1>6. SameSteps(counted, clear) /\ SameSteps(counted, found)
  BY <1>2, <1>5, StepsKept DEF SameSteps
<1> HIDE DEF clear, found
<1>7. SameSteps(counted, fail)
  <2>1. WorkflowOK(found)
    BY <1>6 DEF SameSteps
  <2>2. SameSteps(found, fail)
    BY <1>2, <2>1, StepsKept
  <2> HIDE DEF fail
  <2> QED
    BY <1>6, <2>2 DEF SameSteps
<1> HIDE DEF fail
<1>8. CASE ok
  <2>1. [c EXCEPT !.wf = clear].wf = clear
    BY WorkflowOf
  <2> QED
    BY <1>1, <1>4, <1>6, <1>8, <2>1 DEF ok, cmd
<1>9. CASE ~ok
  <2>1. ContextOK(d) /\ d.wf = fail
    BY OnlyWorkflow, WorkflowOf
  <2> HIDE DEF d
  <2>2. SameSteps(counted, Promote(d, r.files).wf)
    BY <1>2, <1>7, <2>1, PromotedSteps DEF SameSteps
  <2> QED
    BY <1>1, <1>4, <1>9, <2>2 DEF ok, cmd
<1> QED
  BY <1>8, <1>9

(* A result that changed a file leaves everything to be verified again; any *)
(* other counts for the steps of its own command, if it is a check that     *)
(* passed.                                                                  *)
LEMMA ObservedSteps ==
    ASSUME ContextOK(ctx), WorkflowOK(ctx.wf), fs \in [Files -> Live], NEW call, NEW r \in Result,
           call.tool \in {"read", "write", "create", "shell", "verify", "start", "list", "git"},
           call.tool \in {"read", "write", "create", "shell"} => call.file \in Files
    PROVE  LET n == Observe(ctx, call, r)
           IN  /\ WorkflowOK(n.wf) /\ (OpenWhilePending(ctx.wf) => OpenWhilePending(n.wf))
               /\ r.ok /\ Mutates(call) => Covered(n) /\ \A i \in DOMAIN n.wf.steps : ~Counts(n.wf, i)
               /\ ~(r.ok /\ Mutates(call)) =>
                     /\ n.modified = ctx.modified
                     /\ Moves(ctx.wf, n.wf, call.tool \in {"verify", "start"} /\ VerificationPassed(call, r), call.command)
<1> DEFINE found   == ObserveFiles(ctx, call, r)
           settle  == IF r.ok THEN ClearFailure(found.wf, FailureKey(call)) ELSE RecordFailure(found.wf, FailureKey(call))
           settled == [found EXCEPT !.wf = settle]
           applied == IF r.ok /\ Mutates(call) THEN ObserveMutation(settled, call) ELSE settled
           checked == IF Focused(ctx, call) THEN ObserveVerification(applied, call, r) ELSE applied
           inspect == RecordInspection(checked.wf)
           read    == IF call.tool = "read" /\ r.ok THEN [checked EXCEPT !.wf = inspect] ELSE checked
           again   == call.tool = "shell" /\ fs[call.file] # NoFile
           n       == IF r.ok /\ (Observes(call) \/ call.tool \in {"write", "create"} \/ again) /\ ~IsStale(read)
                        THEN [read EXCEPT !.changed = FALSE] ELSE read
           passes  == call.tool \in {"verify", "start"} /\ VerificationPassed(call, r)
<1>1. Observe(ctx, call, r) = n
  BY DEF Observe
<1>2. /\ ContextOK(found) /\ SameSteps(ctx.wf, found.wf) /\ WorkflowOK(found.wf)
      /\ ~(r.ok /\ Mutates(call)) => found.modified = ctx.modified
  BY FilesObserved, FilesSteps DEF SameSteps
<1> HIDE DEF found
<1>3. SameSteps(found.wf, settle)
  BY <1>2, StepsKept
<1> HIDE DEF settle
<1>4. /\ ContextOK(settled) /\ WorkflowOK(settled.wf) /\ SameSteps(ctx.wf, settled.wf)
      /\ settled.modified = found.modified
  BY <1>2, <1>3, OnlyWorkflow, WorkflowOf DEF SameSteps
<1> HIDE DEF settled
<1>5. /\ ContextOK(applied) /\ WorkflowOK(applied.wf)
      /\ r.ok /\ Mutates(call) => /\ Covered(applied) /\ OpenWhilePending(applied.wf)
                                  /\ \A i \in DOMAIN applied.wf.steps : ~Counts(applied.wf, i)
      /\ ~(r.ok /\ Mutates(call)) => applied = settled
  <2>1. CASE r.ok /\ Mutates(call)
    <3>1. call.file \in Files /\ applied = ObserveMutation(settled, call)
      BY <2>1 DEF Mutates
    <3> HIDE DEF applied
    <3> QED
      BY <1>4, <2>1, <3>1, MutationObserved, MutationPlanned
  <2>2. CASE ~(r.ok /\ Mutates(call))
    BY <1>4, <2>2
  <2> QED
    BY <2>1, <2>2
<1> HIDE DEF applied
<1>6. /\ ContextOK(checked) /\ checked.modified = applied.modified
      /\ Moves(applied.wf, checked.wf, passes, call.command)
      /\ Mutates(call) => checked = applied
  <2>1. CASE Focused(ctx, call)
    <3>1. checked = ObserveVerification(applied, call, r)
      BY <2>1
    <3> HIDE DEF checked
    <3>2. ContextOK(checked) /\ checked.modified = applied.modified
      BY <1>5, <3>1, VerificationObserved
    <3>3. Moves(applied.wf, checked.wf, VerificationPassed(call, r), CommandOf(call))
      BY <1>5, <3>1, VerificationSteps
    <3>4. call.tool \in {"verify", "start", "git", "read"} /\ ~Mutates(call)
      BY <2>1 DEF Focused, Mutates
    <3>5. CASE call.tool \in {"verify", "start"}
      BY <3>2, <3>3, <3>4, <3>5 DEF CommandOf, Moves
    <3>6. CASE call.tool \in {"git", "read"}
      <4>1. CommandOf(call) \notin Commands
        BY <3>6, LoopAssumption DEF CommandOf
      <4>2. \A i \in DOMAIN applied.wf.steps : applied.wf.steps[i].command \in Commands
        <5>1. applied.wf.steps \in Seq(Check)
          BY <1>5 DEF WorkflowOK
        <5>2. \A i \in DOMAIN applied.wf.steps : applied.wf.steps[i] \in Check
          BY <5>1
        <5> QED
          BY <5>2 DEF Check
      <4> QED
        BY <3>2, <3>3, <3>4, <4>1, <4>2 DEF Moves
    <3> QED
      BY <3>4, <3>5, <3>6
  <2>2. CASE ~Focused(ctx, call)
    BY <1>5, <2>2 DEF Moves
  <2> QED
    BY <2>1, <2>2
<1> HIDE DEF checked
<1>7. SameSteps(checked.wf, inspect) /\ WorkflowOK(checked.wf)
  BY <1>6, StepsKept DEF Moves
<1> HIDE DEF inspect
<1>8. /\ ContextOK(read) /\ read.modified = checked.modified /\ SameSteps(checked.wf, read.wf)
  <2>1. SameSteps(checked.wf, checked.wf)
    BY <1>7 DEF SameSteps
  <2> QED
    BY <1>6, <1>7, <2>1, OnlyWorkflow, WorkflowOf
<1> HIDE DEF read
<1>9. n.modified = read.modified /\ n.wf = read.wf
  BY <1>8, OnlyChanged, WorkflowOf
<1> HIDE DEF n, passes
<1>10. SameSteps(checked.wf, n.wf) /\ n.modified = applied.modified
  BY <1>6, <1>8, <1>9
<1>11. CASE r.ok /\ Mutates(call)
  BY <1>1, <1>5, <1>6, <1>10, <1>11 DEF SameSteps, Covered, Counts, OpenWhilePending
<1>12. CASE ~(r.ok /\ Mutates(call))
  <2>1. applied = settled /\ n.modified = ctx.modified
    BY <1>2, <1>4, <1>5, <1>10, <1>12
  <2>2. Moves(ctx.wf, n.wf, passes, call.command)
    BY <1>4, <1>6, <1>10, <2>1 DEF SameSteps, Moves, Counts, OpenWhilePending
  <2> QED
    BY <1>1, <1>12, <2>1, <2>2 DEF Moves, passes
<1> QED
  BY <1>11, <1>12

LEMMA RefreshedSteps ==
    ASSUME ContextOK(ctx), WorkflowOK(ctx.wf), fs \in [Files -> Live]
    PROVE  Moves(ctx.wf, RefreshAgainstWorkspace(ctx).wf, FALSE, "none")
<1> DEFINE entries == [f \in Files |-> Rehash(ctx.inspected[f], fs[f])]
           now == [ctx EXCEPT !.inspected = entries]
           changed == [now EXCEPT !.changed = TRUE]
           w == ResetForWorkspaceChange(now.wf, ctx.modified)
           reset == [changed EXCEPT !.wf = w]
<1>1. entries \in [Files -> Entry]
  <2>1. ASSUME NEW e \in Entry, NEW live \in Live PROVE Rehash(e, live) \in Entry
    <3>1. [e EXCEPT !.stale = TRUE, !.present = FALSE] \in Entry
      BY DEF Entry
    <3>2. [e EXCEPT !.stale = TRUE, !.hash = live] \in Entry
      BY DEF Entry
    <3>3. [e EXCEPT !.present = TRUE] \in Entry
      BY DEF Entry
    <3> QED
      BY <3>1, <3>2, <3>3 DEF Rehash
  <2>2. ctx.inspected \in [Files -> Entry]
    BY DEF ContextOK
  <2> QED
    BY <2>1, <2>2
<1>2. RefreshAgainstWorkspace(ctx) = IF Drifted(ctx) = {} THEN now ELSE reset
  <2>1. now = [ctx EXCEPT !.inspected = [f \in Files |-> Rehash(@[f], fs[f])]]
    BY DEF ContextOK
  <2>2. reset = [now EXCEPT !.changed = TRUE, !.wf = ResetForWorkspaceChange(@, ctx.modified)]
    <3> HIDE DEF now
    <3>1. changed.wf = now.wf
      <4>1. ContextOK(now)
        BY <1>1, OnlyInspected DEF now
      <4> QED
        BY <4>1 DEF ContextOK
    <3> QED
      BY <3>1
  <2> QED
    BY <2>1, <2>2 DEF RefreshAgainstWorkspace
<1> HIDE DEF entries
<1>3. ContextOK(now) /\ now.wf = ctx.wf
  BY <1>1, OnlyInspected, WorkflowOf
<1> HIDE DEF now
<1>4. ContextOK(changed)
  BY <1>3, OnlyChanged
<1> HIDE DEF changed
<1>5. Moves(ctx.wf, w, FALSE, "none")
  BY <1>3, ResetSteps DEF Moves
<1> HIDE DEF w
<1>6. reset.wf = w
  BY <1>4, WorkflowOf
<1> HIDE DEF reset
<1> QED
  BY <1>2, <1>3, <1>5, <1>6 DEF Moves

-----------------------------------------------------------------------------
(* Then the steps.                                                          *)

\* What was planned for the modified files has succeeded.
Succeeded == wrote \subseteq ctx.modified /\ \A c \in Range(PlanFor[ctx.modified]) : c \in passed

LEMMA BetweenChecks ==
    ASSUME calls' = <<>>, WorkflowOK(ctx'.wf), Covered(ctx'),
           wrote' # {} /\ outcome' # "Cancelled" =>
              \A i \in DOMAIN ctx'.wf.steps : Counts(ctx'.wf, i) => ctx'.wf.steps[i].command \in passed',
           outcome' = "Completed" /\ wrote' # {} => Succeeded'
    PROVE  CheckInv'
<1>1. Foreground(calls')
  BY DEF Foreground
<1>2. PlanInv'
  BY DEF PlanInv, Covered
<1>3. PassedInv'
  BY DEF PassedInv, Counts
<1>4. CompletionObservesVerification'
  BY DEF CompletionObservesVerification, Succeeded
<1> QED
  BY <1>1, <1>2, <1>3, <1>4 DEF CheckInv

(* What follows from how the steps moved.                                   *)
LEMMA StepsMoved ==
    ASSUME NEW ok, NEW c, Moves(ctx.wf, ctx'.wf, ok, c)
    PROVE  /\ WorkflowOK(ctx'.wf)
           /\ Covered(ctx) /\ ctx'.modified = ctx.modified => Covered(ctx')
           /\ (/\ \A i \in DOMAIN ctx.wf.steps : Counts(ctx.wf, i) => ctx.wf.steps[i].command \in passed'
               /\ ok => c \in passed')
              => \A i \in DOMAIN ctx'.wf.steps : Counts(ctx'.wf, i) => ctx'.wf.steps[i].command \in passed'
<1> DEFINE w == ctx.wf
           n == ctx'.wf
<1>1. /\ WorkflowOK(n) /\ DOMAIN n.steps = DOMAIN w.steps
      /\ \A i \in DOMAIN w.steps : n.steps[i].command = w.steps[i].command
      /\ \A i \in DOMAIN w.steps : Counts(n, i) => Counts(w, i) \/ (ok /\ w.steps[i].command = c)
  BY DEF Moves
<1>2. Covered(ctx) /\ ctx'.modified = ctx.modified => Covered(ctx')
  BY <1>1 DEF Covered
<1>3. ASSUME \A i \in DOMAIN w.steps : Counts(w, i) => w.steps[i].command \in passed', ok => c \in passed',
             NEW i \in DOMAIN n.steps, Counts(n, i)
      PROVE  n.steps[i].command \in passed'
  <2>1. i \in DOMAIN w.steps /\ n.steps[i].command = w.steps[i].command
        /\ (Counts(w, i) \/ (ok /\ w.steps[i].command = c))
    BY <1>1, <1>3
  <2> HIDE DEF n, w
  <2> QED
    BY <1>3, <2>1
<1> QED
  BY <1>1, <1>2, <1>3

LEMMA QuietStep ==
    ASSUME CheckInv, calls = <<>>, calls' = <<>>, UNCHANGED <<wrote, passed>>, ctx'.modified = ctx.modified,
           NEW c, Moves(ctx.wf, ctx'.wf, FALSE, c), outcome # "Cancelled", outcome' # "Completed"
    PROVE  CheckInv'
<1>1. Covered(ctx)
  BY DEF CheckInv, PlanInv, Covered
<1>2. wrote # {} => \A i \in DOMAIN ctx.wf.steps : Counts(ctx.wf, i) => ctx.wf.steps[i].command \in passed'
  BY DEF CheckInv, PassedInv, Counts
<1> QED
  BY <1>1, <1>2, StepsMoved, BetweenChecks

LEMMA SameMoves ==
    ASSUME NEW w, WorkflowOK(w) PROVE Moves(w, w, FALSE, "none")
  BY DEF Moves

LEMMA ChecksBegin == Init => CheckInv
<1> SUFFICES ASSUME Init PROVE CheckInv
  OBVIOUS
<1>1. calls = <<>> /\ ctx.wf = FreshWorkflow /\ ctx.modified = {} /\ wrote = {}
  BY DEF Init
<1>2. WorkflowOK(FreshWorkflow)
  BY DEF WorkflowOK, FreshWorkflow
<1>3. Foreground(calls) /\ PlanInv /\ PassedInv /\ CompletionObservesVerification
  BY <1>1, <1>2 DEF Foreground, PlanInv, PassedInv, CompletionObservesVerification
<1> QED
  BY <1>1, <1>3 DEF CheckInv

LEMMA StartChecks == LoopInv /\ CheckInv /\ StartTurn => CheckInv'
<1> SUFFICES ASSUME LoopInv, CheckInv, StartTurn PROVE CheckInv'
  OBVIOUS
<1>1. calls = <<>> /\ calls' = <<>> /\ outcome' = "none"
  BY DEF StartTurn, LoopInv, StageInv
<1>2. ContextOK(ctx) /\ WorkflowOK(ctx.wf)
  BY DEF LoopInv, LoopTypeOK, CheckInv, PlanInv
<1>3. ctx'.modified = ctx.modified /\ ctx'.wf = ctx.wf
  <2>1. ctx' = RecordUserModified(ctx, Dirty)
    BY DEF StartTurn
  <2>2. ctx' = [ctx EXCEPT !.userModified = ctx.userModified \cup (Dirty \ ctx.modified)]
    BY <1>2, <2>1 DEF RecordUserModified, ContextOK
  <2> QED
    BY <1>2, <2>1, <2>2, Asked, WorkflowOf
<1>4. Covered(ctx')
  BY <1>3 DEF CheckInv, PlanInv, Covered
<1>5. wrote' = {} \/ (outcome # "Cancelled" /\ wrote' = wrote /\ passed' = passed)
  BY DEF StartTurn
<1>6. wrote' # {} => \A i \in DOMAIN ctx.wf.steps : Counts(ctx.wf, i) => ctx.wf.steps[i].command \in passed'
  BY <1>1, <1>5 DEF CheckInv, PassedInv, Counts
<1> QED
  BY <1>1, <1>2, <1>3, <1>4, <1>6, BetweenChecks

LEMMA LookChecks ==
    LoopInv /\ CheckInv /\ (RefreshTurn \/ RefreshBeforeCompletion \/ CaptureGit \/ InvalidContinuation) => CheckInv'
<1> SUFFICES ASSUME LoopInv, CheckInv, RefreshTurn \/ RefreshBeforeCompletion \/ CaptureGit \/ InvalidContinuation
             PROVE  CheckInv'
  OBVIOUS
<1>1. /\ calls = <<>> /\ calls' = <<>> /\ UNCHANGED <<wrote, passed, outcome>> /\ outcome = "none"
  BY DEF RefreshTurn, RefreshBeforeCompletion, CaptureGit, InvalidContinuation, historyVars, LoopInv, StageInv
<1>2. /\ ContextOK(ctx) /\ fs \in [Files -> Live] /\ WorkflowOK(ctx.wf)
      /\ \A f \in Files : Evidence(ctx.inspected[f], seen[f])
  BY DEF LoopInv, LoopTypeOK, EvidenceInv, CheckInv, PlanInv
<1>3. CASE ctx' = RefreshAgainstWorkspace(ctx)
  BY <1>1, <1>2, <1>3, Refreshed, RefreshedSteps, QuietStep
<1>4. CASE ctx' = RecordUserModified(ctx, Dirty)
  <2>1. ctx' = [ctx EXCEPT !.userModified = ctx.userModified \cup (Dirty \ ctx.modified)]
    BY <1>2, <1>4 DEF RecordUserModified, ContextOK
  <2>2. ctx'.wf = ctx.wf /\ ctx'.modified = ctx.modified
    BY <1>2, <1>4, <2>1, Asked, WorkflowOf
  <2> QED
    BY <1>1, <1>2, <2>2, SameMoves, QuietStep
<1>5. CASE ctx' = ctx
  BY <1>1, <1>2, <1>5, SameMoves, QuietStep
<1> QED
  BY <1>3, <1>4, <1>5 DEF RefreshTurn, RefreshBeforeCompletion, CaptureGit, InvalidContinuation

LEMMA TurnChecks == LoopInv /\ CheckInv /\ (Top \/ BackendError \/ EndStep) => CheckInv'
<1> SUFFICES ASSUME LoopInv, CheckInv, Top \/ BackendError \/ EndStep PROVE CheckInv'
  OBVIOUS
<1>1. pc \in {"top", "backend", "judge"} /\ ctx' = ctx /\ calls = <<>> /\ outcome = "none"
  BY DEF Top, BackendError, EndStep, LoopInv, StageInv
<1>2. calls' = <<>> /\ UNCHANGED <<wrote, passed>> /\ outcome' # "Completed"
  BY <1>1 DEF Top, BackendError, EndStep, EndTurn, historyVars
<1>3. WorkflowOK(ctx.wf)
  BY DEF CheckInv, PlanInv
<1> QED
  BY <1>1, <1>2, <1>3, SameMoves, QuietStep

LEMMA FinishChecks == LoopInv /\ CheckInv /\ FinishTurn => CheckInv'
<1> SUFFICES ASSUME LoopInv, CheckInv, FinishTurn PROVE CheckInv'
  OBVIOUS
<1>1. pc = "finish" /\ calls = <<>> /\ outcome = "none" /\ calls' = <<>> /\ UNCHANGED <<wrote, passed>>
  BY DEF FinishTurn, LoopInv, StageInv, EndTurn, historyVars
<1>2. ContextOK(ctx) /\ WorkflowOK(ctx.wf) /\ Covered(ctx)
  BY DEF LoopInv, LoopTypeOK, CheckInv, PlanInv, Covered
<1>3. CASE Accepts(ctx) /\ EndTurn("Completed")
  <2>1. ctx' = ctx /\ outcome' = "Completed"
    BY <1>3 DEF FinishTurn, Accepts, EndTurn
  <2>2. \A i \in DOMAIN ctx.wf.steps : Counts(ctx.wf, i)
    BY <1>3 DEF Accepts, CompleteIfReady, VerificationCurrent, Counts
  <2>3. wrote # {} => \A i \in DOMAIN ctx.wf.steps : ctx.wf.steps[i].command \in passed
    BY <1>1, <2>2 DEF CheckInv, PassedInv, Counts
  <2>4. wrote \subseteq ctx.modified
    BY <1>1, NothingToFold DEF LoopInv, OwnerInv
  <2>5. wrote # {} => Succeeded
    <3> SUFFICES ASSUME wrote # {}, NEW c \in Range(PlanFor[ctx.modified]) PROVE c \in passed
      BY <2>4 DEF Succeeded
    <3>1. PICK p \in DOMAIN PlanFor[ctx.modified] : c = PlanFor[ctx.modified][p]
      BY DEF Range
    <3>2. PICK i \in DOMAIN ctx.wf.steps : ctx.wf.steps[i].command = PlanFor[ctx.modified][p]
      BY <1>2, <2>4 DEF Covered
    <3> QED
      BY <2>3, <3>1, <3>2
  <2>6. (wrote # {} => Succeeded)' 
    BY <1>1, <2>1, <2>5 DEF Succeeded
  <2> QED
    BY <1>1, <1>2, <2>1, <2>3, <2>6, BetweenChecks
<1>4. CASE outcome' # "Completed"
  <2> DEFINE w == ResetForWorkspaceChange(ctx.wf, ctx.modified)
  <2>1. ctx' = ctx \/ ctx' = [ctx EXCEPT !.wf = w]
    BY DEF FinishTurn
  <2>2. Moves(ctx.wf, w, FALSE, "none")
    BY <1>2, ResetSteps DEF Moves
  <2> HIDE DEF w
  <2>3. ctx'.modified = ctx.modified /\ Moves(ctx.wf, ctx'.wf, FALSE, "none")
    <3>1. CASE ctx' = ctx
      BY <1>2, <3>1, SameMoves
    <3>2. CASE ctx' = [ctx EXCEPT !.wf = w]
      BY <1>2, <2>2, <3>2, OnlyWorkflow, WorkflowOf
    <3> QED
      BY <2>1, <3>1, <3>2
  <2> QED
    BY <1>1, <1>4, <2>3, QuietStep
<1> QED
  BY <1>1, <1>3, <1>4 DEF FinishTurn, EndTurn

LEMMA CancelChecks == LoopInv /\ CheckInv /\ Cancel => CheckInv'
<1> SUFFICES ASSUME LoopInv, CheckInv, Cancel PROVE CheckInv'
  OBVIOUS
<1>1. calls' = <<>> /\ outcome' = "Cancelled" /\ ctx' = ctx
  BY DEF Cancel, EndTurn
<1>2. WorkflowOK(ctx.wf) /\ Covered(ctx)
  BY DEF CheckInv, PlanInv, Covered
<1> QED
  BY <1>1, <1>2, BetweenChecks

(* Nothing has passed in an answer that is only admitted.                   *)
LEMMA AnswerChecks ==
    ASSUME \A a \in Answers : Foreground(a), LoopInv, CheckInv, ModelAnswers
    PROVE  CheckInv'
<1>1. /\ pc = "backend" /\ outcome = "none" /\ calls = <<>>
      /\ UNCHANGED <<ctx, outcome, wrote, passed>>
  BY DEF ModelAnswers, historyVars, LoopInv, StageInv
<1>2. PICK answer \in Answers :
        /\ calls' = answer
        /\ answer # <<>> => \A i \in DOMAIN answer : results'[i] \in Preflight(ctx, answer[i])
  BY DEF ModelAnswers
<1>3. \A i \in DOMAIN answer : answer[i].tool = "verify" => results'[i] = NotYet \/ ~results'[i].ok
  <2> SUFFICES ASSUME NEW i \in DOMAIN answer, answer[i].tool = "verify" PROVE results'[i] = NotYet \/ ~results'[i].ok
    OBVIOUS
  <2>1. results'[i] \in {NotYet, Refusal}
    <3>1. results'[i] \in Preflight(ctx, answer[i]) /\ ~MayReuse(ctx, answer[i])
      BY <1>2 DEF MayReuse
    <3> QED
      BY <3>1 DEF Preflight
  <2> QED
    BY <2>1 DEF Refusal
<1>4. Foreground(calls')
  BY <1>2
<1>5. \A i \in DOMAIN calls' : ~Passes(i)'
  BY <1>2, <1>3 DEF Passes
<1>6. PlanInv'
  BY <1>1 DEF CheckInv, PlanInv
<1>7. PassedInv'
  <2>1. wrote # {} => \A i \in DOMAIN ctx.wf.steps : Counts(ctx.wf, i) => ctx.wf.steps[i].command \in passed
    BY <1>1 DEF CheckInv, PassedInv, Counts
  <2> QED
    BY <1>1, <1>5, <2>1 DEF PassedInv, Counts
<1>8. CompletionObservesVerification'
  BY <1>1 DEF CompletionObservesVerification
<1> QED
  BY <1>4, <1>5, <1>6, <1>7, <1>8 DEF CheckInv
(* A check runs once the writes before it have, and no answer puts it       *)
(* behind a command: what changes the workspace after it is after it in the *)
(* answer too, and is folded later.                                         *)
LEMMA ExecuteChecks == LoopInv /\ CheckInv /\ Execute => CheckInv'
<1> SUFFICES ASSUME LoopInv, CheckInv, Execute PROVE CheckInv'
  OBVIOUS
<1>1. PICK i \in DOMAIN calls : /\ results[i] = NotYet
                                /\ \A j \in 1..(i - 1) : results[j] = NotYet => ~Conflicts(calls[i], calls[j])
                                /\ \E o \in Outcomes(calls[i]) : /\ Apply(calls[i], o)
                                                                 /\ results' = [results EXCEPT ![i] = o.result]
  BY DEF Execute
<1>2. PICK o \in Outcomes(calls[i]) : Apply(calls[i], o) /\ results' = [results EXCEPT ![i] = o.result]
  BY <1>1
<1>3. pc = "run" /\ outcome = "none" /\ UNCHANGED <<ctx, calls, outcome>>
  BY DEF Execute, LoopInv, StageInv
<1>4. /\ calls \in Seq(Call) /\ results \in Seq(Result \cup {NotYet}) /\ Len(results) = Len(calls)
      /\ fs \in [Files -> Live]
  BY DEF LoopInv, LoopTypeOK
<1>5. calls[i] \in Call
  BY <1>1, <1>4
<1>6. /\ o.result \in Result /\ o.result # NotYet
      /\ o.fs # fs => o.result.executed /\ o.result.ok /\ Mutates(calls[i])
  BY <1>4, <1>5, CallFields, Executed, Results
<1>7. results'[i] = o.result /\ \A k \in DOMAIN calls : k # i => results'[k] = results[k]
  BY <1>1, <1>2, <1>4, <1>6
<1>8. \A k \in DOMAIN calls : k # i => (Passes(k)' <=> Passes(k)) /\ (Changes(k)' <=> Changes(k))
  BY <1>3, <1>7 DEF Passes, Changes, Mutates
<1>9. Foreground(calls) /\ DOMAIN calls' = DOMAIN calls /\ DOMAIN calls \subseteq Nat
  BY <1>3, <1>4 DEF CheckInv
<1>10. ASSUME NEW j \in DOMAIN calls, NEW k \in DOMAIN calls, k < j, Passes(j)', Mutates(calls[k])
       PROVE  results'[k] # NotYet
  <2>1. CASE k = i
    BY <1>6, <1>7, <2>1
  <2>2. CASE k # i /\ j # i
    BY <1>7, <1>8, <1>10, <2>2 DEF CheckInv
  <2>3. CASE k # i /\ j = i
    <3>1. calls[i].tool = "verify"
      BY <1>3, <1>10, <2>3 DEF Passes
    <3>2. calls[k].tool # "shell"
      BY <1>9, <1>10, <2>3, <3>1 DEF Foreground
    <3>3. Conflicts(calls[i], calls[k])
      BY <1>10, <3>2 DEF Conflicts, Mutates
    <3>4. k \in 1..(i - 1)
      BY <1>4, <1>10, <2>3
    <3> QED
      BY <1>1, <1>7, <2>3, <3>3, <3>4
  <2> QED
    BY <2>1, <2>2, <2>3
<1>11. PassedInv'
  <2>1. CASE o.fs # fs
    <3>1. Changes(i)' /\ ~Passes(i)'
      BY <1>3, <1>6, <1>7, <2>1 DEF Changes, Passes, Mutates
    <3>2. ASSUME NEW j \in DOMAIN calls, Passes(j)' PROVE \E k \in DOMAIN calls : k > j /\ Changes(k)'
      <4>1. j # i /\ Passes(j)
        BY <1>8, <3>1, <3>2
      <4>2. ~(i < j)
        BY <1>1, <1>6, <2>1, <4>1 DEF CheckInv
      <4>3. i > j
        BY <1>9, <4>1, <4>2
      <4> QED
        BY <3>1, <4>3
    <3> QED
      BY <1>9, <3>1, <3>2 DEF PassedInv
  <2>2. CASE o.fs = fs
    <3>1. wrote' = wrote /\ passed \subseteq passed'
      BY <1>2, <2>2 DEF Apply
    <3>2. Passes(i)' => calls[i].command \in passed'
      BY <1>2, <1>3, <1>7, <2>2 DEF Apply, Passes
    <3>3. \A k \in DOMAIN calls : ~Changes(k)' => ~Changes(k)
      BY <1>1, <1>8 DEF Changes
    <3>4. ASSUME wrote # {}, NEW j \in DOMAIN calls, Passes(j)', \A k \in DOMAIN calls : k > j => ~Changes(k)'
          PROVE  calls[j].command \in passed'
      <4>1. CASE j = i
        BY <3>2, <3>4, <4>1
      <4>2. CASE j # i
        <5>1. Passes(j) /\ \A k \in DOMAIN calls : k > j => ~Changes(k)
          BY <1>8, <3>3, <3>4, <4>2
        <5>2. calls[j].command \in passed
          BY <3>4, <5>1 DEF CheckInv, PassedInv
        <5> QED
          BY <3>1, <5>2
      <4> QED
        BY <4>1, <4>2
    <3>5. ASSUME wrote # {}, \A k \in DOMAIN calls : ~Changes(k)', NEW s \in DOMAIN ctx.wf.steps,
                 ctx.wf.steps[s].revision = ctx.wf.revision /\ ctx.wf.steps[s].status = "Passed"
          PROVE  ctx.wf.steps[s].command \in passed'
      <4>1. \A k \in DOMAIN calls : ~Changes(k)
        BY <3>3, <3>5
      <4>2. ctx.wf.steps[s].command \in passed
        BY <1>3, <3>5, <4>1 DEF CheckInv, PassedInv
      <4> QED
        BY <3>1, <4>2
    <3> QED
      BY <1>3, <3>1, <3>4, <3>5 DEF PassedInv
  <2> QED
    BY <2>1, <2>2
<1>12. PlanInv' /\ Foreground(calls') /\ CompletionObservesVerification'
  BY <1>3 DEF CheckInv, PlanInv, CompletionObservesVerification
<1> QED
  BY <1>3, <1>10, <1>11, <1>12 DEF CheckInv

(* Folding a change makes every check stale and plans them anew; folding a  *)
(* check that passed counts it, unless a later change is still to be folded.*)
LEMMA ConsumeChecks == LoopInv /\ CheckInv /\ ConsumeResult => CheckInv'
<1> SUFFICES ASSUME LoopInv, CheckInv, ConsumeResult PROVE CheckInv'
  OBVIOUS
<1> DEFINE call == Head(calls)
           r == Head(results)
<1>1. /\ pc \in {"run", "fold"} /\ calls # <<>> /\ \A i \in DOMAIN results : results[i] # NotYet
      /\ Consume(call, r) /\ calls' = Tail(calls) /\ results' = Tail(results)
      /\ UNCHANGED <<outcome, wrote, passed>>
  BY DEF ConsumeResult
<1>2. /\ calls \in Seq(Call) /\ results \in Seq(Result \cup {NotYet}) /\ Len(results) = Len(calls)
      /\ ContextOK(ctx) /\ fs \in [Files -> Live] /\ WorkflowOK(ctx.wf) /\ Covered(ctx) /\ outcome = "none"
  BY <1>1 DEF LoopInv, LoopTypeOK, StageInv, CheckInv, PlanInv, Covered
<1>3. /\ call = calls[1] /\ r = results[1] /\ 1 \in DOMAIN calls /\ DOMAIN results = DOMAIN calls
      /\ DOMAIN calls' = DOMAIN results' /\ DOMAIN calls = 1..Len(calls) /\ Len(calls) \in Nat
  BY <1>1, <1>2
<1>4. \A k \in DOMAIN calls' : /\ k \in Nat /\ k + 1 \in DOMAIN calls /\ k + 1 > 1
                               /\ calls'[k] = calls[k + 1] /\ results'[k] = results[k + 1]
  BY <1>1, <1>2
<1>5. \A k \in DOMAIN calls : k # 1 => /\ k \in Nat /\ k - 1 \in DOMAIN calls'
                                       /\ calls'[k - 1] = calls[k] /\ results'[k - 1] = results[k]
  BY <1>1, <1>2
<1>6. call \in Call /\ r \in Result /\ r # NotYet
  BY <1>1, <1>2, <1>3
<1> HIDE DEF call, r
<1>7. \A k \in DOMAIN calls' : /\ Passes(k)' <=> Passes(k + 1)
                               /\ Changes(k)' <=> Changes(k + 1)
  BY <1>4 DEF Passes, Changes, Mutates
<1>8. Foreground(calls')
  <2>1. \A k \in DOMAIN calls' : calls'[k].tool # "start"
    BY <1>4 DEF CheckInv, Foreground
  <2>2. ASSUME NEW j \in DOMAIN calls', NEW k \in DOMAIN calls', k < j, calls'[k].tool = "shell"
        PROVE  calls'[j].tool # "verify"
    <3>1. k + 1 < j + 1
      BY <1>4, <2>2
    <3> QED
      BY <1>4, <2>2, <3>1 DEF CheckInv, Foreground
  <2> QED
    BY <2>1, <2>2 DEF Foreground
<1>9. \A k \in DOMAIN calls' : results'[k] # NotYet
  BY <1>1, <1>3, <1>4
<1>10. /\ WorkflowOK(ctx'.wf)
       /\ r.ok /\ Mutates(call) => Covered(ctx') /\ \A i \in DOMAIN ctx'.wf.steps : ~Counts(ctx'.wf, i)
       /\ ~(r.ok /\ Mutates(call)) =>
             /\ ctx'.modified = ctx.modified
             /\ Moves(ctx.wf, ctx'.wf, call.tool = "verify" /\ r.ok /\ r.success, call.command)
  <2>1. ctx' = Observe(ctx, call, r)
    BY <1>1 DEF Consume
  <2>2. call.tool # "start"
    BY <1>3 DEF CheckInv, Foreground
  <2>3. /\ call.tool \in {"read", "write", "create", "shell", "verify", "list", "git"}
        /\ call.tool \in {"read", "write", "create", "shell"} => call.file \in Files
    BY <1>6, <2>2, CallFields
  <2> QED
    BY <1>2, <1>6, <2>1, <2>2, <2>3, ObservedSteps DEF VerificationPassed
<1>11. PlanInv'
  BY <1>2, <1>10, StepsMoved DEF PlanInv, Covered
<1>12. ASSUME wrote # {}, NEW j \in DOMAIN calls', Passes(j)', \A k \in DOMAIN calls' : k > j => ~Changes(k)'
       PROVE  calls'[j].command \in passed
  <2>1. Passes(j + 1) /\ j + 1 \in DOMAIN calls /\ calls'[j].command = calls[j + 1].command
    BY <1>4, <1>7, <1>12
  <2>2. ASSUME NEW k \in DOMAIN calls, k > j + 1 PROVE ~Changes(k)
    <3>1. k # 1 /\ k - 1 \in DOMAIN calls' /\ k - 1 > j /\ (k - 1) + 1 = k
      BY <1>4, <1>5, <2>2
    <3> QED
      BY <1>7, <1>12, <3>1
  <2> QED
    BY <1>12, <2>1, <2>2 DEF CheckInv, PassedInv
<1>13. ASSUME wrote # {}, \A k \in DOMAIN calls' : ~Changes(k)'
       PROVE  \A s \in DOMAIN ctx'.wf.steps : Counts(ctx'.wf, s) => ctx'.wf.steps[s].command \in passed'
  <2>1. CASE r.ok /\ Mutates(call)
    BY <1>10, <2>1
  <2>2. CASE ~(r.ok /\ Mutates(call))
    <3>1. ~Changes(1)
      BY <1>3, <2>2 DEF Changes
    <3>2. \A k \in DOMAIN calls : ~Changes(k)
      <4> SUFFICES ASSUME NEW k \in DOMAIN calls, k # 1 PROVE ~Changes(k)
        BY <3>1
      <4>1. k - 1 \in DOMAIN calls' /\ (k - 1) + 1 = k
        BY <1>5
      <4> QED
        BY <1>7, <1>13, <4>1
    <3>3. \A s \in DOMAIN ctx.wf.steps : Counts(ctx.wf, s) => ctx.wf.steps[s].command \in passed'
      BY <1>1, <1>2, <1>13, <3>2 DEF CheckInv, PassedInv, Counts
    <3>4. call.tool = "verify" /\ r.ok /\ r.success => call.command \in passed'
      <4>1. call.tool = "verify" /\ r.ok /\ r.success => Passes(1)
        BY <1>3, <1>6 DEF Passes
      <4> QED
        BY <1>1, <1>3, <1>13, <3>2, <4>1 DEF CheckInv, PassedInv
    <3> QED
      BY <1>10, <2>2, <3>3, <3>4, StepsMoved
  <2> QED
    BY <2>1, <2>2
<1>14. PassedInv'
  BY <1>1, <1>12, <1>13 DEF PassedInv, Counts
<1>15. CompletionObservesVerification'
  BY <1>1, <1>2 DEF CompletionObservesVerification
<1> QED
  BY <1>8, <1>9, <1>11, <1>14, <1>15 DEF CheckInv

LEMMA AutoVerifyChecks == LoopInv /\ CheckInv /\ AutoVerify => CheckInv'
<1> SUFFICES ASSUME LoopInv, CheckInv, AutoVerify PROVE CheckInv'
  OBVIOUS
<1>1. pc = "auto" /\ calls = <<>> /\ calls' = <<>> /\ outcome = "none" /\ outcome' = "none"
  BY DEF AutoVerify, LoopInv, StageInv
<1>2. ContextOK(ctx) /\ fs \in [Files -> Live] /\ WorkflowOK(ctx.wf) /\ Covered(ctx)
  BY DEF LoopInv, LoopTypeOK, CheckInv, PlanInv, Covered
<1>3. CASE UNCHANGED <<ctx, wrote, passed>>
  BY <1>1, <1>2, <1>3, SameMoves, QuietStep
<1>4. ASSUME NEW i \in PendingChecks, NEW o \in Outcomes(CheckOf(i)) \cup {Outcome(Refusal, fs)},
             Apply(CheckOf(i), o), Consume(CheckOf(i), o.result)
      PROVE  CheckInv'
  <2> DEFINE call == CheckOf(i)
  <2>1. o \in Outcomes(call) \cup {Outcome(Refusal, fs)} /\ Apply(call, o) /\ Consume(call, o.result)
    BY <1>4
  <2>2. call.tool = "verify" /\ ~Mutates(call)
    BY DEF Mutates, CheckOf
  <2> HIDE DEF call
  <2>3. o.result \in Result /\ o.fs = fs
    <3>1. CASE o \in Outcomes(call)
      BY <1>2, <2>2, <3>1, Executed
    <3>2. CASE o = Outcome(Refusal, fs)
      BY <3>2, Results DEF Outcome
    <3> QED
      BY <2>1, <3>1, <3>2
  <2>4. wrote' = wrote /\ passed \subseteq passed' /\ (o.result.success => call.command \in passed')
    BY <2>1, <2>2, <2>3 DEF Apply
  <2>5. ctx' = Observe(ctx, call, o.result)
    BY <2>1 DEF Consume
  <2>6. /\ ctx'.modified = ctx.modified
        /\ Moves(ctx.wf, ctx'.wf, call.tool = "verify" /\ o.result.ok /\ o.result.success, call.command)
    BY <1>2, <2>2, <2>3, <2>5, ObservedSteps DEF VerificationPassed
  <2>7. wrote # {} => \A k \in DOMAIN ctx.wf.steps : Counts(ctx.wf, k) => ctx.wf.steps[k].command \in passed'
    BY <1>1, <2>4 DEF CheckInv, PassedInv, Counts
  <2> QED
    BY <1>1, <1>2, <2>4, <2>6, <2>7, StepsMoved, BetweenChecks
<1> QED
  BY <1>3, <1>4, AutoVerifyCases

LEMMA RestChecks == CheckInv /\ (UserEdit \/ UNCHANGED vars) => CheckInv'
<1> SUFFICES ASSUME CheckInv, UserEdit \/ UNCHANGED vars PROVE CheckInv'
  OBVIOUS
<1>1. UNCHANGED <<ctx, calls, results, outcome, wrote, passed>>
  BY DEF UserEdit, vars, loopVars, historyVars
<1>2. \A k \in DOMAIN calls : (Passes(k)' <=> Passes(k)) /\ (Changes(k)' <=> Changes(k))
  BY <1>1 DEF Passes, Changes, Mutates
<1>3. PassedInv'
  BY <1>1, <1>2 DEF CheckInv, PassedInv
<1>4. PlanInv' /\ CompletionObservesVerification'
  BY <1>1 DEF CheckInv, PlanInv, CompletionObservesVerification
<1> QED
  BY <1>1, <1>2, <1>3, <1>4 DEF CheckInv

LEMMA CheckInvStep ==
    ASSUME \A a \in Answers : Foreground(a), LoopInv, CheckInv, [Next]_vars
    PROVE  CheckInv'
<1>1. CASE StartTurn
  BY <1>1, StartChecks
<1>2. CASE Turn
  BY <1>2, LookChecks, TurnChecks, AnswerChecks, ExecuteChecks, ConsumeChecks, AutoVerifyChecks, FinishChecks
     DEF Turn
<1>3. CASE Cancel
  BY <1>3, CancelChecks
<1>4. CASE UserEdit \/ Stop \/ UNCHANGED vars
  BY <1>4, RestChecks DEF Stop
<1> QED
  BY <1>1, <1>2, <1>3, <1>4 DEF Next

-----------------------------------------------------------------------------

(* A check that counts is of a command that succeeded after everything the  *)
(* agent changed, and what is planned for the modified files has a step,    *)
(* whatever fails, is refused, is cancelled or is edited by the user        *)
(* meanwhile.  No answer may leave a check running while the turn goes on,  *)
(* or put one behind a command whose effects it does not wait for: without  *)
(* that the claim is false.                                                 *)
THEOREM CheckInvHolds ==
    ASSUME \A a \in Answers : Foreground(a)
    PROVE  Spec => []CheckInv
<1>1. Init => CheckInv
  BY ChecksBegin
<1>2. LoopInv /\ CheckInv /\ [Next]_vars => CheckInv'
  BY CheckInvStep
<1> QED
  BY <1>1, <1>2, LoopInvHolds, PTL DEF Spec

(* Work in which the agent changed the workspace is complete only when each *)
(* command planned for what it modified has succeeded since its last change *)
(* (completion_review, set_verification_plan, record_verification_command). *)
THEOREM CompletionIsVerified ==
    ASSUME \A a \in Answers : Foreground(a)
    PROVE  Spec => []CompletionObservesVerification
<1>1. CheckInv => CompletionObservesVerification
  BY DEF CheckInv
<1> QED
  BY <1>1, CheckInvHolds, PTL

-----------------------------------------------------------------------------
(* Every turn ends.  First the steps that wait for their commands.          *)

LEMMA ResultIsFolded ==
    ASSUME LoopInv, WorkflowOK(ctx.wf), ConsumeResult
    PROVE  WorkflowOK(ctx'.wf) /\ (OpenWhilePending(ctx.wf) => OpenWhilePending(ctx'.wf))
<1> DEFINE call == Head(calls)
           r == Head(results)
<1>1. calls # <<>> /\ (\A i \in DOMAIN results : results[i] # NotYet) /\ ctx' = Observe(ctx, call, r)
  BY DEF ConsumeResult, Consume
<1>2. /\ calls \in Seq(Call) /\ results \in Seq(Result \cup {NotYet}) /\ Len(results) = Len(calls)
      /\ ContextOK(ctx) /\ fs \in [Files -> Live]
  BY DEF LoopInv, LoopTypeOK
<1>3. call \in Call /\ r \in Result
  <2>1. 1 \in DOMAIN results /\ call = calls[1] /\ r = results[1] /\ results[1] # NotYet
    BY <1>1, <1>2
  <2> QED
    BY <1>1, <1>2, <2>1
<1> HIDE DEF call, r
<1>4. /\ call.tool \in {"read", "write", "create", "shell", "verify", "start", "list", "git"}
      /\ call.tool \in {"read", "write", "create", "shell"} => call.file \in Files
  BY <1>3, CallFields
<1> QED
  BY <1>1, <1>2, <1>3, <1>4, ObservedSteps

LEMMA CheckResult ==
    ASSUME fs \in [Files -> Live], NEW i, NEW o \in Outcomes(CheckOf(i)) \cup {Outcome(Refusal, fs)}
    PROVE  o.result \in Result
<1>1. CheckOf(i).tool = "verify"
  BY DEF CheckOf
<1>2. CASE o \in Outcomes(CheckOf(i))
  BY <1>1, <1>2, Executed
<1>3. CASE o = Outcome(Refusal, fs)
  BY <1>3, Results DEF Outcome
<1> QED
  BY <1>2, <1>3

(* A check that succeeded is ok.                                            *)
LEMMA PassedCheck ==
    ASSUME NEW i, NEW o \in Outcomes(CheckOf(i)) \cup {Outcome(Refusal, fs)}, o.result.success
    PROVE  o.result.ok
<1>1. Done \in Result
  <2>1. Failure \in Result
    BY Results DEF Failure, Result
  <2> QED
    BY <2>1 DEF Done, Result
<1>2. ~Failure.success /\ ~Refusal.success /\ ~Done.success /\ Done.ok
  BY DEF Failure, Done, Refusal
<1> HIDE DEF Failure, Done, Refusal
<1>3. [Done EXCEPT !.success = TRUE].ok /\ \A d : ~[Done EXCEPT !.files = d].success
  BY <1>1, <1>2 DEF Result
<1>4. \/ o = Outcome(Refusal, fs) \/ o = Outcome(Failure, fs) \/ o = Outcome([Done EXCEPT !.success = TRUE], fs)
      \/ \E d \in {{}} \cup {{f} : f \in Files} : o = Outcome([Done EXCEPT !.files = d], fs)
  BY DEF Outcomes, CheckOf
<1>5. \A d : o = Outcome(d, fs) => o.result = d
  BY DEF Outcome
<1> QED
  BY <1>2, <1>3, <1>4, <1>5

LEMMA BoundBegins == Init => BoundInv
<1> SUFFICES ASSUME Init PROVE BoundInv
  OBVIOUS
<1>1. steps = 0 /\ edits = 0 /\ ctx.wf = FreshWorkflow
  BY DEF Init
<1>2. WorkflowOK(FreshWorkflow) /\ OpenWhilePending(FreshWorkflow)
  BY DEF WorkflowOK, FreshWorkflow, OpenWhilePending
<1> QED
  BY <1>1, <1>2, LoopAssumption DEF BoundInv

\* What a step may make of a workflow.
Sound(c) == WorkflowOK(c.wf) /\ OpenWhilePending(c.wf)

LEMMA WorkflowStaysSound ==
    ASSUME LoopInv, BoundInv, Next
    PROVE  Sound(ctx')
<1>1. ContextOK(ctx) /\ fs \in [Files -> Live] /\ Sound(ctx)
  BY DEF LoopInv, LoopTypeOK, BoundInv, Sound
<1>2. ASSUME ctx' = RecordUserModified(ctx, Dirty) PROVE Sound(ctx')
  <2>1. ctx' = [ctx EXCEPT !.userModified = ctx.userModified \cup (Dirty \ ctx.modified)]
    BY <1>1, <1>2 DEF RecordUserModified, ContextOK
  <2> QED
    BY <1>1, <2>1, WorkflowOf DEF Sound
<1>3. ASSUME ctx' = RefreshAgainstWorkspace(ctx) PROVE Sound(ctx')
  BY <1>1, <1>3, RefreshedSteps DEF Sound, Moves
<1>4. CASE StartTurn \/ CaptureGit
  BY <1>2, <1>4 DEF StartTurn, CaptureGit
<1>5. CASE RefreshTurn \/ RefreshBeforeCompletion
  BY <1>3, <1>5 DEF RefreshTurn, RefreshBeforeCompletion
<1>6. CASE Top \/ InvalidContinuation \/ BackendError \/ ModelAnswers \/ Execute \/ EndStep \/ Cancel \/ UserEdit \/ Stop
  <2>1. ctx' = ctx
    BY <1>6 DEF Top, InvalidContinuation, BackendError, ModelAnswers, Execute, EndStep, Cancel, UserEdit, Stop, vars
  <2> QED
    BY <1>1, <2>1
<1>7. CASE ConsumeResult
  BY <1>1, <1>7, ResultIsFolded DEF Sound
<1>8. CASE AutoVerify
  <2>1. CASE UNCHANGED ctx
    BY <1>1, <2>1
  <2>2. ASSUME NEW i \in PendingChecks, NEW o \in Outcomes(CheckOf(i)) \cup {Outcome(Refusal, fs)},
               Consume(CheckOf(i), o.result)
        PROVE  Sound(ctx')
    <3> DEFINE call == CheckOf(i)
    <3>1. call.tool = "verify" /\ o.result \in Result /\ ctx' = Observe(ctx, call, o.result)
      BY <1>1, <2>2, CheckResult DEF CheckOf, Consume
    <3> HIDE DEF call
    <3> QED
      BY <1>1, <3>1, ObservedSteps DEF Sound
  <2> QED
    BY <1>8, <2>1, <2>2, AutoVerifyCases
<1>9. CASE FinishTurn
  <2> DEFINE w == ResetForWorkspaceChange(ctx.wf, ctx.modified)
  <2>1. ctx' = ctx \/ ctx' = [ctx EXCEPT !.wf = w]
    BY <1>9 DEF FinishTurn
  <2>2. WorkflowOK(w) /\ OpenWhilePending(w)
    BY <1>1, ResetSteps DEF Sound
  <2> DEFINE d == [ctx EXCEPT !.wf = w]
  <2> HIDE DEF w
  <2>3. d.wf = w
    BY <1>1, WorkflowOf
  <2> HIDE DEF d
  <2>4. ctx' = ctx \/ ctx' = d
    BY <2>1 DEF d
  <2> QED
    BY <1>1, <2>2, <2>3, <2>4 DEF Sound
<1> QED
  BY <1>4, <1>5, <1>6, <1>7, <1>8, <1>9 DEF Next, Turn

LEMMA BoundInvStep == LoopInv /\ BoundInv /\ [Next]_vars => BoundInv'
<1> SUFFICES ASSUME LoopInv, BoundInv, [Next]_vars PROVE BoundInv'
  OBVIOUS
<1>1. CASE UNCHANGED vars
  <2>1. UNCHANGED <<ctx, steps, edits>>
    BY <1>1 DEF vars, loopVars
  <2> QED
    BY <2>1 DEF BoundInv
<1>2. CASE Next
  <2>1. steps \in 0..MaxSteps /\ edits \in Nat /\ MaxSteps \in Nat
    BY LoopAssumption DEF BoundInv
  <2>2. edits' \in {edits, edits + 1}
    BY <1>2 DEF Next, Turn, StartTurn, RefreshTurn, Top, InvalidContinuation, BackendError, ModelAnswers, Execute,
                ConsumeResult, AutoVerify, EndStep, RefreshBeforeCompletion, CaptureGit, FinishTurn, Cancel, UserEdit,
                Stop, EndTurn, vars
  <2>3. steps' \in {steps, 0} \/ (steps' = steps + 1 /\ steps < MaxSteps) \/ (steps' = steps - 1 /\ steps = 1)
    BY <1>2 DEF Next, Turn, StartTurn, RefreshTurn, Top, InvalidContinuation, BackendError, ModelAnswers, Execute,
                ConsumeResult, AutoVerify, EndStep, RefreshBeforeCompletion, CaptureGit, FinishTurn, Cancel, UserEdit,
                Stop, EndTurn, vars, loopVars
  <2> QED
    BY <1>2, <2>1, <2>2, <2>3, WorkflowStaysSound DEF BoundInv, Sound
<1> QED
  BY <1>1, <1>2

(* A check that passes is recorded in every step that waits for its command, *)
(* and in no other.                                                          *)
LEMMA CheckRecorded ==
    ASSUME ContextOK(ctx), Sound(ctx), NEW call, call.tool = "verify", Awaiting(ctx.wf, call.command) # {},
           NEW r, r.ok, r.success
    PROVE  LET n == Observe(ctx, call, r)
           IN  /\ n.modified = ctx.modified
               /\ \A d : Awaiting(n.wf, d) = IF d = call.command THEN {} ELSE Awaiting(ctx.wf, d)
<1> DEFINE cmd == call.command
           key == FailureKey(call)
           settle == ClearFailure(ctx.wf, key)
           settled == [ctx EXCEPT !.wf = settle]
           counted == RecordVerificationCommand(settle, cmd, TRUE)
           noted == RecordWorkVerification(counted, cmd, TRUE)
           clear == ClearFailure(noted, key)
           checked == [settled EXCEPT !.wf = clear]
<1>1. WorkflowOK(settle) /\ \A d : Awaiting(settle, d) = Awaiting(ctx.wf, d)
  <2>1. WorkflowOK(ctx.wf)
    BY DEF Sound
  <2>2. SameSteps(ctx.wf, settle)
    BY <2>1, StepsKept
  <2> HIDE DEF settle
  <2> QED
    BY <2>2 DEF SameSteps, Awaiting
<1>2. ContextOK(settled) /\ settled.wf = settle /\ settled.modified = ctx.modified
  BY OnlyWorkflow, WorkflowOf
<1>3. Observe(ctx, call, r) = ObserveVerification(settled, call, r)
  <2>1. ObserveFiles(ctx, call, r) = ctx /\ ~Mutates(call) /\ ~Observes(call)
    BY DEF ObserveFiles, Mutates, Observes
  <2>2. Focused(ctx, call)
    <3>1. \E i \in DOMAIN ctx.wf.steps : ctx.wf.steps[i].revision = ctx.wf.revision /\ ctx.wf.steps[i].status = "Pending"
      BY DEF Awaiting
    <3> QED
      BY <3>1 DEF Sound, OpenWhilePending, Focused
  <2>3. settled = [ctx EXCEPT !.wf = IF r.ok THEN ClearFailure(@, key) ELSE RecordFailure(@, key)]
    BY DEF ContextOK
  <2> HIDE DEF settled, key
  <2> QED
    BY <2>1, <2>2, <2>3 DEF Observe, key
<1>4. ObserveVerification(settled, call, r) = checked
  <2>1. VerificationPassed(call, r) /\ CommandOf(call) = cmd
    BY DEF VerificationPassed, CommandOf
  <2>2. Awaiting(settled.wf, cmd) # {}
    BY <1>1, <1>2
  <2> HIDE DEF settled, settle, cmd
  <2> QED
    BY <1>2, <2>1, <2>2 DEF ObserveVerification
<1> HIDE DEF settle, settled
<1>5. WorkflowOK(counted) /\ \A d : Awaiting(counted, d) = IF d = cmd THEN {} ELSE Awaiting(settle, d)
  BY <1>1, CommandSteps
<1> HIDE DEF counted
<1>6. SameSteps(counted, noted)
  BY <1>5, StepsKept
<1> HIDE DEF noted
<1>7. SameSteps(noted, clear)
  BY <1>6, StepsKept DEF SameSteps
<1> HIDE DEF clear
<1>8. \A d : Awaiting(clear, d) = Awaiting(counted, d)
  BY <1>6, <1>7 DEF SameSteps, Awaiting
<1>9. checked.wf = clear /\ checked.modified = settled.modified
  BY <1>2, OnlyWorkflow, WorkflowOf
<1> HIDE DEF checked
<1> QED
  BY <1>1, <1>2, <1>3, <1>4, <1>5, <1>8, <1>9

-----------------------------------------------------------------------------
(* Then what a turn may still use.                                          *)

LEMMA FewSubsets ==
    ASSUME NEW S, NEW s \in Seq(S), NEW T, T \subseteq DOMAIN s
    PROVE  IsFiniteSet(T) /\ Cardinality(T) \in Nat
<1>1. IsFiniteSet(1..Len(s))
  BY FS_Interval
<1> QED
  BY <1>1, FS_Subset, FS_CardinalityType

LEMMA Fewer ==
    ASSUME NEW T, IsFiniteSet(T), NEW t \in T, NEW U, U \subseteq T \ {t}
    PROVE  Cardinality(U) < Cardinality(T)
<1>1. IsFiniteSet(T \ {t}) /\ Cardinality(T \ {t}) = Cardinality(T) - 1 /\ Cardinality(T) \in Nat
  BY FS_RemoveElement, FS_CardinalityType
<1>2. Cardinality(U) <= Cardinality(T \ {t}) /\ IsFiniteSet(U)
  BY <1>1, FS_Subset
<1> QED
  BY <1>1, <1>2, FS_CardinalityType

\* The calls whose results are not there.
Missing == {i \in DOMAIN results : results[i] = NotYet}

NaturalWork ==
    /\ IsFiniteSet(Missing) /\ Cardinality(Missing) \in Nat
    /\ IsFiniteSet(PendingChecks) /\ Cardinality(PendingChecks) \in Nat
    /\ Len(calls) \in Nat
    /\ Work = Len(calls) + Cardinality(Missing) + (IF pc = "auto" THEN Cardinality(PendingChecks) ELSE 0)
    /\ Work \in Nat

LEMMA WorkIsNatural == LoopInv => NaturalWork
<1> SUFFICES ASSUME LoopInv PROVE NaturalWork
  OBVIOUS
<1>1. /\ calls \in Seq(Call) /\ results \in Seq(Result \cup {NotYet}) /\ ctx.modified \in SUBSET Files
  BY DEF LoopInv, LoopTypeOK, ContextOK
<1>2. PlanFor[ctx.modified] \in Seq(Commands)
  BY <1>1, LoopAssumption
<1>3. IsFiniteSet(Missing) /\ Cardinality(Missing) \in Nat
  BY <1>1, FewSubsets DEF Missing
<1>4. PendingChecks \subseteq DOMAIN PlanFor[ctx.modified]
  BY DEF PendingChecks
<1>5. IsFiniteSet(PendingChecks) /\ Cardinality(PendingChecks) \in Nat
  BY <1>2, <1>4, FewSubsets
<1>6. Len(calls) \in Nat
  BY <1>1
<1>7. Work = Len(calls) + Cardinality(Missing) + (IF pc = "auto" THEN Cardinality(PendingChecks) ELSE 0)
  BY DEF Work, Missing
<1> QED
  BY <1>3, <1>5, <1>6, <1>7 DEF NaturalWork

LEMMA WorkStaysNatural == LoopInv' => NaturalWork'
  BY WorkIsNatural, PTL

\* What TurnsAreBounded says of a step.
Uses ==
    \/ pc' = "idle"
    \/ Budget' < Budget
    \/ Budget' = Budget /\ Stage' < Stage
    \/ Budget' = Budget /\ Stage' = Stage /\ Work' < Work

\* A step that uses up a stage.
LEMMA StageUsed ==
    ASSUME BoundInv, UNCHANGED <<steps, cont>>,
           \/ pc = "start" /\ pc' = "top"
           \/ pc = "backend" /\ pc' \in {"refresh", "run"}
           \/ pc = "run" /\ pc' \in {"fold", "auto", "judge"}
           \/ pc = "fold" /\ pc' \in {"auto", "judge"}
           \/ pc = "auto" /\ pc' = "judge"
           \/ pc \in {"judge", "finish"} /\ pc' = "top"
           \/ pc = "refresh" /\ pc' = "git"
           \/ pc = "git" /\ pc' = "finish"
    PROVE  Uses
<1>1. Stage' < Stage
  BY DEF Stage
<1>2. Budget' = Budget
  BY DEF Budget
<1> QED
  BY <1>1, <1>2 DEF Uses

LEMMA WorkUsed ==
    ASSUME UNCHANGED <<steps, cont, pc>>, Work' < Work
    PROVE  Uses
<1>1. Stage' = Stage /\ Budget' = Budget
  BY DEF Stage, Budget
<1> QED
  BY <1>1 DEF Uses

LEMMA ExecuteUses == LoopInv /\ LoopInv' /\ BoundInv /\ Execute => Uses
<1> SUFFICES ASSUME LoopInv, LoopInv', BoundInv, Execute PROVE Uses
  OBVIOUS
<1>1. pc = "run" /\ UNCHANGED <<ctx, pc, steps, cont, calls>>
  BY DEF Execute
<1>2. PICK i \in DOMAIN calls : /\ results[i] = NotYet
                                /\ \E o \in Outcomes(calls[i]) : results' = [results EXCEPT ![i] = o.result]
  BY DEF Execute
<1>3. /\ fs \in [Files -> Live] /\ calls \in Seq(Call) /\ results \in Seq(Result \cup {NotYet})
      /\ DOMAIN results = DOMAIN calls
  BY DEF LoopInv, LoopTypeOK
<1>4. PICK o \in Outcomes(calls[i]) : results' = [results EXCEPT ![i] = o.result]
  BY <1>2
<1>5. o.result # NotYet
  <2>1. calls[i] \in Call
    BY <1>3
  <2>2. o.result \in Result
    BY <1>3, <2>1, CallFields, Executed
  <2> QED
    BY <2>2, Results
<1>6. i \in Missing /\ Missing' \subseteq Missing \ {i}
  BY <1>2, <1>3, <1>4, <1>5 DEF Missing
<1>7. NaturalWork /\ NaturalWork'
  BY WorkIsNatural, WorkStaysNatural
<1>8. Cardinality(Missing') < Cardinality(Missing)
  BY <1>6, <1>7, Fewer DEF NaturalWork
<1>9. Work' < Work
  BY <1>1, <1>7, <1>8 DEF NaturalWork
<1> QED
  BY <1>1, <1>9, WorkUsed

LEMMA ConsumeUses == LoopInv /\ LoopInv' /\ BoundInv /\ ConsumeResult => Uses
<1> SUFFICES ASSUME LoopInv, LoopInv', BoundInv, ConsumeResult PROVE Uses
  OBVIOUS
<1>1. /\ UNCHANGED <<steps, cont>> /\ pc \in {"run", "fold"} /\ calls # <<>> /\ \A i \in DOMAIN results : results[i] # NotYet
      /\ calls' = Tail(calls) /\ results' = Tail(results) /\ pc' \in {"fold", "auto", "judge"}
  BY DEF ConsumeResult
<1>2. CASE pc = "fold" /\ pc' = "fold"
  <2>1. NaturalWork /\ NaturalWork'
    BY WorkIsNatural, WorkStaysNatural
  <2>2. /\ calls \in Seq(Call) /\ results \in Seq(Result \cup {NotYet}) /\ Len(results) = Len(calls)
    BY DEF LoopInv, LoopTypeOK
  <2>3. Len(calls') < Len(calls)
    BY <1>1, <2>2
  <2>4. Missing = {}
    BY <1>1 DEF Missing
  <2>5. Missing' = {}
    <3>1. \A i \in DOMAIN results' : i + 1 \in DOMAIN results /\ results'[i] = results[i + 1]
      BY <1>1, <2>2
    <3>2. \A i \in DOMAIN results' : results'[i] # NotYet
      BY <1>1, <3>1
    <3> QED
      BY <3>2 DEF Missing
  <2>6. Work' < Work
    BY <1>2, <2>1, <2>3, <2>4, <2>5 DEF NaturalWork
  <2> QED
    BY <1>1, <1>2, <2>6, WorkUsed
<1> QED
  BY <1>1, <1>2, StageUsed

LEMMA AutoVerifyUses == LoopInv /\ LoopInv' /\ BoundInv /\ AutoVerify => Uses
<1> SUFFICES ASSUME LoopInv, LoopInv', BoundInv, AutoVerify PROVE Uses
  OBVIOUS
<1>1. pc = "auto" /\ UNCHANGED <<steps, cont, calls, results>>
  BY DEF AutoVerify
<1>2. CASE pc' = "judge"
  BY <1>1, <1>2, StageUsed
<1>3. ASSUME NEW i \in PendingChecks, NEW o \in Outcomes(CheckOf(i)) \cup {Outcome(Refusal, fs)},
             Consume(CheckOf(i), o.result), o.result.success, pc' = "auto"
      PROVE  Uses
  <2> DEFINE call == CheckOf(i)
  <2>1. /\ call.tool = "verify" /\ call.command = PlanFor[ctx.modified][i] /\ Awaiting(ctx.wf, call.command) # {}
        /\ i \in DOMAIN PlanFor[ctx.modified]
    BY DEF CheckOf, PendingChecks
  <2>2. ContextOK(ctx) /\ Sound(ctx)
    BY DEF LoopInv, LoopTypeOK, BoundInv, Sound
  <2>3. ctx' = Observe(ctx, call, o.result)
    BY <1>3 DEF Consume
  <2>4. o.result.ok
    BY <1>3, PassedCheck
  <2> HIDE DEF call
  <2>5. /\ ctx'.modified = ctx.modified
        /\ \A d : Awaiting(ctx'.wf, d) = IF d = call.command THEN {} ELSE Awaiting(ctx.wf, d)
    BY <1>3, <2>1, <2>2, <2>3, <2>4, CheckRecorded
  <2>6. PendingChecks' \subseteq PendingChecks \ {i}
    BY <2>1, <2>5 DEF PendingChecks
  <2>7. NaturalWork /\ NaturalWork'
    BY WorkIsNatural, WorkStaysNatural
  <2>8. Cardinality(PendingChecks') < Cardinality(PendingChecks)
    BY <2>6, <2>7, Fewer DEF NaturalWork
  <2>9. Missing' = Missing
    BY <1>1 DEF Missing
  <2>10. Work' < Work
    BY <1>1, <1>3, <2>7, <2>8, <2>9 DEF NaturalWork
  <2> QED
    BY <1>1, <1>3, <2>10, WorkUsed
<1> QED
  BY <1>2, <1>3, AutoVerifyCases

LEMMA TurnUses ==
    ASSUME LoopInv, LoopInv', BoundInv, [Next]_vars, pc # "idle", edits' = edits
    PROVE  Uses \/ UNCHANGED vars
<1>1. steps \in 0..MaxSteps /\ edits \in Nat /\ MaxSteps \in Nat
  BY LoopAssumption DEF BoundInv
<1>2. CASE RefreshTurn \/ ModelAnswers \/ RefreshBeforeCompletion \/ CaptureGit
  <2>1. UNCHANGED <<steps, cont>>
    BY <1>2 DEF RefreshTurn, ModelAnswers, RefreshBeforeCompletion, CaptureGit
  <2>2. \/ pc = "start" /\ pc' = "top"
        \/ pc = "backend" /\ pc' \in {"refresh", "run"}
        \/ pc = "refresh" /\ pc' = "git"
        \/ pc = "git" /\ pc' = "finish"
    BY <1>2 DEF RefreshTurn, ModelAnswers, RefreshBeforeCompletion, CaptureGit
  <2> QED
    BY <2>1, <2>2, StageUsed
<1>3. CASE Top
  <2>1. pc' = "idle" \/ (steps < MaxSteps /\ steps' = steps + 1 /\ cont' = cont)
    BY <1>3 DEF Top, EndTurn
  <2>2. steps' = steps + 1 /\ cont' = cont => Budget' < Budget
    BY <1>1 DEF Budget
  <2> QED
    BY <2>1, <2>2 DEF Uses
<1>4. CASE InvalidContinuation
  <2>1. cont /\ ~cont' /\ steps' = steps - 1
    BY <1>4 DEF InvalidContinuation
  <2>2. Budget' < Budget
    BY <1>1, <2>1 DEF Budget
  <2> QED
    BY <2>2 DEF Uses
<1>5. CASE BackendError \/ Cancel
  BY <1>5 DEF BackendError, Cancel, EndTurn, Uses
<1>6. CASE Execute \/ ConsumeResult \/ AutoVerify
  BY <1>6, ExecuteUses, ConsumeUses, AutoVerifyUses
<1>7. CASE EndStep \/ FinishTurn
  <2>1. \/ pc' = "idle"
        \/ pc \in {"judge", "finish"} /\ pc' = "top" /\ UNCHANGED <<steps, cont>>
    BY <1>7 DEF EndStep, FinishTurn, EndTurn
  <2> QED
    BY <2>1, StageUsed DEF Uses
<1>8. CASE StartTurn \/ Stop \/ UserEdit
  <2>1. pc = "idle" \/ edits' = edits + 1
    BY <1>8 DEF StartTurn, Stop, UserEdit
  <2> QED
    BY <1>1, <2>1
<1> QED
  BY <1>2, <1>3, <1>4, <1>5, <1>6, <1>7, <1>8 DEF Next, Turn

-----------------------------------------------------------------------------

(* The steps of a turn stay within the request's, and a step of the         *)
(* workflow that waits for its command keeps the verification open, through *)
(* every mutation, check, refusal and change of the workspace               *)
(* (run_with_broker, record_mutation, record_verification_command).         *)
THEOREM BoundInvHolds == Spec => []BoundInv
<1>1. Init => BoundInv
  BY BoundBegins
<1>2. LoopInv /\ BoundInv /\ [Next]_vars => BoundInv'
  BY BoundInvStep
<1> QED
  BY <1>1, <1>2, LoopInvHolds, PTL DEF Spec

(* Whatever the model, the provider and the tools answer, each step of a    *)
(* turn uses up something that no later one gives back (run_with_broker,    *)
(* execute_pending_verifications).                                          *)
THEOREM EveryTurnIsBounded == Spec => TurnsAreBounded
<1>1. LoopInv /\ LoopInv' /\ BoundInv /\ [Next]_vars =>
         [pc # "idle" /\ edits' = edits =>
             \/ pc' = "idle"
             \/ Budget' < Budget
             \/ Budget' = Budget /\ Stage' < Stage
             \/ Budget' = Budget /\ Stage' = Stage /\ Work' < Work]_vars
  BY TurnUses DEF Uses
<1> QED
  BY <1>1, LoopInvHolds, BoundInvHolds, PTL DEF Spec, TurnsAreBounded

(* What the turn may still use is three natural numbers, so it cannot use   *)
(* them up for ever: a turn that the user leaves alone ends after a bounded *)
(* number of steps (run_with_broker).                                       *)
THEOREM WhatATurnUsesIsNatural == Spec => [](Budget \in Nat /\ Stage \in Nat /\ Work \in Nat)
<1>1. LoopInv /\ BoundInv => Budget \in Nat /\ Stage \in Nat /\ Work \in Nat
  <2> SUFFICES ASSUME LoopInv, BoundInv PROVE Budget \in Nat /\ Stage \in Nat /\ Work \in Nat
    OBVIOUS
  <2>1. steps \in 0..MaxSteps /\ MaxSteps \in Nat
    BY LoopAssumption DEF BoundInv
  <2>2. Budget \in Nat
    BY <2>1 DEF Budget
  <2>3. Stage \in Nat
    BY DEF Stage, LoopInv, LoopTypeOK
  <2>4. Work \in Nat
    BY WorkIsNatural DEF NaturalWork
  <2> QED
    BY <2>2, <2>3, <2>4
<1> QED
  BY <1>1, LoopInvHolds, BoundInvHolds, PTL
=============================================================================
