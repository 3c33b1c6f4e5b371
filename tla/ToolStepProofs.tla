---------------------------- MODULE ToolStepProofs ---------------------------
(***************************************************************************)
(* Consent and order in a step, for any calls, batch size and channel.     *)
(*                                                                         *)
(* Consent travels over the broker: a yes on a oneshot channel or in the   *)
(* session grants is the user's (ConsentInv), and the broker knows no      *)
(* request but the one being decided (RequestInv).  Order rests on what    *)
(* the scheduler's list of calls says: a call no longer on it has been     *)
(* launched if it executes, and a batch is launched only when no tool of   *)
(* the step is at work (OrderInv).                                         *)
(***************************************************************************)
EXTENDS ToolStep, TurnShell, SequenceTheorems, FiniteSetTheorems, TLAPS

(* Every step keeps the types of the variables. *)
LEMMA TypeStep ==
    ASSUME IndInv, [Next]_vars
    PROVE  TypeOK'
<1> USE DEF IndInv, NoCall
<1>1. CASE StopAt("prepare")
  BY <1>1 DEF StopAt, End, TypeOK, Calls, Scope, Event, Kinds, Decisions, RequestInv, agentVars, brokerVars, uiVars
<1>2. CASE PrepareQuietly
  BY <1>2 DEF PrepareQuietly, Prepared, IsFirst, TypeOK, Calls, Scope, Event, Kinds, Decisions, RequestInv, agentVars, brokerVars, uiVars
<1>3. CASE Register
  BY <1>3 DEF Register, IsFirst, TypeOK, Calls, Scope, Event, Kinds, Decisions, RequestInv, agentVars, brokerVars, uiVars
<1>4. CASE Announce
  BY <1>4 DEF Announce, Send, TypeOK, Calls, Scope, Event, Kinds, Decisions, RequestInv, agentVars, brokerVars, uiVars
<1>5. CASE Abandon
  BY <1>5 DEF Abandon, Cancel, End, TypeOK, Calls, Scope, Event, Kinds, Decisions, RequestInv, agentVars, brokerVars, uiVars
<1>6. CASE Hear
  BY <1>6 DEF Hear, TypeOK, Calls, Scope, Event, Kinds, Decisions, RequestInv, agentVars, brokerVars, uiVars
<1>7. CASE Resolve
  BY <1>7 DEF Resolve, Send, Prepared, TypeOK, Calls, Scope, Event, Kinds, Decisions, RequestInv, agentVars, brokerVars, uiVars
<1>8. CASE Succeed
  BY <1>8 DEF Succeed, End, TypeOK, Calls, Scope, Event, Kinds, Decisions, RequestInv, agentVars, brokerVars, uiVars
<1>9. CASE StopAtSelect
  BY <1>9 DEF StopAtSelect, StopAt, End, TypeOK, Calls, Scope, Event, Kinds, Decisions, RequestInv, agentVars, brokerVars, uiVars
<1>10. CASE Select
  BY <1>10 DEF Select, SelectPending, FirstOf, TypeOK, Calls, Scope, Event, Kinds, Decisions, RequestInv, agentVars, brokerVars, uiVars
<1>11. CASE Start
  BY <1>11 DEF Start, Send, IsFirst, TypeOK, Calls, Scope, Event, Kinds, Decisions, RequestInv, agentVars, brokerVars, uiVars
<1>12. CASE Launch
  BY <1>12 DEF Launch, TypeOK, Calls, Scope, Event, Kinds, Decisions, RequestInv, agentVars, brokerVars, uiVars
<1>13. CASE StopAtRun
  BY <1>13 DEF StopAtRun, StopAt, End, TypeOK, Calls, Scope, Event, Kinds, Decisions, RequestInv, agentVars, brokerVars, uiVars
<1>14. CASE BatchDone
  BY <1>14 DEF BatchDone, TypeOK, Calls, Scope, Event, Kinds, Decisions, RequestInv, agentVars, brokerVars, uiVars
<1>15. CASE ReportOutput
  BY <1>15 DEF ReportOutput, Send, IsFirst, TypeOK, Calls, Scope, Event, Kinds, Decisions, RequestInv, agentVars, brokerVars, uiVars
<1>16. CASE ReportFinish
  BY <1>16 DEF ReportFinish, Send, OrderInv, TypeOK, Calls, Scope, Event, Kinds, Decisions, RequestInv, agentVars, brokerVars, uiVars
<1>17. ASSUME NEW c \in Calls, Work(c) PROVE TypeOK'
  BY <1>17 DEF Work, TypeOK, Calls, Scope, Event, Kinds, Decisions, RequestInv, agentVars, brokerVars, uiVars
<1>18. CASE Receive
  <2> DEFINE Q == [kind : Kinds, call : Calls \cup {NoCall}]
  <2>1. queue \in Seq(Q) /\ queue # <<>>
    BY <1>18 DEF TypeOK, Receive
  <2>2. Head(queue) \in Q /\ Tail(queue) \in Seq(Q)
    BY <2>1, HeadTailProperties
  <2> HIDE DEF Q
  <2>3. Head(queue).call \in Calls \cup {NoCall}
    BY <2>2 DEF Q
  <2>4. asked' \in Calls \cup {NoCall} /\ overlay' \in Calls \cup {NoCall} /\ queue' \in Seq(Q)
    BY <1>18, <2>2, <2>3 DEF Receive, TypeOK
  <2> QED
    BY <1>18, <2>4 DEF Q, Receive, TypeOK, Calls, Scope, agentVars, brokerVars
<1>19. CASE CancelTurn
  BY <1>19 DEF CancelTurn, TypeOK, Calls, Scope, Event, Kinds, Decisions, RequestInv, agentVars, brokerVars, uiVars
<1>20. CASE Leave
  BY <1>20 DEF Leave, TypeOK, Calls, Scope, Event, Kinds, Decisions, RequestInv, agentVars, brokerVars, uiVars
<1>21. CASE DropRequest
  BY <1>21 DEF DropRequest, Cancel, TypeOK, Calls, Scope, Event, Kinds, Decisions, RequestInv, agentVars, brokerVars, uiVars
<1>22. ASSUME NEW d \in Decisions, Answer(d) PROVE TypeOK'
  BY <1>22 DEF Answer, Decide, GrantOn, TypeOK, Calls, Scope, Event, Kinds, Decisions, RequestInv, agentVars, brokerVars, uiVars
<1>23. CASE UNCHANGED vars
  BY <1>23 DEF TypeOK, Calls, Scope, Event, Kinds, Decisions, RequestInv, vars, agentVars, brokerVars, uiVars
<1> QED
  BY <1>1, <1>2, <1>3, <1>4, <1>5, <1>6, <1>7, <1>8, <1>9, <1>10, <1>11, <1>12, <1>13, <1>14, <1>15, <1>16, <1>17, <1>18, <1>19, <1>20, <1>21, <1>22, <1>23 DEF Next, Agent, Shell

(* Grants, answers and permits stay backed by what the user said. *)
LEMMA ConsentStep ==
    ASSUME IndInv, [Next]_vars
    PROVE  ConsentInv'
<1> USE DEF IndInv, NoCall
<1>1. CASE StopAt("prepare")
  BY <1>1 DEF StopAt, End, TypeOK, Calls, Scope, Decisions, ConsentInv, Consented, Executes, agentVars, brokerVars, uiVars
<1>2. CASE PrepareQuietly
  <2>1. PICK c \in unprepared : (batch[c].asks => Scope(c) \in grants) /\ permits' = permits \cup {c}
    BY <1>2 DEF PrepareQuietly
  <2>2. batch[c].asks => Consented(c)
    BY <2>1, BatchesAssumption DEF TypeOK, Calls, Scope, ConsentInv, Consented
  <2>3. \A p \in permits' : batch[p].asks => Consented(p)
    BY <2>1, <2>2 DEF ConsentInv
  <2> QED
    BY <1>2, <2>1, <2>3 DEF PrepareQuietly, Prepared, ConsentInv, Consented, Calls, Scope, brokerVars, uiVars
<1>3. CASE Register
  BY <1>3 DEF Register, IsFirst, TypeOK, Calls, Scope, Decisions, ConsentInv, Consented, Executes, agentVars, brokerVars, uiVars
<1>4. CASE Announce
  BY <1>4 DEF Announce, Send, TypeOK, Calls, Scope, Decisions, ConsentInv, Consented, Executes, agentVars, brokerVars, uiVars
<1>5. CASE Abandon
  BY <1>5 DEF Abandon, Cancel, End, TypeOK, Calls, Scope, Decisions, ConsentInv, Consented, Executes, agentVars, brokerVars, uiVars
<1>6. CASE Hear
  BY <1>6 DEF Hear, TypeOK, Calls, Scope, Decisions, ConsentInv, Consented, Executes, agentVars, brokerVars, uiVars
<1>7. CASE Resolve
  BY <1>7 DEF Resolve, Send, Prepared, RequestInv, TypeOK, Calls, Scope, Decisions, ConsentInv, Consented, Executes, agentVars, brokerVars, uiVars
<1>8. CASE Succeed
  BY <1>8 DEF Succeed, End, TypeOK, Calls, Scope, Decisions, ConsentInv, Consented, Executes, agentVars, brokerVars, uiVars
<1>9. CASE StopAtSelect
  BY <1>9 DEF StopAtSelect, StopAt, End, TypeOK, Calls, Scope, Decisions, ConsentInv, Consented, Executes, agentVars, brokerVars, uiVars
<1>10. CASE Select
  BY <1>10 DEF Select, TypeOK, Calls, Scope, Decisions, ConsentInv, Consented, Executes, agentVars, brokerVars, uiVars
<1>11. CASE Start
  BY <1>11 DEF Start, Send, IsFirst, TypeOK, Calls, Scope, Decisions, ConsentInv, Consented, Executes, agentVars, brokerVars, uiVars
<1>12. CASE Launch
  BY <1>12 DEF Launch, TypeOK, Calls, Scope, Decisions, ConsentInv, Consented, Executes, agentVars, brokerVars, uiVars
<1>13. CASE StopAtRun
  BY <1>13 DEF StopAtRun, StopAt, End, TypeOK, Calls, Scope, Decisions, ConsentInv, Consented, Executes, agentVars, brokerVars, uiVars
<1>14. CASE BatchDone
  BY <1>14 DEF BatchDone, TypeOK, Calls, Scope, Decisions, ConsentInv, Consented, Executes, agentVars, brokerVars, uiVars
<1>15. CASE ReportOutput
  BY <1>15 DEF ReportOutput, Send, IsFirst, TypeOK, Calls, Scope, Decisions, ConsentInv, Consented, Executes, agentVars, brokerVars, uiVars
<1>16. CASE ReportFinish
  BY <1>16 DEF ReportFinish, Send, TypeOK, Calls, Scope, Decisions, ConsentInv, Consented, Executes, agentVars, brokerVars, uiVars
<1>17. ASSUME NEW c \in Calls, Work(c) PROVE ConsentInv'
  BY <1>17 DEF Work, TypeOK, Calls, Scope, Decisions, ConsentInv, Consented, Executes, agentVars, brokerVars, uiVars
<1>18. CASE Receive
  BY <1>18 DEF Receive, TypeOK, Calls, Scope, Decisions, ConsentInv, Consented, Executes, agentVars, brokerVars, uiVars
<1>19. CASE CancelTurn
  BY <1>19 DEF CancelTurn, TypeOK, Calls, Scope, Decisions, ConsentInv, Consented, Executes, agentVars, brokerVars, uiVars
<1>20. CASE Leave
  BY <1>20 DEF Leave, TypeOK, Calls, Scope, Decisions, ConsentInv, Consented, Executes, agentVars, brokerVars, uiVars
<1>21. CASE DropRequest
  BY <1>21 DEF DropRequest, Cancel, TypeOK, Calls, Scope, Decisions, ConsentInv, Consented, Executes, agentVars, brokerVars, uiVars
<1>22. ASSUME NEW d \in Decisions, Answer(d) PROVE ConsentInv'
  BY <1>22 DEF Answer, Decide, GrantOn, TypeOK, Calls, Scope, Decisions, ConsentInv, Consented, Executes, agentVars, brokerVars, uiVars
<1>23. CASE UNCHANGED vars
  BY <1>23 DEF TypeOK, Calls, Scope, Decisions, ConsentInv, Consented, Executes, vars, agentVars, brokerVars, uiVars
<1> QED
  BY <1>1, <1>2, <1>3, <1>4, <1>5, <1>6, <1>7, <1>8, <1>9, <1>10, <1>11, <1>12, <1>13, <1>14, <1>15, <1>16, <1>17, <1>18, <1>19, <1>20, <1>21, <1>22, <1>23 DEF Next, Agent, Shell

(* The broker's requests stay those of the call being decided. *)
LEMMA RequestStep ==
    ASSUME IndInv, [Next]_vars
    PROVE  RequestInv'
<1> USE DEF IndInv, NoCall
<1>1. CASE StopAt("prepare")
  BY <1>1 DEF StopAt, End, TypeOK, Calls, Scope, Decisions, RequestInv, Ended, agentVars, brokerVars, uiVars
<1>2. CASE PrepareQuietly
  BY <1>2 DEF PrepareQuietly, Prepared, IsFirst, TypeOK, Calls, Scope, Decisions, RequestInv, Ended, agentVars, brokerVars, uiVars
<1>3. CASE Register
  BY <1>3 DEF Register, IsFirst, TypeOK, Calls, Scope, Decisions, RequestInv, Ended, agentVars, brokerVars, uiVars
<1>4. CASE Announce
  BY <1>4 DEF Announce, Send, TypeOK, Calls, Scope, Decisions, RequestInv, Ended, agentVars, brokerVars, uiVars
<1>5. CASE Abandon
  BY <1>5 DEF Abandon, Cancel, End, TypeOK, Calls, Scope, Decisions, RequestInv, Ended, agentVars, brokerVars, uiVars
<1>6. CASE Hear
  BY <1>6 DEF Hear, ConsentInv, TypeOK, Calls, Scope, Decisions, RequestInv, Ended, agentVars, brokerVars, uiVars
<1>7. CASE Resolve
  BY <1>7 DEF Resolve, Send, Prepared, TypeOK, Calls, Scope, Decisions, RequestInv, Ended, agentVars, brokerVars, uiVars
<1>8. CASE Succeed
  BY <1>8 DEF Succeed, End, TypeOK, Calls, Scope, Decisions, RequestInv, Ended, agentVars, brokerVars, uiVars
<1>9. CASE StopAtSelect
  BY <1>9 DEF StopAtSelect, StopAt, End, TypeOK, Calls, Scope, Decisions, RequestInv, Ended, agentVars, brokerVars, uiVars
<1>10. CASE Select
  BY <1>10 DEF Select, TypeOK, Calls, Scope, Decisions, RequestInv, Ended, agentVars, brokerVars, uiVars
<1>11. CASE Start
  BY <1>11 DEF Start, Send, IsFirst, TypeOK, Calls, Scope, Decisions, RequestInv, Ended, agentVars, brokerVars, uiVars
<1>12. CASE Launch
  BY <1>12 DEF Launch, TypeOK, Calls, Scope, Decisions, RequestInv, Ended, agentVars, brokerVars, uiVars
<1>13. CASE StopAtRun
  BY <1>13 DEF StopAtRun, StopAt, End, TypeOK, Calls, Scope, Decisions, RequestInv, Ended, agentVars, brokerVars, uiVars
<1>14. CASE BatchDone
  BY <1>14 DEF BatchDone, TypeOK, Calls, Scope, Decisions, RequestInv, Ended, agentVars, brokerVars, uiVars
<1>15. CASE ReportOutput
  BY <1>15 DEF ReportOutput, Send, OrderInv, TypeOK, Calls, Scope, Decisions, RequestInv, Ended, agentVars, brokerVars, uiVars
<1>16. CASE ReportFinish
  BY <1>16 DEF ReportFinish, Send, TypeOK, Calls, Scope, Decisions, RequestInv, Ended, agentVars, brokerVars, uiVars
<1>17. ASSUME NEW c \in Calls, Work(c) PROVE RequestInv'
  BY <1>17 DEF Work, TypeOK, Calls, Scope, Decisions, RequestInv, Ended, agentVars, brokerVars, uiVars
<1>18. CASE Receive
  BY <1>18 DEF Receive, TypeOK, Calls, Scope, Decisions, RequestInv, Ended, agentVars, brokerVars, uiVars
<1>19. CASE CancelTurn
  BY <1>19 DEF CancelTurn, TypeOK, Calls, Scope, Decisions, RequestInv, Ended, agentVars, brokerVars, uiVars
<1>20. CASE Leave
  BY <1>20 DEF Leave, TypeOK, Calls, Scope, Decisions, RequestInv, Ended, agentVars, brokerVars, uiVars
<1>21. CASE DropRequest
  BY <1>21 DEF DropRequest, Cancel, TypeOK, Calls, Scope, Decisions, RequestInv, Ended, agentVars, brokerVars, uiVars
<1>22. ASSUME NEW d \in Decisions, Answer(d) PROVE RequestInv'
  BY <1>22 DEF Answer, Decide, GrantOn, TypeOK, Calls, Scope, Decisions, RequestInv, Ended, agentVars, brokerVars, uiVars
<1>23. CASE UNCHANGED vars
  BY <1>23 DEF TypeOK, Calls, Scope, Decisions, RequestInv, Ended, vars, agentVars, brokerVars, uiVars
<1> QED
  BY <1>1, <1>2, <1>3, <1>4, <1>5, <1>6, <1>7, <1>8, <1>9, <1>10, <1>11, <1>12, <1>13, <1>14, <1>15, <1>16, <1>17, <1>18, <1>19, <1>20, <1>21, <1>22, <1>23 DEF Next, Agent, Shell

(* A call is left without a permit only by a denial of the user's. *)
LEMMA DenialStep ==
    ASSUME IndInv, [Next]_vars
    PROVE  DenialIsTheUsers'
<1> USE DEF IndInv, NoCall
<1>1. CASE StopAt("prepare")
  BY <1>1 DEF StopAt, End, TypeOK, Calls, Scope, Decisions, DenialIsTheUsers, agentVars, brokerVars, uiVars
<1>2. CASE PrepareQuietly
  BY <1>2 DEF PrepareQuietly, Prepared, IsFirst, TypeOK, Calls, Scope, Decisions, DenialIsTheUsers, agentVars, brokerVars, uiVars
<1>3. CASE Register
  BY <1>3 DEF Register, IsFirst, TypeOK, Calls, Scope, Decisions, DenialIsTheUsers, agentVars, brokerVars, uiVars
<1>4. CASE Announce
  BY <1>4 DEF Announce, Send, TypeOK, Calls, Scope, Decisions, DenialIsTheUsers, agentVars, brokerVars, uiVars
<1>5. CASE Abandon
  BY <1>5 DEF Abandon, Cancel, End, TypeOK, Calls, Scope, Decisions, DenialIsTheUsers, agentVars, brokerVars, uiVars
<1>6. CASE Hear
  BY <1>6 DEF Hear, TypeOK, Calls, Scope, Decisions, DenialIsTheUsers, agentVars, brokerVars, uiVars
<1>7. CASE Resolve
  BY <1>7 DEF Resolve, Send, Prepared, RequestInv, ConsentInv, TypeOK, Calls, Scope, Decisions, DenialIsTheUsers, agentVars, brokerVars, uiVars
<1>8. CASE Succeed
  BY <1>8 DEF Succeed, End, TypeOK, Calls, Scope, Decisions, DenialIsTheUsers, agentVars, brokerVars, uiVars
<1>9. CASE StopAtSelect
  BY <1>9 DEF StopAtSelect, StopAt, End, TypeOK, Calls, Scope, Decisions, DenialIsTheUsers, agentVars, brokerVars, uiVars
<1>10. CASE Select
  BY <1>10 DEF Select, TypeOK, Calls, Scope, Decisions, DenialIsTheUsers, agentVars, brokerVars, uiVars
<1>11. CASE Start
  BY <1>11 DEF Start, Send, IsFirst, TypeOK, Calls, Scope, Decisions, DenialIsTheUsers, agentVars, brokerVars, uiVars
<1>12. CASE Launch
  BY <1>12 DEF Launch, TypeOK, Calls, Scope, Decisions, DenialIsTheUsers, agentVars, brokerVars, uiVars
<1>13. CASE StopAtRun
  BY <1>13 DEF StopAtRun, StopAt, End, TypeOK, Calls, Scope, Decisions, DenialIsTheUsers, agentVars, brokerVars, uiVars
<1>14. CASE BatchDone
  BY <1>14 DEF BatchDone, TypeOK, Calls, Scope, Decisions, DenialIsTheUsers, agentVars, brokerVars, uiVars
<1>15. CASE ReportOutput
  BY <1>15 DEF ReportOutput, Send, IsFirst, TypeOK, Calls, Scope, Decisions, DenialIsTheUsers, agentVars, brokerVars, uiVars
<1>16. CASE ReportFinish
  BY <1>16 DEF ReportFinish, Send, TypeOK, Calls, Scope, Decisions, DenialIsTheUsers, agentVars, brokerVars, uiVars
<1>17. ASSUME NEW c \in Calls, Work(c) PROVE DenialIsTheUsers'
  BY <1>17 DEF Work, TypeOK, Calls, Scope, Decisions, DenialIsTheUsers, agentVars, brokerVars, uiVars
<1>18. CASE Receive
  BY <1>18 DEF Receive, TypeOK, Calls, Scope, Decisions, DenialIsTheUsers, agentVars, brokerVars, uiVars
<1>19. CASE CancelTurn
  BY <1>19 DEF CancelTurn, TypeOK, Calls, Scope, Decisions, DenialIsTheUsers, agentVars, brokerVars, uiVars
<1>20. CASE Leave
  BY <1>20 DEF Leave, TypeOK, Calls, Scope, Decisions, DenialIsTheUsers, agentVars, brokerVars, uiVars
<1>21. CASE DropRequest
  BY <1>21 DEF DropRequest, Cancel, TypeOK, Calls, Scope, Decisions, DenialIsTheUsers, agentVars, brokerVars, uiVars
<1>22. ASSUME NEW d \in Decisions, Answer(d) PROVE DenialIsTheUsers'
  BY <1>22 DEF Answer, Decide, GrantOn, TypeOK, Calls, Scope, Decisions, DenialIsTheUsers, agentVars, brokerVars, uiVars
<1>23. CASE UNCHANGED vars
  BY <1>23 DEF TypeOK, Calls, Scope, Decisions, DenialIsTheUsers, vars, agentVars, brokerVars, uiVars
<1> QED
  BY <1>1, <1>2, <1>3, <1>4, <1>5, <1>6, <1>7, <1>8, <1>9, <1>10, <1>11, <1>12, <1>13, <1>14, <1>15, <1>16, <1>17, <1>18, <1>19, <1>20, <1>21, <1>22, <1>23 DEF Next, Agent, Shell

(* The scheduler's bookkeeping of unprepared, waiting and launched calls. *)
LEMMA OrderStep ==
    ASSUME IndInv, [Next]_vars
    PROVE  OrderInv'
<1> USE DEF IndInv, NoCall
<1>1. CASE StopAt("prepare")
  BY <1>1 DEF StopAt, End, TypeOK, Calls, OrderInv, Executes, Preparing, Eligible, Footprint, agentVars, brokerVars, uiVars
<1>2. CASE PrepareQuietly
  BY <1>2 DEF PrepareQuietly, Prepared, IsFirst, TypeOK, Calls, OrderInv, Executes, Preparing, Eligible, Footprint, agentVars, brokerVars, uiVars
<1>3. CASE Register
  BY <1>3 DEF Register, IsFirst, TypeOK, Calls, OrderInv, Executes, Preparing, Eligible, Footprint, agentVars, brokerVars, uiVars
<1>4. CASE Announce
  BY <1>4 DEF Announce, Send, TypeOK, Calls, OrderInv, Executes, Preparing, Eligible, Footprint, agentVars, brokerVars, uiVars
<1>5. CASE Abandon
  BY <1>5 DEF Abandon, Cancel, End, TypeOK, Calls, OrderInv, Executes, Preparing, Eligible, Footprint, agentVars, brokerVars, uiVars
<1>6. CASE Hear
  BY <1>6 DEF Hear, TypeOK, Calls, OrderInv, Executes, Preparing, Eligible, Footprint, agentVars, brokerVars, uiVars
<1>7. CASE Resolve
  BY <1>7 DEF Resolve, Send, Prepared, TypeOK, Calls, OrderInv, Executes, Preparing, Eligible, Footprint, agentVars, brokerVars, uiVars
<1>8. CASE Succeed
  BY <1>8 DEF Succeed, End, TypeOK, Calls, OrderInv, Executes, Preparing, Eligible, Footprint, agentVars, brokerVars, uiVars
<1>9. CASE StopAtSelect
  BY <1>9 DEF StopAtSelect, StopAt, End, TypeOK, Calls, OrderInv, Executes, Preparing, Eligible, Footprint, agentVars, brokerVars, uiVars
<1>10. CASE Select
  BY <1>10 DEF Select, SelectPending, FirstOf, TypeOK, Calls, OrderInv, Executes, Preparing, Eligible, Footprint, brokerVars, uiVars
<1>11. CASE Start
  BY <1>11 DEF Start, Send, IsFirst, TypeOK, Calls, OrderInv, Executes, Preparing, Eligible, Footprint, agentVars, brokerVars, uiVars
<1>12. CASE Launch
  BY <1>12 DEF Launch, TypeOK, Calls, OrderInv, Executes, Preparing, Eligible, Footprint, agentVars, brokerVars, uiVars
<1>13. CASE StopAtRun
  BY <1>13 DEF StopAtRun, StopAt, End, TypeOK, Calls, OrderInv, Executes, Preparing, Eligible, Footprint, agentVars, brokerVars, uiVars
<1>14. CASE BatchDone
  BY <1>14 DEF BatchDone, TypeOK, Calls, OrderInv, Executes, Preparing, Eligible, Footprint, agentVars, brokerVars, uiVars
<1>15. CASE ReportOutput
  BY <1>15 DEF ReportOutput, Send, IsFirst, TypeOK, Calls, OrderInv, Executes, Preparing, Eligible, Footprint, agentVars, brokerVars, uiVars
<1>16. CASE ReportFinish
  BY <1>16 DEF ReportFinish, Send, TypeOK, Calls, OrderInv, Executes, Preparing, Eligible, Footprint, agentVars, brokerVars, uiVars
<1>17. ASSUME NEW c \in Calls, Work(c) PROVE OrderInv'
  BY <1>17 DEF Work, TypeOK, Calls, OrderInv, Executes, Preparing, Eligible, Footprint, agentVars, brokerVars, uiVars
<1>18. CASE Receive
  BY <1>18 DEF Receive, TypeOK, Calls, OrderInv, Executes, Preparing, Eligible, Footprint, agentVars, brokerVars, uiVars
<1>19. CASE CancelTurn
  BY <1>19 DEF CancelTurn, TypeOK, Calls, OrderInv, Executes, Preparing, Eligible, Footprint, agentVars, brokerVars, uiVars
<1>20. CASE Leave
  BY <1>20 DEF Leave, TypeOK, Calls, OrderInv, Executes, Preparing, Eligible, Footprint, agentVars, brokerVars, uiVars
<1>21. CASE DropRequest
  BY <1>21 DEF DropRequest, Cancel, TypeOK, Calls, OrderInv, Executes, Preparing, Eligible, Footprint, agentVars, brokerVars, uiVars
<1>22. ASSUME NEW d \in Decisions, Answer(d) PROVE OrderInv'
  BY <1>22 DEF Answer, Decide, GrantOn, TypeOK, Calls, OrderInv, Executes, Preparing, Eligible, Footprint, agentVars, brokerVars, uiVars
<1>23. CASE UNCHANGED vars
  BY <1>23 DEF TypeOK, Calls, OrderInv, Executes, Preparing, Eligible, Footprint, vars, agentVars, brokerVars, uiVars
<1> QED
  BY <1>1, <1>2, <1>3, <1>4, <1>5, <1>6, <1>7, <1>8, <1>9, <1>10, <1>11, <1>12, <1>13, <1>14, <1>15, <1>16, <1>17, <1>18, <1>19, <1>20, <1>21, <1>22, <1>23 DEF Next, Agent, Shell

(* No step launches a call before an earlier one it conflicts with is done. *)
LEMMA ConflictStep ==
    ASSUME IndInv, [Next]_vars
    PROVE  ConflictingCallsKeepModelOrder'
<1> USE DEF IndInv, NoCall
<1>1. CASE StopAt("prepare")
  BY <1>1 DEF StopAt, End, TypeOK, Calls, OrderInv, Executes, Preparing, Footprint, ConflictingCallsKeepModelOrder, agentVars, brokerVars, uiVars
<1>2. CASE PrepareQuietly
  BY <1>2 DEF PrepareQuietly, Prepared, IsFirst, TypeOK, Calls, OrderInv, Executes, Preparing, Footprint, ConflictingCallsKeepModelOrder, agentVars, brokerVars, uiVars
<1>3. CASE Register
  BY <1>3 DEF Register, IsFirst, TypeOK, Calls, OrderInv, Executes, Preparing, Footprint, ConflictingCallsKeepModelOrder, agentVars, brokerVars, uiVars
<1>4. CASE Announce
  BY <1>4 DEF Announce, Send, TypeOK, Calls, OrderInv, Executes, Preparing, Footprint, ConflictingCallsKeepModelOrder, agentVars, brokerVars, uiVars
<1>5. CASE Abandon
  BY <1>5 DEF Abandon, Cancel, End, TypeOK, Calls, OrderInv, Executes, Preparing, Footprint, ConflictingCallsKeepModelOrder, agentVars, brokerVars, uiVars
<1>6. CASE Hear
  BY <1>6 DEF Hear, TypeOK, Calls, OrderInv, Executes, Preparing, Footprint, ConflictingCallsKeepModelOrder, agentVars, brokerVars, uiVars
<1>7. CASE Resolve
  BY <1>7 DEF Resolve, Send, Prepared, TypeOK, Calls, OrderInv, Executes, Preparing, Footprint, ConflictingCallsKeepModelOrder, agentVars, brokerVars, uiVars
<1>8. CASE Succeed
  BY <1>8 DEF Succeed, End, TypeOK, Calls, OrderInv, Executes, Preparing, Footprint, ConflictingCallsKeepModelOrder, agentVars, brokerVars, uiVars
<1>9. CASE StopAtSelect
  BY <1>9 DEF StopAtSelect, StopAt, End, TypeOK, Calls, OrderInv, Executes, Preparing, Footprint, ConflictingCallsKeepModelOrder, agentVars, brokerVars, uiVars
<1>10. CASE Select
  BY <1>10 DEF Select, TypeOK, Calls, OrderInv, Executes, Preparing, Footprint, ConflictingCallsKeepModelOrder, agentVars, brokerVars, uiVars
<1>11. CASE Start
  BY <1>11 DEF Start, Send, IsFirst, TypeOK, Calls, OrderInv, Executes, Preparing, Footprint, ConflictingCallsKeepModelOrder, agentVars, brokerVars, uiVars
<1>12. CASE Launch
  <2> SUFFICES ASSUME NEW c \in launched', NEW p \in Calls,
                      p < c, Executes(p), Conflicts(Footprint(c), Footprint(p))
               PROVE  p \in launched' \ running'
    BY <1>12 DEF Launch, ConflictingCallsKeepModelOrder, Calls, Executes, Footprint
  <2>1. CASE c \in launched
    BY <1>12, <2>1 DEF Launch, ConflictingCallsKeepModelOrder, OrderInv
  <2>2. CASE c \in chosen
    <3>1. c \in permits /\ Eligible(c)
      BY <1>12, <2>2 DEF Launch, OrderInv, ConsentInv, Executes
    <3>2. p \notin waiting /\ unprepared = {}
      BY <1>12, <3>1 DEF Launch, Eligible, OrderInv
    <3> QED
      BY <1>12, <3>2 DEF Launch, OrderInv
  <2> QED
    BY <1>12, <2>1, <2>2 DEF Launch
<1>13. CASE StopAtRun
  BY <1>13 DEF StopAtRun, StopAt, End, TypeOK, Calls, OrderInv, Executes, Preparing, Footprint, ConflictingCallsKeepModelOrder, agentVars, brokerVars, uiVars
<1>14. CASE BatchDone
  BY <1>14 DEF BatchDone, TypeOK, Calls, OrderInv, Executes, Preparing, Footprint, ConflictingCallsKeepModelOrder, agentVars, brokerVars, uiVars
<1>15. CASE ReportOutput
  BY <1>15 DEF ReportOutput, Send, IsFirst, TypeOK, Calls, OrderInv, Executes, Preparing, Footprint, ConflictingCallsKeepModelOrder, agentVars, brokerVars, uiVars
<1>16. CASE ReportFinish
  BY <1>16 DEF ReportFinish, Send, TypeOK, Calls, OrderInv, Executes, Preparing, Footprint, ConflictingCallsKeepModelOrder, agentVars, brokerVars, uiVars
<1>17. ASSUME NEW c \in Calls, Work(c) PROVE ConflictingCallsKeepModelOrder'
  BY <1>17 DEF Work, TypeOK, Calls, OrderInv, Executes, Preparing, Footprint, ConflictingCallsKeepModelOrder, agentVars, brokerVars, uiVars
<1>18. CASE Receive
  BY <1>18 DEF Receive, TypeOK, Calls, OrderInv, Executes, Preparing, Footprint, ConflictingCallsKeepModelOrder, agentVars, brokerVars, uiVars
<1>19. CASE CancelTurn
  BY <1>19 DEF CancelTurn, TypeOK, Calls, OrderInv, Executes, Preparing, Footprint, ConflictingCallsKeepModelOrder, agentVars, brokerVars, uiVars
<1>20. CASE Leave
  BY <1>20 DEF Leave, TypeOK, Calls, OrderInv, Executes, Preparing, Footprint, ConflictingCallsKeepModelOrder, agentVars, brokerVars, uiVars
<1>21. CASE DropRequest
  BY <1>21 DEF DropRequest, Cancel, TypeOK, Calls, OrderInv, Executes, Preparing, Footprint, ConflictingCallsKeepModelOrder, agentVars, brokerVars, uiVars
<1>22. ASSUME NEW d \in Decisions, Answer(d) PROVE ConflictingCallsKeepModelOrder'
  BY <1>22 DEF Answer, Decide, GrantOn, TypeOK, Calls, OrderInv, Executes, Preparing, Footprint, ConflictingCallsKeepModelOrder, agentVars, brokerVars, uiVars
<1>23. CASE UNCHANGED vars
  BY <1>23 DEF TypeOK, Calls, OrderInv, Executes, Preparing, Footprint, ConflictingCallsKeepModelOrder, vars, agentVars, brokerVars, uiVars
<1> QED
  BY <1>1, <1>2, <1>3, <1>4, <1>5, <1>6, <1>7, <1>8, <1>9, <1>10, <1>11, <1>12, <1>13, <1>14, <1>15, <1>16, <1>17, <1>18, <1>19, <1>20, <1>21, <1>22, <1>23 DEF Next, Agent, Shell

(* The first state of a step satisfies the invariant. *)
LEMMA InitIndInv == Init => IndInv
<1> SUFFICES ASSUME Init PROVE IndInv
  OBVIOUS
<1>1. Capacity \in Nat /\ batch # <<>> /\ DOMAIN batch = 1..Len(batch)
  BY LimitsAssumption, BatchesAssumption DEF Init
<1>2. queue \in Seq([kind : Kinds, call : Calls \cup {NoCall}])
  <2> DEFINE Q == [kind : Kinds, call : Calls \cup {NoCall}]
  <2>1. Event("text", NoCall) \in Q
    BY DEF Event, Kinds
  <2>2. <<>> \in Seq(Q)
    OBVIOUS
  <2> HIDE DEF Q
  <2>3. [p \in 1..Capacity |-> Event("text", NoCall)] \in [1..Capacity -> Q]
    BY <2>1
  <2>4. [p \in 1..Capacity |-> Event("text", NoCall)] \in Seq(Q)
    BY <1>1, <2>3, SeqDef
  <2> QED
    BY <2>2, <2>4 DEF Init, Q
<1>3. TypeOK
  BY <1>1, <1>2 DEF Init, TypeOK, Calls, NoCall, Decisions
<1>4. ConsentInv
  BY DEF Init, ConsentInv, Calls, Decisions
<1>5. RequestInv
  BY DEF Init, RequestInv, Ended
<1>6. OrderInv /\ DenialIsTheUsers /\ ConflictingCallsKeepModelOrder
  BY DEF Init, OrderInv, Preparing, Calls, Executes, DenialIsTheUsers,
         ConflictingCallsKeepModelOrder
<1> QED
  BY <1>3, <1>4, <1>5, <1>6 DEF IndInv

(***************************************************************************)
(* The inductive invariant holds in every state of every step.             *)
(***************************************************************************)
THEOREM IndInvHolds == Spec => []IndInv
<1>1. IndInv /\ [Next]_vars => IndInv'
  <2> SUFFICES ASSUME IndInv, [Next]_vars PROVE IndInv'
    OBVIOUS
  <2> QED
    BY TypeStep, ConsentStep, RequestStep, OrderStep, DenialStep, ConflictStep DEF IndInv
<1> QED
  BY InitIndInv, <1>1, PTL DEF Spec

(***************************************************************************)
(* No tool that needs consent runs without the user's yes to the call or   *)
(* "always" to its scope, however answers, cancellation and stale          *)
(* approvals interleave with the agent (permission.rs, scheduler.rs).      *)
(***************************************************************************)
THEOREM ToolsRunWithConsent == Spec => []NothingRunsWithoutConsent
<1>1. IndInv => NothingRunsWithoutConsent
  BY DEF IndInv, ConsentInv, NothingRunsWithoutConsent
<1> QED
  BY IndInvHolds, <1>1, PTL

(***************************************************************************)
(* Conflicting calls run one after the other in the order the model asked  *)
(* for them, for any footprints and any number of parallel tools           *)
(* (select_pending_calls).                                                 *)
(***************************************************************************)
THEOREM ConflictsKeepModelOrder == Spec => []ConflictingCallsKeepModelOrder
<1>1. IndInv => ConflictingCallsKeepModelOrder
  BY DEF IndInv
<1> QED
  BY IndInvHolds, <1>1, PTL

(***************************************************************************)
(* The Deny that a dropped oneshot channel reads as never becomes a denied *)
(* call: only the user's denial does (prepare_calls looks at the token     *)
(* again after the decision).                                              *)
(***************************************************************************)
THEOREM OnlyTheUserDenies == Spec => []DenialIsTheUsers
<1>1. IndInv => DenialIsTheUsers
  BY DEF IndInv
<1> QED
  BY IndInvHolds, <1>1, PTL

(***************************************************************************)
(* The broker holds no request of a step that has ended (prepare_calls     *)
(* cancels the request on every way out).                                  *)
(***************************************************************************)
THEOREM BrokerForgetsTheStep == Spec => []NoRequestOutlivesTheStep
<1>1. IndInv => NoRequestOutlivesTheStep
  BY DEF IndInv, RequestInv, NoRequestOutlivesTheStep
<1> QED
  BY IndInvHolds, <1>1, PTL

(***************************************************************************)
(* For any number of prompts and sessions: while the shell runs, every     *)
(* turn that is over has exactly one record, and the next turn of a        *)
(* session knows what the turns before it have learned.                    *)
(*                                                                         *)
(* Neither is inductive.  The records are one per turn because a session   *)
(* has fewer records than turns were started (RecordInv), and the bound on *)
(* the turns is the number of prompts that were written (PromptInv).  The  *)
(* next turn knows because the seed does, whatever happens to the agent in *)
(* between, and because the newest record of every session would tell the  *)
(* seed when the session is resumed (KnowledgeInv).                        *)
(***************************************************************************)

Rec == [turn : Turns, how : Endings, knows : SUBSET Turns]

LEMMA SessionsAreNumbers == MaxSessions \in Nat /\ MaxPrompts \in Nat
BY BoundsAssumption DEF BoundsAssumption

LEMMA TypedShell ==
    ASSUME ShellTypeOK
    PROVE  /\ agent \in BOOLEAN /\ created \in Nat /\ session \in Nat /\ session <= created /\ created <= MaxSessions
           /\ turns \in Nat /\ engine \subseteq Turns /\ (seed = NoSeed \/ seed \subseteq Turns)
           /\ journal \in [1..MaxSessions -> Seq(Rec)] /\ queued \in Seq(Nat) /\ Len(queued) \in Nat
           /\ composer \in Nat /\ written \in Nat
           /\ task \in Endings \cup {"none", "running"} /\ (task = "none" <=> active = NoTurn)
           /\ active \in {NoTurn, turns} /\ loop \in {"on", "next", "leaving", "left", "panicked"}
<1>1. created \in Nat /\ created <= MaxSessions
  BY SessionsAreNumbers DEF ShellTypeOK
<1>2. session \in Nat /\ session <= created
  BY <1>1 DEF ShellTypeOK
<1>3. journal \in [1..MaxSessions -> Seq(Rec)]
  BY DEF ShellTypeOK, Rec
<1>4. Len(queued) \in Nat
  BY DEF ShellTypeOK
<1> QED
  BY <1>1, <1>2, <1>3, <1>4 DEF ShellTypeOK

(* The same, to establish the type of the next state.                      *)
LEMMA TypeFollows ==
    ASSUME agent' \in BOOLEAN, created' \in Nat, session' \in Nat, session' <= created', created' <= MaxSessions,
           turns' \in Nat, engine' \subseteq Turns, seed' = NoSeed \/ seed' \subseteq Turns,
           journal' \in [1..MaxSessions -> Seq(Rec)], queued' \in Seq(Nat), composer' \in Nat, written' \in Nat,
           task' \in Endings \cup {"none", "running"}, task' = "none" <=> active' = NoTurn,
           active' \in {NoTurn, turns'}, loop' \in {"on", "next", "leaving", "left", "panicked"}
    PROVE  ShellTypeOK'
<1>1. created' \in 0..MaxSessions /\ session' \in 0..created'
  BY SessionsAreNumbers
<1>2. journal' \in [1..MaxSessions -> Seq([turn : Turns, how : Endings, knows : SUBSET Turns])]
  BY DEF Rec
<1> QED
  BY <1>1, <1>2 DEF ShellTypeOK

(* Steps that write no record and neither start nor end a turn.            *)
LEMMA RecordsStay ==
    ASSUME ShellInv, UNCHANGED <<journal, active, turns>>, created' \in Nat, created' >= created, Looping' => Looping
    PROVE  RecordInv'
<1> SUFFICES ASSUME Looping PROVE (RecordsFit /\ EveryTurnHasOne /\ NoTurnHasTwo)'
  BY DEF RecordInv
<1>1. created \in Nat /\ MaxSessions \in Nat
  BY SessionsAreNumbers DEF ShellInv, ShellTypeOK
<1>2. \A s \in 1..MaxSessions : s > created' => s > created
  BY <1>1
<1>3. RecordsFit /\ EveryTurnHasOne /\ NoTurnHasTwo
  BY DEF ShellInv, RecordInv
<1>4. RecordsFit'
  BY <1>2, <1>3 DEF RecordsFit
<1>5. EveryTurnHasOne'
  BY <1>3 DEF EveryTurnHasOne
<1>6. NoTurnHasTwo'
  BY <1>3 DEF NoTurnHasTwo
<1> QED
  BY <1>4, <1>5, <1>6

LEMMA KnowledgeStays ==
    ASSUME ShellInv, UNCHANGED <<journal, session, seed>>, Looping' => Looping
    PROVE  KnowledgeInv'
BY DEF ShellInv, KnowledgeInv, Remembers, Restored

(* The user writes, queues, cancels or leaves.                             *)
LEMMA ScreenStep ==
    ASSUME ShellInv,
           UNCHANGED <<agent, engine, session, seed, created, journal, active, task, turns>>,
           {composer', written'} \subseteq Nat, queued' \in Seq(Nat), PromptInv',
           loop' \in {"on", "next", "leaving", "left", "panicked"}, Looping' => Looping,
           loop' = "next" => loop = "next"
    PROVE  ShellInv'
<1>1. ShellTypeOK'
  BY TypedShell, TypeFollows DEF ShellInv
<1>2. TurnInv'
  BY DEF ShellInv, TurnInv
<1>3. RecordInv'
  <2>1. created' \in Nat /\ created' >= created
    BY SessionsAreNumbers DEF ShellInv, ShellTypeOK
  <2> QED
    BY <2>1, RecordsStay
<1>4. KnowledgeInv'
  BY KnowledgeStays
<1> QED
  BY <1>1, <1>2, <1>3, <1>4 DEF ShellInv

LEMMA UserStep ==
    ASSUME ShellInv, Write \/ EnterQueue \/ EnterIgnored \/ CancelActive \/ Quit
    PROVE  ShellInv'
<1>1. /\ {composer, written, turns} \subseteq Nat /\ queued \in Seq(Nat) /\ Len(queued) \in Nat /\ MaxPrompts \in Nat
      /\ PromptInv
  BY SessionsAreNumbers, TypedShell DEF ShellInv
<1>2. CASE Write
  <2>1. composer' \in Nat /\ composer' # NoPrompt /\ written' = written + 1 /\ written' <= MaxPrompts /\ queued' = queued
        /\ composer = NoPrompt /\ turns' = turns
    BY <1>1, <1>2 DEF Write, screenVars, turnVars, NoPrompt
  <2>2. PromptInv'
    BY <1>1, <2>1 DEF PromptInv
  <2> QED
    BY <1>1, <1>2, <2>1, <2>2, ScreenStep DEF Write, runtimeVars, turnVars, ShellInv, ShellTypeOK, Looping
<1>3. CASE EnterQueue
  <2>1. /\ composer # NoPrompt /\ composer' = NoPrompt /\ written' = written /\ queued' = Append(queued, composer)
        /\ turns' = turns
    BY <1>3 DEF EnterQueue, Enter, turnVars
  <2>2. queued' \in Seq(Nat) /\ Len(queued') = Len(queued) + 1 /\ composer' \in Nat
    BY <1>1, <2>1 DEF NoPrompt
  <2>3. PromptInv'
    BY <1>1, <2>1, <2>2 DEF PromptInv
  <2> QED
    BY <1>1, <1>3, <2>1, <2>2, <2>3, ScreenStep
    DEF EnterQueue, Enter, runtimeVars, turnVars, ShellInv, ShellTypeOK, Looping
<1>4. CASE EnterIgnored
  <2>1. composer' = NoPrompt /\ written' = written /\ queued' = queued /\ turns' = turns
    BY <1>4 DEF EnterIgnored, Enter, turnVars
  <2>2. PromptInv' /\ composer' \in Nat
    BY <1>1, <2>1 DEF PromptInv, NoPrompt
  <2> QED
    BY <1>1, <1>4, <2>1, <2>2, ScreenStep
    DEF EnterIgnored, Enter, runtimeVars, turnVars, ShellInv, ShellTypeOK, Looping
<1>5. CASE CancelActive
  <2>1. UNCHANGED <<composer, written, queued, turns, loop>>
    BY <1>5 DEF CancelActive
  <2>2. PromptInv'
    BY <1>1, <2>1 DEF PromptInv
  <2> QED
    BY <1>1, <1>5, <2>1, <2>2, ScreenStep DEF CancelActive, runtimeVars, ShellInv, ShellTypeOK, Looping
<1>6. CASE Quit
  <2>1. UNCHANGED <<composer, written, queued, turns>> /\ loop' \in {"left", "leaving"}
    BY <1>6 DEF Quit, screenVars
  <2>2. PromptInv'
    BY <1>1, <2>1 DEF PromptInv
  <2> QED
    BY <1>1, <1>6, <2>1, <2>2, ScreenStep DEF Quit, runtimeVars, Looping
<1> QED
  BY <1>2, <1>3, <1>4, <1>5, <1>6

(* A turn starts, or does not.                                             *)
LEMMA StartStep ==
    ASSUME ShellInv, NEW p, Looping, active = NoTurn, StartTurn(p), UNCHANGED journal,
           {composer', written'} \subseteq Nat, queued' \in Seq(Nat),
           turns + 1 + Len(queued') + (IF composer' = NoPrompt THEN 0 ELSE 1) <= written', written' <= MaxPrompts
    PROVE  ShellInv'
<1> USE DEF NoTurn, NoSession
<1>1. /\ agent \in BOOLEAN /\ created \in Nat /\ session \in Nat /\ turns \in Nat /\ MaxSessions \in Nat
      /\ session <= created /\ created <= MaxSessions
      /\ engine \subseteq Turns /\ (seed = NoSeed \/ seed \subseteq Turns) /\ task = "none"
      /\ journal \in [1..MaxSessions -> Seq(Rec)] /\ Len(queued') \in Nat
  BY SessionsAreNumbers, TypedShell DEF ShellInv
<1>2. ASSUME Ensured
      PROVE  /\ created' \in Nat /\ session' \in Nat /\ session' <= created' /\ created' <= MaxSessions /\ created' >= created
             /\ agent' \in BOOLEAN
             /\ session' = session \/ (session = NoSession /\ session' = created + 1 /\ created' = created + 1)
             /\ ~agent => session' # NoSession
  <2>1. CASE agent
    BY <1>1, <1>2, <2>1 DEF Ensured
  <2>2. CASE ~agent
    <3>1. /\ Fresh <= MaxSessions /\ agent' = TRUE /\ session' = Fresh
          /\ created' = IF session = 0 THEN created + 1 ELSE created
      BY <1>2, <2>2 DEF Ensured
    <3>2. Fresh = IF session = 0 THEN created + 1 ELSE session
      BY DEF Fresh
    <3> QED
      BY <1>1, <2>2, <3>1, <3>2
  <2> QED
    BY <1>1, <2>1, <2>2
<1>3. ASSUME Ensured, UNCHANGED seed
      PROVE  KnowledgeInv'
  <2>1. CASE session' = session
    BY <1>3, <2>1, KnowledgeStays
  <2>2. CASE session = NoSession /\ session' = created + 1 /\ created' = created + 1
    <3>1. session' \in 1..MaxSessions /\ session' > created
      BY <1>1, <1>2, <1>3, <2>2
    <3>2. journal[session'] = <<>>
      BY <3>1 DEF ShellInv, RecordInv, RecordsFit
    <3>3. Len(journal'[session']) = 0
      BY <3>2
    <3>4. Remembers(session, IF seed = NoSeed THEN {} ELSE seed)'
      BY <3>3 DEF Remembers
    <3>5. \A s \in 1..MaxSessions : Remembers(s, Restored(s))'
      BY DEF ShellInv, KnowledgeInv, Remembers, Restored
    <3> QED
      BY <3>4, <3>5 DEF KnowledgeInv
  <2> QED
    BY <1>2, <1>3, <2>1, <2>2
<1>4. NewEngine \subseteq Turns
  BY <1>1 DEF NewEngine
<1>5. ASSUME UNCHANGED turnVars PROVE PromptInv'
  BY <1>1, <1>5 DEF PromptInv, turnVars
<1>6. CASE Begin(p)
  <2>1. /\ Ensured /\ engine' = (IF seed = NoSeed THEN NewEngine ELSE seed) /\ turns' = turns + 1 /\ active' = turns + 1
        /\ task' = "running" /\ loop' = "on" /\ UNCHANGED seed /\ (agent => session # NoSession)
    BY <1>6 DEF Begin
  <2>2. active' # NoTurn /\ active' \in Nat
    BY <1>1, <2>1 DEF NoTurn
  <2>3. ShellTypeOK'
    <3>1. turns' \in Nat /\ engine' \subseteq Turns
      BY <1>1, <1>4, <2>1
    <3> QED
      BY <1>1, <1>2, <2>1, <2>2, <3>1, TypeFollows
  <2>4. PromptInv'
    BY <2>1 DEF PromptInv
  <2>5. session' # NoSession
    <3>1. CASE agent
      BY <2>1, <3>1 DEF Ensured
    <3>2. CASE ~agent
      BY <1>2, <2>1, <3>2
    <3> QED
      BY <3>1, <3>2
  <2>6. TurnInv'
    BY <2>1, <2>5 DEF TurnInv
  <2>7. KnowledgeInv'
    BY <1>3, <2>1
  <2>8. RecordInv'
    <3>1. RecordsFit /\ EveryTurnHasOne /\ NoTurnHasTwo
      BY DEF ShellInv, RecordInv
    <3>2. RecordsFit'
      <4> SUFFICES ASSUME NEW s \in 1..MaxSessions
                   PROVE  /\ Len(journal[s]) + 1 <= turns'
                          /\ s > created' => journal[s] = <<>>
                          /\ \A i \in 1..Len(journal[s]) : journal[s][i].turn \in (1..turns') \ {active'}
        BY <2>2 DEF RecordsFit
      <4>1. Len(journal[s]) \in Nat
        BY <1>1
      <4>2. Len(journal[s]) + 1 <= turns'
        BY <1>1, <2>1, <3>1, <4>1 DEF RecordsFit
      <4>3. s > created' => journal[s] = <<>>
        <5>1. created' \in Nat /\ created' >= created /\ s \in Nat
          BY <1>1, <1>2, <2>1
        <5>2. s > created' => s > created
          BY <1>1, <5>1
        <5> QED
          BY <3>1, <5>2 DEF RecordsFit
      <4>4. ASSUME NEW i \in 1..Len(journal[s]) PROVE journal[s][i].turn \in (1..turns') \ {active'}
        <5>1. journal[s][i].turn \in 1..turns
          BY <3>1 DEF RecordsFit
        <5> QED
          BY <1>1, <2>1, <5>1
      <4> QED
        BY <4>2, <4>3, <4>4
    <3>3. (1..turns') \ {active'} = (1..turns) \ {active}
      BY <1>1, <2>1 DEF NoTurn
    <3>4. EveryTurnHasOne'
      BY <3>1, <3>3 DEF EveryTurnHasOne
    <3>5. NoTurnHasTwo'
      BY <3>1 DEF NoTurnHasTwo
    <3> QED
      BY <3>2, <3>4, <3>5 DEF RecordInv
  <2> QED
    BY <2>3, <2>4, <2>6, <2>7, <2>8 DEF ShellInv
<1>7. CASE FailBeforeAgent(p) \/ FailAfterAgent(p) \/ FailAfterAll(p)
  <2>1. UNCHANGED turnVars /\ UNCHANGED seed /\ loop' = "on"
    BY <1>7 DEF FailBeforeAgent, FailAfterAgent, FailAfterAll, NotStarted
  <2>2. /\ created' \in Nat /\ session' \in Nat /\ session' <= created' /\ created' <= MaxSessions /\ created' >= created
        /\ agent' \in BOOLEAN /\ engine' \subseteq Turns /\ KnowledgeInv'
    <3>1. CASE FailBeforeAgent(p)
      BY <1>1, <2>1, <3>1, KnowledgeStays DEF FailBeforeAgent
    <3>2. CASE FailAfterAgent(p)
      BY <1>1, <2>1, <3>2, KnowledgeStays DEF FailAfterAgent
    <3>3. CASE FailAfterAll(p)
      BY <1>2, <1>3, <1>4, <2>1, <3>3 DEF FailAfterAll
    <3> QED
      BY <1>7, <3>1, <3>2, <3>3
  <2>3. ShellTypeOK'
    BY <1>1, <2>1, <2>2, TypedShell, TypeFollows DEF ShellInv, turnVars
  <2>4. TurnInv'
    BY <2>1 DEF TurnInv, turnVars
  <2>5. RecordInv'
    BY <2>1, <2>2, RecordsStay DEF turnVars
  <2> QED
    BY <1>5, <2>1, <2>2, <2>3, <2>4, <2>5 DEF ShellInv
<1>8. CASE Panic(p)
  <2>1. loop' = "panicked" /\ UNCHANGED <<runtimeVars, turnVars>>
    BY <1>8 DEF Panic
  <2>2. PromptInv'
    BY <1>5, <2>1
  <2> QED
    BY <2>1, <2>2, ScreenStep DEF Looping, runtimeVars, turnVars
<1> QED
  BY <1>6, <1>7, <1>8 DEF StartTurn

(* What is done to the agent and the session between the turns.            *)
LEMMA SessionStep ==
    ASSUME ShellInv, SelectModel \/ Clear \/ CloseFails \/ (\E s \in 1..MaxSessions : SelectSession(s))
    PROVE  ShellInv'
<1> USE DEF NoTurn, NoSession
<1>1. /\ loop = "on" /\ active = NoTurn /\ agent' \in BOOLEAN
      /\ UNCHANGED <<engine, created, journal, active, task, turns, written, loop>>
  BY DEF SelectModel, Clear, CloseFails, SelectSession, Closed, turnVars, screenVars
<1>2. Looping /\ created \in Nat /\ created <= MaxSessions /\ MaxSessions \in Nat
  BY <1>1, TypedShell, SessionsAreNumbers DEF ShellInv, Looping
<1>3. (composer' = composer /\ queued' = queued) \/ (composer' = NoPrompt /\ queued' = <<>>)
  BY DEF SelectModel, Clear, CloseFails, SelectSession, screenVars
<1>4. composer' \in Nat /\ queued' \in Seq(Nat) /\ Len(queued') <= Len(queued) /\ Len(queued') \in Nat
  <2>1. <<>> \in Seq(Nat) /\ Len(<<>>) = 0
    OBVIOUS
  <2>2. composer \in Nat /\ queued \in Seq(Nat) /\ Len(queued) \in Nat
    BY TypedShell DEF ShellInv
  <2>3. CASE composer' = composer /\ queued' = queued
    BY <2>2, <2>3
  <2>4. CASE composer' = NoPrompt /\ queued' = <<>>
    <3>1. Len(queued') = 0
      BY <2>4
    <3> QED
      BY <2>1, <2>2, <2>4, <3>1 DEF NoPrompt
  <2> QED
    BY <1>3, <2>3, <2>4
<1>5. PromptInv'
  BY <1>1, <1>3, <1>4, TypedShell, SessionsAreNumbers DEF ShellInv, PromptInv
<1>6. RecordInv'
  BY <1>1, <1>2, RecordsStay
<1>7. TurnInv'
  BY <1>1 DEF TurnInv
<1>8. /\ session' \in Nat /\ session' <= created /\ (seed' = NoSeed \/ seed' \subseteq Turns)
      /\ session' # NoSession => Remembers(session', IF seed' = NoSeed THEN {} ELSE seed')
  <2>1. CASE SelectModel \/ CloseFails
    BY <1>2, <2>1, TypedShell DEF SelectModel, CloseFails, ShellInv, KnowledgeInv
  <2>2. CASE Clear
    BY <1>2, <2>2 DEF Clear
  <2>3. ASSUME NEW s \in 1..MaxSessions, SelectSession(s)
        PROVE  /\ session' \in Nat /\ session' <= created /\ (seed' = NoSeed \/ seed' \subseteq Turns)
               /\ session' # NoSession => Remembers(session', IF seed' = NoSeed THEN {} ELSE seed')
    <3>1. session' = s /\ seed' = Restored(s) /\ s <= created
      BY <2>3 DEF SelectSession
    <3>2. Restored(s) \subseteq Turns
      <4>1. journal[s] \in Seq(Rec)
        BY TypedShell DEF ShellInv
      <4>2. CASE journal[s] = <<>>
        BY <4>2 DEF Restored
      <4>3. CASE journal[s] # <<>>
        <5>1. journal[s][Len(journal[s])] \in Rec
          BY <4>1, <4>3
        <5> QED
          BY <4>3, <5>1 DEF Restored, Last, Rec
      <4> QED
        BY <4>2, <4>3
    <3>3. seed' # NoSeed
      BY <3>1, <3>2 DEF NoSeed, Turns
    <3>4. Remembers(s, Restored(s))
      BY <1>2 DEF ShellInv, KnowledgeInv
    <3> QED
      BY <1>2, <3>1, <3>2, <3>3, <3>4
  <2> QED
    BY <2>1, <2>2, <2>3
<1>9. ShellTypeOK'
  BY <1>1, <1>2, <1>4, <1>8, TypedShell, TypeFollows DEF ShellInv
<1>10. KnowledgeInv'
  <2>1. \A s \in 1..MaxSessions : Remembers(s, Restored(s))'
    BY <1>1, <1>2 DEF ShellInv, KnowledgeInv, Remembers, Restored
  <2>2. session' # NoSession => Remembers(session, IF seed = NoSeed THEN {} ELSE seed)'
    BY <1>1, <1>8 DEF Remembers
  <2> QED
    BY <2>1, <2>2 DEF KnowledgeInv
<1> QED
  BY <1>5, <1>6, <1>7, <1>9, <1>10 DEF ShellInv

(* The task of a turn ends: it has learned something.                      *)
LEMMA AgentEndsStep ==
    ASSUME ShellInv, NEW how \in Endings, AgentEnds(how)
    PROVE  ShellInv'
<1>1. /\ task = "running" /\ task' = how /\ engine' = engine \cup {active}
      /\ UNCHANGED <<agent, session, seed, created, journal, active, turns, composer, written, queued, loop>>
  BY DEF AgentEnds, screenVars
<1>2. active # NoTurn /\ active \in Turns
  BY <1>1, TypedShell DEF ShellInv, Turns
<1>3. ShellTypeOK'
  <2>1. engine' \subseteq Turns /\ task' \in Endings /\ task' # "none"
    BY <1>1, <1>2, TypedShell DEF ShellInv, Endings
  <2> QED
    BY <1>1, <1>2, <2>1, TypedShell, TypeFollows DEF ShellInv
<1>4. PromptInv'
  BY <1>1 DEF ShellInv, PromptInv
<1>5. TurnInv'
  BY <1>1, <1>2 DEF ShellInv, TurnInv
<1>6. RecordInv' /\ KnowledgeInv'
  BY <1>1, TypedShell, RecordsStay, KnowledgeStays DEF ShellInv, Looping
<1> QED
  BY <1>3, <1>4, <1>5, <1>6 DEF ShellInv

(* The end of a turn: the state the shell goes on or leaves with.          *)
LEMMA TurnEnds ==
    ASSUME ShellInv, TaskDone, Over, UNCHANGED journal \/ Recorded,
           engine' \in {engine, {}}, seed' \in {seed, engine},
           loop' \in {"next", "left"}
    PROVE  /\ ShellTypeOK' /\ PromptInv' /\ TurnInv'
           /\ session \in 1..MaxSessions /\ active \in 1..turns /\ active = turns /\ turns \in Nat
           /\ active \in Turns /\ task \in Endings /\ active \in engine /\ active' = NoTurn
           /\ UNCHANGED <<session, created, turns>>
<1>1. /\ active # NoTurn /\ task # "running" /\ active' = NoTurn /\ task' = "none"
      /\ UNCHANGED <<agent, session, created, turns, composer, written, queued>>
  BY DEF TaskDone, Over
<1>2. session # NoSession /\ active \in engine
  BY <1>1 DEF ShellInv, TurnInv
<1>3. session \in 1..MaxSessions
  BY <1>2, TypedShell, SessionsAreNumbers DEF ShellInv, NoSession
<1>4. active = turns /\ turns \in Nat /\ active \in 1..turns /\ active \in Turns
  BY <1>1, TypedShell DEF ShellInv, NoTurn, Turns
<1>5. task \in Endings
  BY <1>1, TypedShell DEF ShellInv
<1>6. Record(active, task, engine) \in Rec
  BY <1>4, <1>5, TypedShell DEF ShellInv, Record, Rec
<1>7. journal' \in [1..MaxSessions -> Seq(Rec)]
  <2>1. journal \in [1..MaxSessions -> Seq(Rec)]
    BY TypedShell DEF ShellInv
  <2>2. CASE Recorded
    <3>1. Append(journal[session], Record(active, task, engine)) \in Seq(Rec)
      BY <1>3, <1>6, <2>1
    <3> QED
      BY <1>3, <2>1, <2>2, <3>1 DEF Recorded
  <2> QED
    BY <2>1, <2>2
<1>8. ShellTypeOK'
  <2>1. engine' \subseteq Turns /\ (seed' = NoSeed \/ seed' \subseteq Turns)
    BY TypedShell DEF ShellInv
  <2> QED
    BY <1>1, <1>7, <2>1, TypedShell, TypeFollows DEF ShellInv
<1>9. PromptInv'
  BY <1>1 DEF ShellInv, PromptInv
<1>10. TurnInv'
  BY <1>1 DEF TurnInv
<1> QED
  BY <1>1, <1>2, <1>3, <1>4, <1>5, <1>8, <1>9, <1>10

(* The turn is recorded once, after the others, and all that the session   *)
(* has learned is in its record and in the seed.                           *)
LEMMA DoneStep ==
    ASSUME ShellInv, Done
    PROVE  ShellInv'
<1>1. loop = "on" /\ TaskDone /\ Over
  BY DEF Done
<1>2. CASE FinishFails /\ loop' = "left"
  <2>1. (UNCHANGED journal \/ Recorded) /\ engine' = engine /\ seed' = seed
    BY <1>2 DEF FinishFails
  <2>2. ShellTypeOK' /\ PromptInv' /\ TurnInv'
    BY <1>1, <1>2, <2>1, TurnEnds
  <2>3. ~Looping'
    BY <1>2 DEF Looping
  <2> QED
    BY <2>2, <2>3 DEF ShellInv, RecordInv, KnowledgeInv
<1>3. CASE Finish /\ loop' = "next"
  <2> DEFINE old == journal[session]
             L == Len(old)
             r == Record(active, task, engine)
  <2>1. Recorded /\ engine' \in {engine, {}} /\ seed' = SeedAfter /\ seed' \in {seed, engine}
    BY <1>3 DEF Finish, Detached, SeedAfter
  <2>2. /\ ShellTypeOK' /\ PromptInv' /\ TurnInv'
        /\ session \in 1..MaxSessions /\ active \in 1..turns /\ active = turns /\ turns \in Nat
        /\ active \in Turns /\ task \in Endings /\ active \in engine /\ active' = NoTurn
        /\ UNCHANGED <<session, created, turns>>
    BY <1>1, <1>3, <2>1, TurnEnds
  <2>3. journal \in [1..MaxSessions -> Seq(Rec)] /\ old \in Seq(Rec) /\ L \in Nat /\ created \in Nat /\ session <= created
    BY <2>2, TypedShell DEF ShellInv
  <2>4. /\ journal'[session] = Append(old, r)
        /\ \A s \in (1..MaxSessions) \ {session} : journal'[s] = journal[s]
    BY <2>1, <2>2, <2>3 DEF Recorded
  <2>5. r.turn = active /\ r.how = task /\ r.knows = engine
    BY DEF Record
  <2> HIDE DEF r
  <2>6. /\ Len(journal'[session]) = L + 1 /\ journal'[session][L + 1] = r
        /\ \A i \in 1..L : journal'[session][i] = old[i]
    BY <2>3, <2>4
  <2> HIDE DEF L
  <2>7. Looping /\ RecordsFit /\ EveryTurnHasOne /\ NoTurnHasTwo
    BY <1>1 DEF ShellInv, RecordInv, Looping
  <2>8. /\ \A s \in 1..MaxSessions : Remembers(s, Restored(s))
        /\ Remembers(session, IF seed = NoSeed THEN {} ELSE seed)
    <3>1. session # NoSession
      BY <2>2 DEF NoSession
    <3> QED
      BY <2>7, <3>1 DEF ShellInv, KnowledgeInv
  <2>9. \A i \in 1..L : old[i].how # "failed" => seed # NoSeed /\ old[i].turn \in seed /\ old[i].turn \in engine
    <3>1. seed # NoSeed => seed \subseteq engine
      BY <1>1 DEF ShellInv, TurnInv, TaskDone
    <3> QED
      BY <2>8, <3>1 DEF Remembers, L
  <2>10. RecordsFit'
    <3> SUFFICES ASSUME NEW s \in 1..MaxSessions
                 PROVE  /\ Len(journal'[s]) <= turns
                        /\ s > created => journal'[s] = <<>>
                        /\ \A i \in 1..Len(journal'[s]) : journal'[s][i].turn \in (1..turns) \ {NoTurn}
      BY <2>2, <2>3, <2>4 DEF RecordsFit
    <3>1. CASE s # session
      <4>1. Len(journal[s]) \in Nat /\ journal'[s] = journal[s]
        BY <2>3, <2>4, <3>1
      <4>2. /\ Len(journal[s]) + 1 <= turns
            /\ s > created => journal[s] = <<>>
            /\ \A i \in 1..Len(journal[s]) : journal[s][i].turn \in 1..turns
        BY <2>2, <2>7 DEF RecordsFit, Turns
      <4> QED
        BY <2>2, <4>1, <4>2 DEF NoTurn
    <3>2. CASE s = session
      <4>1. L + 1 <= turns /\ \A i \in 1..L : old[i].turn \in 1..turns
        BY <2>2, <2>7 DEF RecordsFit, Turns, L
      <4>2. ~(s > created)
        BY <2>2, <2>3, <3>2
      <4>3. \A i \in 1..(L + 1) : journal'[s][i].turn \in 1..turns
        BY <2>2, <2>3, <2>5, <2>6, <3>2, <4>1
      <4>4. NoTurn \notin 1..turns
        BY DEF NoTurn
      <4> QED
        BY <2>6, <3>2, <4>1, <4>2, <4>3, <4>4
    <3> QED
      BY <3>1, <3>2
  <2>11. EveryTurnHasOne'
    <3> SUFFICES ASSUME NEW t \in 1..turns
                 PROVE  \E s \in 1..MaxSessions : \E i \in 1..Len(journal'[s]) : journal'[s][i].turn = t
      BY <2>2 DEF EveryTurnHasOne
    <3>1. CASE t = active
      <4>1. L + 1 \in 1..Len(journal'[session])
        BY <2>3, <2>6
      <4> QED
        BY <2>2, <2>5, <2>6, <3>1, <4>1
    <3>2. CASE t # active
      <4>0. PICK s \in 1..MaxSessions : \E i \in 1..Len(journal[s]) : journal[s][i].turn = t
        BY <2>7, <3>2 DEF EveryTurnHasOne
      <4>1. PICK i \in 1..Len(journal[s]) : journal[s][i].turn = t
        BY <4>0
      <4>2. i \in 1..Len(journal'[s]) /\ journal'[s][i] = journal[s][i]
        <5>1. CASE s = session
          BY <2>3, <2>6, <4>1, <5>1 DEF L
        <5>2. CASE s # session
          BY <2>4, <4>1, <5>2
        <5> QED
          BY <5>1, <5>2
      <4> QED
        BY <4>1, <4>2
    <3> QED
      BY <3>1, <3>2
  <2>12. \A s \in 1..MaxSessions : \A i \in 1..Len(journal'[s]) :
             \/ s = session /\ i = L + 1 /\ journal'[s][i].turn = active
             \/ i \in 1..Len(journal[s]) /\ journal'[s][i] = journal[s][i] /\ journal[s][i].turn # active
    <3> SUFFICES ASSUME NEW s \in 1..MaxSessions, NEW i \in 1..Len(journal'[s])
                 PROVE  \/ s = session /\ i = L + 1 /\ journal'[s][i].turn = active
                        \/ i \in 1..Len(journal[s]) /\ journal'[s][i] = journal[s][i] /\ journal[s][i].turn # active
      OBVIOUS
    <3>1. CASE s # session
      <4>1. i \in 1..Len(journal[s]) /\ journal'[s][i] = journal[s][i]
        BY <2>4, <3>1
      <4> QED
        BY <2>7, <4>1 DEF RecordsFit
    <3>2. CASE s = session /\ i = L + 1
      BY <2>5, <2>6, <3>2
    <3>3. CASE s = session /\ i # L + 1
      <4>1. i \in 1..L
        BY <2>3, <2>6, <3>3
      <4>2. i \in 1..Len(journal[s]) /\ journal'[s][i] = journal[s][i]
        BY <2>6, <3>3, <4>1 DEF L
      <4> QED
        BY <2>7, <4>2 DEF RecordsFit
    <3> QED
      BY <3>1, <3>2, <3>3
  <2>13. NoTurnHasTwo'
    <3> SUFFICES ASSUME NEW s \in 1..MaxSessions, NEW z \in 1..MaxSessions,
                        NEW i \in 1..Len(journal'[s]), NEW k \in 1..Len(journal'[z]),
                        journal'[s][i].turn = journal'[z][k].turn
                 PROVE  s = z /\ i = k
      BY DEF NoTurnHasTwo
    <3>1. \/ s = session /\ i = L + 1 /\ journal'[s][i].turn = active
          \/ i \in 1..Len(journal[s]) /\ journal'[s][i] = journal[s][i] /\ journal[s][i].turn # active
      BY <2>12
    <3>2. \/ z = session /\ k = L + 1 /\ journal'[z][k].turn = active
          \/ k \in 1..Len(journal[z]) /\ journal'[z][k] = journal[z][k] /\ journal[z][k].turn # active
      BY <2>12
    <3>3. CASE s = session /\ i = L + 1 /\ journal'[s][i].turn = active
      BY <3>2, <3>3
    <3>4. CASE i \in 1..Len(journal[s]) /\ journal'[s][i] = journal[s][i] /\ journal[s][i].turn # active
      <4>1. CASE z = session /\ k = L + 1 /\ journal'[z][k].turn = active
        BY <3>4, <4>1
      <4>2. CASE k \in 1..Len(journal[z]) /\ journal'[z][k] = journal[z][k]
        <5>1. journal[s][i].turn = journal[z][k].turn
          BY <3>4, <4>2
        <5> QED
          BY <2>7, <3>4, <4>2, <5>1 DEF NoTurnHasTwo
      <4> QED
        BY <3>2, <4>1, <4>2
    <3> QED
      BY <3>1, <3>3, <3>4
  <2>14. \A i \in 1..(L + 1) : journal'[session][i].how # "failed" => journal'[session][i].turn \in engine
    BY <2>2, <2>3, <2>5, <2>6, <2>9
  <2>15. KnowledgeInv'
    <3>1. ASSUME NEW s \in 1..MaxSessions PROVE Remembers(s, Restored(s))'
      <4>1. CASE s = session
        <5>1. journal'[s] # <<>>
          BY <2>3, <2>6, <4>1
        <5>2. Restored(s)' = engine
          BY <2>5, <2>6, <4>1, <5>1 DEF Restored, Last
        <5> QED
          BY <2>6, <2>14, <4>1, <5>2 DEF Remembers
      <4>2. CASE s # session
        <5>1. journal'[s] = journal[s]
          BY <2>4, <4>2
        <5>2. Restored(s)' = Restored(s)
          BY <5>1 DEF Restored
        <5> QED
          BY <2>8, <5>1, <5>2 DEF Remembers
      <4> QED
        BY <4>1, <4>2
    <3>2. engine # NoSeed
      BY TypedShell DEF ShellInv, NoSeed, Turns
    <3>3. \A i \in 1..(L + 1) :
              journal'[session][i].how # "failed" => seed' # NoSeed /\ journal'[session][i].turn \in seed'
      <4>1. CASE task = "failed"
        BY <2>1, <2>3, <2>5, <2>6, <2>9, <4>1 DEF SeedAfter
      <4>2. CASE task # "failed"
        BY <2>1, <2>14, <3>2, <4>2 DEF SeedAfter
      <4> QED
        BY <4>1, <4>2
    <3>4. Remembers(session, IF seed = NoSeed THEN {} ELSE seed)'
      BY <2>2, <2>6, <3>3 DEF Remembers
    <3> QED
      BY <3>1, <3>4 DEF KnowledgeInv
  <2> QED
    BY <2>2, <2>10, <2>11, <2>13, <2>15 DEF ShellInv, RecordInv
<1> QED
  BY <1>2, <1>3 DEF Done

LEMMA LeaveDoneStep ==
    ASSUME ShellInv, LeaveDone
    PROVE  ShellInv'
<1>1. TaskDone /\ Over /\ loop' = "left"
  BY DEF LeaveDone
<1>2. (UNCHANGED journal \/ Recorded) /\ engine' \in {engine, {}} /\ seed' \in {seed, engine}
  BY DEF LeaveDone, Finish, FinishFails, Detached, SeedAfter
<1>3. ShellTypeOK' /\ PromptInv' /\ TurnInv'
  BY <1>1, <1>2, TurnEnds
<1>4. ~Looping'
  BY <1>1 DEF Looping
<1> QED
  BY <1>3, <1>4 DEF ShellInv, RecordInv, KnowledgeInv

(* A prompt that starts a turn was in the composer or in the queue.        *)
LEMMA SubmitStep ==
    ASSUME ShellInv, EnterSubmit
    PROVE  ShellInv'
<1>1. /\ loop = "on" /\ composer # NoPrompt /\ composer' = NoPrompt /\ active = NoTurn
      /\ UNCHANGED <<journal, written, queued>> /\ StartTurn(composer)
  BY DEF EnterSubmit, Enter
<1>2. /\ Looping /\ composer' \in Nat /\ written' \in Nat /\ queued' \in Seq(Nat) /\ Len(queued) \in Nat
      /\ turns \in Nat /\ written \in Nat
  BY <1>1, TypedShell DEF ShellInv, Looping, NoPrompt
<1>3. /\ turns + 1 + Len(queued') + (IF composer' = NoPrompt THEN 0 ELSE 1) <= written'
      /\ written' <= MaxPrompts
  BY <1>1, <1>2, SessionsAreNumbers DEF ShellInv, PromptInv
<1> QED
  BY <1>1, <1>2, <1>3, StartStep

LEMMA TakeNextStep ==
    ASSUME ShellInv, TakeNext
    PROVE  ShellInv'
<1>1. loop = "next" /\ active = NoTurn /\ Looping /\ UNCHANGED <<journal, composer, written>>
  BY DEF TakeNext, ShellInv, TurnInv, Looping
<1>2. /\ composer \in Nat /\ written \in Nat /\ queued \in Seq(Nat) /\ Len(queued) \in Nat /\ turns \in Nat
  BY TypedShell DEF ShellInv
<1>3. CASE queued = <<>>
  <2>1. loop' = "on" /\ UNCHANGED <<runtimeVars, turnVars, queued>>
    BY <1>3 DEF TakeNext
  <2>2. PromptInv'
    BY <1>1, <2>1 DEF ShellInv, PromptInv, turnVars
  <2> QED
    BY <1>1, <1>2, <2>1, <2>2, ScreenStep DEF runtimeVars, turnVars
<1>4. CASE queued # <<>>
  <2>1. queued' = Tail(queued) /\ StartTurn(Head(queued))
    BY <1>4 DEF TakeNext
  <2>2. queued' \in Seq(Nat) /\ Len(queued') = Len(queued) - 1 /\ Len(queued') \in Nat
    BY <1>2, <1>4, <2>1
  <2>3. /\ turns + 1 + Len(queued') + (IF composer' = NoPrompt THEN 0 ELSE 1) <= written'
        /\ written' <= MaxPrompts
    BY <1>1, <1>2, <2>2, SessionsAreNumbers DEF ShellInv, PromptInv
  <2> QED
    BY <1>1, <1>2, <2>1, <2>2, <2>3, StartStep
<1> QED
  BY <1>3, <1>4

LEMMA ShellInitially == ASSUME ShellInit PROVE ShellInv
<1> USE DEF ShellInit, NoTurn, NoPrompt, NoSession
<1>1. <<>> \in Seq(Nat) /\ <<>> \in Seq([turn : Turns, how : Endings, knows : SUBSET Turns]) /\ Len(<<>>) = 0
  OBVIOUS
<1>2. created \in 0..MaxSessions /\ session \in 0..created /\ (seed = NoSeed \/ seed \subseteq Turns)
  BY SessionsAreNumbers
<1>3. ShellTypeOK
  <2>1. journal \in [1..MaxSessions -> Seq([turn : Turns, how : Endings, knows : SUBSET Turns])]
    BY <1>1
  <2>2. engine \subseteq Turns /\ agent \in BOOLEAN /\ turns \in Nat /\ active \in {NoTurn, turns}
    OBVIOUS
  <2>3. (task = "none" <=> active = NoTurn) /\ task \in Endings \cup {"none", "running"}
    OBVIOUS
  <2>4. {composer, written} \subseteq Nat /\ queued \in Seq(Nat) /\ loop \in {"on", "next", "leaving", "left", "panicked"}
    BY <1>1
  <2> QED
    BY <1>2, <2>1, <2>2, <2>3, <2>4 DEF ShellTypeOK
<1>4. PromptInv
  BY <1>1, SessionsAreNumbers DEF PromptInv
<1>5. TurnInv
  BY DEF TurnInv
<1>6. \A s \in 1..MaxSessions : journal[s] = <<>> /\ Len(journal[s]) = 0 /\ 1..Len(journal[s]) = {}
  BY <1>1
<1>7. RecordsFit /\ EveryTurnHasOne /\ NoTurnHasTwo
  <2>1. (1..turns) = {}
    OBVIOUS
  <2>2. RecordsFit
    BY <1>6 DEF RecordsFit
  <2>3. EveryTurnHasOne
    BY <2>1 DEF EveryTurnHasOne
  <2>4. NoTurnHasTwo
    BY <1>6 DEF NoTurnHasTwo
  <2> QED
    BY <2>2, <2>3, <2>4
<1>8. KnowledgeInv
  <2>1. \A s \in 1..MaxSessions : \A c : Remembers(s, c)
    BY <1>6 DEF Remembers
  <2>2. session # 0 => session \in 1..MaxSessions
    BY <1>2, SessionsAreNumbers
  <2> QED
    BY <2>1, <2>2 DEF KnowledgeInv
<1> QED
  BY <1>3, <1>4, <1>5, <1>7, <1>8 DEF ShellInv, RecordInv

(* ShellInv is inductive.                                                  *)
THEOREM ShellInvHolds == ShellSpec => []ShellInv
<1>1. ShellInit => ShellInv
  BY ShellInitially
<1>2. ShellInv /\ [ShellNext]_shellVars => ShellInv'
  <2> SUFFICES ASSUME ShellInv, [ShellNext]_shellVars PROVE ShellInv'
    OBVIOUS
  <2>1. CASE UNCHANGED shellVars
    <3>1. UNCHANGED <<agent, engine, session, seed, created, journal, active, task, turns, composer, written, queued, loop>>
      BY <2>1 DEF shellVars, runtimeVars, turnVars, screenVars
    <3>2. PromptInv'
      BY <3>1 DEF ShellInv, PromptInv
    <3> QED
      BY <3>1, <3>2, TypedShell, ScreenStep DEF ShellInv, Looping
  <2>2. CASE User
    BY <2>2, UserStep, SubmitStep, SessionStep DEF User
  <2>3. CASE AgentTask
    BY <2>3, AgentEndsStep DEF AgentTask, Endings
  <2>4. CASE Done \/ TakeNext \/ LeaveDone
    BY <2>4, DoneStep, TakeNextStep, LeaveDoneStep
  <2> QED
    BY <2>1, <2>2, <2>3, <2>4 DEF ShellNext
<1> QED
  BY <1>1, <1>2, PTL DEF ShellSpec

(* While the loop runs, every turn that is over has exactly one record, in *)
(* one session (main.rs, finish_tui_turn).                                 *)
THEOREM TurnsAreRecordedOnce == ShellSpec => []EveryTurnIsRecorded
<1>1. ShellInv => EveryTurnIsRecorded
  <2> SUFFICES ASSUME ShellInv, Looping, NEW t \in 1..turns
               PROVE  Cardinality(Records(t)) = IF t = active THEN 0 ELSE 1
    BY DEF EveryTurnIsRecorded, Looping
  <2>1. /\ RecordsFit /\ EveryTurnHasOne /\ NoTurnHasTwo
        /\ journal \in [1..MaxSessions -> Seq(Rec)] /\ turns \in Nat
    BY TypedShell DEF ShellInv, RecordInv
  <2>2. \A r \in Records(t) : r[1] \in 1..MaxSessions /\ r[2] \in 1..Len(journal[r[1]]) /\ journal[r[1]][r[2]].turn = t
    <3>1. \A r \in Records(t) : /\ r[1] \in 1..MaxSessions /\ r[2] \in 1..MaxPrompts
                                /\ r[2] <= Len(journal[r[1]]) /\ journal[r[1]][r[2]].turn = t
      BY DEF Records
    <3>2. \A s \in 1..MaxSessions : Len(journal[s]) \in Nat
      BY <2>1
    <3> QED
      BY <3>1, <3>2, SessionsAreNumbers
  <2>3. CASE t = active
    <3>1. Records(t) = {}
      BY <2>1, <2>2, <2>3 DEF RecordsFit
    <3> QED
      BY <2>3, <3>1, FS_EmptySet
  <2>4. CASE t # active
    <3>0. PICK s \in 1..MaxSessions : \E i \in 1..Len(journal[s]) : journal[s][i].turn = t
      BY <2>1, <2>4 DEF EveryTurnHasOne
    <3>1. PICK i \in 1..Len(journal[s]) : journal[s][i].turn = t
      BY <3>0
    <3>2. i \in 1..MaxPrompts /\ i <= Len(journal[s])
      <4>1. Len(journal[s]) \in Nat /\ Len(journal[s]) <= turns
        BY <2>1 DEF RecordsFit
      <4>2. turns <= MaxPrompts
        BY TypedShell, SessionsAreNumbers DEF ShellInv, PromptInv
      <4> QED
        BY <2>1, <4>1, <4>2, SessionsAreNumbers
    <3>3. <<s, i>> \in Records(t)
      BY <3>1, <3>2 DEF Records
    <3>4. \A r \in Records(t) : r = <<s, i>>
      <4> SUFFICES ASSUME NEW r \in Records(t) PROVE r = <<s, i>>
        OBVIOUS
      <4>1. r[1] = s /\ r[2] = i
        BY <2>1, <2>2, <3>1 DEF NoTurnHasTwo
      <4>2. r = <<r[1], r[2]>>
        BY DEF Records
      <4> QED
        BY <4>1, <4>2
    <3>5. Records(t) = {<<s, i>>}
      BY <3>3, <3>4
    <3> QED
      BY <2>4, <3>5, FS_Singleton
  <2> QED
    BY <2>3, <2>4
<1> QED
  BY <1>1, ShellInvHolds, PTL

(* What a turn of the session learned is there when the next one starts    *)
(* (main.rs, finish_tui_turn, start_tui_turn and select_session).          *)
THEOREM LearnedIsKept == ShellSpec => []NothingLearnedIsForgotten
<1>1. ShellInv => NothingLearnedIsForgotten
  <2> SUFFICES ASSUME ShellInv, loop = "on", session # NoSession, NEW r \in Range(journal[session]), r.how # "failed"
               PROVE  r.turn \in Known
    BY DEF NothingLearnedIsForgotten
  <2>1. Remembers(session, IF seed = NoSeed THEN {} ELSE seed)
    BY DEF ShellInv, KnowledgeInv, Looping
  <2>2. PICK i \in 1..Len(journal[session]) : r = journal[session][i]
    <3>1. journal[session] \in Seq(Rec)
      BY TypedShell, SessionsAreNumbers DEF ShellInv, NoSession
    <3> QED
      BY <3>1 DEF Range
  <2> QED
    BY <2>1, <2>2 DEF Remembers, Known
<1> QED
  BY <1>1, ShellInvHolds, PTL
==============================================================================
