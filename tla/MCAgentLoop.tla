---------------------------- MODULE MCAgentLoop -----------------------------
(***************************************************************************)
(* AgentLoop for TLC: one file that is committed and one that is not yet   *)
(* there.                                                                  *)
(***************************************************************************)
EXTENDS AgentLoop

F == {"f", "g"}
C == {"check", "test"}
CommittedFiles == [x \in F |-> IF x = "f" THEN 1 ELSE 0]

\* Any change is checked; a change of f is tested too.
Plans == [m \in SUBSET F |-> IF m = {} THEN <<>>
                              ELSE IF "f" \in m THEN <<"check", "test">> ELSE <<"check">>]

Read(x)        == [tool |-> "read", file |-> x]
Write(x, e, v) == [tool |-> "write", file |-> x, expected |-> e, content |-> v]
Create(x, v)   == [tool |-> "create", file |-> x, content |-> v]
Shell(x, v)    == [tool |-> "shell", file |-> x, content |-> v]
Verify(c)      == [tool |-> "verify", command |-> c]
Start(c)       == [tool |-> "start", command |-> c]
Look(t)        == [tool |-> t]

\* Answers in which every check runs to its end, and not beside a command
\* that changes a file.
Ordinary == {<<>>, <<Read("f")>>, <<Write("f", 1, 2)>>, <<Write("f", 2, 1)>>, <<Look("git")>>,
             <<Write("f", 1, 2), Verify("test")>>, <<Shell("f", 0), Read("f")>>,
             <<Look("list"), Create("g", 1)>>}

\* ... in which a check is only started ...
Background == {<<>>, <<Read("f")>>, <<Write("f", 1, 2), Start("check")>>}

\* ... and in which a change is changed again.
Repairs == {<<>>, <<Read("f")>>, <<Write("f", 1, 2)>>, <<Write("f", 2, 1)>>}
=============================================================================
