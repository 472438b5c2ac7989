----------------------------- MODULE MCPipeline -----------------------------
(* Sessions for the run of Pipeline.                                        *)
EXTENDS Pipeline

Op(in, follows, output) == [in |-> in, follows |-> follows, output |-> output]
Session(ops, alloc, static) == [net |-> ops, mAllocInput |-> alloc, mOutputStatic |-> static]

\* Two inputs, the second read late; a tensor that one command reads twice.
TwoInputs == <<Op(<<-1>>, TRUE, FALSE), Op(<<1, 1>>, TRUE, FALSE), Op(<<2, -2>>, TRUE, TRUE)>>
\* An output that two commands read as well.
Diamond == <<Op(<<-1>>, TRUE, TRUE), Op(<<1>>, FALSE, FALSE), Op(<<1, 2>>, TRUE, TRUE)>>
\* The first operator's inputs vary, not its output, which the second can rely
\* on: a command of group 0 with a tensor of group 1.
FixedMiddle == <<Op(<<-1>>, FALSE, TRUE), Op(<<1>>, TRUE, FALSE), Op(<<2, -1>>, TRUE, TRUE)>>

SomeSessions == {Session(TwoInputs, TRUE, TRUE), Session(Diamond, FALSE, FALSE),
                 Session(Diamond, FALSE, TRUE), Session(FixedMiddle, TRUE, FALSE)}

\* Nothing is claimed after the user has broken the contract.
Expected == sound

=============================================================================
