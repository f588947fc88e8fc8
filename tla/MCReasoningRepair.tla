------------------------- MODULE MCReasoningRepair -------------------------
(* Small instances of ReasoningRepair for TLC.                               *)
EXTENDS ReasoningRepair

OneClient == [c \in Conversation |-> {"ns"}]

\* every conversation also sends requests that disable thinking
Switching == [c \in Conversation |-> {"ns", "off"}]

\* Two conversations of one client, followed long enough to recover twice: what
\* their users say, where they get calls and where answers.
Course ==
  [a |-> <<"prompt", "p", "call", "result", "answer",
           "q", "call", "result", "call", "result">>,
   b |-> <<"prompt", "q", "call", "result", "call">>]
Word(m) == IF m.role = "assistant" /\ m.call # None THEN "call" ELSE m.text
OnCourse ==
  \A c \in Conversation :
    IsPrefix([i \in Positions(talk[c]) |-> Word(talk[c][i])], Course[c])

=============================================================================
