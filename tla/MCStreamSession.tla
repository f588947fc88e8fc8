-------------------------- MODULE MCStreamSession --------------------------
(* Small instances of StreamSession for TLC.                                 *)
EXTENDS StreamSession, TLC

Deltas(choice, contents, keys) ==
  {k \in [choice: choice, content: contents, reasoning: keys,
          tool: {0, 1}, id: BOOLEAN, name: BOOLEAN, finish: BOOLEAN] :
     /\ k.tool = 0 => ~k.id /\ ~k.name
     /\ k.id => k.name
     /\ k.content \notin {"absent", "null"} => k.reasoning # "text" /\ k.tool = 0
     /\ k.tool = 1 => k.reasoning # "text"}

(* As DeepSeek writes a delta: the fields of the answer are always there.    *)
KeyedChunks == Deltas({0}, {"null", "text", "newlines", "blanks"}, {"null", "text"})
(* Fields that have no value are left out.                                   *)
PlainChunks == Deltas({0}, {"absent", "text"}, {"absent", "empty", "text"})
PlainPairs == Deltas({0, 1}, {"absent", "text"}, {"absent", "text"})
=============================================================================
