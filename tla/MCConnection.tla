----------------------------- MODULE MCConnection ------------------------------
(***************************************************************************)
(* Values for checking Connection: a root directory with two homes, one of *)
(* whose names begins with the other, and directories in one of them.      *)
(***************************************************************************)
EXTENDS Connection

MCRoot == <<"srv">>
MCDirs == {<<>>, <<"srv">>, <<"srv", "al">>, <<"srv", "alice">>,
           <<"srv", "al", "docs">>, <<"srv", "al", "docs", "docs">>,
           <<"srv", "al", "docs", "docs", "docs">>}
MCLonger == {<<"alice", "al">>}
MCArgs ==
  {[abs |-> FALSE, parts |-> p] : p \in
     {<<"..">>, <<"docs">>, <<".", "docs">>, <<"docs", "..", "docs">>,
      <<"..", "alice">>, <<"nowhere">>}}
  \cup {[abs |-> TRUE, parts |-> p] : p \in
     {<<>>, <<"">>, <<"docs">>,
      \* longer than PathSize: the last ".." is cut off
      <<"al", "docs", ".", "docs", "..", ".", "..">>}}
=============================================================================
