----------------------------- MODULE EmsScript -----------------------------
(***************************************************************************)
(* What the EMS simulation promises an EMU: one command at a time, in the  *)
(* fixed order of the test script, and the next one only after every PCS   *)
(* has received what the previous one made the EMU send.                   *)
(***************************************************************************)
EXTENDS Integers, Sequences

CONSTANTS Script,   \* the commands, in order: a sequence
          Silent,   \* commands that send nothing to the PCS
          AllPcs    \* every PCS of every enabled LCD

VARIABLES log,      \* commands issued so far
          reached   \* PCS that have received the last command

vars == <<log, reached>>

Init == log = <<>> /\ reached = {}

RoundOver == \/ log = <<>>
             \/ log[Len(log)] \in Silent
             \/ reached = AllPcs

Issue == /\ Len(log) < Len(Script)
         /\ RoundOver
         /\ log' = Append(log, Script[Len(log) + 1])
         /\ reached' = {}

Reach(p) == reached' = reached \cup {p} /\ log' = log

Next == Issue \/ \E p \in AllPcs : Reach(p)

Spec == Init /\ [][Next]_vars
=============================================================================
