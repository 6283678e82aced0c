---------------------------- MODULE ScannerRestart ----------------------------
(***************************************************************************)
(* The scanner, restarted with another -start flag on a database that has  *)
(* a cursor.                                                               *)
(***************************************************************************)
EXTENDS ScannerProperties

CONSTANT Starts   \* the values the flag is given on later starts

VARIABLE start    \* the flag of the running process

restartVars == <<vars, start>>

RestartInit == Init /\ start = StartHeight

\* The process is stopped between two calls of Run, and started again.
Restart(s) ==
  /\ pc = "wait"
  /\ s # start
  /\ start' = s
  /\ UNCHANGED vars

RestartNext ==
  \/ /\ \/ ScannerStep(start)
        \/ HeightRefused
        \/ Fail
        \/ \E b \in Blocks : NodeStep(b)
     /\ UNCHANGED start
  \/ \E s \in Starts : Restart(s)

RestartSpec == RestartInit /\ [][RestartNext]_restartVars

\* main: -start is "only used on a fresh DB".  Once there is a cursor, it only moves
\* forward to a child of its block, so that no height is left out.
StartOnlyWhenFresh ==
  [][cursor # NoCursor /\ cursor'.height > cursor.height
       => /\ cursor'.height = cursor.height + 1
          /\ PreviousBlockHash(cursor'.hash) = cursor.hash]_restartVars
=============================================================================
