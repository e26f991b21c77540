-------------------------------- MODULE MCConsole --------------------------------
(***************************************************************************)
(* The two halves of the console, input and output, checked side by side:  *)
(* a behaviour is one of Console or one of Uart, and the other half stays  *)
(* in its initial state.                                                   *)
(***************************************************************************)
EXTENDS Console, Uart, TLC

CONSTANTS r1, r2, c1, c2

TwoReaders == {r1, r2}
TwoBytes == {2}
TwoCPUs == {c1, c2}
OneChar == {1}

VARIABLE half

allVars == <<vars, uartVars, half>>

HalfInit == Init /\ UartInit /\ half \in {"input", "output"}

InputNext == half = "input" /\ Next /\ UNCHANGED <<uartVars, half>>
OutputNext == half = "output" /\ UartNext /\ UNCHANGED <<vars, half>>

\* A CPU executes its code, the UART sends what it has, and an interrupt that
\* stays pending is taken by a hart that keeps having interrupts on.  None of
\* these steps is enabled in Uart's initial state, where the input half stays.
OutputFairness ==
  /\ \A c \in CPUs : WF_uartVars(Code(c))
  /\ WF_uartVars(Emit)
  /\ SF_uartVars(\E c \in CPUs : DevIntr(c))

HalfSpec == HalfInit /\ [][InputNext \/ OutputNext]_allVars /\ OutputFairness
===============================================================================
