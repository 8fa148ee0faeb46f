--------------------------- MODULE TimeoutContexts ---------------------------
(* A call of cktimeout down to the registers: scheduler, channel and visor  *)
(* as in Timeout, and each of their switches made by ctxswap.               *)
EXTENDS Timeout, Contexts

everything == <<all, ctxVars>>

TCInit == TInit /\ CtxInit
TCNext == TNext /\ Switching

TCSpec == TCInit /\ [][TCNext]_everything

TCFairSpec == TCSpec /\ WF_all(Progress) /\ WF_all(TimerExpires)
=============================================================================
